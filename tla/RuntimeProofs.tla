--------------------------- MODULE RuntimeProofs ---------------------------
(***************************************************************************)
(* Safety of the components that MCRuntime checks, for any number of       *)
(* threads, descriptors and addresses.  The second half is about what      *)
(* keeps a record of the run: the flight recorder, the durable append, the *)
(* event counters.                                                         *)
(***************************************************************************)
EXTENDS Fetch, NetFloor, Memory, GpuLaunch, Shell, Blackbox, Wal, Observe,
        SetFacts, FiniteSetTheorems, SequenceTheorems, TLAPS

(***************************************************************************)
(* The network client.                                                     *)
(***************************************************************************)
FPcs == {"idle", "socket", "dial", "ctx", "ssl", "shake", "bye", "send", "acc", "recv", "body"}
FLocs == [call : {"none", "fetch", "tls"}, https : BOOLEAN, fd : FetchFds \cup {NoSock},
          left : Int, todo : Int, head : BOOLEAN]

FTypeOK ==
  /\ fpc \in [FetchThreads -> FPcs]
  /\ floc \in [FetchThreads -> FLocs]
  /\ ftab \in [FetchFds -> FetchThreads \cup {FreeFd}]
  /\ fmem \in [FetchThreads -> SUBSET {"ctx", "ssl", "sess", "acc"}]
  /\ wire \in [FetchThreads -> SUBSET {"plain", "tls"}]

\* What a call has allocated at each of its steps.
FSession(https) == IF https THEN TlsParts ELSE {}
FHeld(p, https) ==
  CASE p = "ssl" -> {"ctx"}
    [] p = "shake" -> {"ctx", "ssl"}
    [] p = "bye" -> TlsParts
    [] p \in {"send", "acc"} -> FSession(https)
    [] p \in {"recv", "body"} -> FSession(https) \cup {"acc"}
    [] OTHER -> {}

\* What a call of thread t keeps on its own.
FLocal(t) ==
  /\ fpc[t] \in {"idle", "socket"} <=> floc[t].fd = NoSock
  /\ fpc[t] = "idle" => ~floc[t].https
  /\ fpc[t] \in {"ctx", "ssl", "shake", "bye"} => floc[t].https
  /\ fmem[t] = FHeld(fpc[t], floc[t].https)
  /\ floc[t].https => "plain" \notin wire[t]

\* The kernel's table and the descriptors the calls hold agree.
FOwners ==
  /\ \A t \in FetchThreads : floc[t].fd # NoSock => ftab[floc[t].fd] = t
  /\ \A f \in FetchFds : ftab[f] # FreeFd => floc[ftab[f]].fd = f

FIInv == FTypeOK /\ FOwners /\ \A t \in FetchThreads : FLocal(t)

\* A step of t leaves the locals of the other threads alone.
FOthers(t) == \A u \in FetchThreads \ {t} :
  fpc'[u] = fpc[u] /\ floc'[u] = floc[u] /\ fmem'[u] = fmem[u] /\ wire'[u] = wire[u]

\* The three things a step of t does with a descriptor: nothing, open one, close its own.
FOpens(t) == /\ floc[t].fd = NoSock /\ floc'[t].fd \in FetchFds /\ ftab[floc'[t].fd] = FreeFd
             /\ ftab' = [ftab EXCEPT ![floc'[t].fd] = t]
FDescriptor(t) ==
  \/ ftab' = ftab /\ floc'[t].fd = floc[t].fd
  \/ FOpens(t)
  \/ FClose(t) /\ floc'[t].fd = NoSock

FStep(t) == FTypeOK' /\ FLocal(t)' /\ FOthers(t) /\ FDescriptor(t)

LEMMA FOwnersKept ==
  ASSUME FIInv, NEW t \in FetchThreads, FStep(t) PROVE FIInv'
<1>1. \A u \in FetchThreads : FLocal(u)'
  BY DEF FStep, FIInv, FLocal, FOthers
<1>2. FOwners'
  <2>0. /\ \A u \in FetchThreads : floc[u].fd \in FetchFds \cup {NoSock} /\ floc'[u].fd \in FetchFds \cup {NoSock}
        /\ ftab \in [FetchFds -> FetchThreads \cup {FreeFd}] /\ NoSock \notin FetchFds
        /\ \A u \in FetchThreads \ {t} : floc'[u].fd = floc[u].fd
    BY DEF FIInv, FStep, FTypeOK, FLocs, FOthers, NoSock, FetchFds
  <2>1. CASE ftab' = ftab /\ floc'[t].fd = floc[t].fd
    BY <2>0, <2>1 DEF FIInv, FOwners
  <2>2. CASE FOpens(t)
    BY <2>0, <2>2, FreeFdAssumption DEF FIInv, FOwners, FOpens
  <2>3. CASE FClose(t) /\ floc'[t].fd = NoSock
    BY <2>0, <2>3, FreeFdAssumption DEF FIInv, FOwners, FClose
  <2> QED
    BY <2>1, <2>2, <2>3 DEF FStep, FDescriptor
<1> QED
  BY <1>1, <1>2 DEF FStep, FIInv

LEMMA FInitIInv == FetchInit => FIInv
  BY FetchAssumption, FreeFdAssumption
  DEF FetchInit, FIInv, FTypeOK, FOwners, FLocal, FLocs, FPcs, NoCall, Call, NoSock, FHeld, TlsParts, FetchFds

\* Giving back what the call holds and returning.
LEMMA FReturns ==
  ASSUME FIInv, NEW t \in FetchThreads, NEW a, FReturn(t, a), wire' = wire \/ Through(t),
         fmem' = [fmem EXCEPT ![t] = {}], FClose(t)
  PROVE  FIInv'
<1>1. floc' = [floc EXCEPT ![t] = NoCall] /\ fpc' = [fpc EXCEPT ![t] = "idle"] /\ NoCall \in FLocs
  BY DEF FReturn, FGoto, NoCall, Call, FLocs
<1>2. ftab' \in [FetchFds -> FetchThreads \cup {FreeFd}]
  BY DEF FClose, FIInv, FTypeOK
<1>3. /\ wire' \in [FetchThreads -> SUBSET {"plain", "tls"}]
      /\ \A u \in FetchThreads \ {t} : wire'[u] = wire[u]
  BY DEF FIInv, FTypeOK, Through
<1>4. FTypeOK'
  BY <1>1, <1>2, <1>3 DEF FIInv, FTypeOK, FPcs
<1>5. FLocal(t)'
  BY <1>1 DEF FIInv, FTypeOK, FLocal, NoCall, Call, FHeld
<1>6. FOthers(t) /\ FDescriptor(t)
  BY <1>1, <1>3 DEF FOthers, FDescriptor, FIInv, FTypeOK, NoCall, Call
<1> QED
  BY <1>4, <1>5, <1>6, FOwnersKept DEF FStep

\* A call starts, or is refused, with nothing held.
LEMMA FStarts == ASSUME FIInv, NEW t \in FetchThreads, oo_fetch(t) \/ oo_tls_connect(t) PROVE FIInv'
<1>1. floc[t].fd = NoSock /\ fmem[t] = {} /\ floc[t] \in FLocs
  BY DEF oo_fetch, oo_tls_connect, FIInv, FTypeOK, FLocal, FHeld
<1>2. PICK l \in FLocs, p \in {"idle", "socket"} :
        /\ floc' = [floc EXCEPT ![t] = l] /\ fpc' = [fpc EXCEPT ![t] = p]
        /\ l.fd = NoSock /\ (p = "idle" => ~l.https)
  <2>1. \A c \in {"none", "fetch", "tls"}, https \in BOOLEAN, n \in 0 .. NAddrs, todo \in Nat :
          /\ Call(c, https, n, todo) \in FLocs /\ Call(c, https, n, todo).fd = NoSock
          /\ Call(c, https, n, todo).https = https
    BY FetchAssumption DEF Call, FLocs
  <2>2. CASE FReturn(t, "err")
    <3>1. NoCall \in FLocs /\ NoCall.fd = NoSock /\ ~NoCall.https
      BY DEF NoCall, Call, FLocs
    <3>2. floc' = [floc EXCEPT ![t] = NoCall] /\ fpc' = [fpc EXCEPT ![t] = "idle"]
      BY <2>2 DEF FReturn, FGoto
    <3> QED
      BY <3>1, <3>2
  <2>3. CASE oo_fetch(t) /\ ~ FReturn(t, "err")
    <3>1. PICK url \in fetch_parse_url, n \in 0 .. NAddrs :
            /\ floc' = [floc EXCEPT ![t] = Call("fetch", url = "https", n, ReqLen)]
            /\ fpc' = [fpc EXCEPT ![t] = "socket"]
      BY <2>3 DEF oo_fetch, FGoto
    <3>2. /\ Call("fetch", url = "https", n, ReqLen) \in FLocs
          /\ Call("fetch", url = "https", n, ReqLen).fd = NoSock
      BY <2>1, FetchAssumption
    <3> QED
      BY <3>1, <3>2
  <2>4. CASE oo_tls_connect(t) /\ ~ FReturn(t, "err")
    <3>1. PICK n \in 0 .. NAddrs :
            floc' = [floc EXCEPT ![t] = Call("tls", TRUE, n, 0)] /\ fpc' = [fpc EXCEPT ![t] = "socket"]
      BY <2>4 DEF oo_tls_connect, FGoto
    <3>2. Call("tls", TRUE, n, 0) \in FLocs /\ Call("tls", TRUE, n, 0).fd = NoSock
      BY <2>1
    <3> QED
      BY <3>1, <3>2
  <2> QED
    BY <2>2, <2>3, <2>4
<1>3. wire' = [wire EXCEPT ![t] = {}] /\ UNCHANGED <<ftab, fmem>>
  BY DEF oo_fetch, oo_tls_connect
<1>4. FTypeOK'
  BY <1>2, <1>3 DEF FIInv, FTypeOK, FPcs
<1>5. FLocal(t)'
  BY <1>1, <1>2, <1>3 DEF FIInv, FTypeOK, FLocal, FHeld
<1>6. FOthers(t) /\ FDescriptor(t)
  BY <1>1, <1>2, <1>3 DEF FOthers, FDescriptor, FIInv, FTypeOK
<1> QED
  BY <1>4, <1>5, <1>6, FOwnersKept DEF FStep

LEMMA FSocket == ASSUME FIInv, NEW t \in FetchThreads, tcp_socket(t) PROVE FIInv'
<1>1. /\ fpc[t] = "socket" /\ floc[t].fd = NoSock /\ fmem[t] = {} /\ floc[t] \in FLocs
      /\ UNCHANGED <<fmem, wire>>
  BY DEF tcp_socket, FIInv, FTypeOK, FLocal, FHeld
<1>2. ASSUME SpareFds # {}, ftab' = [ftab EXCEPT ![Min(SpareFds)] = t],
             floc' = [floc EXCEPT ![t].fd = Min(SpareFds)], FGoto(t, "dial")
      PROVE  FIInv'
  <2>1. SpareFds \in SUBSET Nat
    BY DEF SpareFds, FetchFds
  <2>2. PICK f \in FetchFds : f = Min(SpareFds) /\ ftab[f] = FreeFd
    <3>1. Min(SpareFds) \in SpareFds
      BY <1>2, <2>1, MinProperties
    <3> QED
      BY <3>1 DEF SpareFds
  <2>3. /\ floc' = [floc EXCEPT ![t] = [floc[t] EXCEPT !.fd = f]] /\ fpc' = [fpc EXCEPT ![t] = "dial"]
        /\ ftab' = [ftab EXCEPT ![f] = t] /\ f # NoSock
    BY <1>2, <2>2 DEF FGoto, FetchFds, NoSock
  <2>4. [floc[t] EXCEPT !.fd = f] \in FLocs
    BY <1>1 DEF FLocs
  <2>5. FTypeOK'
    BY <1>1, <2>3, <2>4 DEF FIInv, FTypeOK, FPcs
  <2>6. FLocal(t)'
    BY <1>1, <2>3 DEF FIInv, FTypeOK, FLocs, FLocal, FHeld
  <2>7. FOthers(t) /\ FDescriptor(t)
    BY <1>1, <2>2, <2>3 DEF FOthers, FDescriptor, FOpens, FIInv, FTypeOK, FLocs
  <2> QED
    BY <2>5, <2>6, <2>7, FOwnersKept DEF FStep
<1>3. ASSUME floc[t].left > 0, floc' = [floc EXCEPT ![t].left = @ - 1], UNCHANGED <<fpc, ftab>>
      PROVE  FIInv'
  <2>1. floc' = [floc EXCEPT ![t] = [floc[t] EXCEPT !.left = floc[t].left - 1]]
    BY <1>3
  <2>2. [floc[t] EXCEPT !.left = floc[t].left - 1] \in FLocs
    BY <1>1, <1>3 DEF FLocs
  <2>3. FTypeOK'
    BY <1>1, <1>3, <2>1, <2>2 DEF FIInv, FTypeOK
  <2>4. FLocal(t)'
    BY <1>1, <1>3, <2>1 DEF FIInv, FTypeOK, FLocs, FLocal, FHeld
  <2>5. FOthers(t) /\ FDescriptor(t)
    BY <1>1, <1>3, <2>1 DEF FOthers, FDescriptor, FIInv, FTypeOK, FLocs
  <2> QED
    BY <2>3, <2>4, <2>5, FOwnersKept DEF FStep
<1>4. ASSUME FReturn(t, "err"), UNCHANGED ftab PROVE FIInv'
  <2>1. FClose(t) /\ fmem' = [fmem EXCEPT ![t] = {}]
    BY <1>1, <1>4 DEF FClose, FetchFds, NoSock, FIInv, FTypeOK
  <2> QED
    BY <1>1, <1>4, <2>1, FReturns
<1> QED
  BY <1>2, <1>3, <1>4 DEF tcp_socket

LEMMA FDial == ASSUME FIInv, NEW t \in FetchThreads, tcp_dial(t) PROVE FIInv'
<1>1. /\ fpc[t] = "dial" /\ floc[t].fd # NoSock /\ fmem[t] = {} /\ floc[t] \in FLocs
      /\ UNCHANGED <<fmem, wire>>
  BY DEF tcp_dial, FIInv, FTypeOK, FLocal, FHeld
<1>2. ASSUME FGoto(t, IF floc[t].https THEN "ctx" ELSE "send"), UNCHANGED <<ftab, floc>> PROVE FIInv'
  <2>1. FTypeOK'
    BY <1>1, <1>2 DEF FIInv, FTypeOK, FPcs, FGoto
  <2>2. FLocal(t)'
    BY <1>1, <1>2 DEF FIInv, FTypeOK, FLocal, FHeld, FSession, FGoto
  <2>3. FOthers(t) /\ FDescriptor(t)
    BY <1>1, <1>2 DEF FOthers, FDescriptor, FIInv, FTypeOK, FGoto
  <2> QED
    BY <2>1, <2>2, <2>3, FOwnersKept DEF FStep
<1>3. ASSUME FClose(t), FGoto(t, "socket"),
             floc' = [floc EXCEPT ![t] = [[floc[t] EXCEPT !.left = @ - 1] EXCEPT !.fd = NoSock]]
      PROVE  FIInv'
  <2> DEFINE next == [floc[t] EXCEPT !.left = @ - 1]
  <2> DEFINE l == [next EXCEPT !.fd = NoSock]
  <2>1. floc' = [floc EXCEPT ![t] = l]
    BY <1>3
  <2>0. next \in FLocs /\ next.https = floc[t].https
    BY <1>1 DEF FLocs
  <2> HIDE DEF next
  <2>2. l \in FLocs /\ l.fd = NoSock /\ l.https = floc[t].https
    BY <2>0 DEF FLocs
  <2> HIDE DEF l
  <2>3. ftab' \in [FetchFds -> FetchThreads \cup {FreeFd}]
    BY <1>3 DEF FClose, FIInv, FTypeOK
  <2>4. FTypeOK'
    BY <1>1, <1>3, <2>1, <2>2, <2>3 DEF FIInv, FTypeOK, FPcs, FGoto
  <2>5. FLocal(t)'
    BY <1>1, <1>3, <2>1, <2>2 DEF FIInv, FTypeOK, FLocal, FHeld, FGoto
  <2>6. FOthers(t) /\ FDescriptor(t)
    BY <1>1, <1>3, <2>1, <2>2 DEF FOthers, FDescriptor, FIInv, FTypeOK, FGoto
  <2> QED
    BY <2>4, <2>5, <2>6, FOwnersKept DEF FStep
<1> QED
  BY <1>2, <1>3 DEF tcp_dial

\* A step that goes on with what the call holds, one allocation more or none.
LEMMA FGoesOn ==
  ASSUME FIInv, NEW t \in FetchThreads, NEW p \in FPcs \ {"idle", "socket"}, FGoto(t, p),
         fpc[t] \notin {"idle", "socket"}, UNCHANGED ftab,
         NEW l \in FLocs, floc' = [floc EXCEPT ![t] = l], l.fd = floc[t].fd, l.https = floc[t].https,
         fmem' = [fmem EXCEPT ![t] = FHeld(p, floc[t].https)],
         p \in {"ctx", "ssl", "shake", "bye"} => floc[t].https,
         \/ wire' = wire
         \/ Through(t) /\ (floc[t].https => "sess" \in fmem[t])
  PROVE  FIInv'
<1>1. /\ wire' \in [FetchThreads -> SUBSET {"plain", "tls"}]
      /\ \A u \in FetchThreads \ {t} : wire'[u] = wire[u]
      /\ floc[t].https => "plain" \notin wire'[t]
  <2>1. CASE wire' = wire
    BY <2>1 DEF FIInv, FTypeOK, FLocal
  <2>2. CASE Through(t) /\ (floc[t].https => "sess" \in fmem[t])
    BY <2>2 DEF FIInv, FTypeOK, FLocal, Through
  <2> QED
    BY <2>1, <2>2
<1>2. FHeld(p, floc[t].https) \in SUBSET {"ctx", "ssl", "sess", "acc"}
  BY DEF FHeld, FSession, TlsParts
<1>3. FTypeOK'
  BY <1>1, <1>2 DEF FIInv, FTypeOK, FGoto
<1>4. FLocal(t)'
  BY <1>1 DEF FIInv, FTypeOK, FLocal, FGoto
<1>5. FOthers(t) /\ FDescriptor(t)
  BY <1>1 DEF FOthers, FDescriptor, FIInv, FTypeOK, FGoto
<1> QED
  BY <1>3, <1>4, <1>5, FOwnersKept DEF FStep

LEMMA FTls ==
  ASSUME FIInv, NEW t \in FetchThreads,
         tls_ctx(t) \/ tls_ssl(t) \/ oo_tls_connect_fd(t) \/ tls_handshake_openssl(t)
  PROVE  FIInv'
<1>1. /\ fpc[t] \in {"ctx", "ssl", "shake", "bye"} /\ floc[t].https /\ floc[t].fd # NoSock
      /\ floc[t] \in FLocs /\ floc = [floc EXCEPT ![t] = floc[t]] /\ wire' = wire
      /\ fmem[t] = FHeld(fpc[t], TRUE) /\ fmem \in [FetchThreads -> SUBSET {"ctx", "ssl", "sess", "acc"}]
  BY DEF tls_ctx, tls_ssl, oo_tls_connect_fd, tls_handshake_openssl, FIInv, FTypeOK, FLocal
<1>2. ASSUME NEW a, FClose(t), FReturn(t, a), NEW S, fmem' = [fmem EXCEPT ![t] = @ \ S], fmem[t] \subseteq S
      PROVE  FIInv'
  <2>1. fmem' = [fmem EXCEPT ![t] = {}]
    BY <1>2
  <2> QED
    BY <1>1, <1>2, <2>1, FReturns
<1>3. ASSUME NEW p \in {"ssl", "shake", "bye", "send"}, FGoto(t, p), UNCHANGED <<floc, ftab>>,
             NEW S, fmem' = [fmem EXCEPT ![t] = @ \cup S], fmem[t] \cup S = FHeld(p, TRUE)
      PROVE  FIInv'
  <2>1. p \in FPcs \ {"idle", "socket"} /\ fpc[t] \notin {"idle", "socket"} /\ floc[t].https = TRUE
    BY <1>1, <1>3 DEF FPcs, FLocs
  <2>2. fmem' = [fmem EXCEPT ![t] = FHeld(p, floc[t].https)]
    BY <1>3, <2>1
  <2>3. PICK l \in FLocs : l = floc[t]
    BY <1>1
  <2>4. /\ floc' = [floc EXCEPT ![t] = l] /\ l.fd = floc[t].fd /\ l.https = floc[t].https
        /\ ftab' = ftab /\ wire' = wire /\ FGoto(t, p)
    BY <1>1, <1>3, <2>3
  <2>5. floc[t].https
    BY <1>1
  <2> QED
    BY <2>1, <2>2, <2>4, <2>5, FGoesOn
<1>4. CASE tls_ctx(t)
  <2>1. fmem[t] = {} /\ fmem = [fmem EXCEPT ![t] = @ \ {}]
    BY <1>1, <1>4 DEF tls_ctx, FHeld
  <2>2. fmem[t] \cup {"ctx"} = FHeld("ssl", TRUE)
    BY <2>1 DEF FHeld
  <2>3. CASE NoSession(t) /\ UNCHANGED fmem
    BY <1>2, <2>1, <2>3 DEF NoSession
  <2>4. CASE ~ (NoSession(t) /\ UNCHANGED fmem)
    BY <1>3, <1>4, <2>1, <2>2, <2>4 DEF tls_ctx
  <2> QED
    BY <2>3, <2>4
<1>5. CASE tls_ssl(t)
  <2>1. fmem[t] = {"ctx"} /\ {"ctx"} \cup {"ssl"} = FHeld("shake", TRUE)
    BY <1>1, <1>5 DEF tls_ssl, FHeld
  <2> QED
    BY <1>2, <1>3, <1>5, <2>1 DEF tls_ssl, NoSession
<1>6. CASE oo_tls_connect_fd(t)
  <2>1. /\ fmem[t] = {"ctx", "ssl"} /\ {"ctx", "ssl"} \cup {"sess"} = FHeld("bye", TRUE)
        /\ {"ctx", "ssl"} \cup {"sess"} = FHeld("send", TRUE)
    BY <1>1, <1>6 DEF oo_tls_connect_fd, FHeld, FSession, TlsParts
  <2> QED
    BY <1>2, <1>3, <1>6, <2>1 DEF oo_tls_connect_fd, NoSession
<1>7. CASE tls_handshake_openssl(t)
  <2>1. fmem[t] = TlsParts
    BY <1>1, <1>7 DEF tls_handshake_openssl, FHeld
  <2> QED
    BY <1>2, <1>7, <2>1 DEF tls_handshake_openssl, oo_tls_close
<1> QED
  BY <1>4, <1>5, <1>6, <1>7

LEMMA FTransfer ==
  ASSUME FIInv, NEW t \in FetchThreads,
         fetch_send_all(t) \/ fetch_acc(t) \/ fetch_recv(t) \/ fetch_body(t)
  PROVE  FIInv'
<1>1. /\ fpc[t] \in {"send", "acc", "recv", "body"} /\ floc[t].fd # NoSock
      /\ floc[t] \in FLocs /\ floc = [floc EXCEPT ![t] = floc[t]]
      /\ fmem[t] = FHeld(fpc[t], floc[t].https)
      /\ fmem \in [FetchThreads -> SUBSET {"ctx", "ssl", "sess", "acc"}]
      /\ fmem = [fmem EXCEPT ![t] = FHeld(fpc[t], floc[t].https)]
  BY DEF fetch_send_all, fetch_acc, fetch_recv, fetch_body, FIInv, FTypeOK, FLocal
<1>2. /\ floc[t].https => "sess" \in fmem[t]
      /\ fmem[t] \ (TlsParts \cup {"acc"}) = {}
      /\ fpc[t] \in {"send", "acc"} => fmem[t] \ TlsParts = {}
  BY <1>1 DEF FHeld, FSession, TlsParts
<1>3. CASE (FClose(t) /\ \E a : FReturn(t, a)) /\ (wire' = wire \/ Through(t))
             /\ fmem' = [fmem EXCEPT ![t] = {}]
  BY <1>3, FReturns
<1>4. ASSUME NEW p \in {"send", "acc", "recv", "body"}, FGoto(t, p), UNCHANGED ftab,
             NEW l \in FLocs, floc' = [floc EXCEPT ![t] = l], l.fd = floc[t].fd, l.https = floc[t].https,
             fmem' = [fmem EXCEPT ![t] = FHeld(p, floc[t].https)], wire' = wire \/ Through(t)
      PROVE  FIInv'
  <2>1. p \in FPcs \ {"idle", "socket"} /\ fpc[t] \notin {"idle", "socket"}
        /\ p \notin {"ctx", "ssl", "shake", "bye"}
    BY <1>1, <1>4 DEF FPcs
  <2> QED
    BY <1>1, <1>2, <1>4, <2>1, FGoesOn
<1>5. CASE fetch_send_all(t)
  <2>1. Through(t) /\ fpc[t] = "send"
    BY <1>5 DEF fetch_send_all
  <2>2. ASSUME NEW n \in 0 .. floc[t].todo, floc' = [floc EXCEPT ![t].todo = @ - n],
               FGoto(t, IF n = floc[t].todo THEN "acc" ELSE "send"), UNCHANGED <<ftab, fmem>>
        PROVE  FIInv'
    <3> DEFINE l == [floc[t] EXCEPT !.todo = floc[t].todo - n]
    <3>1. floc' = [floc EXCEPT ![t] = l] /\ l \in FLocs /\ l.fd = floc[t].fd /\ l.https = floc[t].https
      BY <1>1, <2>2 DEF FLocs
    <3>2. fmem' = [fmem EXCEPT ![t] = FHeld("send", floc[t].https)]
          /\ FHeld("send", floc[t].https) = FHeld("acc", floc[t].https)
      BY <1>1, <2>1, <2>2 DEF FHeld
    <3> HIDE DEF l
    <3> QED
      BY <1>4, <2>1, <2>2, <3>1, <3>2
  <2>3. ASSUME oo_tls_close(t) PROVE fmem' = [fmem EXCEPT ![t] = {}]
    BY <1>2, <2>1, <2>3 DEF oo_tls_close
  <2> QED
    BY <1>3, <1>5, <2>1, <2>2, <2>3 DEF fetch_send_all
<1>6. CASE fetch_acc(t)
  <2>1. wire' = wire /\ fpc[t] = "acc"
    BY <1>6 DEF fetch_acc
  <2>2. ASSUME fmem' = [fmem EXCEPT ![t] = @ \cup {"acc"}], FGoto(t, "recv"), UNCHANGED <<floc, ftab>> PROVE FIInv'
    <3>1. fmem[t] \cup {"acc"} = FHeld("recv", floc[t].https)
      BY <1>1, <2>1 DEF FHeld
    <3>2. fmem' = [fmem EXCEPT ![t] = FHeld("recv", floc[t].https)] /\ floc' = [floc EXCEPT ![t] = floc[t]]
      BY <1>1, <2>2, <3>1
    <3> QED
      BY <1>1, <1>4, <2>1, <2>2, <3>2
  <2>3. ASSUME oo_tls_close(t) PROVE fmem' = [fmem EXCEPT ![t] = {}]
    BY <1>2, <2>1, <2>3 DEF oo_tls_close
  <2> QED
    BY <1>3, <1>6, <2>1, <2>2, <2>3 DEF fetch_acc
<1>7. CASE fetch_recv(t)
  <2>1. Through(t) /\ fpc[t] = "recv"
    BY <1>7 DEF fetch_recv
  <2>2. ASSUME NEW h \in BOOLEAN, floc' = [floc EXCEPT ![t].head = @ \/ h], UNCHANGED <<fpc, ftab, fmem>>
        PROVE  FIInv'
    <3> DEFINE l == [floc[t] EXCEPT !.head = floc[t].head \/ h]
    <3>1. floc' = [floc EXCEPT ![t] = l] /\ l \in FLocs /\ l.fd = floc[t].fd /\ l.https = floc[t].https
      BY <1>1, <2>2 DEF FLocs
    <3>2. FGoto(t, "recv")
      BY <2>1, <2>2 DEF FGoto, FIInv, FTypeOK
    <3>3. fmem' = [fmem EXCEPT ![t] = FHeld("recv", floc[t].https)]
      BY <1>1, <2>1, <2>2
    <3> HIDE DEF l
    <3> QED
      BY <1>4, <2>1, <2>2, <3>1, <3>2, <3>3
  <2>3. ASSUME FGoto(t, "body"), UNCHANGED <<floc, ftab, fmem>> PROVE FIInv'
    <3>1. FHeld("recv", floc[t].https) = FHeld("body", floc[t].https)
      BY DEF FHeld
    <3>2. fmem' = [fmem EXCEPT ![t] = FHeld("body", floc[t].https)] /\ floc' = [floc EXCEPT ![t] = floc[t]]
      BY <1>1, <2>1, <2>3, <3>1
    <3> QED
      BY <1>1, <1>4, <2>1, <2>3, <3>2
  <2>4. ASSUME fmem' = [fmem EXCEPT ![t] = @ \ (TlsParts \cup {"acc"})] PROVE fmem' = [fmem EXCEPT ![t] = {}]
    BY <1>2, <2>4
  <2> QED
    BY <1>3, <1>7, <2>1, <2>2, <2>3, <2>4 DEF fetch_recv
<1>8. CASE fetch_body(t)
  <2>1. fmem' = [fmem EXCEPT ![t] = {}] /\ wire' = wire
    BY <1>2, <1>8 DEF fetch_body
  <2> QED
    BY <1>3, <1>8, <2>1 DEF fetch_body
<1> QED
  BY <1>5, <1>6, <1>7, <1>8

LEMMA FStepIInv == FIInv /\ [FetchNext]_fetchVars => FIInv'
<1> SUFFICES ASSUME FIInv, [FetchNext]_fetchVars PROVE FIInv'
  OBVIOUS
<1>1. CASE UNCHANGED fetchVars
  BY <1>1 DEF fetchVars, FIInv, FTypeOK, FOwners, FLocal
<1> QED
  BY <1>1, FStarts, FSocket, FDial, FTls, FTransfer DEF FetchNext

(***************************************************************************)
(* Every return of oo_fetch and oo_tls_connect has given back what the     *)
(* call took, two calls never hold one descriptor, and an https call never *)
(* moves a byte outside its session, for any number of threads, addresses  *)
(* and descriptors, with and without OpenSSL.                              *)
(***************************************************************************)
THEOREM FetchCorrect == FetchSpec => []FetchSettled
<1>1. FIInv => FetchSettled
  BY DEF FIInv, FOwners, FLocal, FHeld, FetchSettled
<1> QED
  BY <1>1, FInitIInv, FStepIInv, PTL DEF FetchSpec
-----------------------------------------------------------------------------
(***************************************************************************)
(* Sockets and descriptors.                                                *)
(***************************************************************************)
NKindNames == {"tcp_listen", "udp", "unix_listen", "tcp", "unix"}
NDials == {"tcp_bind", "bind_udp", "unix_bind", "tcp_connect", "unix_connect"}
NMakers == NDials \cup {"tcp_accept", "unix_accept"}
NCalls == NMakers \cup {"none", "tcp_io", "unix_io", "udp_io", "close"}
NPcs == {"idle", "socket", "setup", "listen", "made", "use", "clear_fd", "clear_kind"}
NHolding == {"setup", "listen", "made"}
NClosing == {"clear_fd", "clear_kind"}

NTypeOK ==
  /\ netKind \in [Slots -> Nat] /\ netFd \in [Slots -> Fds \cup {NoFd}]
  /\ kfd \in [Fds -> NKindNames \cup {"raw", Free}]
  /\ npc \in [NetThreads -> NPcs]
  /\ nloc \in [NetThreads -> [call : NCalls, fd : Fds \cup {NoFd}, slot : Slots]]
  /\ owned \in [NetThreads -> SUBSET Slots] /\ raw \in [NetThreads -> SUBSET Fds]

\* The descriptor that a slot nobody is closing, or a call that has not stored it yet, answers for.
NSlotFd == [s \in Slots |-> IF s \in Closing \/ netKind[s] = EMPTY THEN NoFd ELSE netFd[s]]
NCallFd == [t \in NetThreads |-> IF npc[t] \in NHolding THEN nloc[t].fd ELSE NoFd]

\* A call knows what it made, and uses or clears a slot it was given.
NLocal == \A t \in NetThreads :
  /\ npc[t] = "socket" => nloc[t].call \in NDials
  /\ npc[t] \in NHolding => /\ nloc[t].call \in NMakers /\ nloc[t].fd \in Fds
                            /\ kfd[nloc[t].fd] = Makes[nloc[t].call]
  /\ npc[t] = "use" => nloc[t].fd \in Fds

(* Nobody but its owner closes a slot, and it keeps its kind, so that it   *)
(* is not given away, until the close is complete.                         *)
NOwned ==
  /\ \A t \in NetThreads : \A s \in owned[t] : netKind[s] # EMPTY /\ s \notin Closing
  /\ \A t, u \in NetThreads : t # u => owned[t] \cap owned[u] = {}
  /\ \A t \in NetThreads : npc[t] \in NClosing => netKind[nloc[t].slot] # EMPTY
  /\ \A t, u \in NetThreads :
       npc[t] \in NClosing /\ npc[u] \in NClosing /\ nloc[t].slot = nloc[u].slot => t = u

\* A slot's descriptor is a socket of the slot's kind.
NKinds == \A s \in Slots : s \notin Closing /\ netKind[s] # EMPTY =>
  netFd[s] \in Fds /\ kfd[netFd[s]] \in NKindNames /\ KindOf[kfd[netFd[s]]] = netKind[s]

\* Open descriptors have a holder, and never two.
NHeld(sf, cf, rw, k) == \A f \in Fds :
  k[f] # Free <=> \/ \E s \in Slots : sf[s] = f
                  \/ \E t \in NetThreads : cf[t] = f
                  \/ \E t \in NetThreads : f \in rw[t]
NOnce(sf, cf, rw) ==
  /\ \A s, r \in Slots : sf[s] = sf[r] /\ sf[s] \in Fds => s = r
  /\ \A t, u \in NetThreads : cf[t] = cf[u] /\ cf[t] \in Fds => t = u
  /\ \A t, u \in NetThreads : t # u => rw[t] \cap rw[u] = {}
  /\ \A s \in Slots, t \in NetThreads : sf[s] \in Fds => sf[s] # cf[t] /\ sf[s] \notin rw[t]
  /\ \A t, u \in NetThreads : cf[t] \in Fds => cf[t] \notin rw[u]
NHolders == NHeld(NSlotFd, NCallFd, raw, kfd) /\ NOnce(NSlotFd, NCallFd, raw)

NFile == sockfile \in Fds => kfd[sockfile] = "unix_listen"

NIInv == NTypeOK /\ NLocal /\ NOwned /\ NKinds /\ NHolders /\ NFile

LEMMA NConsts ==
  /\ \A c \in NMakers : Makes[c] \in NKindNames
  /\ \A k \in NKindNames : KindOf[k] \in Nat /\ KindOf[k] # EMPTY
  /\ Makes["unix_bind"] = "unix_listen"
  /\ NoFd \notin Fds /\ NoFile \notin Fds /\ Stale \notin Fds /\ 0 \in Slots
  /\ Free \notin NKindNames /\ Free # "raw" /\ "raw" \notin NKindNames
  BY NetAssumption DEF NMakers, NDials, Makes, KindOf, NKindNames, TCP, TCP_LISTEN, UDP, UNIX_LISTEN, UNIX,
     EMPTY, NoFd, NoFile, Stale, Fds, Free, Slots

LEMMA NInitIInv == NetInit => NIInv
<1> SUFFICES ASSUME NetInit PROVE NIInv
  OBVIOUS
<1>1. NTypeOK
  BY NConsts DEF NetInit, NTypeOK, NoLoc, NPcs, NCalls, EMPTY
<1>2. NLocal /\ NOwned /\ NKinds /\ NFile
  BY NConsts DEF NetInit, NLocal, NOwned, NKinds, NFile, NHolding, NClosing
<1>3. NHolders
  <2>1. NSlotFd = [s \in Slots |-> NoFd] /\ NCallFd = [t \in NetThreads |-> NoFd]
    BY DEF NetInit, NSlotFd, NCallFd, NHolding
  <2> QED
    BY <2>1, NConsts DEF NetInit, NHolders, NHeld, NOnce
<1> QED
  BY <1>1, <1>2, <1>3 DEF NIInv

(***************************************************************************)
(* The ways a step moves descriptors between their holders.                *)
(***************************************************************************)
NBecomes(g, h, S, x, v) == \A y \in S : h[y] = IF y = x THEN v ELSE g[y]

LEMMA NOpenedByCall ==
  ASSUME NEW sf, NEW cf, NEW rw, NEW k, NEW t \in NetThreads, NEW f \in Fds, NEW cf2, NEW k2, NEW w,
         NHeld(sf, cf, rw, k), NOnce(sf, cf, rw), cf \in [NetThreads -> Fds \cup {NoFd}],
         k \in [Fds -> NKindNames \cup {"raw", Free}], k[f] = Free, w # Free, cf[t] = NoFd,
         k2 = [k EXCEPT ![f] = w], cf2 = [cf EXCEPT ![t] = f]
  PROVE  NHeld(sf, cf2, rw, k2) /\ NOnce(sf, cf2, rw)
<1>1. \A u \in NetThreads : cf2[u] = IF u = t THEN f ELSE cf[u]
  OBVIOUS
<1>2. \A g \in Fds : k2[g] = IF g = f THEN w ELSE k[g]
  OBVIOUS
<1> QED
  BY <1>1, <1>2, NConsts DEF NHeld, NOnce

LEMMA NOpenedRaw ==
  ASSUME NEW sf, NEW cf, NEW rw, NEW k, NEW t \in NetThreads, NEW f \in Fds, NEW rw2, NEW k2, NEW w, NEW R,
         NHeld(sf, cf, rw, k), NOnce(sf, cf, rw), k[f] = Free, w # Free, R = rw[t] \cup {f},
         NBecomes(k, k2, Fds, f, w), NBecomes(rw, rw2, NetThreads, t, R)
  PROVE  NHeld(sf, cf, rw2, k2) /\ NOnce(sf, cf, rw2)
<1>1. \A u \in NetThreads : rw2[u] = IF u = t THEN rw[u] \cup {f} ELSE rw[u]
  BY DEF NBecomes
<1>2. \A g \in Fds : k2[g] = IF g = f THEN w ELSE k[g]
  BY DEF NBecomes
<1>3. NHeld(sf, cf, rw2, k2)
  BY <1>1, <1>2 DEF NHeld
<1>4. /\ \A s \in Slots : sf[s] # f
      /\ \A u \in NetThreads : cf[u] # f /\ f \notin rw[u]
  BY DEF NHeld
<1>5. \A u \in NetThreads : rw2[u] \subseteq rw[u] \cup {f} /\ (u # t => rw2[u] = rw[u])
  BY <1>1
<1>6. \A u, v \in NetThreads : u # v => rw2[u] \cap rw2[v] = {}
  BY <1>4, <1>5 DEF NOnce
<1>7. NOnce(sf, cf, rw2)
  BY <1>4, <1>5, <1>6 DEF NOnce
<1> QED
  BY <1>3, <1>7

LEMMA NClosedByCall ==
  ASSUME NEW sf, NEW cf, NEW rw, NEW k, NEW t \in NetThreads, NEW f \in Fds, NEW cf2, NEW k2,
         NHeld(sf, cf, rw, k), NOnce(sf, cf, rw), cf \in [NetThreads -> Fds \cup {NoFd}],
         k \in [Fds -> NKindNames \cup {"raw", Free}], cf[t] = f,
         k2 = [k EXCEPT ![f] = Free], cf2 = [cf EXCEPT ![t] = NoFd]
  PROVE  NHeld(sf, cf2, rw, k2) /\ NOnce(sf, cf2, rw)
<1>1. \A u \in NetThreads : cf2[u] = IF u = t THEN NoFd ELSE cf[u]
  OBVIOUS
<1>2. \A g \in Fds : k2[g] = IF g = f THEN Free ELSE k[g]
  OBVIOUS
<1>3. NOnce(sf, cf2, rw)
  BY <1>1, NConsts DEF NOnce
<1>4. /\ \A s \in Slots : sf[s] # f
      /\ \A u \in NetThreads : (u # t => cf[u] # f) /\ f \notin rw[u]
  BY DEF NOnce
<1> QED
  BY <1>1, <1>2, <1>3, <1>4, NConsts DEF NHeld

LEMMA NClosedBySlot ==
  ASSUME NEW sf, NEW cf, NEW rw, NEW k, NEW s \in Slots, NEW f \in Fds, NEW sf2, NEW k2,
         NHeld(sf, cf, rw, k), NOnce(sf, cf, rw), sf \in [Slots -> Fds \cup {NoFd}],
         k \in [Fds -> NKindNames \cup {"raw", Free}], sf[s] = f,
         k2 = [k EXCEPT ![f] = Free], sf2 = [sf EXCEPT ![s] = NoFd]
  PROVE  NHeld(sf2, cf, rw, k2) /\ NOnce(sf2, cf, rw)
<1>1. \A r \in Slots : sf2[r] = IF r = s THEN NoFd ELSE sf[r]
  OBVIOUS
<1>2. \A g \in Fds : k2[g] = IF g = f THEN Free ELSE k[g]
  OBVIOUS
<1>3. NOnce(sf2, cf, rw)
  BY <1>1, NConsts DEF NOnce
<1>4. /\ \A r \in Slots : r # s => sf[r] # f
      /\ \A u \in NetThreads : cf[u] # f /\ f \notin rw[u]
  BY DEF NOnce
<1> QED
  BY <1>1, <1>2, <1>3, <1>4, NConsts DEF NHeld

LEMMA NClosedRaw ==
  ASSUME NEW sf, NEW cf, NEW rw, NEW k, NEW t \in NetThreads, NEW f \in Fds, NEW rw2, NEW k2, NEW R,
         NHeld(sf, cf, rw, k), NOnce(sf, cf, rw), f \in rw[t], R = rw[t] \ {f},
         NBecomes(k, k2, Fds, f, Free), NBecomes(rw, rw2, NetThreads, t, R)
  PROVE  NHeld(sf, cf, rw2, k2) /\ NOnce(sf, cf, rw2)
<1>1. \A u \in NetThreads : rw2[u] = IF u = t THEN rw[u] \ {f} ELSE rw[u]
  BY DEF NBecomes
<1>2. \A g \in Fds : k2[g] = IF g = f THEN Free ELSE k[g]
  BY DEF NBecomes
<1>5. \A u \in NetThreads : rw2[u] \subseteq rw[u]
  BY <1>1
<1>3. NOnce(sf, cf, rw2)
  BY <1>5 DEF NOnce
<1>4. /\ \A s \in Slots : sf[s] # f
      /\ \A u \in NetThreads : cf[u] # f /\ (u # t => f \notin rw[u])
  BY DEF NOnce
<1> QED
  BY <1>1, <1>2, <1>3, <1>4 DEF NHeld

LEMMA NMoved ==
  ASSUME NEW sf, NEW cf, NEW rw, NEW k, NEW t \in NetThreads, NEW s \in Slots, NEW f \in Fds, NEW sf2, NEW cf2,
         NHeld(sf, cf, rw, k), NOnce(sf, cf, rw), cf \in [NetThreads -> Fds \cup {NoFd}],
         sf \in [Slots -> Fds \cup {NoFd}], cf[t] = f, sf[s] = NoFd,
         sf2 = [sf EXCEPT ![s] = f], cf2 = [cf EXCEPT ![t] = NoFd]
  PROVE  NHeld(sf2, cf2, rw, k) /\ NOnce(sf2, cf2, rw)
<1>1. \A r \in Slots : sf2[r] = IF r = s THEN f ELSE sf[r]
  OBVIOUS
<1>2. \A u \in NetThreads : cf2[u] = IF u = t THEN NoFd ELSE cf[u]
  OBVIOUS
<1>3. NOnce(sf2, cf2, rw)
  BY <1>1, <1>2, NConsts DEF NOnce
<1> QED
  BY <1>1, <1>2, <1>3, NConsts DEF NHeld

-----------------------------------------------------------------------------
NLocs == [call : NCalls, fd : Fds \cup {NoFd}, slot : Slots]

LEMMA NFacts ==
  ASSUME NTypeOK
  PROVE  /\ NSlotFd \in [Slots -> Fds \cup {NoFd}] /\ NCallFd \in [NetThreads -> Fds \cup {NoFd}]
         /\ FreeFds # {} => Min(FreeFds) \in Fds /\ kfd[Min(FreeFds)] = Free
         /\ NoLoc \in NLocs
<1>1. NSlotFd \in [Slots -> Fds \cup {NoFd}]
  BY DEF NTypeOK, NSlotFd
<1>2. NCallFd \in [NetThreads -> Fds \cup {NoFd}]
  BY DEF NTypeOK, NCallFd
<1>3. ASSUME FreeFds # {} PROVE Min(FreeFds) \in Fds /\ kfd[Min(FreeFds)] = Free
  <2>1. FreeFds \in SUBSET Nat
    BY DEF FreeFds, Fds
  <2>2. Min(FreeFds) \in FreeFds
    BY <1>3, <2>1, MinProperties
  <2> QED
    BY <2>2 DEF FreeFds
<1>4. NoLoc \in NLocs
  BY NConsts DEF NoLoc, NLocs, NCalls
<1> QED
  BY <1>1, <1>2, <1>3, <1>4

\* A step of t outside the close calls: what it does not touch.
LEMMA NLocalStep ==
  ASSUME NTypeOK, NEW t \in NetThreads, NEW p \in NPcs \ NClosing, NEW l \in NLocs,
         npc' = [npc EXCEPT ![t] = p], nloc' = [nloc EXCEPT ![t] = l], npc[t] \notin NClosing
  PROVE  /\ Closing' = Closing
         /\ npc' \in [NetThreads -> NPcs] /\ nloc' \in [NetThreads -> NLocs]
         /\ npc'[t] = p /\ nloc'[t] = l
         /\ \A u \in NetThreads \ {t} : npc'[u] = npc[u] /\ nloc'[u] = nloc[u]
         /\ \A u \in NetThreads : /\ npc'[u] \in NClosing <=> npc[u] \in NClosing
                                  /\ npc[u] \in NClosing => nloc'[u] = nloc[u]
<1>1. /\ npc' \in [NetThreads -> NPcs] /\ nloc' \in [NetThreads -> NLocs]
      /\ npc'[t] = p /\ nloc'[t] = l
      /\ \A u \in NetThreads \ {t} : npc'[u] = npc[u] /\ nloc'[u] = nloc[u]
  BY DEF NTypeOK, NLocs
<1>2. \A u \in NetThreads : /\ npc'[u] \in NClosing <=> npc[u] \in NClosing
                            /\ npc[u] \in NClosing => nloc'[u] = nloc[u]
  BY <1>1
<1>3. Closing' = Closing
  BY <1>2 DEF Closing, NClosing
<1> QED
  BY <1>1, <1>2, <1>3

\* Steps of a call that open and close nothing.
LEMMA NQuiet ==
  ASSUME NIInv, NEW t \in NetThreads, NEW p \in NPcs \ NClosing, NEW l \in NLocs,
         npc' = [npc EXCEPT ![t] = p], nloc' = [nloc EXCEPT ![t] = l], npc[t] \notin NClosing,
         UNCHANGED <<netKind, netFd, kfd, owned, raw>>,
         p \in NHolding <=> npc[t] \in NHolding, p \in NHolding => l = nloc[t],
         p = "socket" => l.call \in NDials, p = "use" => l.fd \in Fds,
         sockfile' \in Fds => kfd[sockfile'] = "unix_listen"
  PROVE  NIInv'
<1>0. NTypeOK /\ NLocal /\ NOwned /\ NKinds /\ NHolders
  BY DEF NIInv
<1>1. /\ Closing' = Closing
      /\ npc' \in [NetThreads -> NPcs] /\ nloc' \in [NetThreads -> NLocs]
      /\ npc'[t] = p /\ nloc'[t] = l
      /\ \A u \in NetThreads \ {t} : npc'[u] = npc[u] /\ nloc'[u] = nloc[u]
      /\ \A u \in NetThreads : /\ npc'[u] \in NClosing <=> npc[u] \in NClosing
                               /\ npc[u] \in NClosing => nloc'[u] = nloc[u]
  BY <1>0, NLocalStep
<1>2. NTypeOK' /\ NFile'
  BY <1>0, <1>1 DEF NTypeOK, NLocs, NFile
<1>3. NLocal'
  BY <1>0, <1>1 DEF NLocal, NHolding
<1>4. NOwned' /\ NKinds'
  BY <1>0, <1>1 DEF NOwned, NKinds
<1>5. NSlotFd' = NSlotFd /\ NCallFd' = NCallFd
  BY <1>0, <1>1 DEF NSlotFd, NCallFd
<1>6. NHolders'
  BY <1>0, <1>5 DEF NHolders, NHeld, NOnce
<1> QED
  BY <1>2, <1>3, <1>4, <1>6 DEF NIInv

\* A call gets a new descriptor from the kernel.
LEMMA NCallOpens ==
  ASSUME NIInv, NEW t \in NetThreads, NEW p \in {"setup", "made"}, FreeFds # {},
         npc[t] \in {"socket", "use"}, nloc[t].call \in NMakers,
         Opened(Min(FreeFds), Makes[nloc[t].call]), Goto(t, p),
         nloc' = [nloc EXCEPT ![t].fd = Min(FreeFds)],
         UNCHANGED <<netKind, netFd, sockfile, owned, raw>>
  PROVE  NIInv'
<1>0. NTypeOK /\ NLocal /\ NOwned /\ NKinds /\ NHolders /\ NFile
  BY DEF NIInv
<1>1. PICK f \in Fds : f = Min(FreeFds) /\ kfd[f] = Free
  BY <1>0, NFacts
<1> DEFINE l == [nloc[t] EXCEPT !.fd = f]
<1> DEFINE w == Makes[nloc[t].call]
<1>2. nloc[t] \in NLocs /\ l \in NLocs /\ l.fd = f /\ l.call = nloc[t].call
  BY <1>0 DEF NTypeOK, NLocs
<1>3. nloc' = [nloc EXCEPT ![t] = l] /\ npc' = [npc EXCEPT ![t] = p] /\ kfd' = [kfd EXCEPT ![f] = w]
  BY <1>1 DEF Goto, Opened
<1>4. p \in NPcs \ NClosing /\ npc[t] \notin NClosing /\ npc[t] \notin NHolding /\ p \in NHolding
      /\ w \in NKindNames /\ w # Free
  BY NConsts DEF NPcs, NClosing, NHolding
<1> HIDE DEF l, w
<1>5. /\ Closing' = Closing
      /\ npc' \in [NetThreads -> NPcs] /\ nloc' \in [NetThreads -> NLocs]
      /\ npc'[t] = p /\ nloc'[t] = l
      /\ \A u \in NetThreads \ {t} : npc'[u] = npc[u] /\ nloc'[u] = nloc[u]
      /\ \A u \in NetThreads : /\ npc'[u] \in NClosing <=> npc[u] \in NClosing
                               /\ npc[u] \in NClosing => nloc'[u] = nloc[u]
  BY <1>0, <1>2, <1>3, <1>4, NLocalStep
<1>6. kfd' \in [Fds -> NKindNames \cup {"raw", Free}] /\ \A g \in Fds : kfd'[g] = IF g = f THEN w ELSE kfd[g]
  BY <1>0, <1>3, <1>4 DEF NTypeOK
<1>7. NTypeOK' /\ NFile'
  BY <1>0, <1>1, <1>5, <1>6, NConsts DEF NTypeOK, NLocs, NFile, Free
<1>8. NLocal'
  <2> SUFFICES ASSUME NEW u \in NetThreads
               PROVE  /\ npc'[u] = "socket" => nloc'[u].call \in NDials
                      /\ npc'[u] \in NHolding => /\ nloc'[u].call \in NMakers /\ nloc'[u].fd \in Fds
                                                 /\ kfd'[nloc'[u].fd] = Makes[nloc'[u].call]
                      /\ npc'[u] = "use" => nloc'[u].fd \in Fds
    BY DEF NLocal
  <2>1. CASE u = t
    BY <1>2, <1>5, <1>6, <2>1 DEF w
  <2>2. CASE u # t
    BY <1>0, <1>1, <1>5, <1>6, <2>2, NConsts DEF NLocal
  <2> QED
    BY <2>1, <2>2
<1>9. NOwned'
  BY <1>0, <1>5 DEF NOwned
<1>10. NKinds'
  BY <1>0, <1>1, <1>5, <1>6, NConsts DEF NKinds
<1>11. NSlotFd' = NSlotFd /\ NCallFd' = [NCallFd EXCEPT ![t] = f] /\ NCallFd[t] = NoFd
  <2>1. NSlotFd' = NSlotFd
    BY <1>5 DEF NSlotFd
  <2>2. \A u \in NetThreads : NCallFd'[u] = IF u = t THEN f ELSE NCallFd[u]
    <3>1. npc'[t] \in NHolding /\ nloc'[t].fd = f
      BY <1>2, <1>4, <1>5
    <3>2. NCallFd'[t] = f
      BY <3>1 DEF NCallFd
    <3>3. \A u \in NetThreads \ {t} : NCallFd'[u] = NCallFd[u]
      BY <1>5 DEF NCallFd
    <3> QED
      BY <3>2, <3>3
  <2>3. NCallFd[t] = NoFd /\ DOMAIN NCallFd = NetThreads /\ DOMAIN NCallFd' = NetThreads
    BY <1>4 DEF NCallFd
  <2>4. NCallFd' = [NCallFd EXCEPT ![t] = f]
    BY <2>2 DEF NCallFd
  <2> QED
    BY <2>1, <2>3, <2>4
<1>12. NHolders'
  <2>1. NHeld(NSlotFd, NCallFd', raw, kfd') /\ NOnce(NSlotFd, NCallFd', raw)
    BY <1>0, <1>1, <1>3, <1>4, <1>11, NFacts, NOpenedByCall DEF NTypeOK, NHolders
  <2> QED
    BY <1>11, <2>1 DEF NHolders, NHeld, NOnce
<1> QED
  BY <1>7, <1>8, <1>9, <1>10, <1>12 DEF NIInv

\* A call that fails closes the descriptor it holds.
LEMMA NCallCloses ==
  ASSUME NIInv, NEW t \in NetThreads, npc[t] \in NHolding,
         NEW file \in {sockfile, NoFile}, Closed(nloc[t].fd, file), Return(t),
         UNCHANGED <<netKind, netFd, owned, raw>>
  PROVE  NIInv'
<1>0. NTypeOK /\ NLocal /\ NOwned /\ NKinds /\ NHolders /\ NFile
  BY DEF NIInv
<1>1. PICK f \in Fds : f = nloc[t].fd
  BY <1>0 DEF NLocal
<1>2. /\ kfd' = [kfd EXCEPT ![f] = Free] /\ sockfile' = (IF file = f THEN Stale ELSE file)
      /\ npc' = [npc EXCEPT ![t] = "idle"] /\ nloc' = [nloc EXCEPT ![t] = NoLoc]
  BY <1>1 DEF Closed, Return
<1>3. "idle" \in NPcs \ NClosing /\ npc[t] \notin NClosing /\ "idle" \notin NHolding /\ NoLoc \in NLocs
  BY <1>0, NFacts DEF NPcs, NClosing, NHolding
<1>4. /\ Closing' = Closing
      /\ npc' \in [NetThreads -> NPcs] /\ nloc' \in [NetThreads -> NLocs]
      /\ npc'[t] = "idle" /\ nloc'[t] = NoLoc
      /\ \A u \in NetThreads \ {t} : npc'[u] = npc[u] /\ nloc'[u] = nloc[u]
      /\ \A u \in NetThreads : /\ npc'[u] \in NClosing <=> npc[u] \in NClosing
                               /\ npc[u] \in NClosing => nloc'[u] = nloc[u]
  BY <1>0, <1>2, <1>3, NLocalStep
<1>5. kfd' \in [Fds -> NKindNames \cup {"raw", Free}] /\ \A g \in Fds : kfd'[g] = IF g = f THEN Free ELSE kfd[g]
  BY <1>0, <1>2 DEF NTypeOK
<1>6. NTypeOK' /\ NFile'
  BY <1>0, <1>2, <1>4, <1>5, NConsts DEF NTypeOK, NLocs, NFile
<1>7. NCallFd[t] = f /\ NSlotFd' = NSlotFd /\ NCallFd' = [NCallFd EXCEPT ![t] = NoFd]
  BY <1>1, <1>3, <1>4 DEF NSlotFd, NCallFd
<1>8. NLocal'
  <2> SUFFICES ASSUME NEW u \in NetThreads, u # t
               PROVE  /\ npc'[u] = "socket" => nloc'[u].call \in NDials
                      /\ npc'[u] \in NHolding => /\ nloc'[u].call \in NMakers /\ nloc'[u].fd \in Fds
                                                 /\ kfd'[nloc'[u].fd] = Makes[nloc'[u].call]
                      /\ npc'[u] = "use" => nloc'[u].fd \in Fds
    BY <1>3, <1>4 DEF NLocal
  <2>1. npc[u] \in NHolding => nloc[u].fd # f
    BY <1>0, <1>7 DEF NHolders, NOnce, NCallFd, NLocal
  <2> QED
    BY <1>0, <1>4, <1>5, <2>1 DEF NLocal
<1>9. NOwned'
  BY <1>0, <1>4 DEF NOwned
<1>10. NKinds'
  <2>1. \A s \in Slots : s \notin Closing /\ netKind[s] # EMPTY => netFd[s] # f
    BY <1>0, <1>7 DEF NHolders, NOnce, NSlotFd
  <2> QED
    BY <1>0, <1>4, <1>5, <2>1 DEF NKinds
<1>11. NHolders'
  <2>1. NHeld(NSlotFd, NCallFd', raw, kfd') /\ NOnce(NSlotFd, NCallFd', raw)
    BY <1>0, <1>2, <1>7, NFacts, NClosedByCall DEF NTypeOK, NHolders
  <2> QED
    BY <1>7, <2>1 DEF NHolders, NHeld, NOnce
<1> QED
  BY <1>6, <1>8, <1>9, <1>10, <1>11 DEF NIInv

\* Raw descriptors: the program holds the number itself.
LEMMA NRaw ==
  ASSUME NIInv, NEW t \in NetThreads, RawOpen(t) \/ \E f \in Fds : RawClose(t, f) PROVE NIInv'
<1>0. NTypeOK /\ NLocal /\ NOwned /\ NKinds /\ NHolders /\ NFile
  BY DEF NIInv
<1>1. UNCHANGED <<netKind, netFd, npc, nloc, owned>>
  BY DEF RawOpen, RawClose
<1>2. Closing' = Closing /\ NSlotFd' = NSlotFd /\ NCallFd' = NCallFd
  BY <1>1 DEF Closing, NSlotFd, NCallFd
<1>9. /\ DOMAIN raw = NetThreads /\ kfd \in [Fds -> NKindNames \cup {"raw", Free}]
       /\ NHeld(NSlotFd, NCallFd, raw, kfd) /\ NOnce(NSlotFd, NCallFd, raw) /\ "raw" # Free
  BY <1>0, NConsts DEF NTypeOK, NHolders
<1>3. CASE RawOpen(t)
  <2>1. PICK f \in Fds : f = Min(FreeFds) /\ kfd[f] = Free
    BY <1>0, <1>3, NFacts DEF RawOpen
  <2>2. /\ kfd' = [kfd EXCEPT ![f] = "raw"] /\ raw' = [raw EXCEPT ![t] = @ \cup {f}] /\ sockfile' = sockfile
        /\ \A g \in Fds : kfd'[g] = IF g = f THEN "raw" ELSE kfd[g]
    BY <1>0, <1>3, <2>1 DEF RawOpen, Opened, NTypeOK
  <2>3. NTypeOK' /\ NFile'
    BY <1>0, <1>1, <2>1, <2>2, NConsts DEF NTypeOK, NFile, Free
  <2>4. NLocal' /\ NKinds'
    BY <1>0, <1>1, <1>2, <2>1, <2>2, NConsts DEF NLocal, NKinds
  <2>5. NHeld(NSlotFd, NCallFd, raw', kfd') /\ NOnce(NSlotFd, NCallFd, raw')
    <3>1. PICK R : R = raw[t] \cup {f} /\ NBecomes(raw, raw', NetThreads, t, R)
      BY <1>9, <2>2 DEF NBecomes
    <3>2. PICK w : w # Free /\ NBecomes(kfd, kfd', Fds, f, w)
      BY <1>9, <2>2 DEF NBecomes
    <3> QED
      BY <1>9, <2>1, <3>1, <3>2, NOpenedRaw
  <2>6. NHolders'
    BY <1>2, <2>5 DEF NHolders, NHeld, NOnce
  <2> QED
    BY <1>0, <1>1, <1>2, <2>3, <2>4, <2>6 DEF NIInv, NOwned
<1>4. ASSUME NEW f \in Fds, RawClose(t, f) PROVE NIInv'
  <2>1. /\ kfd' = [kfd EXCEPT ![f] = Free] /\ raw' = [raw EXCEPT ![t] = @ \ {f}] /\ f \in raw[t]
        /\ sockfile' = (IF sockfile = f THEN Stale ELSE sockfile)
        /\ \A g \in Fds : kfd'[g] = IF g = f THEN Free ELSE kfd[g]
    BY <1>0, <1>4 DEF RawClose, Closed, NTypeOK
  <2>2. NTypeOK' /\ NFile'
    BY <1>0, <1>1, <2>1, NConsts DEF NTypeOK, NFile
  <2>3. NLocal'
    <3>1. \A u \in NetThreads : npc[u] \in NHolding => nloc[u].fd # f
      BY <1>0, <2>1 DEF NHolders, NOnce, NCallFd, NLocal
    <3> QED
      BY <1>0, <1>1, <2>1, <3>1 DEF NLocal
  <2>4. NKinds'
    <3>1. \A s \in Slots : s \notin Closing /\ netKind[s] # EMPTY => netFd[s] # f
      BY <1>0, <2>1 DEF NHolders, NOnce, NSlotFd
    <3> QED
      BY <1>0, <1>1, <1>2, <2>1, <3>1 DEF NKinds
  <2>5. NHeld(NSlotFd, NCallFd, raw', kfd') /\ NOnce(NSlotFd, NCallFd, raw')
    <3>1. PICK R : R = raw[t] \ {f} /\ NBecomes(raw, raw', NetThreads, t, R) /\ NBecomes(kfd, kfd', Fds, f, Free)
      BY <1>9, <2>1 DEF NBecomes
    <3> QED
      BY <1>9, <2>1, <3>1, NClosedRaw
  <2>6. NHolders'
    BY <1>2, <2>5 DEF NHolders, NHeld, NOnce
  <2> QED
    BY <1>0, <1>1, <1>2, <2>2, <2>3, <2>4, <2>6 DEF NIInv, NOwned
<1> QED
  BY <1>3, <1>4

\* The close calls, step by step without the lock.
LEMMA NCloseKeeps == ASSUME NIInv, NEW t \in NetThreads, NEW s \in Slots, NetClose(t, s) PROVE NIInv'
<1>0. NTypeOK /\ NLocal /\ NOwned /\ NKinds /\ NHolders /\ NFile
  BY DEF NIInv
<1> DEFINE l == [call |-> "close", fd |-> NoFd, slot |-> s]
<1>1. /\ npc[t] = "idle" /\ s \in owned[t] /\ netKind[s] # EMPTY /\ UNCHANGED <<netKind, netFd, raw>>
      /\ nloc' = [nloc EXCEPT ![t] = l] /\ npc' = [npc EXCEPT ![t] = "clear_fd"]
      /\ owned' = [owned EXCEPT ![t] = @ \ {s}] /\ Closed(netFd[s], sockfile)
  BY DEF NetClose, Goto
<1>2. l \in NLocs /\ l.slot = s
  BY DEF NLocs, NCalls
<1> HIDE DEF l
<1>3. s \notin Closing /\ \A u \in NetThreads \ {t} : s \notin owned[u]
  BY <1>0, <1>1 DEF NOwned
<1>4. PICK f \in Fds : f = netFd[s]
  BY <1>0, <1>1, <1>3 DEF NKinds
<1>5. /\ kfd' = [kfd EXCEPT ![f] = Free] /\ sockfile' = (IF sockfile = f THEN Stale ELSE sockfile)
      /\ \A g \in Fds : kfd'[g] = IF g = f THEN Free ELSE kfd[g]
  BY <1>0, <1>1, <1>4 DEF Closed, NTypeOK
<1>6. /\ npc' \in [NetThreads -> NPcs] /\ nloc' \in [NetThreads -> NLocs]
      /\ npc'[t] = "clear_fd" /\ nloc'[t].slot = s
      /\ \A u \in NetThreads \ {t} : npc'[u] = npc[u] /\ nloc'[u] = nloc[u]
      /\ owned' \in [NetThreads -> SUBSET Slots]
      /\ owned'[t] = owned[t] \ {s} /\ \A u \in NetThreads \ {t} : owned'[u] = owned[u]
  BY <1>0, <1>1, <1>2 DEF NTypeOK, NLocs, NPcs
<1>7. Closing' = Closing \cup {s}
  BY <1>1, <1>6 DEF Closing
<1>8. NTypeOK' /\ NFile'
  BY <1>0, <1>1, <1>5, <1>6, NConsts DEF NTypeOK, NLocs, NFile
<1>9. NSlotFd[s] = f /\ NSlotFd' = [NSlotFd EXCEPT ![s] = NoFd] /\ NCallFd' = NCallFd
  BY <1>1, <1>3, <1>4, <1>6, <1>7 DEF NSlotFd, NCallFd, NHolding
<1>10. NLocal'
  <2>1. \A u \in NetThreads : npc[u] \in NHolding => nloc[u].fd # f
    BY <1>0, <1>9 DEF NHolders, NOnce, NCallFd, NLocal
  <2> QED
    BY <1>0, <1>5, <1>6, <2>1 DEF NLocal, NHolding
<1>11. NKinds'
  <2>1. \A r \in Slots \ {s} : r \notin Closing /\ netKind[r] # EMPTY => netFd[r] # f
    BY <1>0, <1>9 DEF NHolders, NOnce, NSlotFd
  <2> QED
    BY <1>0, <1>1, <1>5, <1>7, <2>1 DEF NKinds
<1>12. NOwned'
  <2>1. \A u \in NetThreads : npc[u] \in NClosing => nloc[u].slot \in Closing
    BY DEF Closing, NClosing
  <2>2. npc[t] \notin NClosing /\ npc'[t] \in NClosing
    BY <1>1, <1>6 DEF NClosing
  <2>3. \A u \in NetThreads : \A r \in owned'[u] : r \in owned[u] /\ r # s
    BY <1>3, <1>6
  <2>4. \A u, v \in NetThreads : u # v => owned'[u] \cap owned'[v] = {}
    BY <1>0, <2>3 DEF NOwned
  <2>5. \A u \in NetThreads : \A r \in owned'[u] : netKind'[r] # EMPTY /\ r \notin Closing'
    BY <1>0, <1>1, <1>7, <2>3 DEF NOwned
  <2>6. \A u \in NetThreads : npc'[u] \in NClosing => netKind'[nloc'[u].slot] # EMPTY
    BY <1>0, <1>1, <1>6 DEF NOwned
  <2>7. \A u, v \in NetThreads :
          npc'[u] \in NClosing /\ npc'[v] \in NClosing /\ nloc'[u].slot = nloc'[v].slot => u = v
    BY <1>0, <1>3, <1>6, <2>1 DEF NOwned
  <2> QED
    BY <2>4, <2>5, <2>6, <2>7 DEF NOwned
<1>13. NHolders'
  <2>1. NHeld(NSlotFd', NCallFd, raw, kfd') /\ NOnce(NSlotFd', NCallFd, raw)
    BY <1>0, <1>5, <1>9, NFacts, NClosedBySlot DEF NTypeOK, NHolders
  <2> QED
    BY <1>1, <1>9, <2>1 DEF NHolders, NHeld, NOnce
<1> QED
  BY <1>8, <1>10, <1>11, <1>12, <1>13 DEF NIInv

LEMMA NClearKeeps == ASSUME NIInv, NEW t \in NetThreads, NetClearFd(t) \/ NetClearKind(t) PROVE NIInv'
<1>0. NTypeOK /\ NLocal /\ NOwned /\ NKinds /\ NHolders /\ NFile
  BY DEF NIInv
<1>1. PICK s \in Slots : s = nloc[t].slot
  BY <1>0 DEF NTypeOK
<1>2. npc[t] \in NClosing /\ s \in Closing /\ UNCHANGED <<kfd, sockfile, owned, raw>>
  BY <1>1 DEF NetClearFd, NetClearKind, Closing, NClosing
<1>3. CASE NetClearFd(t)
  <2>1. /\ netFd' = [netFd EXCEPT ![s] = NoFd] /\ npc' = [npc EXCEPT ![t] = "clear_kind"]
        /\ UNCHANGED <<netKind, nloc>>
    BY <1>1, <1>3 DEF NetClearFd, Goto
  <2>2. /\ npc' \in [NetThreads -> NPcs] /\ npc'[t] \in NClosing /\ npc'[t] \notin NHolding
        /\ npc'[t] \notin {"socket", "use"} /\ npc[t] \notin NHolding
        /\ \A u \in NetThreads \ {t} : npc'[u] = npc[u]
    BY <1>0, <1>2, <2>1 DEF NTypeOK, NPcs, NClosing, NHolding
  <2>3. Closing' = Closing
    BY <1>2, <2>1, <2>2 DEF Closing, NClosing
  <2>4. NTypeOK' /\ NFile' /\ NLocal'
    BY <1>0, <1>2, <2>1, <2>2 DEF NTypeOK, NFile, NLocal
  <2>5. NOwned'
    BY <1>0, <1>2, <2>1, <2>2, <2>3 DEF NOwned
  <2>6. NKinds'
    BY <1>0, <1>2, <2>1, <2>3 DEF NKinds, NTypeOK
  <2>7. NSlotFd' = NSlotFd /\ NCallFd' = NCallFd
    BY <1>0, <1>2, <2>1, <2>2, <2>3 DEF NSlotFd, NCallFd, NTypeOK
  <2>8. NHolders'
    BY <1>0, <1>2, <2>7 DEF NHolders, NHeld, NOnce
  <2> QED
    BY <2>4, <2>5, <2>6, <2>8 DEF NIInv
<1>4. CASE NetClearKind(t)
  <2>1. /\ netKind' = [netKind EXCEPT ![s] = EMPTY] /\ npc' = [npc EXCEPT ![t] = "idle"]
        /\ nloc' = [nloc EXCEPT ![t] = NoLoc] /\ netFd' = netFd
    BY <1>1, <1>4 DEF NetClearKind, Return
  <2>2. /\ npc' \in [NetThreads -> NPcs] /\ npc'[t] \notin NClosing /\ npc'[t] \notin NHolding
        /\ npc'[t] \notin {"socket", "use"} /\ npc[t] \notin NHolding
        /\ nloc' \in [NetThreads -> NLocs]
        /\ \A u \in NetThreads \ {t} : npc'[u] = npc[u] /\ nloc'[u] = nloc[u]
        /\ netKind' \in [Slots -> Nat] /\ netKind'[s] = EMPTY /\ \A r \in Slots \ {s} : netKind'[r] = netKind[r]
    BY <1>0, <1>2, <2>1, NFacts DEF NTypeOK, NLocs, NPcs, NClosing, NHolding, EMPTY
  <2>3. \A u \in NetThreads \ {t} : npc[u] \in NClosing => nloc[u].slot # s
    BY <1>0, <1>1, <1>2 DEF NOwned
  <2>4. Closing' = Closing \ {s}
    BY <1>1, <1>2, <2>2, <2>3 DEF Closing, NClosing
  <2>5. NTypeOK' /\ NFile' /\ NLocal'
    BY <1>0, <1>2, <2>1, <2>2 DEF NTypeOK, NLocs, NFile, NLocal
  <2>6. NOwned'
    <3>1. \A u \in NetThreads : s \notin owned[u]
      BY <1>0, <1>2 DEF NOwned
    <3>2. \A u \in NetThreads : npc'[u] \in NClosing => u # t /\ nloc[u].slot \in Slots
      BY <1>0, <2>2 DEF NTypeOK
    <3>3. \A u \in NetThreads : \A r \in owned'[u] : netKind'[r] # EMPTY /\ r \notin Closing'
      BY <1>0, <1>2, <2>2, <2>4, <3>1 DEF NOwned, NTypeOK
    <3>4. \A u \in NetThreads : npc'[u] \in NClosing => netKind'[nloc'[u].slot] # EMPTY
      BY <1>0, <2>2, <2>3, <3>2 DEF NOwned
    <3>5. \A u, v \in NetThreads :
            npc'[u] \in NClosing /\ npc'[v] \in NClosing /\ nloc'[u].slot = nloc'[v].slot => u = v
      BY <1>0, <2>2, <3>2 DEF NOwned
    <3> QED
      BY <1>0, <1>2, <3>3, <3>4, <3>5 DEF NOwned
  <2>7. NKinds'
    BY <1>0, <1>2, <2>1, <2>2, <2>4 DEF NKinds
  <2>8. NSlotFd' = NSlotFd /\ NCallFd' = NCallFd
    BY <1>0, <1>2, <2>1, <2>2, <2>4 DEF NSlotFd, NCallFd, NTypeOK
  <2>9. NHolders'
    BY <1>0, <1>2, <2>8 DEF NHolders, NHeld, NOnce
  <2> QED
    BY <2>5, <2>6, <2>7, <2>9 DEF NIInv
<1> QED
  BY <1>3, <1>4

\* net_alloc_slot stores the descriptor in an empty slot.
LEMMA NAllocKeeps ==
  ASSUME NIInv, NEW t \in NetThreads, npc[t] = "made", NEW s \in Slots, netKind[s] = EMPTY,
         netFd' = [netFd EXCEPT ![s] = nloc[t].fd],
         netKind' = [netKind EXCEPT ![s] = KindOf[Makes[nloc[t].call]]],
         owned' = [owned EXCEPT ![t] = @ \cup {s}], UNCHANGED <<kfd, sockfile, raw>>, Return(t)
  PROVE  NIInv'
<1>0. NTypeOK /\ NLocal /\ NOwned /\ NKinds /\ NHolders /\ NFile
  BY DEF NIInv
<1> DEFINE k == KindOf[Makes[nloc[t].call]]
<1>1. PICK f \in Fds : f = nloc[t].fd
  BY <1>0 DEF NLocal, NHolding
<1>2. kfd[f] \in NKindNames /\ KindOf[kfd[f]] = k /\ k \in Nat /\ k # EMPTY
  BY <1>0, <1>1, NConsts DEF NLocal, NHolding
<1>3. netKind' = [netKind EXCEPT ![s] = k] /\ netFd' = [netFd EXCEPT ![s] = f]
  BY <1>1
<1> HIDE DEF k
<1>4. "idle" \in NPcs \ NClosing /\ npc[t] \notin NClosing /\ "idle" \notin NHolding /\ NoLoc \in NLocs
      /\ npc[t] \in NHolding /\ npc' = [npc EXCEPT ![t] = "idle"] /\ nloc' = [nloc EXCEPT ![t] = NoLoc]
  BY <1>0, NFacts DEF NPcs, NClosing, NHolding, Return
<1>5. /\ Closing' = Closing
      /\ npc' \in [NetThreads -> NPcs] /\ nloc' \in [NetThreads -> NLocs]
      /\ npc'[t] = "idle" /\ nloc'[t] = NoLoc
      /\ \A u \in NetThreads \ {t} : npc'[u] = npc[u] /\ nloc'[u] = nloc[u]
      /\ \A u \in NetThreads : /\ npc'[u] \in NClosing <=> npc[u] \in NClosing
                               /\ npc[u] \in NClosing => nloc'[u] = nloc[u]
  BY <1>0, <1>4, NLocalStep
<1>6. /\ netKind' \in [Slots -> Nat] /\ netKind'[s] = k /\ \A r \in Slots \ {s} : netKind'[r] = netKind[r]
      /\ netFd' \in [Slots -> Fds \cup {NoFd}] /\ netFd'[s] = f /\ \A r \in Slots \ {s} : netFd'[r] = netFd[r]
      /\ owned' \in [NetThreads -> SUBSET Slots] /\ owned'[t] = owned[t] \cup {s}
      /\ \A u \in NetThreads \ {t} : owned'[u] = owned[u]
  BY <1>0, <1>2, <1>3 DEF NTypeOK
<1>7. s \notin Closing /\ \A u \in NetThreads : s \notin owned[u]
  <2>1. \A u \in NetThreads : npc[u] \in NClosing => nloc[u].slot # s
    BY <1>0 DEF NOwned
  <2> QED
    BY <1>0, <2>1 DEF NOwned, Closing, NClosing
<1>8. NTypeOK' /\ NFile' /\ NLocal'
  BY <1>0, <1>4, <1>5, <1>6 DEF NTypeOK, NLocs, NFile, NLocal
<1>9. NOwned'
  <2>1. \A u \in NetThreads : \A r \in owned'[u] : netKind'[r] # EMPTY /\ r \notin Closing'
    BY <1>0, <1>2, <1>5, <1>6, <1>7 DEF NOwned, NTypeOK
  <2>2. \A u, v \in NetThreads : u # v => owned'[u] \cap owned'[v] = {}
    BY <1>0, <1>6, <1>7 DEF NOwned
  <2>3. \A u \in NetThreads : npc'[u] \in NClosing => netKind'[nloc'[u].slot] # EMPTY
    <3> SUFFICES ASSUME NEW u \in NetThreads, npc'[u] \in NClosing PROVE netKind'[nloc'[u].slot] # EMPTY
      OBVIOUS
    <3>1. nloc'[u] = nloc[u] /\ netKind[nloc[u].slot] # EMPTY /\ nloc[u].slot \in Slots
      BY <1>0, <1>5 DEF NOwned, NTypeOK
    <3> QED
      BY <1>6, <3>1
  <2>4. \A u, v \in NetThreads :
          npc'[u] \in NClosing /\ npc'[v] \in NClosing /\ nloc'[u].slot = nloc'[v].slot => u = v
    BY <1>0, <1>5 DEF NOwned
  <2> QED
    BY <2>1, <2>2, <2>3, <2>4 DEF NOwned
<1>10. NKinds'
  BY <1>0, <1>2, <1>5, <1>6 DEF NKinds
<1>11. /\ NCallFd[t] = f /\ NSlotFd[s] = NoFd
       /\ NSlotFd' = [NSlotFd EXCEPT ![s] = f] /\ NCallFd' = [NCallFd EXCEPT ![t] = NoFd]
  <2>1. NCallFd[t] = f /\ NSlotFd[s] = NoFd
    BY <1>1, <1>4 DEF NCallFd, NSlotFd
  <2>2. NSlotFd' = [NSlotFd EXCEPT ![s] = f]
    <3>1. NSlotFd'[s] = f
      BY <1>2, <1>5, <1>6, <1>7 DEF NSlotFd
    <3>2. \A r \in Slots \ {s} : NSlotFd'[r] = NSlotFd[r]
      BY <1>5, <1>6 DEF NSlotFd
    <3>3. \A r \in Slots : NSlotFd'[r] = IF r = s THEN f ELSE NSlotFd[r]
      BY <3>1, <3>2
    <3> QED
      BY <3>3 DEF NSlotFd
  <2>3. NCallFd' = [NCallFd EXCEPT ![t] = NoFd]
    BY <1>4, <1>5 DEF NCallFd
  <2> QED
    BY <2>1, <2>2, <2>3
<1>12. NHolders'
  <2>1. NHeld(NSlotFd', NCallFd', raw, kfd) /\ NOnce(NSlotFd', NCallFd', raw)
    BY <1>0, <1>11, NFacts, NMoved DEF NHolders
  <2> QED
    BY <2>1 DEF NHolders, NHeld, NOnce
<1> QED
  BY <1>8, <1>9, <1>10, <1>12 DEF NIInv

LEMMA NStepIInv == NIInv /\ [NetNext]_netVars => NIInv'
<1> SUFFICES ASSUME NIInv, [NetNext]_netVars PROVE NIInv'
  OBVIOUS
<1>0. NTypeOK /\ NLocal /\ NOwned /\ NKinds /\ NFile
  BY DEF NIInv
<1>1. CASE UNCHANGED netVars
  <2>1. NSlotFd' = NSlotFd /\ NCallFd' = NCallFd /\ Closing' = Closing
    BY <1>1 DEF netVars, NSlotFd, NCallFd, Closing
  <2>2. NTypeOK' /\ NLocal' /\ NOwned' /\ NKinds' /\ NFile'
    BY <1>0, <1>1, <2>1 DEF netVars, NTypeOK, NLocal, NOwned, NKinds, NFile
  <2>3. NHolders'
    BY <1>1, <2>1 DEF netVars, NIInv, NHolders, NHeld, NOnce
  <2> QED
    BY <2>2, <2>3 DEF NIInv
<1>2. \A t \in NetThreads : nloc[t] \in NLocs /\ nloc = [nloc EXCEPT ![t] = nloc[t]]
                            /\ npc = [npc EXCEPT ![t] = npc[t]]
  BY <1>0 DEF NTypeOK, NLocs
<1>3. NoLoc \in NLocs
  BY <1>0, NFacts
<1>4. ASSUME NEW t \in NetThreads, NEW c \in NDials, NetCall(t, c) PROVE NIInv'
  <2> DEFINE l == [nloc[t] EXCEPT !.call = c]
  <2>1. l \in NLocs /\ l.call = c
    BY <1>2 DEF NLocs, NCalls, NMakers
  <2>2. nloc' = [nloc EXCEPT ![t] = l] /\ npc' = [npc EXCEPT ![t] = "socket"] /\ npc[t] = "idle"
        /\ UNCHANGED <<netKind, netFd, kfd, owned, raw>>
    BY <1>4 DEF NetCall, Goto
  <2>3. sockfile' \in Fds => kfd[sockfile'] = "unix_listen"
    BY <1>0, <1>4, NConsts DEF NetCall, NFile
  <2>4. "socket" \in NPcs \ NClosing /\ "idle" \notin NClosing /\ "socket" \notin NHolding /\ "idle" \notin NHolding
    BY DEF NPcs, NClosing, NHolding
  <2> HIDE DEF l
  <2> QED
    BY <2>1, <2>2, <2>3, <2>4, NQuiet
<1>5. ASSUME NEW t \in NetThreads, oo_unix_unlink(t) PROVE NIInv'
  <2>1. /\ nloc' = [nloc EXCEPT ![t] = nloc[t]] /\ npc' = [npc EXCEPT ![t] = "idle"] /\ npc[t] = "idle"
        /\ UNCHANGED <<netKind, netFd, kfd, owned, raw>> /\ sockfile' \notin Fds
    BY <1>2, <1>5, NConsts DEF oo_unix_unlink
  <2>2. "idle" \in NPcs \ NClosing /\ "idle" \notin NClosing /\ "idle" \notin NHolding
    BY DEF NPcs, NClosing, NHolding
  <2> QED
    BY <1>2, <2>1, <2>2, NQuiet
\* A call that gives up without a descriptor.
<1>6. ASSUME NEW t \in NetThreads, npc[t] \in {"socket", "use"}, Return(t),
             UNCHANGED <<netKind, netFd, kfd, sockfile, owned, raw>>
      PROVE  NIInv'
  <2>1. nloc' = [nloc EXCEPT ![t] = NoLoc] /\ npc' = [npc EXCEPT ![t] = "idle"]
    BY <1>6 DEF Return
  <2>2. "idle" \in NPcs \ NClosing /\ npc[t] \notin NClosing /\ "idle" \notin NHolding /\ npc[t] \notin NHolding
    BY <1>6 DEF NPcs, NClosing, NHolding
  <2>3. sockfile' \in Fds => kfd[sockfile'] = "unix_listen"
    BY <1>0, <1>6 DEF NFile
  <2> QED
    BY <1>3, <1>6, <2>1, <2>2, <2>3, NQuiet
<1>7. ASSUME NEW t \in NetThreads, NetSocket(t) PROVE NIInv'
  <2>1. npc[t] = "socket" /\ nloc[t].call \in NMakers
    BY <1>0, <1>7 DEF NetSocket, NLocal, NMakers
  <2>2. CASE FreeFds # {} /\ Opened(Min(FreeFds), Makes[nloc[t].call])
             /\ nloc' = [nloc EXCEPT ![t].fd = Min(FreeFds)] /\ Goto(t, "setup")
    BY <1>7, <2>1, <2>2, NCallOpens DEF NetSocket
  <2> QED
    BY <1>6, <1>7, <2>1, <2>2 DEF NetSocket
\* A call goes on with the descriptor it holds.
<1>8. ASSUME NEW t \in NetThreads, npc[t] \in {"setup", "listen"}, NEW p \in {"made", "listen"}, Goto(t, p),
             UNCHANGED <<netKind, netFd, kfd, nloc, owned, raw>>,
             sockfile' \in Fds => kfd[sockfile'] = "unix_listen"
      PROVE  NIInv'
  <2>1. nloc' = [nloc EXCEPT ![t] = nloc[t]] /\ npc' = [npc EXCEPT ![t] = p]
    BY <1>2, <1>8 DEF Goto
  <2>2. /\ p \in NPcs \ NClosing /\ npc[t] \notin NClosing /\ p \in NHolding /\ npc[t] \in NHolding
        /\ p \notin {"socket", "use"}
    BY <1>8 DEF NPcs, NClosing, NHolding
  <2> QED
    BY <1>2, <1>8, <2>1, <2>2, NQuiet
<1>9. ASSUME NEW t \in NetThreads, NetSetup(t) PROVE NIInv'
  <2>1. npc[t] = "setup" /\ npc[t] \in NHolding /\ UNCHANGED <<netKind, netFd, owned, raw>>
    BY <1>9 DEF NetSetup, NHolding
  <2>2. CASE Closed(nloc[t].fd, sockfile) /\ Return(t)
    BY <2>1, <2>2, NCallCloses
  <2>3. CASE Goto(t, "made") /\ UNCHANGED <<kfd, sockfile, nloc>>
    BY <1>0, <1>8, <2>1, <2>3 DEF NFile
  <2>4. CASE nloc[t].call = "unix_bind" /\ sockfile' = nloc[t].fd /\ Goto(t, "listen") /\ UNCHANGED <<kfd, nloc>>
    <3>1. kfd[nloc[t].fd] = "unix_listen"
      BY <1>0, <2>1, <2>4, NConsts DEF NLocal
    <3> QED
      BY <1>8, <2>1, <2>4, <3>1
  <2> QED
    BY <1>9, <2>2, <2>3, <2>4 DEF NetSetup
<1>10. ASSUME NEW t \in NetThreads, NetListen(t) PROVE NIInv'
  <2>1. npc[t] = "listen" /\ npc[t] \in NHolding /\ UNCHANGED <<netKind, netFd, owned, raw>>
    BY <1>10 DEF NetListen, NHolding
  <2>2. CASE Closed(nloc[t].fd, NoFile) /\ Return(t)
    BY <2>1, <2>2, NCallCloses
  <2>3. CASE Goto(t, "made") /\ UNCHANGED <<kfd, sockfile, nloc>>
    BY <1>0, <1>8, <2>1, <2>3 DEF NFile
  <2> QED
    BY <1>10, <2>2, <2>3 DEF NetListen
<1>11. ASSUME NEW t \in NetThreads, net_alloc_slot(t) PROVE NIInv'
  <2> DEFINE empty == {s \in Slots : netKind[s] = EMPTY}
  <2>1. npc[t] = "made" /\ npc[t] \in NHolding /\ Return(t) /\ UNCHANGED raw
    BY <1>11 DEF net_alloc_slot, NHolding
  <2>2. CASE empty # {}
    <3>1. PICK s \in Slots : s = Min(empty) /\ netKind[s] = EMPTY
      <4>1. empty \in SUBSET Nat
        BY DEF Slots
      <4>2. Min(empty) \in empty
        BY <2>2, <4>1, MinProperties
      <4> QED
        BY <4>2
    <3> QED
      BY <1>11, <2>1, <2>2, <3>1, NAllocKeeps DEF net_alloc_slot
  <2>3. CASE empty = {}
    <3>1. UNCHANGED <<netKind, netFd, owned, raw>> /\ \E file \in {sockfile, NoFile} : Closed(nloc[t].fd, file)
      BY <1>11, <2>3 DEF net_alloc_slot
    <3> QED
      BY <2>1, <3>1, NCallCloses
  <2> QED
    BY <2>2, <2>3
<1>12. ASSUME NEW t \in NetThreads, NEW s \in Slots, NEW c \in NCalls, net_lookup(t, c, s) PROVE NIInv'
  <2> DEFINE l == [call |-> c, fd |-> netFd[s], slot |-> s]
  <2>1. netFd[s] \in Fds
    BY <1>0, <1>12 DEF net_lookup, NOwned, NKinds
  <2>2. l \in NLocs /\ l.fd \in Fds
    BY <2>1 DEF NLocs
  <2>3. nloc' = [nloc EXCEPT ![t] = l] /\ npc' = [npc EXCEPT ![t] = "use"] /\ npc[t] = "idle"
        /\ UNCHANGED <<netKind, netFd, kfd, sockfile, owned, raw>>
    BY <1>12 DEF net_lookup, Goto
  <2>4. "use" \in NPcs \ NClosing /\ "idle" \notin NClosing /\ "use" \notin NHolding /\ "idle" \notin NHolding
    BY DEF NPcs, NClosing, NHolding
  <2>5. sockfile' \in Fds => kfd[sockfile'] = "unix_listen"
    BY <1>0, <2>3 DEF NFile
  <2> HIDE DEF l
  <2> QED
    BY <2>2, <2>3, <2>4, <2>5, NQuiet
<1>13. ASSUME NEW t \in NetThreads, NetUse(t) PROVE NIInv'
  <2>1. npc[t] = "use"
    BY <1>13 DEF NetUse
  <2>2. CASE nloc[t].call \in {"tcp_accept", "unix_accept"} /\ FreeFds # {}
             /\ Opened(Min(FreeFds), Makes[nloc[t].call])
             /\ nloc' = [nloc EXCEPT ![t].fd = Min(FreeFds)] /\ Goto(t, "made")
    <3>1. nloc[t].call \in NMakers
      BY <2>2 DEF NMakers
    <3> QED
      BY <1>13, <2>1, <2>2, <3>1, NCallOpens DEF NetUse
  <2> QED
    BY <1>6, <1>13, <2>1, <2>2 DEF NetUse
<1>14. ASSUME NEW t \in NetThreads,
              \/ oo_tcp_bind(t) \/ oo_bind_udp(t) \/ oo_unix_bind(t) \/ oo_tcp_connect(t) \/ oo_unix_connect(t)
       PROVE  NIInv'
  BY <1>4, <1>14 DEF oo_tcp_bind, oo_bind_udp, oo_unix_bind, oo_tcp_connect, oo_unix_connect, NDials
<1>15. ASSUME NEW t \in NetThreads, NEW s \in Slots,
              \/ oo_tcp_accept(t, s) \/ oo_unix_accept(t, s)
              \/ oo_tcp_write(t, s) \/ oo_tcp_read(t, s) \/ oo_udp_send(t, s) \/ oo_udp_recv(t, s)
              \/ oo_unix_write(t, s) \/ oo_unix_read(t, s) \/ oo_unix_read_timeout(t, s)
       PROVE  NIInv'
  <2>1. {"tcp_accept", "unix_accept", "tcp_io", "udp_io", "unix_io"} \subseteq NCalls
    BY DEF NCalls, NMakers
  <2> QED
    BY <1>12, <1>15, <2>1 DEF oo_tcp_accept, oo_unix_accept, oo_tcp_write, oo_tcp_read, oo_udp_send, oo_udp_recv,
       oo_unix_write, oo_unix_read, oo_unix_read_timeout
<1>16. ASSUME NEW t \in NetThreads,
              \/ oo_sys_epoll_create1(t) \/ oo_sys_timerfd_create(t) \/ oo_sys_eventfd(t)
              \/ oo_memfd_create(t) \/ oo_shm_open(t)
              \/ \E f \in Fds : oo_sys_close(t, f) \/ oo_close_fd(t, f)
       PROVE  NIInv'
  BY <1>16, NRaw DEF oo_sys_epoll_create1, oo_sys_timerfd_create, oo_sys_eventfd, oo_memfd_create, oo_shm_open,
     oo_sys_close, oo_close_fd
<1>17. ASSUME NEW t \in NetThreads, NEW s \in Slots, oo_tcp_close(t, s) \/ oo_unix_close(t, s) PROVE NIInv'
  BY <1>17, NCloseKeeps DEF oo_tcp_close, oo_unix_close
<1> QED
  BY <1>1, <1>5, <1>7, <1>9, <1>10, <1>11, <1>13, <1>14, <1>15, <1>16, <1>17, NClearKeeps DEF NetNext

(***************************************************************************)
(* A descriptor is open exactly while one party answers for it, whatever   *)
(* the interleaving of the unlocked close with the other calls, for any    *)
(* number of threads, slots and descriptors.                               *)
(***************************************************************************)
THEOREM DescriptorsCorrect == NetSpec => []DescriptorHasOneHolder
<1>1. ASSUME NIInv PROVE DescriptorHasOneHolder
  <2>0. NHeld(NSlotFd, NCallFd, raw, kfd) /\ NOnce(NSlotFd, NCallFd, raw)
    BY <1>1 DEF NIInv, NHolders
  <2>1. ASSUME NEW f \in Fds PROVE Cardinality(Holders(f)) = IF kfd[f] = Free THEN 0 ELSE 1
    <3>1. Holders(f) =      {<<s, "slot">> : s \in {r \in Slots : NSlotFd[r] = f}}
                       \cup {<<t, "call">> : t \in {u \in NetThreads : NCallFd[u] = f}}
                       \cup {<<t, "raw">> : t \in {u \in NetThreads : f \in raw[u]}}
      <4>1. {r \in Slots \ Closing : netKind[r] # EMPTY /\ netFd[r] = f} = {r \in Slots : NSlotFd[r] = f}
        BY NConsts DEF NSlotFd
      <4>2. {u \in NetThreads : npc[u] \in {"setup", "listen", "made"} /\ nloc[u].fd = f}
              = {u \in NetThreads : NCallFd[u] = f}
        BY NConsts DEF NCallFd, NHolding
      <4> QED
        BY <4>1, <4>2 DEF Holders
    <3>2. CASE kfd[f] = Free
      <4>1. Holders(f) = {}
        BY <2>0, <3>1, <3>2 DEF NHeld
      <4> QED
        BY <3>2, <4>1, FS_EmptySet
    <3>3. CASE kfd[f] # Free
      <4>1. \E h : Holders(f) = {h}
        <5>1. CASE \E s \in Slots : NSlotFd[s] = f
          <6>1. PICK s \in Slots : NSlotFd[s] = f
            BY <5>1
          <6>2. Holders(f) = {<<s, "slot">>}
            BY <2>0, <3>1, <6>1 DEF NOnce
          <6> QED
            BY <6>2
        <5>2. CASE \E t \in NetThreads : NCallFd[t] = f
          <6>1. PICK t \in NetThreads : NCallFd[t] = f
            BY <5>2
          <6>2. Holders(f) = {<<t, "call">>}
            BY <2>0, <3>1, <6>1 DEF NOnce
          <6> QED
            BY <6>2
        <5>3. CASE \E t \in NetThreads : f \in raw[t]
          <6>1. PICK t \in NetThreads : f \in raw[t]
            BY <5>3
          <6>2. Holders(f) = {<<t, "raw">>}
            BY <2>0, <3>1, <6>1 DEF NOnce
          <6> QED
            BY <6>2
        <5> QED
          BY <2>0, <3>3, <5>1, <5>2, <5>3 DEF NHeld
      <4> QED
        BY <3>3, <4>1, FS_Singleton
    <3> QED
      BY <3>2, <3>3
  <2>2. \A s \in Slots \ Closing : netKind[s] # EMPTY => netFd[s] \in Fds /\ KindOf[kfd[netFd[s]]] = netKind[s]
    BY <1>1 DEF NIInv, NKinds
  <2> QED
    BY <1>1, <2>1, <2>2 DEF DescriptorHasOneHolder, NIInv, NFile
<1> QED
  BY <1>1, NInitIInv, NStepIInv, PTL DEF NetSpec
-----------------------------------------------------------------------------
(***************************************************************************)
(* The raw allocator and the payload allocator.                            *)
(***************************************************************************)

\* Types of the table of raw blocks and of the memory behind it.
RawTypeOK ==
  /\ DOMAIN table \subseteq Addrs
  /\ \A a \in DOMAIN table : table[a].total \in Nat /\ table[a].capacity \in Nat
  /\ unlinked \in [MemThreads -> SUBSET Addrs]

\* Types of mappings and caches; a mapping is in one cache at most, which knows its size.
MapTypeOK ==
  /\ \A m \in DOMAIN maps : maps[m] \in Nat
  /\ \A m \in DOMAIN large : large[m] \in Nat /\ m \in Maps
  /\ cacheBlk \in [MemThreads -> Maps \cup {NoMap}] /\ cacheSz \in [MemThreads -> Nat]
  /\ DOMAIN cacheUse = MemThreads
CachesApart == \A t, u \in MemThreads : t # u /\ cacheBlk[t] = cacheBlk[u] => cacheBlk[t] = NoMap
CacheSized == \A t \in MemThreads : cacheBlk[t] \in DOMAIN maps => cacheSz[t] = maps[cacheBlk[t]]

RawIInv == RawTypeOK /\ RawTableSound
MapIInv == MapTypeOK /\ CachesApart /\ CacheSized /\ PayloadBacked

\* The invariant of the allocators.
MemIInv == RawIInv /\ MapIInv

(* Adding a block to the table adds its size to the sum, and every size fits in it. *)
LEMMA BlocksAdd ==
  ASSUME NEW f, NEW g, NEW a, a \notin DOMAIN f, DOMAIN g = DOMAIN f \cup {a}, IsFiniteSet(DOMAIN f),
         \A x \in DOMAIN f : f[x] \in Nat /\ g[x] = f[x], g[a] \in Nat
  PROVE  /\ SumFunction(g) = SumFunction(f) + g[a]
         /\ SumFunction(f) \in Nat
<1> DEFINE S == DOMAIN f
           T == S \cup {a}
<1>1. IsFiniteSet(T) /\ T \ {a} = S /\ a \in T
  BY FS_AddElement
<1>2. Summable(f, S) /\ Summable(g, T) /\ Summable(g, S)
  BY <1>1 DEF Summable
<1>3. SumFunctionOnSet(g, S) = SumFunctionOnSet(f, S)
  BY <1>2, SumCongruence
<1>4. SumFunctionOnSet(g, T) = SumFunctionOnSet(g, T \ {a}) + g[a]
  BY <1>1, <1>2, SumProperties
<1>5. SumFunctionOnSet(f, S) \in Int /\ SumFunctionOnSet(f, S) >= 0
  <2>1. \A x \in S : f[x] >= 0
    OBVIOUS
  <2> QED BY <1>2, <2>1, SumProperties
<1> QED BY <1>1, <1>3, <1>4, <1>5 DEF SumFunction

(* A block is as large as its header and its capacity. *)
LEMMA TotalFits ==
  ASSUME NEW s \in Nat
  PROVE  Total(s) \in Nat /\ Hdr + s <= Total(s)
<1>1. (Hdr + s) % 2 \in 0 .. 1
  BY DEF Hdr
<1> QED BY <1>1 DEF Total, Hdr

(* Where the raw blocks are, address by address. *)
LEMMA RawPlaces ==
  ASSUME RawTableSound
  PROVE  \A a : a \in DOMAIN rawMem <=> a \in DOMAIN table \/ \E t \in MemThreads : a \in unlinked[t]
<1>1. DOMAIN rawMem = DOMAIN table \cup UNION {unlinked[t] : t \in MemThreads}
  BY DEF RawTableSound
<1>2. \A a : a \in UNION {unlinked[t] : t \in MemThreads} <=> \E t \in MemThreads : a \in unlinked[t]
  BY Zenon
<1> QED BY <1>1, <1>2

LEMMA RawPlacesIntro ==
  ASSUME \A a : a \in DOMAIN rawMem' <=> a \in DOMAIN table' \/ \E t \in MemThreads : a \in unlinked'[t]
  PROVE  DOMAIN rawMem' = DOMAIN table' \cup UNION {unlinked'[t] : t \in MemThreads}
BY Zenon

(* oo_alloc: the new block is listed, sized and counted. *)
LEMMA RawAlloc ==
  ASSUME RawIInv, NEW size \in RawSizes, NEW a \in Addrs \ DOMAIN rawMem,
         rawMem' = With(rawMem, a, Total(size)),
         table' = With(table, a, [total |-> Total(size), capacity |-> size]),
         ambient' = ambient + Total(size), unlinked' = unlinked
  PROVE  RawIInv'
<1>1. Total(size) \in Nat /\ Hdr + size <= Total(size) /\ size \in Nat
  BY TotalFits, MemAssumption
<1>2. \A x : x \in DOMAIN rawMem <=> x \in DOMAIN table \/ \E t \in MemThreads : x \in unlinked[t]
  BY RawPlaces DEF RawIInv
<1>3. a \notin DOMAIN table /\ \A t \in MemThreads : a \notin unlinked[t]
  BY <1>2
<1>4. DOMAIN table' = DOMAIN table \cup {a} /\ DOMAIN rawMem' = DOMAIN rawMem \cup {a}
      /\ table'[a].total = Total(size) /\ table'[a].capacity = size /\ rawMem'[a] = Total(size)
      /\ (\A x \in DOMAIN table : table'[x] = table[x])
      /\ \A x \in DOMAIN rawMem : rawMem'[x] = rawMem[x]
  BY <1>3 DEF With
<1>5. RawTypeOK'
  BY <1>1, <1>4 DEF RawIInv, RawTypeOK
<1>6. \A x \in DOMAIN table' : /\ x \in DOMAIN rawMem' /\ rawMem'[x] = table'[x].total
                               /\ Hdr + table'[x].capacity <= rawMem'[x]
  <2>1. \A x \in DOMAIN table : /\ x \in DOMAIN rawMem /\ rawMem[x] = table[x].total
                                /\ Hdr + table[x].capacity <= rawMem[x]
    BY DEF RawIInv, RawTableSound
  <2> QED BY <1>1, <1>4, <2>1
<1>7. DOMAIN rawMem' = DOMAIN table' \cup UNION {unlinked'[t] : t \in MemThreads}
  <2>1. \A x : x \in DOMAIN rawMem' <=> x \in DOMAIN table' \/ \E t \in MemThreads : x \in unlinked'[t]
    BY <1>2, <1>4
  <2> QED BY <2>1, RawPlacesIntro
<1>8. \A t, u \in MemThreads : unlinked'[t] \cap (DOMAIN table' \cup (IF t = u THEN {} ELSE unlinked'[u])) = {}
  BY <1>3, <1>4 DEF RawIInv, RawTableSound
<1>9. ambient' = SumFunction(BlockSizes')
  <2>1. DOMAIN BlockSizes = DOMAIN table /\ DOMAIN BlockSizes' = DOMAIN BlockSizes \cup {a}
        /\ a \notin DOMAIN BlockSizes /\ BlockSizes'[a] = Total(size)
    BY <1>3, <1>4 DEF BlockSizes
  <2>2. \A x \in DOMAIN BlockSizes : BlockSizes[x] \in Nat /\ BlockSizes'[x] = BlockSizes[x]
    BY <1>4 DEF BlockSizes, RawIInv, RawTypeOK
  <2>3. IsFiniteSet(DOMAIN BlockSizes)
    BY <2>1, FS_Subset, MemAssumption DEF RawIInv, RawTypeOK
  <2>4. SumFunction(BlockSizes') = SumFunction(BlockSizes) + BlockSizes'[a]
    BY <1>1, <2>1, <2>2, <2>3, BlocksAdd
  <2>5. ambient = SumFunction(BlockSizes)
    BY DEF RawIInv, RawTableSound
  <2> QED BY <2>1, <2>4, <2>5
<1>10. RawTableSound'
  BY <1>6, <1>7, <1>8, <1>9 DEF RawTableSound
<1> QED BY <1>5, <1>10 DEF RawIInv

(* oo_free, the section under the lock: the block leaves the table and the sum. *)
LEMMA RawUnlink ==
  ASSUME RawIInv, NEW t \in MemThreads, NEW a \in Addrs, FreeUnlink(t, a)
  PROVE  RawIInv'
<1>1. a \in DOMAIN table /\ unlinked[t] = {} /\ rawMem' = rawMem
      /\ DOMAIN table' = DOMAIN table \ {a} /\ \A x \in DOMAIN table \ {a} : table'[x] = table[x]
  BY DEF FreeUnlink, Drop
<1>2. unlinked'[t] = {a} /\ \A u \in MemThreads \ {t} : unlinked'[u] = unlinked[u]
  BY DEF FreeUnlink, RawIInv, RawTypeOK
<1>3. RawTypeOK'
  <2>1. unlinked' \in [MemThreads -> SUBSET Addrs]
    BY DEF FreeUnlink, RawIInv, RawTypeOK
  <2> QED BY <1>1, <2>1 DEF RawIInv, RawTypeOK
<1>4. \A x : x \in DOMAIN rawMem <=> x \in DOMAIN table \/ \E u \in MemThreads : x \in unlinked[u]
  BY RawPlaces DEF RawIInv
<1>5. \A x \in DOMAIN table' : /\ x \in DOMAIN rawMem' /\ rawMem'[x] = table'[x].total
                               /\ Hdr + table'[x].capacity <= rawMem'[x]
  BY <1>1 DEF RawIInv, RawTableSound
<1>6. DOMAIN rawMem' = DOMAIN table' \cup UNION {unlinked'[u] : u \in MemThreads}
  <2>1. \A x : x \in DOMAIN rawMem' <=> x \in DOMAIN table' \/ \E u \in MemThreads : x \in unlinked'[u]
    BY <1>1, <1>2, <1>4
  <2> QED BY <2>1, RawPlacesIntro
<1>7. \A u, v \in MemThreads : unlinked'[u] \cap (DOMAIN table' \cup (IF u = v THEN {} ELSE unlinked'[v])) = {}
  <2>1. \A u \in MemThreads : unlinked[u] \cap DOMAIN table = {}
    BY DEF RawIInv, RawTableSound
  <2>2. \A u, v \in MemThreads : u # v => unlinked[u] \cap unlinked[v] = {}
    BY DEF RawIInv, RawTableSound
  <2>3. \A u \in MemThreads : a \notin unlinked[u]
    BY <1>1, <2>1
  <2>4. \A u \in MemThreads : unlinked'[u] \cap DOMAIN table' = {}
    BY <1>1, <1>2, <2>1
  <2>5. \A u, v \in MemThreads : u # v => unlinked'[u] \cap unlinked'[v] = {}
    BY <1>2, <2>2, <2>3
  <2> QED BY <2>4, <2>5
<1>8. ambient' = SumFunction(BlockSizes')
  <2>1. DOMAIN BlockSizes' = DOMAIN table \ {a} /\ DOMAIN BlockSizes = DOMAIN BlockSizes' \cup {a}
        /\ a \notin DOMAIN BlockSizes' /\ BlockSizes[a] = table[a].total
    BY <1>1 DEF BlockSizes
  <2>2. \A x \in DOMAIN BlockSizes' : BlockSizes'[x] \in Nat /\ BlockSizes[x] = BlockSizes'[x]
    BY <1>1 DEF BlockSizes, RawIInv, RawTypeOK
  <2>3. IsFiniteSet(DOMAIN BlockSizes')
    BY <1>1, <2>1, FS_Subset, MemAssumption DEF RawIInv, RawTypeOK
  <2>4. BlockSizes[a] \in Nat
    BY <1>1, <2>1 DEF RawIInv, RawTypeOK
  <2>5. SumFunction(BlockSizes) = SumFunction(BlockSizes') + BlockSizes[a] /\ SumFunction(BlockSizes') \in Nat
    BY <2>1, <2>2, <2>3, <2>4, BlocksAdd
  <2>6. ambient = SumFunction(BlockSizes) /\ ambient' = Max({0, ambient - table[a].total})
    BY DEF RawIInv, RawTableSound, FreeUnlink
  <2>7. ASSUME NEW n \in Nat PROVE Max({0, n}) = n
    BY DEF Max
  <2>8. ambient - table[a].total = SumFunction(BlockSizes')
    BY <2>1, <2>4, <2>5, <2>6
  <2> QED BY <2>5, <2>6, <2>7, <2>8
<1>9. RawTableSound'
  BY <1>5, <1>6, <1>7, <1>8 DEF RawTableSound
<1> QED BY <1>3, <1>9 DEF RawIInv

(* The free() after it. *)
LEMMA RawFree ==
  ASSUME RawIInv, NEW t \in MemThreads, FreeMemory(t)
  PROVE  RawIInv'
<1>1. table' = table /\ ambient' = ambient /\ DOMAIN rawMem' = DOMAIN rawMem \ unlinked[t]
      /\ \A x \in DOMAIN rawMem' : rawMem'[x] = rawMem[x]
  BY DEF FreeMemory
<1>2. unlinked'[t] = {} /\ \A u \in MemThreads \ {t} : unlinked'[u] = unlinked[u]
  BY DEF FreeMemory, RawIInv, RawTypeOK
<1>3. RawTypeOK'
  <2>1. unlinked' \in [MemThreads -> SUBSET Addrs]
    BY DEF FreeMemory, RawIInv, RawTypeOK
  <2> QED BY <1>1, <2>1 DEF RawIInv, RawTypeOK
<1>4. \A x : x \in DOMAIN rawMem <=> x \in DOMAIN table \/ \E u \in MemThreads : x \in unlinked[u]
  BY RawPlaces DEF RawIInv
<1>5. \A u \in MemThreads : unlinked[u] \cap DOMAIN table = {}
  BY DEF RawIInv, RawTableSound
<1>6. \A u, v \in MemThreads : u # v => unlinked[u] \cap unlinked[v] = {}
  BY DEF RawIInv, RawTableSound
<1>7. \A x \in DOMAIN table' : /\ x \in DOMAIN rawMem' /\ rawMem'[x] = table'[x].total
                               /\ Hdr + table'[x].capacity <= rawMem'[x]
  BY <1>1, <1>5 DEF RawIInv, RawTableSound
<1>8. DOMAIN rawMem' = DOMAIN table' \cup UNION {unlinked'[u] : u \in MemThreads}
  <2>1. \A x : x \in DOMAIN rawMem' <=> x \in DOMAIN table' \/ \E u \in MemThreads : x \in unlinked'[u]
    BY <1>1, <1>2, <1>4, <1>5, <1>6
  <2> QED BY <2>1, RawPlacesIntro
<1>9. \A u, v \in MemThreads : unlinked'[u] \cap (DOMAIN table' \cup (IF u = v THEN {} ELSE unlinked'[v])) = {}
  <2>1. \A u \in MemThreads : unlinked'[u] \cap DOMAIN table' = {}
    BY <1>1, <1>2, <1>5
  <2>2. \A u, v \in MemThreads : u # v => unlinked'[u] \cap unlinked'[v] = {}
    BY <1>2, <1>6
  <2> QED BY <2>1, <2>2
<1>10. ambient' = SumFunction(BlockSizes')
  BY <1>1 DEF BlockSizes, RawIInv, RawTableSound
<1>11. RawTableSound'
  BY <1>7, <1>8, <1>9, <1>10 DEF RawTableSound
<1> QED BY <1>3, <1>11 DEF RawIInv

(* Marking one cache used or free leaves the others as they were. *)
LEMMA UseMarked ==
  ASSUME MapTypeOK, NEW t \in MemThreads, NEW b, cacheUse' = [cacheUse EXCEPT ![t] = b]
  PROVE  /\ DOMAIN cacheUse' = MemThreads /\ (cacheUse'[t] <=> b)
         /\ \A u \in MemThreads \ {t} : cacheUse'[u] <=> cacheUse[u]
BY Zenon DEF MapTypeOK

(* oo_alloc_large_mmap, a hit: the cached mapping was free, and is large enough. *)
LEMMA MapHit ==
  ASSUME MapIInv, NEW t \in MemThreads, NEW n \in Pages,
         cacheBlk[t] # NoMap, ~ cacheUse[t], cacheSz[t] >= n,
         large' = With(large, cacheBlk[t], n), cacheUse' = [cacheUse EXCEPT ![t] = TRUE],
         maps' = maps, cacheBlk' = cacheBlk, cacheSz' = cacheSz
  PROVE  MapIInv'
<1> DEFINE c == cacheBlk[t]
<1>1. n \in Nat /\ c \in Maps
  BY MemAssumption DEF MapIInv, MapTypeOK
<1>2. c \in DOMAIN maps \ DOMAIN large /\ cacheSz[t] = maps[c]
  BY DEF MapIInv, PayloadBacked
<1>3. DOMAIN large' = DOMAIN large \cup {c} /\ large'[c] = n /\ \A m \in DOMAIN large : large'[m] = large[m]
  BY <1>2 DEF With
<1>4. DOMAIN cacheUse' = MemThreads /\ cacheUse'[t] /\ \A u \in MemThreads \ {t} : cacheUse'[u] <=> cacheUse[u]
  BY UseMarked DEF MapIInv
<1>5. MapTypeOK'
  BY <1>1, <1>3, <1>4 DEF MapIInv, MapTypeOK
<1>6. CachesApart' /\ CacheSized'
  BY DEF MapIInv, CachesApart, CacheSized
<1>7. \A m \in DOMAIN large' : m \in DOMAIN maps' /\ large'[m] <= maps'[m]
  BY <1>2, <1>3 DEF MapIInv, PayloadBacked
<1>8. ASSUME NEW u \in MemThreads, cacheBlk'[u] # NoMap, ~ cacheUse'[u]
      PROVE  cacheBlk'[u] \in DOMAIN maps' \ DOMAIN large' /\ cacheSz'[u] = maps'[cacheBlk'[u]]
  <2>1. u # t
    BY <1>4, <1>8
  <2>2. ~ cacheUse[u]
    BY <1>4, <1>8, <2>1
  <2>3. cacheBlk[u] \in DOMAIN maps \ DOMAIN large /\ cacheSz[u] = maps[cacheBlk[u]]
    BY <1>8, <2>2 DEF MapIInv, PayloadBacked
  <2>4. cacheBlk[u] # c
    BY <1>8, <2>1 DEF MapIInv, CachesApart
  <2> QED BY <1>3, <2>3, <2>4
<1>9. PayloadBacked'
  BY <1>7, <1>8 DEF PayloadBacked
<1> QED BY <1>5, <1>6, <1>9 DEF MapIInv

(* oo_alloc_large_mmap, a miss: k is what stays mapped once a free mapping that is too small *)
(* is gone, b the mapping the cache still names, if any.                                     *)
LEMMA MapMiss ==
  ASSUME MapIInv, NEW t \in MemThreads, NEW n \in Pages, NEW k, NEW b,
         \/ cacheBlk[t] # NoMap /\ ~ cacheUse[t] /\ k = Drop(maps, cacheBlk[t]) /\ b = NoMap
         \/ ~ (cacheBlk[t] # NoMap /\ ~ cacheUse[t]) /\ k = maps /\ b = cacheBlk[t],
         NEW m \in Maps, m \notin DOMAIN k, m # b, \A u \in MemThreads \ {t} : cacheBlk[u] # m,
         maps' = With(k, m, n), large' = With(large, m, n),
         cacheBlk' = [cacheBlk EXCEPT ![t] = IF b = NoMap THEN m ELSE b],
         cacheSz' = [cacheSz EXCEPT ![t] = IF b = NoMap THEN n ELSE @],
         cacheUse' = [cacheUse EXCEPT ![t] = TRUE]
  PROVE  MapIInv'
<1>1. n \in Nat /\ cacheBlk \in [MemThreads -> Maps \cup {NoMap}] /\ cacheSz \in [MemThreads -> Nat]
  BY MemAssumption DEF MapIInv, MapTypeOK
<1>2. DOMAIN k \subseteq DOMAIN maps /\ DOMAIN large \subseteq DOMAIN k
      /\ \A x \in DOMAIN k : k[x] = maps[x]
  BY DEF MapIInv, PayloadBacked, Drop
<1>3. \A u \in MemThreads \ {t} : cacheBlk[u] \in DOMAIN maps /\ cacheBlk[u] # NoMap => cacheBlk[u] \in DOMAIN k
  BY DEF MapIInv, CachesApart, Drop
<1>4. b = NoMap \/ (b = cacheBlk[t] /\ b # NoMap)
  OBVIOUS
<1>5. DOMAIN maps' = DOMAIN k \cup {m} /\ maps'[m] = n /\ \A x \in DOMAIN k : maps'[x] = maps[x]
  BY <1>2 DEF With
<1>6. m \notin DOMAIN large /\ DOMAIN large' = DOMAIN large \cup {m} /\ large'[m] = n
      /\ \A x \in DOMAIN large : large'[x] = large[x]
  BY <1>2 DEF With
<1>7. DOMAIN cacheUse' = MemThreads /\ cacheUse'[t] /\ \A u \in MemThreads \ {t} : cacheUse'[u] <=> cacheUse[u]
  BY UseMarked DEF MapIInv
<1>8. \A u \in MemThreads \ {t} : cacheBlk'[u] = cacheBlk[u] /\ cacheSz'[u] = cacheSz[u]
  BY <1>1
<1>9. \/ cacheBlk'[t] = m /\ cacheSz'[t] = n
      \/ cacheBlk'[t] = b /\ cacheSz'[t] = cacheSz[t] /\ b = cacheBlk[t] /\ b # NoMap
  BY <1>1, <1>4
<1>10. MapTypeOK'
  <2>1. \A x \in DOMAIN maps' : maps'[x] \in Nat
    BY <1>1, <1>2, <1>5 DEF MapIInv, MapTypeOK
  <2>2. \A x \in DOMAIN large' : large'[x] \in Nat /\ x \in Maps
    BY <1>1, <1>6 DEF MapIInv, MapTypeOK
  <2>3. cacheBlk' \in [MemThreads -> Maps \cup {NoMap}]
    BY <1>1, <1>4
  <2>4. cacheSz' \in [MemThreads -> Nat]
    BY <1>1
  <2> QED BY <1>7, <2>1, <2>2, <2>3, <2>4 DEF MapTypeOK
<1>11. CachesApart'
  BY <1>8, <1>9 DEF MapIInv, CachesApart
<1>12. CacheSized'
  <2>1. \A u \in MemThreads : cacheBlk[u] \in DOMAIN maps => cacheSz[u] = maps[cacheBlk[u]]
    BY DEF MapIInv, CacheSized
  <2>2. \A u \in MemThreads \ {t} : cacheBlk'[u] \in DOMAIN maps' => cacheSz'[u] = maps'[cacheBlk'[u]]
    BY <1>2, <1>5, <1>8, <2>1
  <2>3. cacheBlk'[t] \in DOMAIN maps' => cacheSz'[t] = maps'[cacheBlk'[t]]
    BY <1>2, <1>5, <1>9, <2>1
  <2> QED BY <2>2, <2>3 DEF CacheSized
<1>13. \A x \in DOMAIN large' : x \in DOMAIN maps' /\ large'[x] <= maps'[x]
  BY <1>1, <1>2, <1>5, <1>6 DEF MapIInv, PayloadBacked
<1>14. ASSUME NEW u \in MemThreads, cacheBlk'[u] # NoMap, ~ cacheUse'[u]
       PROVE  cacheBlk'[u] \in DOMAIN maps' \ DOMAIN large' /\ cacheSz'[u] = maps'[cacheBlk'[u]]
  <2>1. u # t
    BY <1>7, <1>14
  <2>2. ~ cacheUse[u]
    BY <1>7, <1>14, <2>1
  <2>3. cacheBlk'[u] = cacheBlk[u] /\ cacheSz'[u] = cacheSz[u] /\ cacheBlk[u] # m
    BY <1>8, <2>1
  <2>4. cacheBlk[u] \in DOMAIN maps \ DOMAIN large /\ cacheSz[u] = maps[cacheBlk[u]]
    BY <1>14, <2>2, <2>3 DEF MapIInv, PayloadBacked
  <2>5. cacheBlk[u] \in DOMAIN k
    BY <1>3, <1>14, <2>1, <2>3, <2>4
  <2> QED BY <1>5, <1>6, <2>3, <2>4, <2>5
<1>15. PayloadBacked'
  BY <1>13, <1>14 DEF PayloadBacked
<1> QED BY <1>10, <1>11, <1>12, <1>15 DEF MapIInv

LEMMA MapAlloc ==
  ASSUME MapIInv, NEW t \in MemThreads, NEW n \in Pages, oo_alloc_large_mmap(t, n)
  PROVE  MapIInv'
<1> DEFINE own  == cacheBlk[t] # NoMap /\ ~ cacheUse[t]
           hit  == own /\ cacheSz[t] >= n
           kept == IF own /\ ~ hit THEN Drop(maps, cacheBlk[t]) ELSE maps
           blk  == IF own /\ ~ hit THEN NoMap ELSE cacheBlk[t]
<1>1. CASE hit
  BY <1>1, MapHit DEF oo_alloc_large_mmap
<1>2. CASE ~ hit
  <2>1. PICK m \in Maps \ (DOMAIN kept \cup {cacheBlk[u] : u \in MemThreads \ {t}} \cup {blk}) :
               /\ maps' = With(kept, m, n)
               /\ large' = With(large, m, n)
               /\ cacheBlk' = [cacheBlk EXCEPT ![t] = IF blk = NoMap THEN m ELSE blk]
               /\ cacheSz' = [cacheSz EXCEPT ![t] = IF blk = NoMap THEN n ELSE @]
               /\ cacheUse' = [cacheUse EXCEPT ![t] = TRUE]
    BY <1>2, Zenon DEF oo_alloc_large_mmap
  <2>2. m \in Maps /\ m \notin DOMAIN kept /\ m # blk /\ \A u \in MemThreads \ {t} : cacheBlk[u] # m
    BY <2>1, Zenon
  <2>3. \/ cacheBlk[t] # NoMap /\ ~ cacheUse[t] /\ kept = Drop(maps, cacheBlk[t]) /\ blk = NoMap
        \/ ~ (cacheBlk[t] # NoMap /\ ~ cacheUse[t]) /\ kept = maps /\ blk = cacheBlk[t]
    BY <1>2
  <2> HIDE DEF own, hit, kept, blk
  <2> QED BY <2>1, <2>2, <2>3, MapMiss
<1> QED BY <1>1, <1>2

(* oo_payload_free: an own cached mapping is free again, any other is gone, and a cache that *)
(* still names it is in use.                                                                 *)
LEMMA MapFree ==
  ASSUME MapIInv, NEW t \in MemThreads, NEW m \in Maps, oo_payload_free(t, m)
  PROVE  MapIInv'
<1>1. m \in DOMAIN large /\ DOMAIN large' = DOMAIN large \ {m} /\ \A x \in DOMAIN large' : large'[x] = large[x]
  BY DEF oo_payload_free, Drop
<1>2. cacheBlk' = cacheBlk /\ cacheSz' = cacheSz
  BY DEF oo_payload_free
<1>3. m \in DOMAIN maps /\ m # NoMap
  BY <1>1, MemAssumption DEF MapIInv, PayloadBacked
<1>4. CachesApart'
  BY <1>2 DEF MapIInv, CachesApart
<1>5. CASE m = cacheBlk[t]
  <2>1. maps' = maps /\ cacheUse' = [cacheUse EXCEPT ![t] = FALSE]
    BY <1>5, Zenon DEF oo_payload_free
  <2>2. DOMAIN cacheUse' = MemThreads /\ \A u \in MemThreads \ {t} : cacheUse'[u] <=> cacheUse[u]
    BY <2>1, UseMarked DEF MapIInv
  <2>3. MapTypeOK'
    BY <1>1, <1>2, <2>1, <2>2 DEF MapIInv, MapTypeOK
  <2>4. CacheSized'
    BY <1>2, <2>1 DEF MapIInv, CacheSized
  <2>5. \A x \in DOMAIN large' : x \in DOMAIN maps' /\ large'[x] <= maps'[x]
    BY <1>1, <2>1 DEF MapIInv, PayloadBacked
  <2>6. ASSUME NEW u \in MemThreads, cacheBlk'[u] # NoMap, ~ cacheUse'[u]
        PROVE  cacheBlk'[u] \in DOMAIN maps' \ DOMAIN large' /\ cacheSz'[u] = maps'[cacheBlk'[u]]
    <3>1. CASE u = t
      BY <1>1, <1>2, <1>3, <1>5, <2>1, <3>1 DEF MapIInv, CacheSized
    <3>2. CASE u # t
      <4>1. ~ cacheUse[u]
        BY <2>2, <2>6, <3>2
      <4> QED BY <1>1, <1>2, <2>1, <2>6, <4>1 DEF MapIInv, PayloadBacked
    <3> QED BY <3>1, <3>2
  <2>7. PayloadBacked'
    BY <2>5, <2>6 DEF PayloadBacked
  <2> QED BY <1>4, <2>3, <2>4, <2>7 DEF MapIInv
<1>6. CASE m # cacheBlk[t]
  <2>1. DOMAIN maps' = DOMAIN maps \ {m} /\ (\A x \in DOMAIN maps' : maps'[x] = maps[x]) /\ cacheUse' = cacheUse
    BY <1>6 DEF oo_payload_free, Drop
  <2>2. MapTypeOK'
    BY <1>1, <1>2, <2>1 DEF MapIInv, MapTypeOK
  <2>3. CacheSized'
    BY <1>2, <2>1 DEF MapIInv, CacheSized
  <2>4. PayloadBacked'
    BY <1>1, <1>2, <2>1 DEF MapIInv, PayloadBacked
  <2> QED BY <1>4, <2>2, <2>3, <2>4 DEF MapIInv
<1> QED BY <1>5, <1>6

(* Nothing is allocated at first. *)
LEMMA MemInitial == ASSUME MemInit PROVE MemIInv
<1>1. DOMAIN table = {} /\ DOMAIN rawMem = {} /\ DOMAIN maps = {} /\ DOMAIN large = {} /\ ambient = 0
  BY DEF MemInit
<1>2. unlinked = [t \in MemThreads |-> {}] /\ cacheBlk = [t \in MemThreads |-> NoMap]
      /\ cacheSz = [t \in MemThreads |-> 0] /\ DOMAIN cacheUse = MemThreads
  BY DEF MemInit
<1>3. RawTypeOK /\ MapTypeOK
  BY <1>1, <1>2 DEF RawTypeOK, MapTypeOK
<1>4. CachesApart /\ CacheSized /\ PayloadBacked
  BY <1>1, <1>2 DEF CachesApart, CacheSized, PayloadBacked
<1>5. ambient = SumFunction(BlockSizes)
  <2>1. DOMAIN BlockSizes = {}
    BY <1>1 DEF BlockSizes
  <2>2. SumFunctionOnSet(BlockSizes, {}) = 0
    BY FS_EmptySet, SumProperties DEF Summable
  <2> QED BY <1>1, <2>1, <2>2 DEF SumFunction
<1>6. DOMAIN rawMem = DOMAIN table \cup UNION {unlinked[t] : t \in MemThreads}
  BY <1>1, <1>2
<1>7. RawTableSound
  BY <1>1, <1>2, <1>5, <1>6 DEF RawTableSound
<1> QED BY <1>3, <1>4, <1>7 DEF MemIInv, RawIInv, MapIInv

(* Each half of the allocators leaves the other's books alone. *)
LEMMA RawQuiet ==
  ASSUME RawIInv, rawMem' = rawMem, table' = table, ambient' = ambient, unlinked' = unlinked
  PROVE  RawIInv'
BY DEF RawIInv, RawTypeOK, RawTableSound, BlockSizes

LEMMA MapQuiet ==
  ASSUME MapIInv, mapVars' = mapVars
  PROVE  MapIInv'
BY DEF MapIInv, MapTypeOK, CachesApart, CacheSized, PayloadBacked, mapVars

(* Every step keeps the books. *)
LEMMA MemStep == ASSUME MemIInv, [MemNext]_memVars PROVE MemIInv'
<1>1. CASE UNCHANGED memVars
  BY <1>1, RawQuiet, MapQuiet DEF MemIInv, memVars, rawVars
<1>2. ASSUME NEW t \in MemThreads, NEW s \in RawSizes, oo_alloc(t, s)
      PROVE  MemIInv'
  <2>1. MapIInv'
    BY <1>2, MapQuiet DEF MemIInv, oo_alloc
  <2>2. CASE UNCHANGED <<rawMem, table, ambient, unlinked>>
    BY <2>1, <2>2, RawQuiet DEF MemIInv
  <2>3. CASE ~ UNCHANGED <<rawMem, table, ambient, unlinked>>
    <3>1. PICK a \in Addrs \ DOMAIN rawMem :
             /\ rawMem' = With(rawMem, a, Total(s)) /\ ambient' = ambient + Total(s)
             /\ table' = With(table, a, [total |-> Total(s), capacity |-> s])
      BY <1>2, <2>3 DEF oo_alloc, rawVars
    <3>2. unlinked' = unlinked
      BY <1>2 DEF oo_alloc, rawVars
    <3> QED BY <2>1, <3>1, <3>2, RawAlloc DEF MemIInv
  <2> QED BY <2>2, <2>3
<1>3. ASSUME NEW t \in MemThreads, NEW a \in Addrs, FreeUnlink(t, a)
      PROVE  MemIInv'
  BY <1>3, RawUnlink, MapQuiet DEF MemIInv, FreeUnlink
<1>4. ASSUME NEW t \in MemThreads, NEW a \in Addrs, NEW i, Access(t, a, i)
      PROVE  MemIInv'
  BY <1>4, RawQuiet, MapQuiet DEF MemIInv, Access, rawVars
<1>5. ASSUME NEW t \in MemThreads, FreeMemory(t)
      PROVE  MemIInv'
  BY <1>5, RawFree, MapQuiet DEF MemIInv, FreeMemory
<1>6. ASSUME NEW t \in MemThreads, NEW n \in Raises, oo_alloc_bytes(t, n) \/ oo_free_bytes(t, n)
      PROVE  MemIInv'
  BY <1>6, RawQuiet, MapQuiet DEF MemIInv, oo_alloc_bytes, oo_free_bytes
<1>7. ASSUME NEW t \in MemThreads, NEW n \in Pages, oo_alloc_large_mmap(t, n)
      PROVE  MemIInv'
  BY <1>7, RawQuiet, MapAlloc DEF MemIInv, oo_alloc_large_mmap, rawVars
<1>8. ASSUME NEW t \in MemThreads, NEW m \in Maps, oo_payload_free(t, m)
      PROVE  MemIInv'
  BY <1>8, RawQuiet, MapFree DEF MemIInv, oo_payload_free, rawVars
<1> QED BY <1>1, <1>2, <1>3, <1>4, <1>5, <1>6, <1>7, <1>8 DEF MemNext

(* For any threads, addresses and sizes, the two allocators of alloc.c and align.c keep      *)
(* their books: the table of raw blocks matches memory and the ambient counter is its sum,   *)
(* and every large payload has a mapping of its own that is large enough.                    *)
THEOREM MemoryCorrect == MemSpec => []MemorySound
<1>1. MemInit => MemIInv
  BY MemInitial
<1>2. MemIInv /\ [MemNext]_memVars => MemIInv'
  BY MemStep
<1>3. MemIInv => MemorySound
  BY DEF MemIInv, RawIInv, MapIInv, MemorySound
<1> QED BY <1>1, <1>2, <1>3, PTL DEF MemSpec
-----------------------------------------------------------------------------
(***************************************************************************)
(* Kernel launches.                                                        *)
(***************************************************************************)
\* The operands of a call are as long as its kernel touches them.
Covers(kind, d, l) ==
  \A i \in DOMAIN Need(kind, d) :
    /\ Need(kind, d)[i] > 0
    /\ l[i] >= Need(kind, d)[i] \/ (kind = "rmsnorm" /\ i = 2 /\ l[i] = 0)

GlTypeOK ==
  /\ loaded \in [Backends -> SUBSET HipKinds] /\ lib \in [Backends -> SUBSET HipKinds]
  /\ DOMAIN gpc = GlThreads /\ DOMAIN gcall = GlThreads /\ DOMAIN host = GlThreads

\* A library that was not looked for has no launchers, and no launcher comes from elsewhere.
GlBound == \A b \in Backends : loaded[b] \subseteq lib[b] /\ (b \notin bound => loaded[b] = {})

GlLocal(t) ==
  /\ gpc[t] # "launch" => host[t] = 0
  /\ gpc[t] # "idle" => gcall[t].backend \in Backends /\ Covers(gcall[t].kind, gcall[t].dims, gcall[t].lens)
  /\ gpc[t] \in {"copy", "launch"} => gcall[t].kind \in loaded[gcall[t].backend]

GlIInv == GlTypeOK /\ GlBound /\ \A t \in GlThreads : GlLocal(t)

LEMMA TimesPositive == \A a, b \in Int : a > 0 /\ b > 0 => a * b > 0
OBVIOUS

(* What a kernel touches is positive when its dimensions are. *)
LEMMA NeedPositive ==
  ASSUME NEW kind \in HipKinds, NEW d \in [1 .. 3 -> Int],
         \A i \in 1 .. DimsOf(kind) : d[i] > 0, kind = "rope" => d[2] % 2 = 0
  PROVE  \A i \in DOMAIN Need(kind, d) : Need(kind, d)[i] \in Int /\ Need(kind, d)[i] > 0
<1> DEFINE x == d[1] y == d[2] z == d[3]
<1>1. x \in Int /\ y \in Int /\ z \in Int
  OBVIOUS
<1>2. CASE kind \in {"vec_add", "reduce_sum"}
  <2>1. x > 0
    BY <1>2 DEF DimsOf
  <2>2. Need(kind, d) = <<x, x, x>> \/ Need(kind, d) = <<x, 1>>
    BY <1>2 DEF Need
  <2> QED BY <1>1, <2>1, <2>2
<1>3. CASE kind \in {"rmsnorm", "attention", "rope"}
  <2>1. x > 0 /\ y > 0
    BY <1>3 DEF DimsOf
  <2> DEFINE p == x * y q == x * (y \div 2)
  <2>2. p \in Int /\ p > 0
    BY <1>1, <2>1, TimesPositive
  <2>3. q \in Int /\ (kind = "rope" => q > 0)
    <3>1. (y \div 2) \in Int /\ (kind = "rope" => (y \div 2) > 0)
      BY <1>1, <2>1
    <3> QED BY <1>1, <2>1, <3>1, TimesPositive
  <2>4. \/ Need(kind, d) = <<p, y, p>> \/ Need(kind, d) = <<p, p, p, p>>
        \/ kind = "rope" /\ Need(kind, d) = <<p, q, q, p>>
    BY <1>3 DEF Need
  <2> HIDE DEF p, q
  <2> QED BY <1>1, <2>1, <2>2, <2>3, <2>4
<1>4. CASE kind \in {"sgemm", "stencil_3d"}
  <2>1. x > 0 /\ y > 0 /\ z > 0
    BY <1>4 DEF DimsOf
  <2> DEFINE p == x * z q == z * y r == x * y u == x * y * z
  <2>2. p \in Int /\ p > 0 /\ q \in Int /\ q > 0 /\ r \in Int /\ r > 0
    BY <1>1, <2>1, TimesPositive
  <2>3. u \in Int /\ u > 0
    BY <1>1, <2>1, <2>2, TimesPositive
  <2>4. Need(kind, d) = <<p, q, r>> \/ Need(kind, d) = <<u, u>>
    BY <1>4 DEF Need
  <2> HIDE DEF p, q, r, u
  <2> QED BY <2>2, <2>3, <2>4
<1> QED BY <1>2, <1>3, <1>4 DEF HipKinds

LEMMA GlInitInv == GlInit => GlIInv
BY DEF GlInit, GlIInv, GlTypeOK, GlBound, GlLocal, Backends, HipKinds

\* What a step of t does to the other threads, and to what is bound: nothing that they would notice.
GlStep(t) ==
  /\ GlTypeOK' /\ GlBound' /\ GlLocal(t)'
  /\ \A u \in GlThreads \ {t} : gpc'[u] = gpc[u] /\ gcall'[u] = gcall[u] /\ host'[u] = host[u]
  /\ \A b \in Backends : loaded[b] \subseteq loaded'[b]

LEMMA GlLift ==
  ASSUME GlIInv, NEW t \in GlThreads, GlStep(t)
  PROVE  GlIInv'
<1>1. ASSUME NEW u \in GlThreads \ {t} PROVE GlLocal(u)'
  <2>1. gpc'[u] = gpc[u] /\ gcall'[u] = gcall[u] /\ host'[u] = host[u] /\ GlLocal(u)
    BY <1>1 DEF GlIInv, GlStep
  <2>2. gpc[u] \in {"copy", "launch"} => gcall[u].kind \in loaded'[gcall[u].backend]
    BY <2>1 DEF GlLocal, GlStep
  <2> QED BY <2>1, <2>2 DEF GlLocal
<1> QED BY <1>1 DEF GlIInv, GlStep

\* Every way to begin a call, and the refusals.
GlBegins(t, b, kind, d, l) ==
  /\ gpc[t] = "idle" /\ UNCHANGED <<hipOk, bound, loaded, lib, host>>
  /\ \/ GlReturn(t)
     \/ Covers(kind, d, l) /\ b \in Backends /\ \E form \in {"raw", "flist"} : GlCall(t, form, b, kind, d, l)

LEMMA GlBegin ==
  ASSUME GlIInv, NEW t \in GlThreads, NEW b, NEW kind, NEW d, NEW l, GlBegins(t, b, kind, d, l)
  PROVE  GlIInv'
<1>1. GlTypeOK' /\ GlBound' /\ \A c \in Backends : loaded[c] \subseteq loaded'[c]
  BY DEF GlBegins, GlReturn, GlCall, GGoto, GlIInv, GlTypeOK, GlBound
<1>2. \A u \in GlThreads \ {t} : gpc'[u] = gpc[u] /\ gcall'[u] = gcall[u] /\ host'[u] = host[u]
  BY DEF GlBegins, GlReturn, GlCall, GGoto, GlIInv, GlTypeOK
<1>3. GlLocal(t)'
  <2>1. host'[t] = 0
    BY DEF GlBegins, GlIInv, GlLocal
  <2>2. CASE GlReturn(t)
    BY <2>1, <2>2 DEF GlReturn, GGoto, GlLocal, GlIInv, GlTypeOK
  <2>3. ASSUME NEW form \in {"raw", "flist"}, GlCall(t, form, b, kind, d, l), Covers(kind, d, l), b \in Backends
        PROVE  GlLocal(t)'
    <3>1. /\ gpc'[t] = "bind" /\ gcall'[t].backend = b /\ gcall'[t].kind = kind
          /\ gcall'[t].dims = d /\ gcall'[t].lens = l
      BY <2>3 DEF GlCall, GGoto, GlIInv, GlTypeOK
    <3> QED BY <2>1, <2>3, <3>1 DEF GlLocal
  <2> QED BY <2>2, <2>3 DEF GlBegins
<1> QED BY <1>1, <1>2, <1>3, GlLift DEF GlStep

(* The launchers on pointers. *)
LEMMA GlLaunchers ==
  ASSUME GlIInv, NEW t \in GlThreads, NEW b \in Backends, NEW kind \in HipKinds, NEW d \in [1 .. 3 -> Int],
         NEW extra, kind = "rope" /\ extra => d[2] % 2 = 0, Launcher(t, b, kind, d, extra)
  PROVE  GlIInv'
<1>1. CASE (\A i \in 1 .. DimsOf(kind) : d[i] > 0) /\ extra
  <2>1. Covers(kind, d, Need(kind, d))
    BY <1>1, NeedPositive DEF Covers
  <2>2. GlBegins(t, b, kind, d, Need(kind, d))
    BY <1>1, <2>1 DEF Launcher, GlBegins
  <2> QED BY <2>2, GlBegin
<1>2. CASE ~ ((\A i \in 1 .. DimsOf(kind) : d[i] > 0) /\ extra)
  <2>1. GlBegins(t, b, kind, d, Need(kind, d))
    BY <1>2 DEF Launcher, GlBegins
  <2> QED BY <2>1, GlBegin
<1> QED BY <1>1, <1>2

LEMMA GlHip ==
  ASSUME GlIInv, NEW t \in GlThreads, NEW kind, NEW d \in [1 .. 3 -> Int], HipLaunch(t, kind, d)
  PROVE  GlIInv'
<1>1. PICK k \in HipKinds : \E extra : Launcher(t, "hip", k, d, extra) /\ (k = "rope" /\ extra => d[2] % 2 = 0)
  BY DEF HipLaunch, HipKinds, oo_gpu_hip_vec_add, oo_gpu_hip_sgemm, oo_gpu_hip_rmsnorm, oo_gpu_hip_attention,
         oo_gpu_hip_reduce_sum, oo_gpu_hip_rope, oo_gpu_hip_stencil_3d
<1> QED BY <1>1, GlLaunchers DEF Backends

LEMMA GlCuda ==
  ASSUME GlIInv, NEW t \in GlThreads, NEW kind, NEW d \in [1 .. 3 -> Int], CudaLaunch(t, kind, d)
  PROVE  GlIInv'
<1>1. PICK k \in HipKinds : Launcher(t, "cuda", k, d, TRUE) /\ k # "rope"
  BY DEF CudaLaunch, HipKinds, oo_gpu_cuda_vec_add, oo_gpu_cuda_sgemm, oo_gpu_cuda_rmsnorm,
         oo_gpu_cuda_attention, oo_gpu_cuda_reduce_sum
<1> QED BY <1>1, GlLaunchers DEF Backends

LEMMA GlRefused == ASSUME GlIInv, NEW t \in GlThreads, GlRefuse(t) PROVE GlIInv'
<1>1. GlBegins(t, "hip", "none", <<>>, <<>>)
  BY DEF GlRefuse, GlBegins
<1> QED BY <1>1, GlBegin

LEMMA GlPublic ==
  ASSUME GlIInv, NEW t \in GlThreads, NEW kind, NEW d \in [1 .. 3 -> Int], NEW name, NEW marker,
         oo_gpu_launch_kernel(t, name, marker, d) \/ oo_gpu_hip_try_launch(t, kind) \/ oo_gpu_cuda_try_launch(t, kind)
  PROVE  GlIInv'
<1>1. <<1, 1, 1>> \in [1 .. 3 -> Int]
  OBVIOUS
<1>2. \/ GlRefuse(t)
      \/ \E k, e \in {d, <<1, 1, 1>>} : HipLaunch(t, oo_gpu_classify_kernel(name, marker), e)
                                        \/ HipLaunch(t, kind, e) \/ CudaLaunch(t, kind, e)
  BY DEF oo_gpu_launch_kernel, oo_gpu_hip_try_launch, oo_gpu_cuda_try_launch
<1> QED BY <1>1, <1>2, GlRefused, GlHip, GlCuda

\* A tuple of four lengths as a sequence, and its first part.
LEMMA FourLengths ==
  ASSUME NEW l \in [1 .. 4 -> Nat], NEW n \in 1 .. 4
  PROVE  \A i \in 1 .. n : SubSeq(l, 1, n)[i] = l[i]
<1>1. l \in Seq(Nat)
  <2>1. 4 \in Nat
    OBVIOUS
  <2> QED BY <2>1, SeqDef, Zenon
<1>2. Len(l) = 4
  <2>1. Len(l) \in Nat /\ 1 .. Len(l) = 1 .. 4
    BY <1>1, LenProperties
  <2>2. \A m \in Nat : 1 .. m = 1 .. 4 => m = 4
    <3> SUFFICES ASSUME NEW m \in Nat, 1 .. m = 1 .. 4 PROVE m = 4
      OBVIOUS
    <3>1. 4 \in 1 .. m /\ (m >= 1 => m \in 1 .. 4)
      OBVIOUS
    <3> QED BY <3>1
  <2> QED BY <2>1, <2>2
<1> QED BY <1>1, <1>2, SubSeqProperties

(* The bounded buffers. *)
LEMMA GlBuffers ==
  ASSUME GlIInv, NEW t \in GlThreads, NEW l \in [1 .. 4 -> Nat],
         oo_gpu_hip_vec_add_buf(t, l) \/ oo_gpu_cuda_vec_add_buf(t, l)
  PROVE  GlIInv'
<1>1. PICK b \in Backends : VecAddBuf(t, b, l)
  BY DEF oo_gpu_hip_vec_add_buf, oo_gpu_cuda_vec_add_buf, Backends
<1>2. CASE (\A i \in 1 .. 3 : l[i] > 0) /\ l[1] = l[2] /\ l[1] = l[3]
  <2>1. \A i \in 1 .. 3 : SubSeq(l, 1, 3)[i] = l[i]
    BY FourLengths
  <2>2. Need("vec_add", <<l[1]>>) = <<l[1], l[1], l[1]>>
    BY DEF Need
  <2>3. Covers("vec_add", <<l[1]>>, SubSeq(l, 1, 3))
    <3>1. DOMAIN Need("vec_add", <<l[1]>>) = 1 .. 3
      BY <2>2
    <3>2. \A i \in 1 .. 3 : Need("vec_add", <<l[1]>>)[i] = l[1] /\ SubSeq(l, 1, 3)[i] = l[1]
      <4>1. \A i \in 1 .. 3 : l[i] = l[1] /\ i \in {1, 2, 3}
        <5>1. \A i \in 1 .. 3 : i = 1 \/ i = 2 \/ i = 3
          OBVIOUS
        <5> QED BY <1>2, <5>1, Zenon
      <4>2. \A i \in {1, 2, 3} : <<l[1], l[1], l[1]>>[i] = l[1]
        OBVIOUS
      <4> QED BY <2>1, <2>2, <4>1, <4>2, Zenon
    <3>3. l[1] \in Nat /\ l[1] > 0
      BY <1>2
    <3> QED BY <3>1, <3>2, <3>3 DEF Covers
  <2>4. GlBegins(t, b, "vec_add", <<l[1]>>, SubSeq(l, 1, 3))
    BY <1>1, <1>2, <2>3 DEF VecAddBuf, GlBegins
  <2> QED BY <2>4, GlBegin
<1>3. CASE ~ ((\A i \in 1 .. 3 : l[i] > 0) /\ l[1] = l[2] /\ l[1] = l[3])
  <2>1. GlBegins(t, b, "vec_add", <<l[1]>>, SubSeq(l, 1, 3))
    BY <1>1, <1>3 DEF VecAddBuf, GlBegins
  <2> QED BY <2>1, GlBegin
<1> QED BY <1>2, <1>3

(* The lists: every operand was compared with what the kernel touches. *)
LEMMA GlLists ==
  ASSUME GlIInv, NEW t \in GlThreads, NEW kind \in HipKinds \ {"rope", "stencil_3d"}, NEW d \in [1 .. 3 -> Int],
         NEW l \in [1 .. 4 -> Nat], FlistEntry(t, kind, d, l)
  PROVE  GlIInv'
<1> DEFINE need == Need(kind, d)
           ok == /\ \A i \in 1 .. DimsOf(kind) : d[i] > 0
                 /\ \A i \in 1 .. Len(need) :
                      oo_cuda_fl_ok(l[i], need[i]) \/ (kind = "rmsnorm" /\ i = 2 /\ l[i] = 0)
<1>1. DOMAIN need = 1 .. Len(need) /\ Len(need) \in 2 .. 4
  <2>1. PICK x, y, z, w : need \in {<<x, y>>, <<x, y, z>>, <<x, y, z, w>>}
    BY DEF Need, HipKinds
  <2> QED BY <2>1
<1>2. \A i \in DOMAIN need : SubSeq(l, 1, Len(need))[i] = l[i] /\ l[i] \in Nat
  <2>1. Len(need) \in 1 .. 4
    BY <1>1
  <2>2. \A i \in 1 .. Len(need) : SubSeq(l, 1, Len(need))[i] = l[i]
    BY <2>1, FourLengths
  <2> HIDE DEF need
  <2> QED BY <1>1, <2>2
<1>3. CASE ok
  <2>1. \A i \in DOMAIN need : need[i] \in Int /\ need[i] > 0
    BY <1>3, NeedPositive DEF HipKinds
  <2>2. Covers(kind, d, SubSeq(l, 1, Len(need)))
    BY <1>1, <1>2, <1>3, <2>1 DEF Covers, oo_cuda_fl_ok
  <2>3. GlBegins(t, "cuda", kind, d, SubSeq(l, 1, Len(need)))
    BY <1>3, <2>2 DEF FlistEntry, GlBegins, Backends
  <2> QED BY <2>3, GlBegin
<1>4. CASE ~ ok
  <2>1. GlBegins(t, "cuda", kind, d, SubSeq(l, 1, Len(need)))
    BY <1>4 DEF FlistEntry, GlBegins
  <2> QED BY <2>1, GlBegin
<1> QED BY <1>3, <1>4

(* The binding, which any thread may run first, the copies and the kernel. *)
LEMMA GlBinds ==
  ASSUME GlIInv, NEW t \in GlThreads, NEW b \in Backends, SoBind(t, b)
  PROVE  GlIInv'
<1>1. PICK found : /\ found = IF b \in bound THEN loaded[b] ELSE lib[b] \cap KindsOf(b)
                   /\ bound' = bound \cup {b} /\ loaded' = [loaded EXCEPT ![b] = found]
                   /\ \/ /\ gcall[t].kind \in found /\ UNCHANGED gcall
                         /\ GGoto(t, IF gcall[t].form = "flist" THEN "copy" ELSE "launch")
                      \/ GlReturn(t)
  BY DEF SoBind
<1>2. gpc[t] = "bind" /\ gcall[t].backend = b /\ UNCHANGED <<lib, host>>
  BY DEF SoBind
<1>3. found \subseteq lib[b] /\ loaded[b] \subseteq found /\ found \subseteq HipKinds
  BY <1>1 DEF GlIInv, GlBound, GlTypeOK
<1>4. GlTypeOK' /\ GlBound' /\ \A c \in Backends : loaded[c] \subseteq loaded'[c]
  BY <1>1, <1>2, <1>3 DEF GlReturn, GGoto, GlIInv, GlTypeOK, GlBound
<1>5. \A u \in GlThreads \ {t} : gpc'[u] = gpc[u] /\ gcall'[u] = gcall[u] /\ host'[u] = host[u]
  BY <1>1, <1>2 DEF GlReturn, GGoto, GlIInv, GlTypeOK
<1>6. GlLocal(t)'
  <2>0. host'[t] = 0 /\ loaded'[b] = found
    BY <1>1, <1>2 DEF GlIInv, GlLocal, GlTypeOK
  <2>1. CASE GlReturn(t)
    BY <2>0, <2>1 DEF GlReturn, GGoto, GlLocal, GlIInv, GlTypeOK
  <2>2. CASE gcall[t].kind \in found /\ UNCHANGED gcall /\ GGoto(t, IF gcall[t].form = "flist" THEN "copy" ELSE "launch")
    BY <1>2, <2>0, <2>2 DEF GGoto, GlLocal, GlIInv, GlTypeOK
  <2> QED BY <1>1, <2>1, <2>2
<1> QED BY <1>4, <1>5, <1>6, GlLift DEF GlStep

LEMMA GlRuns ==
  ASSUME GlIInv, NEW t \in GlThreads, CopyIn(t) \/ Launch(t)
  PROVE  GlIInv'
<1>1. /\ UNCHANGED <<bound, loaded, lib>>
      /\ \/ GlReturn(t) /\ host' = [host EXCEPT ![t] = 0]
         \/ GlReturn(t) /\ UNCHANGED host /\ gpc[t] = "copy"
         \/ /\ gpc[t] = "copy" /\ GGoto(t, "launch") /\ UNCHANGED gcall
            /\ \E n : host' = [host EXCEPT ![t] = n]
  BY DEF CopyIn, Launch
<1>2. GlTypeOK' /\ GlBound' /\ \A c \in Backends : loaded[c] \subseteq loaded'[c]
  BY <1>1 DEF GlReturn, GGoto, GlIInv, GlTypeOK, GlBound
<1>3. \A u \in GlThreads \ {t} : gpc'[u] = gpc[u] /\ gcall'[u] = gcall[u] /\ host'[u] = host[u]
  BY <1>1 DEF GlReturn, GGoto, GlIInv, GlTypeOK
<1>4. GlLocal(t)'
  BY <1>1 DEF GlReturn, GGoto, GlIInv, GlTypeOK, GlLocal
<1> QED BY <1>2, <1>3, <1>4, GlLift DEF GlStep

LEMMA GlStepInv == GlIInv /\ [GlNext]_glVars => GlIInv'
<1> SUFFICES ASSUME GlIInv, [GlNext]_glVars PROVE GlIInv'
  OBVIOUS
<1>1. CASE UNCHANGED glVars
  BY <1>1 DEF glVars, GlIInv, GlTypeOK, GlBound, GlLocal
<1>2. ASSUME NEW t \in GlThreads, NEW d \in Dims, NEW l \in Lens,
             \/ oo_gpu_cuda_vec_add_flist(t, d, l) \/ oo_gpu_cuda_sgemm_flist(t, d, l)
             \/ oo_gpu_cuda_rmsnorm_flist(t, d, l) \/ oo_gpu_cuda_attention_flist(t, d, l)
             \/ oo_gpu_cuda_reduce_sum_flist(t, d, l)
      PROVE  GlIInv'
  <2>1. \E kind \in HipKinds \ {"rope", "stencil_3d"} : FlistEntry(t, kind, d, l)
    BY <1>2 DEF oo_gpu_cuda_vec_add_flist, oo_gpu_cuda_sgemm_flist, oo_gpu_cuda_rmsnorm_flist,
                oo_gpu_cuda_attention_flist, oo_gpu_cuda_reduce_sum_flist, HipKinds
  <2> QED BY <2>1, GlLists, GlAssumption
<1>3. ASSUME NEW t \in GlThreads, NEW l \in Lens, oo_gpu_hip_vec_add_buf(t, l) \/ oo_gpu_cuda_vec_add_buf(t, l)
      PROVE  GlIInv'
  BY <1>3, GlBuffers, GlAssumption
<1>4. ASSUME NEW t \in GlThreads, NEW kind, NEW d \in Dims, CudaLaunch(t, kind, d)
      PROVE  GlIInv'
  BY <1>4, GlCuda, GlAssumption
<1>5. ASSUME NEW t \in GlThreads, NEW name, NEW marker, NEW d \in Dims \cup {<<1, 1, 1>>},
             oo_gpu_launch_kernel(t, name, marker, d)
      PROVE  GlIInv'
  <2>1. <<1, 1, 1>> \in [1 .. 3 -> Int]
    OBVIOUS
  <2>2. d \in [1 .. 3 -> Int]
    BY <2>1, GlAssumption, Zenon
  <2> QED BY <1>5, <2>2, GlPublic
<1>6. ASSUME NEW t \in GlThreads, NEW kind, oo_gpu_hip_try_launch(t, kind) \/ oo_gpu_cuda_try_launch(t, kind)
      PROVE  GlIInv'
  <2>1. <<1, 1, 1>> \in [1 .. 3 -> Int]
    OBVIOUS
  <2> QED BY <1>6, <2>1, GlPublic
<1>7. ASSUME NEW t \in GlThreads, oo_hip_so_bind(t) \/ oo_cuda_so_bind(t) \/ CopyIn(t) \/ Launch(t)
      PROVE  GlIInv'
  BY <1>7, GlBinds, GlRuns DEF oo_hip_so_bind, oo_cuda_so_bind, Backends
<1>8. CASE GlNext
  BY <1>8, <1>2, <1>3, <1>4, <1>5, <1>6, <1>7, Zenon DEF GlNext
<1> QED BY <1>1, <1>8

(***************************************************************************)
(* The theorem on launches, for any dimensions, lengths and number of      *)
(* threads: whichever entry a kernel is launched by, the symbol was found  *)
(* in the library by whichever thread bound it first, and no kernel is     *)
(* started on an operand shorter than what it touches (oo_cuda_fl_ok and   *)
(* the dimension tests of the dispatch files).                             *)
(***************************************************************************)
THEOREM LaunchCorrect == GlSpec => []LaunchSound
<1>1. GlIInv => LaunchSound
  <2> SUFFICES ASSUME GlIInv, NEW t \in GlThreads
               PROVE  /\ gpc[t] = "launch" =>
                           /\ gcall[t].kind \in loaded[gcall[t].backend]
                           /\ loaded[gcall[t].backend] \subseteq lib[gcall[t].backend]
                           /\ Covers(gcall[t].kind, gcall[t].dims, gcall[t].lens)
                      /\ gpc[t] = "idle" => host[t] = 0
    BY DEF LaunchSound, Covers
  <2> QED BY DEF GlIInv, GlLocal, GlBound
<1> QED BY <1>1, GlInitInv, GlStepInv, PTL DEF GlSpec

-----------------------------------------------------------------------------
(***************************************************************************)
(* The terminal host.                                                      *)
(***************************************************************************)
ShTypeOK ==
  /\ tty \in {"cooked", "raw"}
  /\ DOMAIN std = Streams /\ DOMAIN saved = Streams
  /\ proc \in [Children -> {"none", "run", "stop", "zombie"}]
  /\ role \in [Children -> {"none", "fg", "bg", "wait"}]
  /\ waits \in Seq(Children \cup {AnyPid})

\* A stream that was saved was saved as it was at the start.
ShStreams == \A i \in Streams : saved[i] = i \/ (saved[i] = NotSaved /\ std[i] = i)

\* A child somebody waits for is in a wait the host still has to make.
ShFg(c) == role[c] = "fg" => hpc \in {"feeding", "waiting", "dead"} /\ \E i \in 1 .. Len(waits) : waits[i] = c
ShWait(c) == role[c] = "wait" => hpc \in {"give_tty", "fg_wait"} /\ waits[1] = c
ShChildren ==
  /\ \A c \in Children : (proc[c] = "none" => role[c] = "none") /\ ShFg(c) /\ ShWait(c)
  /\ hpc \in {"feeding", "waiting", "give_tty", "fg_wait"} => waits # <<>>
  /\ hpc \in {"give_tty", "fg_wait"} => waits[1] \in Children

\* Who has the terminal, and who gets the signals of its use.
ShTty ==
  /\ hpc \notin {"fg_wait", "take_tty", "stopped"} => foreground = Self
  /\ hpc \notin {"give_tty", "fg_wait", "take_tty"} => ttou = "dfl"
  /\ rawActive <=> (tty = "raw")
  /\ hpc = "exited" => tty = "cooked"

ShIInv == ShTypeOK /\ ShStreams /\ ShChildren /\ ShTty /\ ResizeNoticed

USE DEF Streams

LEMMA ShInitInv == ShInit => ShIInv
<1> SUFFICES ASSUME ShInit PROVE ShIInv
  OBVIOUS
<1>1. waits = <<>> /\ <<>> \in Seq(Children \cup {AnyPid}) /\ Len(<<>>) = 0
  BY DEF ShInit
<1>2. ShTypeOK
  BY <1>1 DEF ShInit, ShTypeOK
<1>3. ShStreams /\ ResizeNoticed
  BY DEF ShInit, ShStreams, ResizeNoticed
<1>4. ShChildren
  BY DEF ShInit, ShChildren, ShFg, ShWait
<1>5. ShTty
  BY Zenon DEF ShInit, ShTty
<1> QED BY <1>2, <1>3, <1>4, <1>5 DEF ShIInv

(* The commands that change neither the children nor the terminal's owner. *)
LEMMA ShModes ==
  ASSUME ShIInv, oo_tui_enable_raw \/ oo_tui_disable_raw \/ ShExit \/ tui_exec
  PROVE  ShIInv'
<1> USE DEF ShIInv
<1>1. /\ hpc = "idle" /\ hpc' \in {"idle", "exited", "replaced"}
      /\ UNCHANGED <<foreground, ttou, proc, role, waits, std, saved, winch, winSize, seen>>
  BY DEF oo_tui_enable_raw, oo_tui_disable_raw, ShExit, tui_exec, jobVars, ioVars, winVars, ttyVars
<1>2. tty' \in {"cooked", "raw"}
  BY DEF oo_tui_enable_raw, oo_tui_disable_raw, ShExit, tui_exec, ttyVars, ShTypeOK
<1>3. (rawActive <=> (tty = "raw"))' /\ (hpc' = "exited" => tty' = "cooked")
  <2>1. CASE oo_tui_enable_raw
    BY <2>1, <1>1 DEF oo_tui_enable_raw, jobVars
  <2>2. CASE oo_tui_disable_raw
    BY <2>2, <1>1 DEF oo_tui_disable_raw, jobVars
  <2>3. CASE ShExit
    BY <2>3 DEF ShExit, ttyVars, ShTty, ShTypeOK
  <2>4. CASE tui_exec
    BY <2>4 DEF tui_exec, ttyVars, ShTty
  <2> QED BY <2>1, <2>2, <2>3, <2>4
<1>4. ShTypeOK'
  BY <1>1, <1>2 DEF ShTypeOK
<1>5. ShStreams' /\ ResizeNoticed'
  BY <1>1 DEF ShStreams, ResizeNoticed
<1>6. ShChildren'
  BY <1>1 DEF ShChildren, ShFg, ShWait
<1>7. ShTty'
  BY <1>1, <1>3 DEF ShTty
<1> QED BY <1>4, <1>5, <1>6, <1>7

(* A push saves what was never saved; a pop puts everything back. *)
LEMMA ShRedirections ==
  ASSUME ShIInv, redir_pop \/ \E op \in DOMAIN Moves : redir_push(op)
  PROVE  ShIInv'
<1> USE DEF ShIInv
<1>1. /\ UNCHANGED <<tty, rawActive, foreground, ttou, proc, role, hpc, waits, winch, winSize, seen>>
  BY DEF redir_push, redir_pop, jobVars, ttyVars, winVars
<1>2. DOMAIN std' = Streams /\ DOMAIN saved' = Streams /\ ShStreams'
  <2>1. CASE redir_pop
    BY <2>1 DEF redir_pop, ShStreams
  <2>2. ASSUME NEW op \in DOMAIN Moves, redir_push(op)
        PROVE  DOMAIN std' = Streams /\ DOMAIN saved' = Streams /\ ShStreams'
    <3>1. saved' = [i \in Streams |-> IF i \in Moves[op] /\ saved[i] = NotSaved THEN std[i] ELSE saved[i]]
      BY <2>2 DEF redir_push, Saved
    <3>2. /\ DOMAIN std' = Streams
          /\ \A i \in Streams : i \notin Moves[op] => std'[i] = std[i]
      <4>1. CASE op = "errout" /\ std' = [std EXCEPT !["err"] = std["out"]]
        BY <4>1 DEF ShTypeOK, Moves
      <4>2. CASE UNCHANGED std
        BY <4>2 DEF ShTypeOK
      <4>3. CASE \E f \in Files : std' = [i \in Streams |-> IF i \in Moves[op] THEN f ELSE std[i]]
        BY <4>3
      <4> QED BY <2>2, <4>1, <4>2, <4>3 DEF redir_push
    <3>3. \A i \in Streams : saved'[i] = i \/ (saved'[i] = NotSaved /\ std'[i] = i)
      BY <3>1, <3>2, ShAssumption DEF ShStreams
    <3> QED BY <3>1, <3>2, <3>3 DEF ShStreams
  <2> QED BY <2>1, <2>2
<1>3. ShTypeOK'
  BY <1>1, <1>2 DEF ShTypeOK
<1>4. ResizeNoticed'
  BY <1>1 DEF ResizeNoticed
<1>5. ShChildren'
  BY <1>1 DEF ShChildren, ShFg, ShWait
<1>6. ShTty'
  BY <1>1 DEF ShTty
<1> QED BY <1>2, <1>3, <1>4, <1>5, <1>6

\* What the steps of the jobs leave alone.
ShJobStep == UNCHANGED <<tty, rawActive, std, saved, winch, winSize, seen>>

\* The rest of the invariant after a step of the jobs.
LEMMA ShJobs ==
  ASSUME ShIInv, ShJobStep, hpc \notin {"get_size", "exited"}, hpc' # "exited",
         proc' \in [Children -> {"none", "run", "stop", "zombie"}],
         role' \in [Children -> {"none", "fg", "bg", "wait"}],
         waits' \in Seq(Children \cup {AnyPid}),
         ShChildren',
         hpc' \notin {"fg_wait", "take_tty", "stopped"} => foreground' = Self,
         hpc' \notin {"give_tty", "fg_wait", "take_tty"} => ttou' = "dfl"
  PROVE  ShIInv'
<1>1. ShTypeOK' /\ ShStreams' /\ ResizeNoticed'
  BY DEF ShIInv, ShTypeOK, ShStreams, ResizeNoticed, ShJobStep
<1>2. ShTty'
  BY DEF ShIInv, ShTty, ShJobStep
<1> QED BY <1>1, <1>2 DEF ShIInv

LEMMA ShForks ==
  ASSUME ShIInv, job_start \/ exec_wait_start
  PROVE  ShIInv'
<1> USE DEF ShIInv
<1>0. ShJobStep /\ hpc = "idle" /\ UNCHANGED foreground /\ hpc' \in {"idle", "give_tty"}
  BY DEF job_start, exec_wait_start, ttyVars, ioVars, winVars, ShJobStep
<1>1. CASE job_start
  <2> PICK c \in Spare : Forked({c}, "bg")
    BY <1>1 DEF job_start
  <2>1. c \in Children /\ UNCHANGED <<hpc, waits, ttou>>
    BY <1>1 DEF job_start, Spare
  <2>2. /\ proc' \in [Children -> {"none", "run", "stop", "zombie"}]
        /\ role' \in [Children -> {"none", "fg", "bg", "wait"}]
    BY <2>1 DEF Forked, ShTypeOK
  <2>3. ShChildren'
    BY <2>1, <1>0 DEF Forked, ShTypeOK, ShChildren, ShFg, ShWait
  <2> QED BY <1>0, <2>1, <2>2, <2>3, ShJobs DEF ShTypeOK, ShTty
<1>2. CASE exec_wait_start /\ UNCHANGED <<proc, role, waits, ttou, hpc>>
  <2>1. ShChildren'
    BY <1>2 DEF ShChildren, ShFg, ShWait
  <2> QED BY <1>0, <1>2, <2>1, ShJobs DEF ShTypeOK, ShTty
<1>3. ASSUME NEW c \in Spare, Forked({c}, "wait"), waits' = <<c>>, ttou' = "ign", hpc' = "give_tty"
      PROVE  ShIInv'
  <2>1. c \in Children
    BY DEF Spare
  <2>2. /\ proc' \in [Children -> {"none", "run", "stop", "zombie"}]
        /\ role' \in [Children -> {"none", "fg", "bg", "wait"}]
    BY <2>1, <1>3 DEF Forked, ShTypeOK
  <2>3. waits' \in Seq(Children \cup {AnyPid}) /\ waits' # <<>> /\ waits'[1] = c
    BY <2>1, <1>3
  <2>4. ShChildren'
    BY <2>1, <2>3, <1>0, <1>3 DEF Forked, ShTypeOK, ShChildren, ShFg, ShWait
  <2> QED BY <1>0, <1>3, <2>2, <2>3, <2>4, ShJobs DEF ShTypeOK, ShTty
<1> QED BY <1>1, <1>2, <1>3 DEF exec_wait_start

(* A foreground command: each child it forks is in the list of waits. *)
LEMMA ShForeground ==
  ASSUME ShIInv, tui_pipe \/ tui_pipe2 \/ tui_redir
  PROVE  ShIInv'
<1> USE DEF ShIInv
<1>1. PICK n \in {1, 2}, next \in {"feeding", "waiting"} : RunForeground(n, next)
  BY DEF tui_pipe, tui_pipe2, tui_redir
<1>2. ShJobStep /\ hpc = "idle" /\ UNCHANGED <<foreground, ttou>> /\ hpc' = next
  BY <1>1 DEF RunForeground, ttyVars, ioVars, winVars, ShJobStep
<1>3. PICK w \in [1 .. n -> Spare \cup {AnyPid}] :
        Forked(ToSet(w) \ {AnyPid}, "fg") /\ waits' = w
  BY <1>1 DEF RunForeground
<1>4. waits' \in Seq(Children \cup {AnyPid}) /\ Len(waits') = n /\ waits' # <<>>
  <2>1. w \in [1 .. n -> Children \cup {AnyPid}]
    BY DEF Spare
  <2> QED BY <1>3, <2>1
<1>5. ToSet(w) = {w[i] : i \in 1 .. n}
  BY DEF ToSet
<1>6. /\ proc' \in [Children -> {"none", "run", "stop", "zombie"}]
      /\ role' \in [Children -> {"none", "fg", "bg", "wait"}]
  BY <1>3 DEF Forked, ShTypeOK
<1>7. ShChildren'
  <2>1. ASSUME NEW c \in Children
        PROVE  (proc'[c] = "none" => role'[c] = "none") /\ ShFg(c)' /\ ShWait(c)'
    <3>1. CASE c \in ToSet(w) \ {AnyPid}
      <4>1. proc'[c] = "run" /\ role'[c] = "fg"
        BY <1>3, <3>1 DEF Forked
      <4>2. \E i \in 1 .. Len(waits') : waits'[i] = c
        BY <1>3, <1>4, <1>5, <3>1
      <4> QED BY <4>1, <4>2, <1>2 DEF ShFg, ShWait
    <3>2. CASE c \notin ToSet(w) \ {AnyPid}
      <4>1. proc'[c] = proc[c] /\ role'[c] = role[c]
        BY <1>3, <3>2 DEF Forked
      <4> QED BY <4>1, <1>2 DEF ShChildren, ShFg, ShWait
    <3> QED BY <3>1, <3>2
  <2> QED BY <2>1, <1>2, <1>4 DEF ShChildren
<1> QED BY <1>2, <1>4, <1>6, <1>7, ShJobs DEF ShTypeOK, ShTty

\* Reaping a child keeps the types and the roles of the other children.
LEMMA ShReap ==
  ASSUME ShTypeOK, NEW c \in Children, Reaped(c)
  PROVE  /\ proc' \in [Children -> {"none", "run", "stop", "zombie"}]
         /\ role' \in [Children -> {"none", "fg", "bg", "wait"}]
         /\ proc'[c] = "none" /\ role'[c] = "none"
         /\ \A d \in Children \ {c} : proc'[d] = proc[d] /\ role'[d] = role[d]
BY DEF Reaped, ShTypeOK

LEMMA ShWaitNext ==
  ASSUME ShIInv, WaitNext
  PROVE  ShIInv'
<1> USE DEF ShIInv
<1>1. /\ hpc = "waiting" /\ waits' = Tail(waits) /\ ShJobStep /\ UNCHANGED <<foreground, ttou>>
      /\ hpc' = IF Len(waits) = 1 THEN "idle" ELSE "waiting"
  BY DEF WaitNext, ttyVars, ioVars, winVars, ShJobStep
<1>2. waits \in Seq(Children \cup {AnyPid}) /\ waits # <<>> /\ Len(waits) \in Nat /\ Len(waits) > 0
  BY <1>1 DEF ShTypeOK, ShChildren
<1>3. /\ waits' \in Seq(Children \cup {AnyPid}) /\ Len(waits') = Len(waits) - 1
      /\ \A i \in 1 .. Len(waits') : waits'[i] = waits[i + 1]
      /\ Head(waits) = waits[1]
  BY <1>1, <1>2
<1>4. /\ proc' \in [Children -> {"none", "run", "stop", "zombie"}]
      /\ role' \in [Children -> {"none", "fg", "bg", "wait"}]
      /\ \A c \in Children : \/ proc'[c] = "none" /\ role'[c] = "none"
                             \/ proc'[c] = proc[c] /\ role'[c] = role[c]
      /\ \A c \in Children : waits[1] = c => role'[c] = "none"
  <2>1. ASSUME NEW c \in Children, waits[1] \in {c, AnyPid}, Reaped(c)
        PROVE  <1>4!1 /\ <1>4!2 /\ <1>4!3 /\ <1>4!4
    BY <2>1, ShReap, ShAssumption
  <2>2. CASE UNCHANGED <<proc, role>> /\ (IF waits[1] = AnyPid THEN Spare = Children ELSE proc[waits[1]] = "none")
    BY <2>2, ShAssumption DEF ShTypeOK, ShChildren
  <2> QED BY <2>1, <2>2, <1>3 DEF WaitNext
<1>5. ShChildren'
  <2>1. ASSUME NEW c \in Children
        PROVE  (proc'[c] = "none" => role'[c] = "none") /\ ShFg(c)' /\ ShWait(c)'
    <3>1. CASE role'[c] = "fg"
      <4>1. role[c] = "fg" /\ proc'[c] # "none" /\ waits[1] # c
        BY <3>1, <1>4 DEF ShChildren
      <4>2. PICK i \in 1 .. Len(waits) : waits[i] = c
        BY <4>1 DEF ShChildren, ShFg
      <4>3. i # 1 /\ i - 1 \in 1 .. Len(waits') /\ waits'[i - 1] = c
        <5>1. i # 1 /\ i \in Int
          BY <4>1, <4>2
        <5>2. i - 1 \in 1 .. Len(waits') /\ (i - 1) + 1 = i
          BY <5>1, <1>2, <1>3
        <5>3. waits'[i - 1] = waits[(i - 1) + 1]
          BY <5>2, <1>3, Zenon
        <5> QED BY <5>1, <5>2, <5>3, <4>2
      <4>4. Len(waits) # 1
        BY <4>3, <1>2, <1>3
      <4> QED BY <3>1, <4>1, <4>3, <4>4, <1>1 DEF ShFg, ShWait
    <3>2. CASE role'[c] # "fg"
      BY <3>2, <1>1, <1>4 DEF ShChildren, ShFg, ShWait
    <3> QED BY <3>1, <3>2
  <2>2. hpc' = "waiting" => waits' # <<>>
    <3>1. hpc' = "waiting" => Len(waits') > 0
      BY <1>1, <1>2, <1>3
    <3> QED BY <3>1
  <2> QED BY <2>1, <2>2, <1>1 DEF ShChildren
<1> QED BY <1>1, <1>3, <1>4, <1>5, ShJobs DEF ShTty

(* The commands on jobs, and the pipe's writes. *)
LEMMA ShCommands ==
  ASSUME ShIInv, FeedPipe \/ job_wait_all \/ \E c \in Children : job_poll(c) \/ job_wait(c) \/ job_fg(c) \/ job_bg(c)
  PROVE  ShIInv'
<1> USE DEF ShIInv
<1>0. ShJobStep
  BY DEF FeedPipe, job_wait_all, job_poll, job_wait, job_fg, job_bg, ttyVars, ioVars, winVars, ShJobStep
<1>1. CASE FeedPipe
  <2>1. ShChildren'
    BY <1>1 DEF FeedPipe, ShChildren, ShFg, ShWait
  <2> QED BY <1>0, <1>1, <2>1, ShJobs DEF FeedPipe, ShTypeOK, ShTty
<1>2. CASE job_wait_all
  <2>1. Cardinality(Children \ Spare) \in Nat
    BY ShAssumption, FS_Subset, FS_CardinalityType DEF Spare
  <2> DEFINE n == Cardinality(Children \ Spare) + 1
  <2>2. waits' \in [1 .. n -> Children \cup {AnyPid}] /\ n \in Nat /\ n > 0
    BY <1>2, <2>1 DEF job_wait_all
  <2> HIDE DEF n
  <2>3. waits' \in Seq(Children \cup {AnyPid}) /\ waits' # <<>>
    BY <2>2
  <2>4. hpc = "idle" /\ hpc' = "waiting" /\ UNCHANGED <<proc, role, foreground, ttou>>
    BY <1>2 DEF job_wait_all
  <2>5. ShChildren'
    BY <2>3, <2>4 DEF ShChildren, ShFg, ShWait
  <2> QED BY <1>0, <2>3, <2>4, <2>5, ShJobs DEF ShTypeOK, ShTty
<1>3. ASSUME NEW c \in Children, job_poll(c) PROVE ShIInv'
  <2>1. hpc = "idle" /\ UNCHANGED <<foreground, ttou, hpc, waits>> /\ Reaped(c)
    BY <1>3 DEF job_poll
  <2>2. ShChildren'
    BY <2>1, ShReap DEF ShChildren, ShFg, ShWait
  <2> QED BY <1>0, <2>1, <2>2, ShReap, ShJobs DEF ShTypeOK, ShTty
<1>4. ASSUME NEW c \in Children, job_wait(c) \/ job_fg(c) PROVE ShIInv'
  <2>1. /\ hpc = "idle" /\ waits' = <<c>> /\ UNCHANGED <<role, ttou>> /\ proc[c] # "none"
        /\ \/ hpc' = "waiting" /\ UNCHANGED <<proc, foreground>>
           \/ hpc' = "fg_wait" /\ proc' = [proc EXCEPT ![c] = IF @ = "stop" THEN "run" ELSE @]
    BY <1>4 DEF job_wait, job_fg
  <2>2. /\ proc' \in [Children -> {"none", "run", "stop", "zombie"}]
        /\ \A d \in Children : proc'[d] = "none" => proc[d] = "none"
    BY <2>1 DEF ShTypeOK
  <2>3. waits' \in Seq(Children \cup {AnyPid}) /\ waits' # <<>> /\ waits'[1] = c
    BY <2>1
  <2>4. ShChildren'
    BY <2>1, <2>2, <2>3 DEF ShChildren, ShFg, ShWait
  <2> QED BY <1>0, <2>1, <2>2, <2>3, <2>4, ShJobs DEF ShTypeOK, ShTty
<1>5. ASSUME NEW c \in Children, job_bg(c) PROVE ShIInv'
  <2>1. /\ hpc = "idle" /\ UNCHANGED <<foreground, ttou, role, hpc, waits>> /\ proc[c] = "stop"
        /\ proc' = [proc EXCEPT ![c] = "run"]
    BY <1>5 DEF job_bg
  <2>2. ShChildren'
    BY <2>1 DEF ShChildren, ShFg, ShWait, ShTypeOK
  <2> QED BY <1>0, <2>1, <2>2, ShJobs DEF ShTypeOK, ShTty
<1> QED BY <1>1, <1>2, <1>3, <1>4, <1>5

(* The terminal is given to the command and taken back. *)
LEMMA ShTerminal ==
  ASSUME ShIInv, exec_wait_give \/ fg_waited \/ TakeTty \/ Resumed
  PROVE  ShIInv'
<1> USE DEF ShIInv
<1>0. ShJobStep
  BY DEF exec_wait_give, fg_waited, TakeTty, Resumed, ttyVars, ioVars, winVars, ShJobStep
<1>1. CASE exec_wait_give
  <2>1. ShChildren'
    BY <1>1 DEF exec_wait_give, ShChildren, ShFg, ShWait
  <2> QED BY <1>0, <1>1, <2>1, ShJobs DEF exec_wait_give, ShTypeOK, ShTty
<1>2. CASE fg_waited
  <2>1. hpc = "fg_wait" /\ hpc' = "take_tty" /\ UNCHANGED <<foreground, ttou, waits>>
    BY <1>2 DEF fg_waited
  <2> PICK c \in Children : c = waits[1] /\ c = Head(waits)
    BY <2>1 DEF ShChildren, ShTypeOK
  <2>2. /\ proc' \in [Children -> {"none", "run", "stop", "zombie"}]
        /\ role' \in [Children -> {"none", "fg", "bg", "wait"}]
        /\ role'[c] \in {"none", "bg"} /\ (proc'[c] = "none" => role'[c] = "none")
        /\ \A d \in Children \ {c} : proc'[d] = proc[d] /\ role'[d] = role[d]
    <3>1. CASE Reaped(c)
      BY <3>1, ShReap
    <3>2. CASE proc[c] = "stop" /\ role' = [role EXCEPT ![c] = "bg"] /\ UNCHANGED proc
      BY <3>2 DEF ShTypeOK
    <3> QED BY <1>2, <3>1, <3>2 DEF fg_waited
  <2>3. ShChildren'
    BY <2>1, <2>2 DEF ShChildren, ShFg, ShWait
  <2> QED BY <1>0, <2>1, <2>2, <2>3, ShJobs DEF ShTypeOK, ShTty
<1>3. CASE TakeTty \/ Resumed
  <2>1. /\ hpc \in {"take_tty", "stopped"} /\ hpc' \in {"idle", "stopped"}
        /\ UNCHANGED <<proc, role>> /\ waits' \in {waits, <<>>}
        /\ (hpc' = "idle" => foreground' = Self) /\ ttou' = "dfl"
    BY <1>3 DEF TakeTty, Resumed, ShTty
  <2>2. ShChildren'
    BY <2>1 DEF ShChildren, ShFg, ShWait
  <2>3. waits' \in Seq(Children \cup {AnyPid})
    <3>1. <<>> \in Seq(Children \cup {AnyPid}) /\ waits \in Seq(Children \cup {AnyPid})
      BY DEF ShTypeOK
    <3> QED BY <2>1, <3>1, Zenon
  <2> QED BY <1>0, <2>1, <2>2, <2>3, ShJobs DEF ShTypeOK
<1> QED BY <1>1, <1>2, <1>3

(* The children and the window, which run beside the host. *)
LEMMA ShBeside ==
  ASSUME ShIInv,
         (\E c \in Children : ChildMoves(c)) \/ (\E n \in WinSizes : Resize(n))
           \/ winch_test \/ winch_clear \/ oo_tui_get_size
  PROVE  ShIInv'
<1> USE DEF ShIInv
<1>1. ASSUME NEW c \in Children, ChildMoves(c) PROVE ShIInv'
  <2>1. /\ UNCHANGED <<foreground, ttou, role, hpc, waits, tty, rawActive, std, saved, winch, winSize, seen>>
        /\ proc' \in [Children -> {"none", "run", "stop", "zombie"}]
        /\ \A d \in Children : proc'[d] = "none" => proc[d] = "none"
    BY <1>1 DEF ChildMoves, ShTypeOK, ttyVars, ioVars, winVars
  <2>2. ShTypeOK' /\ ShStreams' /\ ResizeNoticed'
    BY <2>1 DEF ShTypeOK, ShStreams, ResizeNoticed
  <2>3. ShChildren'
    BY <2>1 DEF ShChildren, ShFg, ShWait
  <2>4. ShTty'
    BY <2>1 DEF ShTty
  <2> QED BY <2>2, <2>3, <2>4
<1>2. CASE (\E n \in WinSizes : Resize(n)) \/ winch_test \/ winch_clear \/ oo_tui_get_size
  <2>1. /\ UNCHANGED <<foreground, ttou, proc, role, waits, tty, rawActive, std, saved>>
        /\ hpc' = hpc \/ (hpc \in {"idle", "winch_clear", "get_size"} /\ hpc' \in {"idle", "winch_clear", "get_size"})
    BY <1>2 DEF Resize, winch_test, winch_clear, oo_tui_get_size, ttyVars, jobVars, ioVars, winVars
  <2>2. ResizeNoticed'
    BY <1>2 DEF Resize, winch_test, winch_clear, oo_tui_get_size, jobVars, winVars, ResizeNoticed
  <2>3. ShTypeOK' /\ ShStreams'
    BY <2>1 DEF ShTypeOK, ShStreams
  <2>4. ShChildren'
    BY <2>1 DEF ShChildren, ShFg, ShWait
  <2>5. ShTty'
    BY <2>1 DEF ShTty
  <2> QED BY <2>2, <2>3, <2>4, <2>5
<1> QED BY <1>1, <1>2

LEMMA ShStepInv == ShIInv /\ [ShNext]_shVars => ShIInv'
<1> SUFFICES ASSUME ShIInv, [ShNext]_shVars PROVE ShIInv'
  OBVIOUS
<1>1. CASE UNCHANGED shVars
  <2>1. UNCHANGED <<tty, rawActive, foreground, ttou, proc, role, hpc, waits, std, saved, winch, winSize, seen>>
    BY <1>1 DEF shVars, ttyVars, jobVars, ioVars, winVars
  <2>2. ShTypeOK' /\ ShStreams' /\ ShChildren' /\ ResizeNoticed'
    BY <2>1 DEF ShIInv, ShTypeOK, ShStreams, ShChildren, ShFg, ShWait, ResizeNoticed
  <2>3. ShTty'
    BY <2>1 DEF ShIInv, ShTty
  <2> QED BY <2>2, <2>3 DEF ShIInv
<1>2. CASE ShNext
  BY <1>2, ShModes, ShRedirections, ShForks, ShForeground, ShWaitNext, ShCommands, ShTerminal, ShBeside, Zenon
  DEF ShNext
<1> QED BY <1>1, <1>2

(***************************************************************************)
(* The theorem on the terminal host, for any number of children: between   *)
(* two commands the terminal, its signals and the three streams can be     *)
(* brought back as they were, no foreground child is left behind, the      *)
(* process exits with a cooked terminal, and no resize of the window is    *)
(* lost between the test and the clear of winch_poll.                      *)
(***************************************************************************)
THEOREM HostCorrect == ShSpec => []HostSettled
<1>1. ShIInv => HostSettled
  <2> SUFFICES ASSUME ShIInv PROVE HostSettled
    OBVIOUS
  <2>1. StreamsRestorable
    BY ShAssumption DEF ShIInv, ShStreams, StreamsRestorable
  <2>2. hpc = "idle" => \A c \in Children : role[c] \notin {"fg", "wait"}
    BY DEF ShIInv, ShChildren, ShFg, ShWait
  <2>3. TerminalSettled
    BY <2>2 DEF ShIInv, ShTty, TerminalSettled
  <2> QED BY <2>1, <2>3 DEF HostSettled, ShIInv
<1> QED BY <1>1, ShInitInv, ShStepInv, PTL DEF ShSpec
-----------------------------------------------------------------------------
(***************************************************************************)
(* The flight recorder.                                                    *)
(***************************************************************************)
BbFields == {"after", "init", "seq", "sig"}
BbTypeOK ==
  /\ bbCount \in Nat
  /\ entry \in [0 .. RingCap - 1 -> [seq : Nat, text : Nat]]
  /\ DOMAIN bpc = BbThreads /\ DOMAIN bloc = BbThreads
  /\ \A t \in BbThreads : DOMAIN bloc[t] = BbFields /\ bloc[t].seq \in Nat /\ bloc[t].after \in {"idle", "dump"}

\* The numbers that share entry i of the ring.
Shares(s, i) == s \in 1 .. bbCount /\ Idx(s) = i

\* A recorder at work has the latest number of its entry, and has written what it passed.
BbWriter(t) ==
  bpc[t] \in {"number", "text"} =>
    /\ bloc[t].seq \in 1 .. bbCount
    /\ \A s : Shares(s, Idx(bloc[t].seq)) => s <= bloc[t].seq
    /\ bpc[t] = "text" => entry[Idx(bloc[t].seq)].seq = bloc[t].seq

\* No two recorders are at the same entry.
BbApart ==
  \A t, u \in BbThreads :
    /\ t # u
    /\ bpc[t] \in {"number", "text"} /\ bpc[u] \in {"number", "text"}
    => Idx(bloc[t].seq) # Idx(bloc[u].seq)

\* Nobody writes entry i, and nobody was stopped in writing it.
Settled(i) ==
  /\ \A t \in BbThreads : bpc[t] \in {"number", "text"} => Idx(bloc[t].seq) # i
  /\ i \notin cut

\* A settled entry holds its latest event.
BbEntry(i) ==
  Settled(i) /\ (\E s : Shares(s, i)) =>
    entry[i].seq = entry[i].text /\ \A s : Shares(s, i) => s <= entry[i].seq

BbRing ==
  (~ lapped /\ bbAlive) =>
    /\ BbApart
    /\ \A t \in BbThreads : BbWriter(t)
    /\ \A i \in 0 .. RingCap - 1 : BbEntry(i)

\* The invariant of the recorder.
BbIInv == BbTypeOK /\ BbRing

(* An index is one of the ring's. *)
LEMMA IdxRange == ASSUME NEW s \in Nat PROVE Idx(s) \in 0 .. RingCap - 1
BY RingAssumption DEF Idx

(* The invariant says what the report relies on. *)
LEMMA RingFromEntries == BbIInv => RingShowsLatest
<1> SUFFICES ASSUME BbIInv, ~ lapped, bbAlive, NEW i \in 0 .. RingCap - 1,
                    {s \in 1 .. bbCount : (s - 1) % RingCap = i} # {}, Writers(i) = {}, i \notin cut
             PROVE  /\ entry[i].seq = entry[i].text
                    /\ \A s \in {s \in 1 .. bbCount : (s - 1) % RingCap = i} : s <= entry[i].seq
  BY DEF RingShowsLatest
<1>1. BbEntry(i)
  BY DEF BbIInv, BbRing
<1>2. Settled(i)
  BY DEF Settled, Writers, Writing
<1>3. \E s : Shares(s, i)
  BY DEF Shares, Idx
<1>4. entry[i].seq = entry[i].text /\ \A s : Shares(s, i) => s <= entry[i].seq
  BY <1>1, <1>2, <1>3 DEF BbEntry
<1>5. \A s \in {s \in 1 .. bbCount : (s - 1) % RingCap = i} : Shares(s, i)
  BY DEF Shares, Idx
<1> QED BY <1>4, <1>5

(* A step of t that leaves the ring alone, after which t is not recording; if it was, its   *)
(* entry is cut.                                                                            *)
LEMMA BbQuiet ==
  ASSUME BbIInv, NEW t \in BbThreads, bbAlive, entry' = entry, bbCount' = bbCount, lapped' = lapped,
         cut \subseteq cut', DOMAIN bpc' = BbThreads, DOMAIN bloc' = BbThreads,
         DOMAIN bloc'[t] = BbFields, bloc'[t].seq \in Nat, bloc'[t].after \in {"idle", "dump"},
         bpc'[t] \notin {"number", "text"},
         bpc[t] \in {"number", "text"} => Idx(bloc[t].seq) \in cut',
         \A u \in BbThreads \ {t} : bpc'[u] = bpc[u] /\ bloc'[u] = bloc[u]
  PROVE  BbIInv'
<1>1. BbTypeOK'
  BY DEF BbIInv, BbTypeOK
<1>2. \A s, i : Shares(s, i)' <=> Shares(s, i)
  BY DEF Shares, Idx
<1>3. \A s : Idx(s)' = Idx(s)
  BY DEF Idx
<1>4. SUFFICES ASSUME ~ lapped', bbAlive'
               PROVE  /\ BbApart'
                      /\ \A u \in BbThreads : BbWriter(u)'
                      /\ \A i \in 0 .. RingCap - 1 : BbEntry(i)'
  BY <1>1 DEF BbIInv, BbRing
<1>5. BbApart /\ (\A u \in BbThreads : BbWriter(u)) /\ \A i \in 0 .. RingCap - 1 : BbEntry(i)
  BY <1>4 DEF BbIInv, BbRing
<1>6. BbApart'
  BY <1>5 DEF BbApart, Idx
<1>7. ASSUME NEW u \in BbThreads PROVE BbWriter(u)'
  <2>1. CASE u = t
    BY <2>1 DEF BbWriter
  <2>2. CASE u # t
    <3>1. BbWriter(u) /\ bpc'[u] = bpc[u] /\ bloc'[u] = bloc[u]
      BY <1>5, <2>2
    <3> QED BY <3>1 DEF BbWriter, Shares, Idx
  <2> QED BY <2>1, <2>2
<1>8. ASSUME NEW i \in 0 .. RingCap - 1 PROVE BbEntry(i)'
  <2>1. Settled(i)' => Settled(i)
    BY DEF Settled, Idx
  <2> QED BY <1>2, <1>5, <2>1 DEF BbEntry
<1> QED BY <1>6, <1>7, <1>8

(* The next number: if its entry is free, it is the latest there. *)
LEMMA BbTakeSeq ==
  ASSUME BbIInv, NEW t \in BbThreads, TakeSeq(t)
  PROVE  BbIInv'
<1> DEFINE n == bbCount + 1
<1>1. bbCount \in Nat /\ bbCount' = n /\ entry' = entry /\ bbAlive /\ bbAlive' /\ bpc[t] = "seq"
  BY DEF TakeSeq, BbAt, BbIInv, BbTypeOK
<1>2. DOMAIN bpc' = BbThreads /\ bpc'[t] = "number" /\ \A u \in BbThreads \ {t} : bpc'[u] = bpc[u]
  BY DEF TakeSeq, BbGoto, BbIInv, BbTypeOK
<1>3. DOMAIN bloc' = BbThreads /\ bloc'[t].seq = n /\ DOMAIN bloc'[t] = BbFields /\ bloc'[t].after = bloc[t].after
      /\ \A u \in BbThreads \ {t} : bloc'[u] = bloc[u]
  BY DEF TakeSeq, BbIInv, BbTypeOK, BbFields
<1>4. BbTypeOK'
  BY <1>1, <1>2, <1>3 DEF BbIInv, BbTypeOK
<1>5. SUFFICES ASSUME ~ lapped'
               PROVE  /\ BbApart'
                      /\ \A u \in BbThreads : BbWriter(u)'
                      /\ \A i \in 0 .. RingCap - 1 : BbEntry(i)'
  BY <1>4 DEF BbIInv, BbRing
<1>6. ~ lapped /\ Writers(Idx(n)) = {}
  BY <1>5 DEF TakeSeq
<1>7. \A u \in BbThreads : bpc[u] \in {"number", "text"} => Idx(bloc[u].seq) # Idx(n)
  BY <1>6 DEF Writers, Writing
<1>8. BbApart /\ (\A u \in BbThreads : BbWriter(u)) /\ \A i \in 0 .. RingCap - 1 : BbEntry(i)
  BY <1>1, <1>6 DEF BbIInv, BbRing
<1>9. BbApart'
  <2>1. ASSUME NEW u \in BbThreads, NEW v \in BbThreads, u # v,
               bpc'[u] \in {"number", "text"}, bpc'[v] \in {"number", "text"}
        PROVE  Idx(bloc'[u].seq) # Idx(bloc'[v].seq)
    <3>1. CASE u = t
      BY <1>2, <1>3, <1>7, <2>1, <3>1
    <3>2. CASE v = t
      BY <1>2, <1>3, <1>7, <2>1, <3>2
    <3>3. CASE u # t /\ v # t
      BY <1>2, <1>3, <1>8, <2>1, <3>3 DEF BbApart
    <3> QED BY <3>1, <3>2, <3>3
  <2> QED BY <2>1 DEF BbApart, Idx
<1>10. \A s, i : Shares(s, i)' <=> Shares(s, i) \/ (s = n /\ i = Idx(n))
  BY <1>1 DEF Shares, Idx
<1>11. ASSUME NEW u \in BbThreads PROVE BbWriter(u)'
  <2>1. CASE u = t
    BY <1>1, <1>2, <1>3, <2>1 DEF BbWriter, Shares
  <2>2. CASE u # t
    <3>1. BbWriter(u) /\ bpc'[u] = bpc[u] /\ bloc'[u] = bloc[u]
      BY <1>2, <1>3, <1>8, <2>2
    <3>2. SUFFICES ASSUME bpc[u] \in {"number", "text"} PROVE BbWriter(u)'
      BY <3>1 DEF BbWriter
    <3>3. bloc[u].seq \in 1 .. bbCount'
      BY <1>1, <3>1, <3>2 DEF BbWriter
    <3>4. \A s : Shares(s, Idx(bloc[u].seq))' => s <= bloc[u].seq
      BY <1>7, <1>10, <3>1, <3>2 DEF BbWriter
    <3>5. bpc[u] = "text" => entry'[Idx(bloc[u].seq)].seq = bloc[u].seq
      BY <1>1, <3>1, <3>2 DEF BbWriter
    <3> QED BY <3>1, <3>3, <3>4, <3>5 DEF BbWriter, Shares, Idx
  <2> QED BY <2>1, <2>2
<1>12. ASSUME NEW i \in 0 .. RingCap - 1 PROVE BbEntry(i)'
  <2>1. Settled(i)' => i # Idx(n)
    BY <1>2, <1>3 DEF Settled, Idx
  <2>2. i # Idx(n) /\ Settled(i)' => Settled(i)
    <3>1. cut' = cut \ {Idx(n)}
      BY DEF TakeSeq
    <3> QED BY <1>1, <1>2, <1>3, <3>1 DEF Settled, Idx
  <2> QED BY <1>1, <1>8, <1>10, <2>1, <2>2 DEF BbEntry
<1> QED BY <1>9, <1>11, <1>12

(* One field of an entry is written, by the one recorder at it. *)
LEMMA BbWrite ==
  ASSUME BbIInv, NEW t \in BbThreads, bbAlive, bpc[t] \in {"number", "text"},
         bbCount' = bbCount, lapped' = lapped, cut' = cut, entry' \in [0 .. RingCap - 1 -> [seq : Nat, text : Nat]],
         DOMAIN bpc' = BbThreads, DOMAIN bloc' = BbThreads, DOMAIN bloc'[t] = BbFields,
         bloc'[t].seq = bloc[t].seq, bloc'[t].after = bloc[t].after,
         \A u \in BbThreads \ {t} : bpc'[u] = bpc[u] /\ bloc'[u] = bloc[u],
         \A i \in 0 .. RingCap - 1 : i # Idx(bloc[t].seq) => entry'[i] = entry[i],
         \/ /\ bpc[t] = "number" /\ bpc'[t] = "text"
            /\ entry'[Idx(bloc[t].seq)].seq = bloc[t].seq
         \/ /\ bpc[t] = "text" /\ bpc'[t] \notin {"number", "text"}
            /\ entry'[Idx(bloc[t].seq)].seq = entry[Idx(bloc[t].seq)].seq
            /\ entry'[Idx(bloc[t].seq)].text = bloc[t].seq
  PROVE  BbIInv'
<1> DEFINE k == Idx(bloc[t].seq)
<1>1. BbTypeOK'
  BY DEF BbIInv, BbTypeOK
<1>2. \A s, i : Shares(s, i)' <=> Shares(s, i)
  BY DEF Shares, Idx
<1>4. SUFFICES ASSUME ~ lapped
               PROVE  /\ BbApart'
                      /\ \A u \in BbThreads : BbWriter(u)'
                      /\ \A i \in 0 .. RingCap - 1 : BbEntry(i)'
  BY <1>1 DEF BbIInv, BbRing
<1>5. BbApart /\ (\A u \in BbThreads : BbWriter(u)) /\ \A i \in 0 .. RingCap - 1 : BbEntry(i)
  BY <1>4 DEF BbIInv, BbRing
<1>6. bloc[t].seq \in 1 .. bbCount /\ \A s : Shares(s, k) => s <= bloc[t].seq
  BY <1>5 DEF BbWriter
<1>7. bloc[t].seq \in Nat \ {0} /\ k \in 0 .. RingCap - 1 /\ entry'[k].seq = bloc[t].seq
  <2>1. bloc[t].seq \in Nat \ {0}
    BY <1>6 DEF BbIInv, BbTypeOK
  <2>2. entry'[k].seq = bloc[t].seq
    BY <1>5 DEF BbWriter
  <2> QED BY <2>1, <2>2, IdxRange
<1>8. BbApart'
  BY <1>5 DEF BbApart, Idx
<1>9. ASSUME NEW u \in BbThreads PROVE BbWriter(u)'
  <2>1. CASE u = t
    BY <1>6, <1>7, <2>1 DEF BbWriter, Shares, Idx
  <2>2. CASE u # t
    <3>1. BbWriter(u) /\ bpc'[u] = bpc[u] /\ bloc'[u] = bloc[u]
      BY <1>5, <2>2
    <3>2. SUFFICES ASSUME bpc[u] \in {"number", "text"} PROVE BbWriter(u)'
      BY <3>1 DEF BbWriter
    <3>3. Idx(bloc[u].seq) # k
      BY <1>5, <2>2, <3>2 DEF BbApart
    <3>4. Idx(bloc[u].seq) \in 0 .. RingCap - 1
      <4>1. bloc[u].seq \in Nat \ {0}
        BY <3>1, <3>2 DEF BbWriter, BbIInv, BbTypeOK
      <4> QED BY <4>1, IdxRange
    <3> QED BY <3>1, <3>2, <3>3, <3>4 DEF BbWriter, Shares, Idx
  <2> QED BY <2>1, <2>2
<1>10. ASSUME NEW i \in 0 .. RingCap - 1 PROVE BbEntry(i)'
  <2>1. CASE i = k
    <3>1. CASE bpc'[t] = "text"
      <4>1. ~ Settled(i)'
        BY <2>1, <3>1 DEF Settled, Idx
      <4> QED BY <4>1 DEF BbEntry
    <3>2. CASE bpc'[t] # "text"
      BY <1>2, <1>6, <1>7, <2>1, <3>2 DEF BbEntry
    <3> QED BY <3>1, <3>2
  <2>2. CASE i # k
    <3>1. Settled(i)' => Settled(i)
      BY <2>2 DEF Settled, Idx
    <3> QED BY <1>2, <1>5, <2>2, <3>1 DEF BbEntry
  <2> QED BY <2>1, <2>2
<1> QED BY <1>8, <1>9, <1>10

(* Setting the flag of a call leaves its number. *)
LEMMA BbFlag ==
  ASSUME BbTypeOK, NEW t \in BbThreads, NEW b, bloc' = [bloc EXCEPT ![t].init = b]
  PROVE  /\ DOMAIN bloc' = BbThreads /\ DOMAIN bloc'[t] = BbFields
         /\ bloc'[t].seq = bloc[t].seq /\ bloc'[t].after = bloc[t].after
         /\ \A u \in BbThreads \ {t} : bloc'[u] = bloc[u]
<1>1. DOMAIN bloc = BbThreads /\ DOMAIN bloc[t] = BbFields
  BY DEF BbTypeOK
<1>2. DOMAIN bloc' = BbThreads /\ bloc'[t] = [bloc[t] EXCEPT !.init = b]
      /\ \A u \in BbThreads \ {t} : bloc'[u] = bloc[u]
  BY <1>1, Zenon
<1>3. "seq" \in BbFields /\ "seq" # "init" /\ "after" \in BbFields /\ "after" # "init"
  BY DEF BbFields
<1>4. DOMAIN bloc'[t] = BbFields /\ bloc'[t].seq = bloc[t].seq /\ bloc'[t].after = bloc[t].after
  BY <1>1, <1>2, <1>3, Zenon
<1> QED BY <1>2, <1>4

(* A call begins: it has no number yet. *)
LEMMA BbBegins ==
  ASSUME BbTypeOK, NEW t \in BbThreads, NEW after \in {"idle", "dump"}, NEW sig, Begin(t, after, sig)
  PROVE  /\ DOMAIN bpc' = BbThreads /\ DOMAIN bloc' = BbThreads
         /\ DOMAIN bloc'[t] = BbFields /\ bloc'[t].seq \in Nat /\ bloc'[t].after \in {"idle", "dump"}
         /\ bpc'[t] \notin {"number", "text"}
         /\ \A u \in BbThreads \ {t} : bpc'[u] = bpc[u] /\ bloc'[u] = bloc[u]
<1>1. bloc' = [bloc EXCEPT ![t] = [after |-> after, init |-> FALSE, seq |-> 0, sig |-> sig]]
      /\ bpc' = [bpc EXCEPT ![t] = IF bbInited THEN "seq" ELSE "install"]
  BY DEF Begin, BbGoto
<1>2. DOMAIN bloc = BbThreads /\ DOMAIN bpc = BbThreads
  BY DEF BbTypeOK
<1>3. bloc'[t] = [after |-> after, init |-> FALSE, seq |-> 0, sig |-> sig]
  BY <1>1, <1>2, Zenon
<1>4. DOMAIN bloc'[t] = BbFields /\ bloc'[t].seq = 0 /\ bloc'[t].after = after
  BY <1>3 DEF BbFields
<1>5. bpc'[t] = (IF bbInited THEN "seq" ELSE "install")
  BY <1>1, <1>2, Zenon
<1>6. bpc'[t] \notin {"number", "text"}
  BY <1>5
<1>7. DOMAIN bpc' = BbThreads /\ DOMAIN bloc' = BbThreads
      /\ \A u \in BbThreads \ {t} : bpc'[u] = bpc[u] /\ bloc'[u] = bloc[u]
  BY <1>1, <1>2, Zenon
<1> QED BY <1>4, <1>6, <1>7

LEMMA BbInitial == ASSUME BbInit PROVE BbIInv
<1>1. bbCount = 0 /\ entry = [i \in 0 .. RingCap - 1 |-> None] /\ bpc = [t \in BbThreads |-> "idle"]
      /\ bloc = [t \in BbThreads |-> Rest]
  BY DEF BbInit
<1>2. \A t \in BbThreads : bpc[t] = "idle" /\ bloc[t] = Rest
  BY <1>1
<1>3. DOMAIN Rest = BbFields /\ Rest.seq = 0 /\ Rest.after = "idle"
  BY DEF Rest, BbFields
<1>4. None \in [seq : Nat, text : Nat]
  BY DEF None
<1>5. BbTypeOK
  BY <1>1, <1>2, <1>3, <1>4 DEF BbTypeOK
<1>6. \A s, i : ~ Shares(s, i)
  BY <1>1 DEF Shares
<1>7. BbRing
  BY <1>2, <1>6 DEF BbRing, BbApart, BbWriter, BbEntry
<1> QED BY <1>5, <1>7 DEF BbIInv

(* Every step of the recorder keeps the ring in order. *)
LEMMA BbStep == ASSUME BbIInv, [BbNext]_bbVars PROVE BbIInv'
<1> USE DEF BbIInv
<1>1. CASE UNCHANGED bbVars
  BY <1>1 DEF bbVars, BbTypeOK, BbRing, BbApart, BbWriter, BbEntry, Settled, Shares, Idx
<1>2. ASSUME NEW t \in BbThreads, blackbox_record(t) \/ blackbox_trap_cap(t)
      PROVE  BbIInv'
  <2>1. bbAlive /\ bpc[t] = "idle" /\ entry' = entry /\ bbCount' = bbCount /\ lapped' = lapped /\ cut' = cut
    BY <1>2 DEF blackbox_record, blackbox_trap_cap, BbAt
  <2>2. PICK after \in {"idle", "dump"} : Begin(t, after, "none")
    BY <1>2 DEF blackbox_record, blackbox_trap_cap
  <2> QED BY <2>1, <2>2, BbBegins, BbQuiet
<1>3. ASSUME NEW t \in BbThreads, blackbox_init(t)
      PROVE  BbIInv'
  <2>1. bbAlive /\ bpc[t] = "install" /\ entry' = entry /\ bbCount' = bbCount /\ lapped' = lapped /\ cut' = cut
        /\ bloc' = [bloc EXCEPT ![t].init = TRUE]
    BY <1>3 DEF blackbox_init, BbAt
  <2>2. DOMAIN bpc' = BbThreads /\ bpc'[t] = "seq" /\ \A u \in BbThreads \ {t} : bpc'[u] = bpc[u]
    BY <1>3 DEF blackbox_init, BbGoto, BbTypeOK
  <2>3. bloc[t].seq \in Nat /\ bloc[t].after \in {"idle", "dump"}
    BY DEF BbTypeOK
  <2>4. DOMAIN bloc' = BbThreads /\ DOMAIN bloc'[t] = BbFields
        /\ bloc'[t].seq = bloc[t].seq /\ bloc'[t].after = bloc[t].after
        /\ \A u \in BbThreads \ {t} : bloc'[u] = bloc[u]
    BY <2>1, BbFlag
  <2> QED BY <2>1, <2>2, <2>3, <2>4, BbQuiet
<1>4. ASSUME NEW t \in BbThreads, TakeSeq(t)
      PROVE  BbIInv'
  BY <1>4, BbTakeSeq
<1>5. ASSUME NEW t \in BbThreads, WriteNumber(t)
      PROVE  BbIInv'
  <2>1. bbAlive /\ bpc[t] = "number" /\ bbCount' = bbCount /\ lapped' = lapped /\ cut' = cut /\ bloc' = bloc
        /\ entry' = [entry EXCEPT ![Idx(bloc[t].seq)].seq = bloc[t].seq]
    BY <1>5 DEF WriteNumber, BbAt
  <2>2. bloc[t].seq \in Nat /\ Idx(bloc[t].seq) \in 0 .. RingCap - 1 /\ DOMAIN bloc = BbThreads
        /\ DOMAIN bloc[t] = BbFields /\ entry \in [0 .. RingCap - 1 -> [seq : Nat, text : Nat]]
    BY IdxRange DEF BbTypeOK
  <2>3. DOMAIN bpc' = BbThreads /\ bpc'[t] = "text" /\ \A u \in BbThreads \ {t} : bpc'[u] = bpc[u]
    BY <1>5 DEF WriteNumber, BbGoto, BbTypeOK
  <2>4. entry' \in [0 .. RingCap - 1 -> [seq : Nat, text : Nat]]
    BY <2>1, <2>2
  <2>5. entry'[Idx(bloc[t].seq)].seq = bloc[t].seq
        /\ \A i \in 0 .. RingCap - 1 : i # Idx(bloc[t].seq) => entry'[i] = entry[i]
    BY <2>1, <2>2
  <2> QED BY <2>1, <2>2, <2>3, <2>4, <2>5, BbWrite
<1>6. ASSUME NEW t \in BbThreads, WriteText(t)
      PROVE  BbIInv'
  <2>1. bbAlive /\ bpc[t] = "text" /\ bbCount' = bbCount /\ lapped' = lapped /\ cut' = cut
        /\ bloc' = [bloc EXCEPT ![t].init = FALSE]
        /\ entry' = [entry EXCEPT ![Idx(bloc[t].seq)].text = bloc[t].seq]
    BY <1>6 DEF WriteText, BbAt
  <2>2. bloc[t].seq \in Nat /\ Idx(bloc[t].seq) \in 0 .. RingCap - 1
        /\ entry \in [0 .. RingCap - 1 -> [seq : Nat, text : Nat]]
    BY IdxRange DEF BbTypeOK
  <2>3. DOMAIN bpc' = BbThreads /\ bpc'[t] \notin {"number", "text"}
        /\ \A u \in BbThreads \ {t} : bpc'[u] = bpc[u]
    BY <1>6 DEF WriteText, BbGoto, BbTypeOK
  <2>4. DOMAIN bloc' = BbThreads /\ DOMAIN bloc'[t] = BbFields
        /\ bloc'[t].seq = bloc[t].seq /\ bloc'[t].after = bloc[t].after
        /\ \A u \in BbThreads \ {t} : bloc'[u] = bloc[u]
    BY <2>1, BbFlag
  <2>5. entry' \in [0 .. RingCap - 1 -> [seq : Nat, text : Nat]]
    BY <2>1, <2>2
  <2>6. entry'[Idx(bloc[t].seq)].text = bloc[t].seq
        /\ entry'[Idx(bloc[t].seq)].seq = entry[Idx(bloc[t].seq)].seq
        /\ \A i \in 0 .. RingCap - 1 : i # Idx(bloc[t].seq) => entry'[i] = entry[i]
    BY <2>1, <2>2
  <2> QED BY <2>1, <2>2, <2>3, <2>4, <2>5, <2>6, BbWrite
<1>7. ASSUME NEW t \in BbThreads, Autopsy(t)
      PROVE  BbIInv'
  <2>1. bbAlive /\ bpc[t] = "dump" /\ entry' = entry /\ bbCount' = bbCount /\ lapped' = lapped /\ cut' = cut
    BY <1>7 DEF Autopsy, BbAt
  <2>2. DOMAIN bpc' = BbThreads /\ bpc'[t] = "idle" /\ \A u \in BbThreads \ {t} : bpc'[u] = bpc[u]
    BY <1>7 DEF Autopsy, BbGoto, BbTypeOK
  <2>3. DOMAIN bloc' = BbThreads /\ bloc'[t] = Rest /\ \A u \in BbThreads \ {t} : bloc'[u] = bloc[u]
    BY <1>7 DEF Autopsy, BbTypeOK
  <2>4. DOMAIN Rest = BbFields /\ Rest.seq \in Nat /\ Rest.after = "idle"
    BY DEF Rest, BbFields
  <2> QED BY <2>1, <2>2, <2>3, <2>4, BbQuiet
<1>8. ASSUME NEW t \in BbThreads, NEW s \in Sigs, Fault(t, s)
      PROVE  BbIInv'
  <2>1. bbAlive /\ entry' = entry /\ bbCount' = bbCount /\ lapped' = lapped
    BY <1>8 DEF Fault
  <2>2. CASE s \notin handled \/ inHandler
    <3>1. ~ bbAlive' /\ bpc' = bpc /\ bloc' = bloc
      BY <1>8, <2>2 DEF Fault
    <3> QED BY <2>1, <3>1 DEF BbRing, BbTypeOK
  <2>3. CASE ~ (s \notin handled \/ inHandler)
    <3>1. Begin(t, "dump", s) /\ cut' = cut \cup {Idx(bloc[t].seq) : x \in {t} \cap Writing}
      BY <1>8, <2>3 DEF Fault
    <3>2. cut \subseteq cut' /\ (bpc[t] \in {"number", "text"} => Idx(bloc[t].seq) \in cut')
      BY <3>1 DEF Writing
    <3> QED BY <2>1, <3>1, <3>2, BbBegins, BbQuiet
  <2> QED BY <2>2, <2>3
<1> QED BY <1>1, <1>2, <1>3, <1>4, <1>5, <1>6, <1>7, <1>8 DEF BbNext

(* For any threads, ring size and signals: while no recorder falls a whole ring behind, a     *)
(* settled entry holds whole the latest event that belongs there.                             *)
THEOREM RingCorrect == BbSpec => []RingShowsLatest
<1>1. BbInit => BbIInv
  BY BbInitial
<1>2. BbIInv /\ [BbNext]_bbVars => BbIInv'
  BY BbStep
<1> QED BY <1>1, <1>2, RingFromEntries, PTL DEF BbSpec
-----------------------------------------------------------------------------
(***************************************************************************)
(* The durable append.                                                     *)
(***************************************************************************)
WalBytes == [rec : Nat, i : Nat, state : {"dirty", "disk", "lost"}]
WalTypeOK ==
  /\ page \in Seq(WalBytes)
  /\ nrec \in Nat /\ wbErr \in Nat
  /\ wpc \in [WalThreads -> {"idle", "write", "sync", "close", "close_bad"}]
  /\ wloc \in [WalThreads -> [rec : Nat, off : Nat, err : Nat]]

\* The first k bytes of record r are in the file, each once and in order.
HasPrefix(r, k) ==
  /\ \A p \in DOMAIN page : page[p].rec = r => page[p].i \in 1 .. k
  /\ \A i \in 1 .. k : \E p \in DOMAIN page : page[p].rec = r /\ page[p].i = i
  /\ \A p, q \in DOMAIN page : page[p].rec = r /\ page[q].rec = r /\ p < q => page[p].i < page[q].i

\* No byte of record r has a state of S.
NoByteIn(r, S) == \A p \in DOMAIN page : page[p].rec = r => page[p].state \notin S

\* A call: what it has written is there, and is still to be stored unless an error was noted
\* since its open; after a good fsync it is on the disk.
WalCall(t) ==
  wpc[t] # "idle" =>
    /\ wloc[t].rec \in 1 .. nrec /\ wloc[t].rec \notin acked
    /\ wloc[t].off \in 0 .. RecLen /\ (wpc[t] \in {"sync", "close"} => wloc[t].off = RecLen)
    /\ wloc[t].err <= wbErr
    /\ HasPrefix(wloc[t].rec, wloc[t].off)
    /\ wloc[t].err = wbErr => NoByteIn(wloc[t].rec, {"lost"})
    /\ wpc[t] = "close" => NoByteIn(wloc[t].rec, {"lost", "dirty"})

WalApart ==
  \A t, u \in WalThreads : t # u /\ wpc[t] # "idle" /\ wpc[u] # "idle" => wloc[t].rec # wloc[u].rec

WalAcked ==
  \A r \in acked : r \in 1 .. nrec /\ HasPrefix(r, RecLen) /\ NoByteIn(r, {"lost", "dirty"})

\* The invariant of the log.
WalIInv ==
  /\ WalTypeOK
  /\ \A p \in DOMAIN page : page[p].rec <= nrec
  /\ \A t \in WalThreads : WalCall(t)
  /\ WalApart /\ WalAcked

LEMMA DurableFromInv == WalIInv => AckedDurable
<1> SUFFICES ASSUME WalIInv, NEW r \in acked
             PROVE  LET mine == {p \in DOMAIN page : page[p].rec = r}
                    IN /\ {page[p].i : p \in mine} = 1 .. RecLen
                       /\ \A p, q \in mine : p < q => page[p].i < page[q].i
                       /\ \A p \in mine : page[p].state = "disk"
  BY DEF AckedDurable
<1> DEFINE mine == {p \in DOMAIN page : page[p].rec = r}
<1>1. HasPrefix(r, RecLen) /\ NoByteIn(r, {"lost", "dirty"})
  BY DEF WalIInv, WalAcked
<1>2. \A p \in DOMAIN page : page[p] \in WalBytes
  BY DEF WalIInv, WalTypeOK
<1>3. {page[p].i : p \in mine} = 1 .. RecLen
  BY <1>1 DEF HasPrefix
<1>4. \A p, q \in mine : p < q => page[p].i < page[q].i
  BY <1>1 DEF HasPrefix
<1>5. \A p \in mine : page[p].state = "disk"
  BY <1>1, <1>2 DEF NoByteIn, WalBytes
<1> QED BY <1>3, <1>4, <1>5

\* The same bytes are in the file, whatever their states.
SameBytes ==
  /\ DOMAIN page' = DOMAIN page
  /\ \A p \in DOMAIN page : page'[p].rec = page[p].rec /\ page'[p].i = page[p].i

LEMMA PrefixKept ==
  ASSUME SameBytes, NEW r, NEW k
  PROVE  HasPrefix(r, k)' <=> HasPrefix(r, k)
BY DEF SameBytes, HasPrefix

(* A writeback moves every dirty byte to the state it names, and no other. *)
LEMMA FlushedFacts ==
  ASSUME WalTypeOK, NEW s \in {"disk", "lost"}, page' = Flushed(s)
  PROVE  /\ page' \in Seq(WalBytes) /\ SameBytes
         /\ \A p \in DOMAIN page : page'[p].state = IF page[p].state = "dirty" THEN s ELSE page[p].state
<1>1. \A p \in DOMAIN page : page[p] \in WalBytes
  BY DEF WalTypeOK
<1>2. DOMAIN page' = DOMAIN page
      /\ \A p \in DOMAIN page : page'[p] = IF page[p].state = "dirty" THEN [page[p] EXCEPT !.state = s] ELSE page[p]
  BY DEF Flushed
<1>3. \A p \in DOMAIN page : page'[p] \in WalBytes
  BY <1>1, <1>2 DEF WalBytes
<1>4. page' \in Seq(WalBytes)
  <2>1. DOMAIN page = 1 .. Len(page) /\ Len(page) \in Nat
    BY DEF WalTypeOK
  <2>2. page' = [p \in 1 .. Len(page) |-> page'[p]]
    BY <1>2, <2>1 DEF Flushed
  <2> QED BY <1>2, <1>3, <2>1, <2>2
<1>5. \A p \in DOMAIN page : page'[p].state = IF page[p].state = "dirty" THEN s ELSE page[p].state
  BY <1>1, <1>2 DEF WalBytes
<1>6. SameBytes
  BY <1>1, <1>2 DEF SameBytes, WalBytes
<1> QED BY <1>4, <1>5, <1>6

LEMMA WalInitial == ASSUME WalInit PROVE WalIInv
<1>1. page = <<>> /\ wbErr = 0 /\ nrec = 0 /\ acked = {} /\ wpc = [t \in WalThreads |-> "idle"]
      /\ wloc = [t \in WalThreads |-> NoRec]
  BY DEF WalInit
<1>2. NoRec \in [rec : Nat, off : Nat, err : Nat]
  BY DEF NoRec
<1>3. WalTypeOK
  BY <1>1, <1>2 DEF WalTypeOK
<1> QED BY <1>1, <1>3 DEF WalIInv, WalCall, WalApart, WalAcked

(* The open: a record nobody has written a byte of. *)
LEMMA WalOpen ==
  ASSUME WalIInv, NEW t \in WalThreads, writedir_open_append(t)
  PROVE  WalIInv'
<1>1. nrec \in Nat /\ wbErr \in Nat /\ nrec' = nrec + 1 /\ page' = page /\ wbErr' = wbErr /\ acked' = acked
      /\ wpc[t] = "idle"
  BY DEF WalIInv, WalTypeOK, writedir_open_append
<1>2. wpc'[t] = "write" /\ wloc'[t] = [rec |-> nrec + 1, off |-> 0, err |-> wbErr]
      /\ \A u \in WalThreads \ {t} : wpc'[u] = wpc[u] /\ wloc'[u] = wloc[u]
  BY DEF WalIInv, WalTypeOK, writedir_open_append, WGoto
<1>3. WalTypeOK'
  <2>1. wpc' \in [WalThreads -> {"idle", "write", "sync", "close", "close_bad"}]
    BY DEF WalIInv, WalTypeOK, writedir_open_append, WGoto
  <2>2. wloc' \in [WalThreads -> [rec : Nat, off : Nat, err : Nat]]
    BY <1>1 DEF WalIInv, WalTypeOK, writedir_open_append
  <2> QED BY <1>1, <2>1, <2>2 DEF WalIInv, WalTypeOK
<1>4. \A p \in DOMAIN page : page[p].rec <= nrec /\ page[p].rec \in Nat
  <2>1. \A p \in DOMAIN page : page[p] \in WalBytes
    BY DEF WalIInv, WalTypeOK
  <2> QED BY <2>1 DEF WalIInv, WalBytes
<1>5. SameBytes /\ \A r, k : HasPrefix(r, k)' <=> HasPrefix(r, k)
  BY <1>1 DEF SameBytes, HasPrefix
<1>6. \A r, S : NoByteIn(r, S)' <=> NoByteIn(r, S)
  BY <1>1 DEF NoByteIn
<1>7. ASSUME NEW u \in WalThreads PROVE WalCall(u)'
  <2>1. CASE u = t
    <3>1. HasPrefix(nrec + 1, 0) /\ \A S : NoByteIn(nrec + 1, S)
      BY <1>1, <1>4 DEF HasPrefix, NoByteIn
    <3>2. nrec + 1 \notin acked
      BY <1>1 DEF WalIInv, WalAcked
    <3> QED BY <1>1, <1>2, <1>5, <1>6, <2>1, <3>1, <3>2, RecLenAssumption DEF WalCall
  <2>2. CASE u # t
    <3>1. WalCall(u) /\ wpc'[u] = wpc[u] /\ wloc'[u] = wloc[u]
      BY <1>2, <2>2 DEF WalIInv
    <3> QED BY <1>1, <1>5, <1>6, <3>1 DEF WalCall
  <2> QED BY <2>1, <2>2
<1>8. WalApart'
  <2>1. \A u \in WalThreads : wpc[u] # "idle" => wloc[u].rec # nrec + 1
    BY <1>1 DEF WalIInv, WalCall
  <2> QED BY <1>2, <2>1 DEF WalIInv, WalApart
<1>9. WalAcked'
  BY <1>1, <1>5, <1>6 DEF WalIInv, WalAcked
<1> QED BY <1>1, <1>3, <1>4, <1>7, <1>8, <1>9 DEF WalIInv

(* A step after which t is not recording, or records with the same locals, while the bytes stay *)
(* and no byte gets worse than a noted error allows.                                            *)
LEMMA WalQuiet ==
  ASSUME WalIInv, WalTypeOK', SameBytes, nrec' = nrec, wbErr' >= wbErr, acked' = acked,
         \A r : NoByteIn(r, {"lost", "dirty"}) => NoByteIn(r, {"lost", "dirty"})',
         wbErr' = wbErr => \A r : NoByteIn(r, {"lost"}) => NoByteIn(r, {"lost"})',
         \A u \in WalThreads :
           \/ wpc'[u] = "idle"
           \/ /\ wpc[u] # "idle" /\ wloc'[u] = wloc[u]
              /\ wpc'[u] \in {"sync", "close"} => wpc[u] \in {"sync", "close"}
              /\ wpc'[u] = "close" => wpc[u] = "close" \/ NoByteIn(wloc[u].rec, {"lost", "dirty"})'
  PROVE  WalIInv'
<1>1. wbErr \in Nat /\ wbErr' \in Nat /\ nrec \in Nat
  BY DEF WalIInv, WalTypeOK
<1>2. \A r, k : HasPrefix(r, k)' <=> HasPrefix(r, k)
  BY PrefixKept
<1>3. \A p \in DOMAIN page' : page'[p].rec <= nrec'
  BY DEF WalIInv, SameBytes
<1>4. ASSUME NEW u \in WalThreads PROVE WalCall(u)'
  <2>1. SUFFICES ASSUME wpc'[u] # "idle" PROVE WalCall(u)'
    BY DEF WalCall
  <2>2. wpc[u] # "idle" /\ wloc'[u] = wloc[u]
        /\ (wpc'[u] \in {"sync", "close"} => wpc[u] \in {"sync", "close"})
        /\ (wpc'[u] = "close" => wpc[u] = "close" \/ NoByteIn(wloc[u].rec, {"lost", "dirty"})')
    BY <2>1
  <2>3. WalCall(u) /\ wloc[u].err \in Nat
    BY DEF WalIInv, WalTypeOK
  <2>4. wloc[u].err = wbErr' => NoByteIn(wloc[u].rec, {"lost"})'
    BY <1>1, <2>2, <2>3 DEF WalCall
  <2>5. wpc'[u] = "close" => NoByteIn(wloc[u].rec, {"lost", "dirty"})'
    BY <2>2, <2>3 DEF WalCall
  <2>6. HasPrefix(wloc[u].rec, wloc[u].off)'
    BY <1>2, <2>2, <2>3 DEF WalCall
  <2>7. wloc[u].err <= wbErr'
    BY <1>1, <2>2, <2>3 DEF WalCall
  <2> QED BY <2>2, <2>3, <2>4, <2>5, <2>6, <2>7 DEF WalCall, HasPrefix, NoByteIn
<1>5. WalApart'
  BY DEF WalIInv, WalApart
<1>6. WalAcked'
  BY <1>2 DEF WalIInv, WalAcked
<1> QED BY <1>3, <1>4, <1>5, <1>6 DEF WalIInv

(* The write loop: n more bytes of the call's record at the end of the file. *)
LEMMA WalWritten ==
  ASSUME WalIInv, NEW t \in WalThreads, wpc[t] = "write",
         NEW r, r = wloc[t].rec, NEW k, k = wloc[t].off, NEW n \in 1 .. RecLen - k,
         page' = page \o [i \in 1 .. n |-> [rec |-> r, i |-> k + i, state |-> "dirty"]],
         wloc' = [wloc EXCEPT ![t].off = @ + n],
         WGoto(t, IF k + n = RecLen THEN "sync" ELSE "write"),
         wbErr' = wbErr, nrec' = nrec, acked' = acked
  PROVE  WalIInv'
<1> DEFINE more == [i \in 1 .. n |-> [rec |-> r, i |-> k + i, state |-> "dirty"]]
<1>1. WalCall(t) /\ wloc[t] \in [rec : Nat, off : Nat, err : Nat] /\ nrec \in Nat /\ RecLen \in Nat
  BY RecLenAssumption DEF WalIInv, WalTypeOK
<1>2. r \in 1 .. nrec /\ r \notin acked /\ k \in 0 .. RecLen /\ wloc[t].err <= wbErr /\ HasPrefix(r, k)
      /\ (wloc[t].err = wbErr => NoByteIn(r, {"lost"}))
  BY <1>1 DEF WalCall
<1>3. n \in Nat /\ n > 0 /\ k + n \in 0 .. RecLen /\ k \in Nat /\ r \in Nat
  BY <1>1, <1>2
<1>4. more \in Seq(WalBytes) /\ Len(more) = n
  <2>1. \A i \in 1 .. n : [rec |-> r, i |-> k + i, state |-> "dirty"] \in WalBytes
    BY <1>3 DEF WalBytes
  <2>2. more \in [1 .. n -> WalBytes]
    BY <2>1
  <2>3. DOMAIN more = 1 .. n
    OBVIOUS
  <2> HIDE DEF more
  <2>4. more \in Seq(WalBytes)
    BY <1>3, <2>2, SeqDef, Zenon
  <2> QED BY <1>3, <2>3, <2>4
<1>5. page \in Seq(WalBytes) /\ page' = page \o more
  BY DEF WalIInv, WalTypeOK
<1> DEFINE L == Len(page)
<1>6. page' \in Seq(WalBytes) /\ Len(page') = L + n /\ L \in Nat
      /\ \A p \in 1 .. L + n : page'[p] = IF p <= L THEN page[p] ELSE more[p - L]
  <2> HIDE DEF more
  <2>1. (page \o more) \in Seq(WalBytes) /\ Len(page \o more) = Len(page) + Len(more)
        /\ \A p \in 1 .. Len(page) + Len(more) : (page \o more)[p] = IF p <= Len(page) THEN page[p] ELSE more[p - Len(page)]
    BY <1>4, <1>5, ConcatProperties
  <2>2. Len(page) \in Nat
    BY <1>5
  <2> QED BY <1>4, <1>5, <2>1, <2>2
<1>7. DOMAIN page = 1 .. L /\ DOMAIN page' = 1 .. L + n
  BY <1>5, <1>6
<1>8. \A p \in 1 .. L : page'[p] = page[p]
  BY <1>3, <1>6
<1>9. \A p \in L + 1 .. L + n : page'[p].rec = r /\ page'[p].i = k + (p - L) /\ page'[p].state = "dirty"
  BY <1>3, <1>6
<1>10. wpc'[t] \in {"write", "sync"} /\ (wpc'[t] = "sync" => k + n = RecLen)
       /\ \A u \in WalThreads \ {t} : wpc'[u] = wpc[u]
  BY DEF WalIInv, WalTypeOK, WGoto
<1>11. wloc'[t].rec = r /\ wloc'[t].off = k + n /\ wloc'[t].err = wloc[t].err
       /\ \A u \in WalThreads \ {t} : wloc'[u] = wloc[u]
  BY DEF WalIInv, WalTypeOK
<1>12. WalTypeOK'
  <2>1. wpc' \in [WalThreads -> {"idle", "write", "sync", "close", "close_bad"}]
    BY DEF WalIInv, WalTypeOK, WGoto
  <2>2. wloc' \in [WalThreads -> [rec : Nat, off : Nat, err : Nat]]
    <3>1. [wloc[t] EXCEPT !.off = @ + n] \in [rec : Nat, off : Nat, err : Nat]
      <4>1. wloc[t].off + n \in Nat
        BY <1>3
      <4>2. wloc[t] \in [rec : Nat, off : Nat, err : Nat]
        BY <1>1
      <4> QED BY <4>1, <4>2
    <3>2. wloc' = [wloc EXCEPT ![t] = [wloc[t] EXCEPT !.off = @ + n]]
      OBVIOUS
    <3>3. wloc \in [WalThreads -> [rec : Nat, off : Nat, err : Nat]]
      BY DEF WalIInv, WalTypeOK
    <3> QED BY <3>1, <3>2, <3>3
  <2> QED BY <1>6, <2>1, <2>2 DEF WalIInv, WalTypeOK
<1>0. L \in Nat /\ n \in Nat /\ n > 0 /\ k \in Nat
  BY <1>3, <1>6
<1> HIDE DEF more, L
<1>13. \A x, m : x # r => (HasPrefix(x, m)' <=> HasPrefix(x, m))
  <2>1. \A x : x # r => \A p \in DOMAIN page' : page'[p].rec = x => p \in DOMAIN page
    BY <1>3, <1>6, <1>7, <1>9
  <2>2. DOMAIN page \subseteq DOMAIN page' /\ \A p \in DOMAIN page : page'[p] = page[p]
    BY <1>3, <1>6, <1>7, <1>8
  <2>3. SUFFICES ASSUME NEW x, NEW m, x # r PROVE HasPrefix(x, m)' <=> HasPrefix(x, m)
    OBVIOUS
  <2>4. HasPrefix(x, m)' => HasPrefix(x, m)
    <3>1. SUFFICES ASSUME HasPrefix(x, m)' PROVE HasPrefix(x, m)
      OBVIOUS
    <3>2. \A p \in DOMAIN page : page[p].rec = x => page[p].i \in 1 .. m
      BY <2>2, <3>1 DEF HasPrefix
    <3>3. \A i \in 1 .. m : \E p \in DOMAIN page : page[p].rec = x /\ page[p].i = i
      <4>1. \A i \in 1 .. m : \E p \in DOMAIN page' : page'[p].rec = x /\ page'[p].i = i
        BY <3>1 DEF HasPrefix
      <4> QED
        <5>1. SUFFICES ASSUME NEW i \in 1 .. m PROVE \E p \in DOMAIN page : page[p].rec = x /\ page[p].i = i
          OBVIOUS
        <5>2. PICK p \in DOMAIN page' : page'[p].rec = x /\ page'[p].i = i
          BY <4>1
        <5>3. p \in DOMAIN page
          BY <2>1, <2>3, <5>2
        <5> QED BY <2>2, <5>2, <5>3
    <3>4. \A p, q \in DOMAIN page : page[p].rec = x /\ page[q].rec = x /\ p < q => page[p].i < page[q].i
      <4>1. \A p, q \in DOMAIN page' : page'[p].rec = x /\ page'[q].rec = x /\ p < q => page'[p].i < page'[q].i
        BY <3>1 DEF HasPrefix
      <4> QED BY <2>2, <4>1
    <3> QED BY <3>2, <3>3, <3>4 DEF HasPrefix
  <2>5. HasPrefix(x, m) => HasPrefix(x, m)'
    BY <2>1, <2>2, <2>3 DEF HasPrefix
  <2> QED BY <2>4, <2>5
<1>14. \A x, S : x # r => (NoByteIn(x, S)' <=> NoByteIn(x, S))
  <2>1. \A x : x # r => \A p \in DOMAIN page' : page'[p].rec = x => p \in DOMAIN page
    BY <1>3, <1>6, <1>7, <1>9
  <2>2. DOMAIN page \subseteq DOMAIN page' /\ \A p \in DOMAIN page : page'[p] = page[p]
    BY <1>3, <1>6, <1>7, <1>8
  <2> QED BY <2>1, <2>2 DEF NoByteIn
<1>15. HasPrefix(r, k + n)'
  <2>1. \A p \in DOMAIN page : page[p].rec = r => page[p].i \in 1 .. k
    BY <1>2 DEF HasPrefix
  <2>2. \A i \in 1 .. k : \E p \in DOMAIN page : page[p].rec = r /\ page[p].i = i
    BY <1>2 DEF HasPrefix
  <2>3. \A p, q \in DOMAIN page : page[p].rec = r /\ page[q].rec = r /\ p < q => page[p].i < page[q].i
    BY <1>2 DEF HasPrefix
  <2>4. \A p \in DOMAIN page' : p \in 1 .. L \/ p \in L + 1 .. L + n
    BY <1>0, <1>7
  <2>5. \A p \in 1 .. L : page'[p].rec = r => page'[p].i \in 1 .. k
    BY <1>7, <1>8, <2>1
  <2>6. ASSUME NEW p \in DOMAIN page', page'[p].rec = r PROVE page'[p].i \in 1 .. k + n
    <3>1. CASE p \in 1 .. L
      <4>1. page'[p].i \in 1 .. k
        BY <2>5, <2>6, <3>1
      <4> QED BY <1>0, <4>1
    <3>2. CASE p \in L + 1 .. L + n
      <4>1. page'[p].i = k + (p - L)
        BY <1>9, <3>2
      <4>2. k + (p - L) \in 1 .. k + n
        BY <1>0, <3>2
      <4> QED BY <4>1, <4>2
    <3> QED BY <2>4, <3>1, <3>2
  <2>7. ASSUME NEW i \in 1 .. k + n PROVE \E p \in DOMAIN page' : page'[p].rec = r /\ page'[p].i = i
    <3>1. CASE i <= k
      <4>1. PICK p \in DOMAIN page : page[p].rec = r /\ page[p].i = i
        BY <1>0, <2>2, <3>1
      <4>2. p \in 1 .. L /\ p \in DOMAIN page'
        BY <1>0, <1>7
      <4> QED BY <1>8, <4>1, <4>2
    <3>2. CASE i > k
      <4>1. PICK p \in Int : p = L + (i - k)
        BY <1>0
      <4>2. p \in L + 1 .. L + n /\ k + (p - L) = i
        BY <1>0, <3>2, <4>1
      <4>3. p \in DOMAIN page'
        BY <1>0, <1>7, <4>2
      <4>4. page'[p].rec = r /\ page'[p].i = i
        BY <1>9, <4>2
      <4> QED BY <4>3, <4>4
    <3>3. i <= k \/ i > k
      BY <1>0
    <3> QED BY <3>1, <3>2, <3>3
  <2>8. ASSUME NEW p \in DOMAIN page', NEW q \in DOMAIN page', page'[p].rec = r, page'[q].rec = r, p < q
        PROVE  page'[p].i < page'[q].i
    <3>1. CASE q \in 1 .. L
      <4>1. p \in 1 .. L
        BY <1>0, <2>4, <2>8, <3>1
      <4>2. page'[p] = page[p] /\ page'[q] = page[q]
        BY <1>8, <3>1, <4>1
      <4> QED BY <1>7, <2>3, <2>8, <3>1, <4>1, <4>2
    <3>2. CASE q \in L + 1 .. L + n /\ p \in 1 .. L
      <4>1. page'[p].i \in 1 .. k
        BY <2>5, <2>8, <3>2
      <4>2. page'[q].i = k + (q - L)
        BY <1>9, <3>2
      <4>3. k + (q - L) > k /\ k + (q - L) \in Int
        BY <1>0, <3>2
      <4>4. \A a \in 1 .. k, b \in Int : b > k => a < b
        BY <1>0
      <4> QED BY <4>1, <4>2, <4>3, <4>4
    <3>3. CASE q \in L + 1 .. L + n /\ p \in L + 1 .. L + n
      <4>1. page'[p].i = k + (p - L) /\ page'[q].i = k + (q - L)
        BY <1>9, <3>3
      <4>2. k + (p - L) < k + (q - L)
        BY <1>0, <2>8, <3>3
      <4> QED BY <4>1, <4>2
    <3> QED BY <2>4, <3>1, <3>2, <3>3
  <2> QED BY <2>6, <2>7, <2>8 DEF HasPrefix
<1>16. NoByteIn(r, {"lost"}) => NoByteIn(r, {"lost"})'
  <2>1. \A p \in DOMAIN page' : (p \in DOMAIN page /\ page'[p] = page[p]) \/ page'[p].state = "dirty"
    BY <1>3, <1>6, <1>7, <1>8, <1>9
  <2> QED BY <2>1 DEF NoByteIn
<1>17. \A p \in DOMAIN page' : page'[p].rec <= nrec'
  <2>1. \A p \in DOMAIN page' : (p \in DOMAIN page /\ page'[p] = page[p]) \/ page'[p].rec = r
    BY <1>0, <1>7, <1>8, <1>9
  <2>2. r <= nrec /\ \A p \in DOMAIN page : page[p].rec <= nrec
    BY <1>1, <1>2 DEF WalIInv
  <2> QED BY <2>1, <2>2
<1>18. ASSUME NEW u \in WalThreads PROVE WalCall(u)'
  <2>1. CASE u = t
    <3>1. HasPrefix(wloc[u].rec, wloc[u].off)'
      BY <1>11, <1>15, <2>1
    <3>2. wloc'[u].err = wbErr' => NoByteIn(wloc[u].rec, {"lost"})'
      BY <1>2, <1>11, <1>16, <2>1
    <3>3. wpc'[u] # "close" /\ (wpc'[u] = "sync" => wloc'[u].off = RecLen)
      BY <1>10, <1>11, <2>1
    <3> QED BY <1>2, <1>3, <1>11, <2>1, <3>1, <3>2, <3>3 DEF WalCall
  <2>2. CASE u # t
    <3>1. SUFFICES ASSUME wpc[u] # "idle" PROVE WalCall(u)'
      BY <1>10, <2>2 DEF WalCall
    <3>2. WalCall(u) /\ wpc'[u] = wpc[u] /\ wloc'[u] = wloc[u] /\ wloc[u].rec # r
      BY <1>10, <1>11, <2>2, <3>1 DEF WalIInv, WalApart
    <3>3. HasPrefix(wloc[u].rec, wloc[u].off)' /\ \A S : NoByteIn(wloc[u].rec, S)' <=> NoByteIn(wloc[u].rec, S)
      BY <1>13, <1>14, <3>1, <3>2 DEF WalCall
    <3> QED BY <3>1, <3>2, <3>3 DEF WalCall
  <2> QED BY <2>1, <2>2
<1>19. WalApart'
  BY <1>10, <1>11 DEF WalIInv, WalApart
<1>20. WalAcked'
  BY <1>2, <1>13, <1>14 DEF WalIInv, WalAcked
<1> QED BY <1>12, <1>17, <1>18, <1>19, <1>20 DEF WalIInv

(* A writeback to the disk makes no byte worse; one that fails loses dirty bytes only. *)
LEMMA FlushStates ==
  ASSUME WalTypeOK, NEW s \in {"disk", "lost"}, page' = Flushed(s)
  PROVE  /\ \A r : NoByteIn(r, {"lost", "dirty"}) => NoByteIn(r, {"lost", "dirty"})'
         /\ s = "disk" => \A r : NoByteIn(r, {"lost"}) => NoByteIn(r, {"lost", "dirty"})' /\ NoByteIn(r, {"lost"})'
<1>1. SameBytes /\ \A p \in DOMAIN page : page'[p].state = IF page[p].state = "dirty" THEN s ELSE page[p].state
  BY FlushedFacts
<1> QED BY <1>1 DEF NoByteIn, SameBytes

(* fsync: Ok only if no error was noted since the open. *)
LEMMA WalSynced == ASSUME WalIInv, NEW t \in WalThreads, WalSync(t) PROVE WalIInv'
<1>1. wpc[t] = "sync" /\ wloc' = wloc /\ nrec' = nrec /\ acked' = acked /\ wbErr \in Nat /\ WalTypeOK
      /\ WalCall(t)
  BY DEF WalSync, WalIInv, WalTypeOK
<1>2. ASSUME NEW l \in {"close", "close_bad"}, WGoto(t, l)
      PROVE  /\ wpc' \in [WalThreads -> {"idle", "write", "sync", "close", "close_bad"}]
             /\ wpc'[t] = l /\ \A u \in WalThreads \ {t} : wpc'[u] = wpc[u]
  BY <1>2 DEF WGoto, WalIInv, WalTypeOK
<1>3. CASE wloc[t].err = wbErr /\ page' = Flushed("disk") /\ WGoto(t, "close") /\ wbErr' = wbErr
  <2>1. page' \in Seq(WalBytes) /\ SameBytes
    BY <1>1, <1>3, FlushedFacts
  <2>2. wpc' \in [WalThreads -> {"idle", "write", "sync", "close", "close_bad"}]
        /\ wpc'[t] = "close" /\ \A u \in WalThreads \ {t} : wpc'[u] = wpc[u]
    BY <1>2, <1>3
  <2>3. WalTypeOK'
    BY <1>1, <1>3, <2>1, <2>2 DEF WalTypeOK
  <2>4. /\ \A r : NoByteIn(r, {"lost", "dirty"}) => NoByteIn(r, {"lost", "dirty"})'
        /\ \A r : NoByteIn(r, {"lost"}) => NoByteIn(r, {"lost", "dirty"})' /\ NoByteIn(r, {"lost"})'
    BY <1>1, <1>3, FlushStates
  <2>5. NoByteIn(wloc[t].rec, {"lost", "dirty"})'
    BY <1>1, <1>3, <2>4 DEF WalCall
  <2>6. \A u \in WalThreads :
          \/ wpc'[u] = "idle"
          \/ /\ wpc[u] # "idle" /\ wloc'[u] = wloc[u]
             /\ wpc'[u] \in {"sync", "close"} => wpc[u] \in {"sync", "close"}
             /\ wpc'[u] = "close" => wpc[u] = "close" \/ NoByteIn(wloc[u].rec, {"lost", "dirty"})'
    BY <1>1, <2>2, <2>5
  <2>7. wbErr' >= wbErr
    BY <1>1, <1>3
  <2> QED BY <1>1, <1>3, <2>1, <2>3, <2>4, <2>6, <2>7, WalQuiet
<1>4. CASE WGoto(t, "close_bad") /\ UNCHANGED <<page, wbErr>>
  <2>1. SameBytes /\ \A r, S : NoByteIn(r, S)' <=> NoByteIn(r, S)
    BY <1>4 DEF SameBytes, NoByteIn
  <2>2. wpc' \in [WalThreads -> {"idle", "write", "sync", "close", "close_bad"}]
        /\ wpc'[t] = "close_bad" /\ \A u \in WalThreads \ {t} : wpc'[u] = wpc[u]
    BY <1>2, <1>4
  <2>3. WalTypeOK'
    BY <1>1, <1>4, <2>2 DEF WalTypeOK
  <2>4. wbErr' >= wbErr
    BY <1>1, <1>4
  <2> QED BY <1>1, <2>1, <2>2, <2>3, <2>4, WalQuiet
<1>5. CASE page' = Flushed("lost") /\ wbErr' = wbErr + 1 /\ WGoto(t, "close_bad")
  <2>1. page' \in Seq(WalBytes) /\ SameBytes
    BY <1>1, <1>5, FlushedFacts
  <2>2. wpc' \in [WalThreads -> {"idle", "write", "sync", "close", "close_bad"}]
        /\ wpc'[t] = "close_bad" /\ \A u \in WalThreads \ {t} : wpc'[u] = wpc[u]
    BY <1>2, <1>5
  <2>3. WalTypeOK'
    BY <1>1, <1>5, <2>1, <2>2 DEF WalTypeOK
  <2>4. \A r : NoByteIn(r, {"lost", "dirty"}) => NoByteIn(r, {"lost", "dirty"})'
    BY <1>1, <1>5, FlushStates
  <2>5. wbErr' >= wbErr /\ wbErr' # wbErr
    BY <1>1, <1>5
  <2> QED BY <1>1, <2>1, <2>2, <2>3, <2>4, <2>5, WalQuiet
<1> QED BY <1>3, <1>4, <1>5 DEF WalSync

(* close: Ok only after a good fsync, for a record nobody else writes. *)
LEMMA WalClosed == ASSUME WalIInv, NEW t \in WalThreads, WalClose(t) PROVE WalIInv'
<1>1. page' = page /\ wbErr' = wbErr /\ nrec' = nrec /\ wbErr \in Nat /\ WalCall(t)
  BY DEF WalClose, WalIInv, WalTypeOK
<1>2. SameBytes /\ (\A r, S : NoByteIn(r, S)' <=> NoByteIn(r, S)) /\ \A r, k : HasPrefix(r, k)' <=> HasPrefix(r, k)
  BY <1>1 DEF SameBytes, NoByteIn, HasPrefix
<1>3. wpc'[t] = "idle" /\ \A u \in WalThreads \ {t} : wpc'[u] = wpc[u] /\ wloc'[u] = wloc[u]
  BY DEF WalClose, WReturn, WGoto, WalIInv, WalTypeOK
<1>4. WalTypeOK'
  <2>1. NoRec \in [rec : Nat, off : Nat, err : Nat]
    BY DEF NoRec
  <2>2. wpc' \in [WalThreads -> {"idle", "write", "sync", "close", "close_bad"}]
    BY DEF WalClose, WReturn, WGoto, WalIInv, WalTypeOK
  <2>3. wloc' \in [WalThreads -> [rec : Nat, off : Nat, err : Nat]]
    BY <2>1 DEF WalClose, WReturn, WalIInv, WalTypeOK
  <2> QED BY <1>1, <2>2, <2>3 DEF WalIInv, WalTypeOK
<1>5. CASE acked' = acked
  BY <1>1, <1>2, <1>3, <1>4, <1>5, WalQuiet
<1>6. CASE wpc[t] = "close" /\ acked' = acked \cup {wloc[t].rec}
  <2>1. wloc[t].rec \in 1 .. nrec /\ HasPrefix(wloc[t].rec, RecLen) /\ NoByteIn(wloc[t].rec, {"lost", "dirty"})
    BY <1>1, <1>6 DEF WalCall
  <2>2. WalAcked'
    BY <1>1, <1>2, <1>6, <2>1 DEF WalIInv, WalAcked
  <2>3. ASSUME NEW u \in WalThreads PROVE WalCall(u)'
    <3>1. SUFFICES ASSUME wpc'[u] # "idle" PROVE WalCall(u)'
      BY DEF WalCall
    <3>2. u # t /\ wpc[u] # "idle" /\ wpc'[u] = wpc[u] /\ wloc'[u] = wloc[u] /\ WalCall(u)
      BY <1>3, <3>1 DEF WalIInv
    <3>3. wloc[u].rec # wloc[t].rec
      BY <1>6, <3>2 DEF WalIInv, WalApart
    <3> QED BY <1>1, <1>2, <1>6, <3>2, <3>3 DEF WalCall
  <2>4. WalApart'
    BY <1>3 DEF WalIInv, WalApart
  <2> QED BY <1>1, <1>4, <2>2, <2>3, <2>4 DEF WalIInv
<1> QED BY <1>5, <1>6 DEF WalClose

(* The kernel's own writeback. *)
LEMMA WalWriteback == ASSUME WalIInv, Writeback PROVE WalIInv'
<1>1. wpc' = wpc /\ wloc' = wloc /\ nrec' = nrec /\ acked' = acked /\ wbErr \in Nat /\ WalTypeOK
  BY DEF Writeback, WalIInv, WalTypeOK
<1>2. PICK s \in {"disk", "lost"} : /\ page' = Flushed(s)
                                    /\ \/ s = "disk" /\ wbErr' = wbErr
                                       \/ s = "lost" /\ wbErr' = wbErr + 1
  BY DEF Writeback
<1>3. page' \in Seq(WalBytes) /\ SameBytes
  BY <1>1, <1>2, FlushedFacts
<1>4. WalTypeOK' /\ wbErr' >= wbErr /\ (s = "lost" => wbErr' # wbErr)
  BY <1>1, <1>2, <1>3 DEF WalTypeOK
<1>5. /\ \A r : NoByteIn(r, {"lost", "dirty"}) => NoByteIn(r, {"lost", "dirty"})'
      /\ s = "disk" => \A r : NoByteIn(r, {"lost"}) => NoByteIn(r, {"lost"})'
  BY <1>1, <1>2, FlushStates
<1>6. \A u \in WalThreads :
        \/ wpc'[u] = "idle"
        \/ /\ wpc[u] # "idle" /\ wloc'[u] = wloc[u]
           /\ wpc'[u] \in {"sync", "close"} => wpc[u] \in {"sync", "close"}
           /\ wpc'[u] = "close" => wpc[u] = "close" \/ NoByteIn(wloc[u].rec, {"lost", "dirty"})'
  BY <1>1
<1>7. wbErr' = wbErr => \A r : NoByteIn(r, {"lost"}) => NoByteIn(r, {"lost"})'
  BY <1>2, <1>4, <1>5
<1> QED BY <1>1, <1>3, <1>4, <1>5, <1>6, <1>7, WalQuiet

(* A kill or a power loss: no call is left, and the bytes of answered records are on the disk. *)
LEMMA WalDown == ASSUME WalIInv, Kill \/ PowerLoss PROVE WalIInv'
<1>1. nrec' = nrec /\ acked' = acked /\ nrec \in Nat /\ \A t \in WalThreads : wpc'[t] = "idle"
  BY DEF Kill, PowerLoss, WalIInv, WalTypeOK
<1>2. \A p \in DOMAIN page : page[p] \in WalBytes
  BY DEF WalIInv, WalTypeOK
<1>3. DOMAIN page' = DOMAIN page
      /\ \A p \in DOMAIN page : page'[p] = page[p] \/ (page[p].state # "disk" /\ page'[p] = Hole)
  BY DEF Kill, PowerLoss
<1>4. Hole \in WalBytes /\ Hole.rec = 0
  BY DEF Hole, WalBytes
<1>5. page' \in Seq(WalBytes)
  <2>1. CASE Kill
    BY <2>1 DEF Kill, WalIInv, WalTypeOK
  <2>2. CASE PowerLoss
    <3>1. DOMAIN page = 1 .. Len(page) /\ Len(page) \in Nat
      BY DEF WalIInv, WalTypeOK
    <3>2. page' = [p \in 1 .. Len(page) |-> page'[p]]
      BY <2>2, <3>1 DEF PowerLoss
    <3>3. \A p \in DOMAIN page : page'[p] \in WalBytes
      BY <1>2, <1>3, <1>4
    <3> QED BY <3>1, <3>2, <3>3
  <2> QED BY <2>1, <2>2
<1>6. WalTypeOK'
  <2>1. NoRec \in [rec : Nat, off : Nat, err : Nat]
    BY DEF NoRec
  <2> QED BY <1>1, <1>5, <2>1 DEF Kill, PowerLoss, WalIInv, WalTypeOK
<1>7. \A p \in DOMAIN page' : page'[p].rec <= nrec'
  BY <1>1, <1>3, <1>4 DEF WalIInv
<1>8. WalAcked'
  <2>1. SUFFICES ASSUME NEW r \in acked
                 PROVE  r \in 1 .. nrec /\ HasPrefix(r, RecLen)' /\ NoByteIn(r, {"lost", "dirty"})'
    BY <1>1 DEF WalAcked
  <2>2. r \in 1 .. nrec /\ r # 0 /\ HasPrefix(r, RecLen) /\ NoByteIn(r, {"lost", "dirty"})
    BY <1>1 DEF WalIInv, WalAcked
  <2>3. \A p \in DOMAIN page : page[p].rec = r => page[p].state = "disk"
    BY <1>2, <2>2 DEF NoByteIn, WalBytes
  <2>4. \A p \in DOMAIN page : (page'[p].rec = r <=> page[p].rec = r) /\ (page[p].rec = r => page'[p] = page[p])
    BY <1>3, <1>4, <2>2, <2>3
  <2>5. HasPrefix(r, RecLen)'
    BY <1>3, <2>2, <2>4 DEF HasPrefix
  <2>6. NoByteIn(r, {"lost", "dirty"})'
    BY <1>3, <2>2, <2>4 DEF NoByteIn
  <2> QED BY <2>2, <2>5, <2>6
<1> QED BY <1>1, <1>6, <1>7, <1>8 DEF WalIInv, WalCall, WalApart

(* Every step of threads, kernel and machine. *)
LEMMA WalStep == ASSUME WalIInv, [WalNext]_walVars PROVE WalIInv'
<1>1. CASE UNCHANGED walVars
  BY <1>1 DEF walVars, WalIInv, WalTypeOK, WalCall, WalApart, WalAcked, HasPrefix, NoByteIn
<1>2. ASSUME NEW t \in WalThreads, WalWrite(t)
      PROVE  WalIInv'
  <2>1. wpc[t] = "write" /\ wbErr' = wbErr /\ nrec' = nrec /\ acked' = acked /\ wbErr \in Nat
    BY <1>2 DEF WalWrite, WalIInv, WalTypeOK
  <2>2. CASE WGoto(t, "close_bad") /\ UNCHANGED <<page, wloc>>
    <3>1. SameBytes /\ \A r, S : NoByteIn(r, S)' <=> NoByteIn(r, S)
      BY <2>2 DEF SameBytes, NoByteIn
    <3>2. wpc' \in [WalThreads -> {"idle", "write", "sync", "close", "close_bad"}]
          /\ wpc'[t] = "close_bad" /\ \A u \in WalThreads \ {t} : wpc'[u] = wpc[u]
      BY <2>2 DEF WGoto, WalIInv, WalTypeOK
    <3>3. WalTypeOK' /\ wbErr' >= wbErr
      BY <2>1, <2>2, <3>2 DEF WalIInv, WalTypeOK
    <3> QED BY <2>1, <2>2, <3>1, <3>2, <3>3, WalQuiet
  <2>3. CASE ~ (WGoto(t, "close_bad") /\ UNCHANGED <<page, wloc>>)
    <3>1. PICK n \in 1 .. RecLen - wloc[t].off :
            /\ page' = page \o [i \in 1 .. n |-> [rec |-> wloc[t].rec, i |-> wloc[t].off + i, state |-> "dirty"]]
            /\ wloc' = [wloc EXCEPT ![t].off = @ + n]
            /\ WGoto(t, IF wloc[t].off + n = RecLen THEN "sync" ELSE "write")
      BY <1>2, <2>3, Zenon DEF WalWrite
    <3> QED BY <2>1, <3>1, WalWritten
  <2> QED BY <2>2, <2>3
<1> QED BY <1>1, <1>2, WalOpen, WalSynced, WalClosed, WalWriteback, WalDown DEF WalNext

(* For any threads and record length: a record whose append was answered Ok is on the disk, whole, *)
(* once and in order, and stays there through errors, kills and power losses.                      *)
THEOREM DurableCorrect == WalSpec => []AckedDurable
<1>1. WalInit => WalIInv
  BY WalInitial
<1>2. WalIInv /\ [WalNext]_walVars => WalIInv'
  BY WalStep
<1> QED BY <1>1, <1>2, DurableFromInv, PTL DEF WalSpec
-----------------------------------------------------------------------------
(***************************************************************************)
(* The event bus and its counters.                                         *)
(***************************************************************************)
Fns == {"metrics", "user", "return"}

\* A list of listeners has the metrics listener; it has it at most once.
Has(s) == \E i \in DOMAIN s : s[i] = "metrics"
Once(s) == \A i, j \in DOMAIN s : s[i] = "metrics" /\ s[j] = "metrics" => i = j

Counted(n) == IF n \in DOMAIN counters THEN counters[n] ELSE 0
Gone(n) == Counted(n) + cleared[n] + dropped[n]

Pending(e) == {t \in ObThreads : obPc[t] = e /\ (obTodo[t] = <<>> \/ Has(obTodo[t]))}

ObTypeOK ==
  /\ fns \in [Events -> Seq(Fns)]
  /\ obTodo \in [ObThreads -> Seq(Fns)]
  /\ obPc \in [ObThreads -> Events \cup {"idle"}]
  /\ emitted \in [Events -> Nat]
  /\ cleared \in [Events \cup Names -> Nat] /\ dropped \in [Events \cup Names -> Nat]
  /\ \A n \in DOMAIN counters : counters[n] \in Nat

\* Before the first emit nobody is in an emit, and no list has the metrics listener.
ObLists ==
  /\ \A e \in Events : Once(fns[e])
  /\ ~ subscribed => /\ \A e \in Events : ~ Has(fns[e])
                     /\ \A t \in ObThreads : obPc[t] = "idle"

\* The copy an emit works through: the metrics listener once, the return last.
ObCopy(t) ==
  /\ obPc[t] = "idle" => obTodo[t] = <<>>
  /\ Once(obTodo[t])
  /\ obTodo[t] # <<>> => obTodo[t][Len(obTodo[t])] = "return"

ObBooks(e) ==
  (~ dead /\ (subscribed => Has(fns[e]))) => Gone(e) = emitted[e] - Cardinality(Pending(e))

\* The invariant of the bus.
ObIInv ==
  /\ ObTypeOK /\ ObLists
  /\ \A t \in ObThreads : ObCopy(t)
  /\ \A e \in Events : ObBooks(e)

LEMMA EventsFromInv == ObIInv => EventsCounted
<1>1. \A e : Cardinality(Pending(e)) = Emitting(e)
  BY DEF Pending, Emitting, Has
<1> QED BY <1>1 DEF ObIInv, ObBooks, EventsCounted, Gone, Counted, Has

(* Listeners at the end of a list, and the list without its head. *)
LEMMA ListAppend ==
  ASSUME NEW s \in Seq(Fns), NEW f \in Fns, Once(s)
  PROVE  /\ Append(s, f) \in Seq(Fns) /\ Append(s, f) # <<>>
         /\ Append(s, f)[Len(Append(s, f))] = f
         /\ Has(Append(s, f)) <=> Has(s) \/ f = "metrics"
         /\ f # "metrics" \/ ~ Has(s) => Once(Append(s, f))
<1>1. Append(s, f) \in Seq(Fns) /\ Len(Append(s, f)) = Len(s) + 1 /\ Len(s) \in Nat
      /\ Append(s, f)[Len(s) + 1] = f /\ \A i \in 1 .. Len(s) : Append(s, f)[i] = s[i]
  OBVIOUS
<1>2. DOMAIN s = 1 .. Len(s) /\ DOMAIN Append(s, f) = 1 .. Len(s) + 1
  BY <1>1
<1>3. Append(s, f) # <<>>
  BY <1>1
<1>4. Has(Append(s, f)) <=> Has(s) \/ f = "metrics"
  BY <1>1, <1>2 DEF Has
<1>5. ASSUME f # "metrics" \/ ~ Has(s) PROVE Once(Append(s, f))
  BY <1>1, <1>2, <1>5 DEF Once, Has
<1> QED BY <1>1, <1>3, <1>4, <1>5

LEMMA ListTail ==
  ASSUME NEW s \in Seq(Fns), s # <<>>, Once(s), s[Len(s)] = "return", Head(s) # "return"
  PROVE  /\ Tail(s) \in Seq(Fns) /\ Tail(s) # <<>> /\ Tail(s)[Len(Tail(s))] = "return"
         /\ Once(Tail(s))
         /\ Head(s) = "metrics" => Has(s) /\ ~ Has(Tail(s))
         /\ Head(s) # "metrics" => (Has(Tail(s)) <=> Has(s))
<1>1. Len(s) \in Nat /\ Len(s) >= 1 /\ Head(s) = s[1] /\ DOMAIN s = 1 .. Len(s)
  OBVIOUS
<1>2. Len(s) > 1
  BY <1>1
<1>3. Tail(s) \in Seq(Fns) /\ Len(Tail(s)) = Len(s) - 1 /\ \A i \in 1 .. Len(s) - 1 : Tail(s)[i] = s[i + 1]
  BY <1>1
<1>4. DOMAIN Tail(s) = 1 .. Len(s) - 1
  BY <1>1, <1>3
<1>5. Tail(s) # <<>> /\ Tail(s)[Len(Tail(s))] = "return"
  <2>1. Len(s) - 1 \in 1 .. Len(s) - 1 /\ (Len(s) - 1) + 1 = Len(s)
    BY <1>1, <1>2
  <2>2. Tail(s)[Len(s) - 1] = s[Len(s)]
    BY <1>3, <2>1
  <2>3. Len(Tail(s)) > 0
    BY <1>1, <1>2, <1>3
  <2> QED BY <1>3, <2>2, <2>3
<1>6. Once(Tail(s))
  BY <1>1, <1>3, <1>4 DEF Once
<1>7. ASSUME Head(s) = "metrics" PROVE Has(s) /\ ~ Has(Tail(s))
  <2>1. Has(s)
    BY <1>1, <1>7 DEF Has
  <2>2. ASSUME NEW i \in DOMAIN Tail(s), Tail(s)[i] = "metrics" PROVE FALSE
    <3>1. i + 1 \in DOMAIN s /\ s[i + 1] = "metrics" /\ i + 1 # 1 /\ 1 \in DOMAIN s
      BY <1>1, <1>3, <1>4, <2>2
    <3> QED BY <1>1, <1>7, <3>1 DEF Once
  <2> QED BY <2>1, <2>2 DEF Has
<1>8. ASSUME Head(s) # "metrics" PROVE Has(Tail(s)) <=> Has(s)
  <2>1. ASSUME Has(s) PROVE Has(Tail(s))
    <3>1. PICK i \in DOMAIN s : s[i] = "metrics"
      BY <2>1 DEF Has
    <3>2. i - 1 \in DOMAIN Tail(s) /\ Tail(s)[i - 1] = "metrics"
      BY <1>1, <1>3, <1>4, <1>8, <3>1
    <3> QED BY <3>2 DEF Has
  <2>2. ASSUME Has(Tail(s)) PROVE Has(s)
    <3>1. PICK i \in DOMAIN Tail(s) : Tail(s)[i] = "metrics"
      BY <2>2 DEF Has
    <3>2. i + 1 \in DOMAIN s /\ s[i + 1] = "metrics"
      BY <1>1, <1>3, <1>4, <3>1
    <3> QED BY <3>2 DEF Has
  <2> QED BY <2>1, <2>2
<1> QED BY <1>3, <1>5, <1>6, <1>7, <1>8

(* The number of emits under way, with one more and one less. *)
LEMMA PendingFinite ==
  ASSUME NEW e
  PROVE  IsFiniteSet(Pending(e)) /\ Cardinality(Pending(e)) \in Nat
<1>1. Pending(e) \subseteq ObThreads
  BY DEF Pending
<1> QED BY <1>1, FS_Subset, FS_CardinalityType, ObAssumption

LEMMA PendingIn ==
  ASSUME NEW e, NEW t, t \notin Pending(e), Pending(e)' = Pending(e) \cup {t}
  PROVE  Cardinality(Pending(e))' = Cardinality(Pending(e)) + 1
BY PendingFinite, FS_AddElement

LEMMA PendingOut ==
  ASSUME NEW e, NEW t, t \in Pending(e), Pending(e)' = Pending(e) \ {t}
  PROVE  Cardinality(Pending(e))' = Cardinality(Pending(e)) - 1
BY PendingFinite, FS_RemoveElement

LEMMA ObInitial == ASSUME ObInit PROVE ObIInv
<1>1. subscribed = FALSE /\ fns = [e \in Events |-> <<>>] /\ counters = <<>>
      /\ obPc = [t \in ObThreads |-> "idle"] /\ obTodo = [t \in ObThreads |-> <<>>]
      /\ emitted = [e \in Events |-> 0] /\ cleared = [n \in Events \cup Names |-> 0] /\ dropped = cleared
  BY DEF ObInit
<1>2. ObTypeOK
  <2>1. <<>> \in Seq(Fns) /\ DOMAIN counters = {}
    BY <1>1
  <2> QED BY <1>1, <2>1 DEF ObTypeOK
<1>3. ~ Has(<<>>) /\ Once(<<>>)
  BY DEF Has, Once
<1>4. ObLists /\ \A t \in ObThreads : ObCopy(t)
  BY <1>1, <1>3 DEF ObLists, ObCopy
<1>5. ASSUME NEW e \in Events PROVE ObBooks(e)
  <2>1. Pending(e) = {}
    BY <1>1, ObAssumption DEF Pending
  <2>2. Gone(e) = 0 /\ emitted[e] = 0
    BY <1>1 DEF Gone, Counted
  <2> QED BY <2>1, <2>2, FS_EmptySet DEF ObBooks
<1> QED BY <1>2, <1>4, <1>5 DEF ObIInv

(* A step that leaves the lists' metrics listeners, the emits under way and the books of every   *)
(* event as they were.                                                                           *)
LEMMA ObQuiet ==
  ASSUME ObIInv, ObTypeOK', ObLists', subscribed' <=> subscribed, emitted' = emitted,
         \A e \in Events : Has(fns[e])' <=> Has(fns[e]),
         dead => dead', ~ dead' => \A e \in Events : Gone(e)' = Gone(e) /\ Pending(e)' = Pending(e),
         \A t \in ObThreads : ObCopy(t)'
  PROVE  ObIInv'
<1>1. ASSUME NEW e \in Events PROVE ObBooks(e)'
  <2>1. ObBooks(e)
    BY DEF ObIInv
  <2> QED BY <2>1 DEF ObBooks
<1> QED BY <1>1 DEF ObIInv

(* What only the lists, or only the copies, are about. *)
LEMMA ObSame ==
  /\ UNCHANGED <<counters, cleared, dropped>> => \A n : Gone(n)' = Gone(n)
  /\ UNCHANGED <<obPc, obTodo>> => \A e : Pending(e)' = Pending(e)
  /\ UNCHANGED <<obPc, obTodo>> => \A t : ObCopy(t)' <=> ObCopy(t)
  /\ UNCHANGED fns => \A e : Has(fns[e])' <=> Has(fns[e])
BY DEF Gone, Counted, Pending, Has, ObCopy, Once

LEMMA ObSubscribe ==
  ASSUME ObIInv, NEW t \in ObThreads, NEW e \in Events, oo_event_subscribe(t, e)
  PROVE  ObIInv'
<1>1. fns \in [Events -> Seq(Fns)] /\ Once(fns[e]) /\ "user" \in Fns /\ "user" # "metrics"
  BY DEF ObIInv, ObTypeOK, ObLists, Fns
<1>2. Append(fns[e], "user") \in Seq(Fns) /\ Once(Append(fns[e], "user"))
      /\ (Has(Append(fns[e], "user")) <=> Has(fns[e]))
  BY <1>1, ListAppend
<1>3. fns' \in [Events -> Seq(Fns)] /\ (\A d \in Events : d # e => fns'[d] = fns[d])
      /\ (fns'[e] = fns[e] \/ fns'[e] = Append(fns[e], "user"))
  BY <1>1, <1>2 DEF oo_event_subscribe, Subscribed
<1>4. UNCHANGED <<subscribed, counters, obPc, obTodo, dead, emitted, cleared, dropped>>
  BY DEF oo_event_subscribe, obGhosts
<1>5. \A d \in Events : Once(fns'[d]) /\ (Has(fns'[d]) <=> Has(fns[d]))
  BY <1>1, <1>2, <1>3 DEF ObIInv, ObLists
<1>6. ObTypeOK' /\ ObLists'
  <2>1. ObTypeOK'
    BY <1>3, <1>4 DEF ObIInv, ObTypeOK
  <2>2. (\A d \in Events : Once(fns[d]))' /\ (\A d \in Events : Has(fns[d])' <=> Has(fns[d]))
    BY <1>5 DEF Once, Has
  <2> QED BY <1>4, <2>1, <2>2 DEF ObIInv, ObLists
<1>7. \A d \in Events : Has(fns[d])' <=> Has(fns[d])
  BY <1>5 DEF Has
<1> QED BY <1>4, <1>6, <1>7, ObSame, ObQuiet DEF ObIInv

(* A reader of the counters, or an increment or a reset of one: the copies and lists stay. *)
LEMMA ObCounters ==
  ASSUME ObIInv, UNCHANGED <<subscribed, fns, obPc, obTodo, dead, emitted>>,
         cleared' \in [Events \cup Names -> Nat], dropped' \in [Events \cup Names -> Nat],
         \A n \in DOMAIN counters' : counters'[n] \in Nat,
         \A e \in Events : Gone(e)' = Gone(e)
  PROVE  ObIInv'
<1>1. ObTypeOK' /\ ObLists'
  BY DEF ObIInv, ObTypeOK, ObLists, Once, Has
<1> QED BY <1>1, ObSame, ObQuiet DEF ObIInv

(* One more for counter n: in its slot, in a new one, or dropped. *)
LEMMA IncrFacts ==
  ASSUME ObTypeOK, NEW n \in Events \cup Names, Incr(n), cleared' = cleared
  PROVE  /\ dropped' \in [Events \cup Names -> Nat]
         /\ \A m \in DOMAIN counters' : counters'[m] \in Nat
         /\ Gone(n)' = Gone(n) + 1
         /\ \A m \in Events \cup Names : m # n => Gone(m)' = Gone(m)
<1>1. cleared \in [Events \cup Names -> Nat] /\ dropped \in [Events \cup Names -> Nat]
      /\ \A m \in DOMAIN counters : counters[m] \in Nat
  BY DEF ObTypeOK
<1>2. \A m : Counted(m) \in Nat
  BY <1>1 DEF Counted
<1>3. CASE /\ counters' = [m \in DOMAIN counters \cup {n} |->
                            (IF m \in DOMAIN counters THEN counters[m] ELSE 0)
                              + (IF m = n THEN 1 ELSE 0)]
           /\ dropped' = dropped
  <2>1. DOMAIN counters' = DOMAIN counters \cup {n}
        /\ \A m \in DOMAIN counters' : counters'[m] = Counted(m) + (IF m = n THEN 1 ELSE 0)
    BY <1>3 DEF Counted
  <2>2. \A m \in DOMAIN counters' : counters'[m] \in Nat
    BY <1>2, <2>1
  <2>3. Counted(n)' = Counted(n) + 1
    BY <1>2, <2>1 DEF Counted
  <2>4. ASSUME NEW m, m # n PROVE Counted(m)' = Counted(m)
    <3>1. CASE m \in DOMAIN counters
      <4>1. m \in DOMAIN counters' /\ counters'[m] = Counted(m)
        BY <1>2, <2>1, <2>4, <3>1
      <4> QED BY <4>1 DEF Counted
    <3>2. CASE m \notin DOMAIN counters
      BY <2>1, <2>4, <3>2 DEF Counted
    <3> QED BY <3>1, <3>2
  <2>5. Gone(n)' = Gone(n) + 1
    BY <1>1, <1>2, <1>3, <2>3 DEF Gone
  <2> QED BY <1>1, <1>3, <2>2, <2>4, <2>5 DEF Gone
<1>4. CASE dropped' = Add1(dropped, n) /\ counters' = counters
  <2>1. dropped'[n] = dropped[n] + 1 /\ dropped' \in [Events \cup Names -> Nat]
        /\ \A m \in Events \cup Names : m # n => dropped'[m] = dropped[m]
    BY <1>1, <1>4 DEF Add1
  <2>2. \A m : Counted(m)' = Counted(m)
    BY <1>4 DEF Counted
  <2>3. Gone(n)' = Gone(n) + 1
    BY <1>1, <1>2, <2>1, <2>2 DEF Gone
  <2> QED BY <1>1, <1>4, <2>1, <2>2, <2>3 DEF Gone
<1> QED BY <1>3, <1>4 DEF Incr

LEMMA ObOwnIncr ==
  ASSUME ObIInv, NEW t \in ObThreads, NEW n \in Names, oo_metrics_incr(t, n)
  PROVE  ObIInv'
<1>1. UNCHANGED <<subscribed, fns, obPc, obTodo, dead, emitted, cleared>> /\ Incr(n) /\ ObTypeOK
  BY DEF oo_metrics_incr, ObIInv
<1>2. /\ dropped' \in [Events \cup Names -> Nat]
      /\ \A m \in DOMAIN counters' : counters'[m] \in Nat
      /\ \A m \in Events \cup Names : m # n => Gone(m)' = Gone(m)
  BY <1>1, IncrFacts
<1>3. \A e \in Events : Gone(e)' = Gone(e)
  BY <1>2, ObAssumption
<1>4. cleared' \in [Events \cup Names -> Nat]
  BY <1>1 DEF ObTypeOK
<1> QED BY <1>1, <1>2, <1>3, <1>4, ObCounters

LEMMA ObGet ==
  ASSUME ObIInv, NEW t \in ObThreads, oo_metrics_get(t)
  PROVE  ObIInv'
<1>1. UNCHANGED <<subscribed, fns, obPc, obTodo, dead, emitted, counters, cleared, dropped>>
  BY DEF oo_metrics_get, obGhosts
<1> QED BY <1>1, ObSame, ObCounters DEF ObIInv, ObTypeOK

LEMMA ObReset ==
  ASSUME ObIInv, NEW t \in ObThreads, NEW n \in Events \cup Names, oo_metrics_reset(t, n)
  PROVE  ObIInv'
<1>1. UNCHANGED <<subscribed, fns, obPc, obTodo, dead, emitted, dropped>> /\ n \in DOMAIN counters
      /\ counters' = [counters EXCEPT ![n] = 0] /\ cleared' = [cleared EXCEPT ![n] = @ + counters[n]]
  BY DEF oo_metrics_reset
<1>2. cleared \in [Events \cup Names -> Nat] /\ dropped \in [Events \cup Names -> Nat]
      /\ \A m \in DOMAIN counters : counters[m] \in Nat
  BY DEF ObIInv, ObTypeOK
<1>3. DOMAIN counters' = DOMAIN counters /\ counters'[n] = 0
      /\ \A m \in DOMAIN counters : m # n => counters'[m] = counters[m]
  BY <1>1
<1>4. cleared' \in [Events \cup Names -> Nat] /\ cleared'[n] = cleared[n] + counters[n]
      /\ \A m \in Events \cup Names : m # n => cleared'[m] = cleared[m]
  BY <1>1, <1>2
<1>5. \A e \in Events : Gone(e)' = Gone(e)
  <2>1. Gone(n)' = Gone(n)
    <3>1. Counted(n) = counters[n] /\ Counted(n)' = 0
      BY <1>1, <1>3 DEF Counted
    <3> QED BY <1>1, <1>2, <1>4, <3>1 DEF Gone
  <2>2. \A m \in Events \cup Names : m # n => Counted(m)' = Counted(m)
    BY <1>3 DEF Counted
  <2>3. \A m \in Events \cup Names : m # n => Gone(m)' = Gone(m)
    BY <1>1, <1>4, <2>2 DEF Gone
  <2> QED BY <2>1, <2>3
<1>6. \A m \in DOMAIN counters' : counters'[m] \in Nat
  BY <1>2, <1>3
<1> QED BY <1>1, <1>2, <1>4, <1>5, <1>6, ObCounters

(* An emit begins: it is counted as emitted and as under way; the first one brings the metrics  *)
(* listener into the lists that have room.                                                     *)
LEMMA ObEmit ==
  ASSUME ObIInv, NEW t \in ObThreads, NEW e \in Events, oo_event_emit(t, e)
  PROVE  ObIInv'
<1>1. obPc[t] = "idle" /\ ~ dead /\ ~ dead' /\ subscribed' /\ obTodo' = obTodo
      /\ UNCHANGED <<counters, cleared, dropped>> /\ obPc' = [obPc EXCEPT ![t] = e]
  BY DEF oo_event_emit, ObIdle, oo_metrics_ensure_subscribed
<1>2. fns \in [Events -> Seq(Fns)] /\ obPc \in [ObThreads -> Events \cup {"idle"}] /\ emitted \in [Events -> Nat]
      /\ "metrics" \in Fns /\ obTodo[t] = <<>>
  BY <1>1 DEF ObIInv, ObTypeOK, Fns, ObCopy
<1>3. emitted' \in [Events -> Nat] /\ emitted'[e] = emitted[e] + 1
      /\ \A d \in Events : d # e => emitted'[d] = emitted[d]
  BY <1>2 DEF oo_event_emit, Add1
<1>4. obPc' \in [ObThreads -> Events \cup {"idle"}] /\ obPc'[t] = e
      /\ \A u \in ObThreads : u # t => obPc'[u] = obPc[u]
  BY <1>1, <1>2
<1>5. fns' \in [Events -> Seq(Fns)] /\ (\A d \in Events : Once(fns'[d]))
      /\ (subscribed => fns' = fns)
  <2>1. CASE subscribed
    <3>1. fns' = fns
      BY <2>1 DEF oo_event_emit, oo_metrics_ensure_subscribed
    <3> QED BY <1>2, <3>1 DEF ObIInv, ObLists
  <2>2. CASE ~ subscribed
    <3>1. fns' = [d \in Events |-> Subscribed(fns, d, "metrics")[d]]
      BY <2>2 DEF oo_event_emit, oo_metrics_ensure_subscribed
    <3>2. ASSUME NEW d \in Events PROVE fns'[d] = fns[d] \/ fns'[d] = Append(fns[d], "metrics")
      BY <1>2, <3>1 DEF Subscribed
    <3>3. ASSUME NEW d \in Events PROVE fns'[d] \in Seq(Fns) /\ Once(fns'[d])
      <4>1. fns[d] \in Seq(Fns) /\ Once(fns[d]) /\ ~ Has(fns[d])
        BY <1>2, <2>2 DEF ObIInv, ObLists
      <4>2. Append(fns[d], "metrics") \in Seq(Fns) /\ Once(Append(fns[d], "metrics"))
        BY <1>2, <4>1, ListAppend
      <4> QED BY <3>2, <4>1, <4>2
    <3>4. fns' \in [Events -> Seq(Fns)]
      BY <3>1, <3>3
    <3> QED BY <2>2, <3>3, <3>4
  <2> QED BY <2>1, <2>2
<1>6. ObTypeOK'
  BY <1>1, <1>3, <1>4, <1>5 DEF ObIInv, ObTypeOK
<1>7. ObLists'
  <2>1. (\A d \in Events : Once(fns[d]))'
    BY <1>5 DEF Once
  <2> QED BY <1>1, <2>1 DEF ObLists
<1>8. ASSUME NEW u \in ObThreads PROVE ObCopy(u)'
  <2>1. ObCopy(u) /\ obTodo'[u] = obTodo[u]
    BY <1>1 DEF ObIInv
  <2>2. obPc'[u] = "idle" => obPc[u] = "idle"
    BY <1>1, <1>4
  <2> QED BY <2>1, <2>2 DEF ObCopy, Once
<1>9. t \notin Pending(e) /\ Pending(e)' = Pending(e) \cup {t}
  <2>1. t \notin Pending(e)
    BY <1>1, ObAssumption DEF Pending
  <2> QED BY <1>1, <1>2, <1>4, <2>1 DEF Pending, Has
<1>10. \A d \in Events : d # e => Pending(d)' = Pending(d)
  BY <1>1, <1>4, ObAssumption DEF Pending, Has
<1>11. \A d : Gone(d)' = Gone(d)
  BY <1>1, ObSame
<1>12. ASSUME NEW d \in Events PROVE ObBooks(d)'
  <2>1. SUFFICES ASSUME Has(fns[d])' PROVE Gone(d)' = emitted'[d] - Cardinality(Pending(d))'
    BY <1>1 DEF ObBooks
  <2>2. subscribed => Has(fns[d])
    BY <1>5, <2>1 DEF Has
  <2>3. Gone(d) = emitted[d] - Cardinality(Pending(d))
    BY <1>1, <2>2 DEF ObIInv, ObBooks
  <2>4. Cardinality(Pending(d)) \in Nat /\ emitted[d] \in Nat
    BY <1>2, PendingFinite
  <2>5. CASE d = e
    <3>1. Cardinality(Pending(e))' = Cardinality(Pending(e)) + 1
      BY <1>9, PendingIn
    <3> QED BY <1>3, <1>11, <2>3, <2>4, <2>5, <3>1
  <2>6. CASE d # e
    BY <1>3, <1>10, <1>11, <2>3, <2>6
  <2> QED BY <2>5, <2>6
<1> QED BY <1>6, <1>7, <1>8, <1>12 DEF ObIInv

(* A step of one emit's copy that leaves the lists alone. *)
LEMMA ObCopyStep ==
  ASSUME ObIInv, NEW t \in ObThreads, NEW s \in Seq(Fns), obTodo' = [obTodo EXCEPT ![t] = s],
         UNCHANGED <<subscribed, fns, emitted, cleared>>,
         obPc' \in [ObThreads -> Events \cup {"idle"}], \A u \in ObThreads \ {t} : obPc'[u] = obPc[u],
         obPc'[t] = "idle" => s = <<>>, obPc[t] # "idle", obPc'[t] \in {obPc[t], "idle"},
         Once(s), s # <<>> => s[Len(s)] = "return",
         dropped' \in [Events \cup Names -> Nat], \A n \in DOMAIN counters' : counters'[n] \in Nat
  PROVE  /\ ObTypeOK' /\ ObLists' /\ \A u \in ObThreads : ObCopy(u)'
         /\ \A e \in Events : Has(fns[e])' <=> Has(fns[e])
         /\ \A e \in Events : e # obPc[t] => Pending(e)' = Pending(e)
         /\ subscribed
<1>1. obTodo \in [ObThreads -> Seq(Fns)] /\ obTodo'[t] = s /\ obTodo' \in [ObThreads -> Seq(Fns)]
      /\ \A u \in ObThreads : u # t => obTodo'[u] = obTodo[u]
  BY DEF ObIInv, ObTypeOK
<1>2. ObTypeOK'
  BY <1>1 DEF ObIInv, ObTypeOK
<1>3. subscribed
  BY DEF ObIInv, ObLists
<1>4. ObLists'
  BY <1>3 DEF ObIInv, ObLists, Once
<1>5. ASSUME NEW u \in ObThreads PROVE ObCopy(u)'
  <2>1. CASE u = t
    BY <1>1, <2>1 DEF ObCopy, Once
  <2>2. CASE u # t
    <3>1. ObCopy(u) /\ obTodo'[u] = obTodo[u] /\ obPc'[u] = obPc[u]
      BY <1>1, <2>2 DEF ObIInv
    <3> QED BY <3>1 DEF ObCopy, Once
  <2> QED BY <2>1, <2>2
<1>6. \A e \in Events : Has(fns[e])' <=> Has(fns[e])
  BY DEF Has
<1>7. \A e \in Events : e # obPc[t] => Pending(e)' = Pending(e)
  <2>1. \A e \in Events : e # obPc[t] => t \notin Pending(e) /\ obPc'[t] # e
    BY ObAssumption DEF Pending
  <2> QED BY <1>1, <2>1 DEF Pending, Has
<1> QED BY <1>2, <1>3, <1>4, <1>5, <1>6, <1>7

(* The copy under the lock: the emit is still under way, with the metrics listener to call. *)
LEMMA ObEmitCopy ==
  ASSUME ObIInv, NEW t \in ObThreads, EmitCopy(t)
  PROVE  ObIInv'
<1>1. obPc[t] \in Events /\ obTodo[t] = <<>> /\ ~ dead /\ obTodo' = [obTodo EXCEPT ![t] = Append(fns[obPc[t]], "return")]
      /\ UNCHANGED <<subscribed, fns, counters, obPc, dead, emitted, cleared, dropped>>
  BY DEF EmitCopy, obGhosts
<1>2. PICK e \in Events : e = obPc[t]
  BY <1>1
<1>3. fns[e] \in Seq(Fns) /\ Once(fns[e]) /\ "return" \in Fns /\ "return" # "metrics" /\ e # "idle"
  BY ObAssumption DEF ObIInv, ObTypeOK, ObLists, Fns
<1>4. PICK s : s = Append(fns[e], "return")
  OBVIOUS
<1>5. s \in Seq(Fns) /\ s # <<>> /\ s[Len(s)] = "return" /\ (Has(s) <=> Has(fns[e])) /\ Once(s)
  BY <1>3, <1>4, ListAppend
<1>6. obTodo' = [obTodo EXCEPT ![t] = s] /\ obTodo \in [ObThreads -> Seq(Fns)]
      /\ obPc \in [ObThreads -> Events \cup {"idle"}] /\ dropped \in [Events \cup Names -> Nat]
      /\ \A n \in DOMAIN counters : counters[n] \in Nat
  BY <1>1, <1>2, <1>4 DEF ObIInv, ObTypeOK
<1>7. /\ ObTypeOK' /\ ObLists' /\ \A u \in ObThreads : ObCopy(u)'
      /\ \A d \in Events : Has(fns[d])' <=> Has(fns[d])
      /\ \A d \in Events : d # obPc[t] => Pending(d)' = Pending(d)
      /\ subscribed
  BY <1>1, <1>2, <1>3, <1>5, <1>6, ObCopyStep
<1>8. Has(fns[e]) => Pending(e)' = Pending(e)
  <2>1. obTodo'[t] = s /\ \A u \in ObThreads : u # t => obTodo'[u] = obTodo[u]
    BY <1>6
  <2>2. t \in Pending(e) /\ (Has(s) => t \in Pending(e)')
    BY <1>1, <1>2, <2>1 DEF Pending, Has
  <2>3. \A u \in ObThreads : u # t => (u \in Pending(e)' <=> u \in Pending(e))
    BY <1>1, <2>1 DEF Pending, Has
  <2>4. Pending(e) \subseteq ObThreads /\ Pending(e)' \subseteq ObThreads
    BY DEF Pending
  <2>5. Has(fns[e]) => t \in Pending(e)'
    BY <1>5, <2>2
  <2> QED BY <2>2, <2>3, <2>4, <2>5
<1>9. ASSUME NEW d \in Events PROVE ObBooks(d)'
  <2>1. SUFFICES ASSUME Has(fns[d])' PROVE Gone(d)' = emitted'[d] - Cardinality(Pending(d))'
    BY <1>1, <1>7 DEF ObBooks
  <2>2. Has(fns[d])
    BY <1>7, <2>1
  <2>3. Gone(d) = emitted[d] - Cardinality(Pending(d))
    BY <1>1, <2>2 DEF ObIInv, ObBooks
  <2>4. Pending(d)' = Pending(d)
    BY <1>2, <1>7, <1>8, <2>2
  <2> QED BY <1>1, <2>3, <2>4, ObSame
<1> QED BY <1>7, <1>9 DEF ObIInv

(* A listener returns: if it was the metrics listener, the emit is counted and no longer pending. *)
LEMMA ObCall ==
  ASSUME ObIInv, NEW t \in ObThreads, CallListener(t)
  PROVE  ObIInv'
<1>1. obTodo[t] # <<>> /\ Head(obTodo[t]) # "return" /\ ~ dead /\ obTodo' = [obTodo EXCEPT ![t] = Tail(obTodo[t])]
      /\ UNCHANGED <<subscribed, fns, obPc, emitted, cleared>>
  BY DEF CallListener
<1>2. obTodo \in [ObThreads -> Seq(Fns)] /\ obPc \in [ObThreads -> Events \cup {"idle"}] /\ ObCopy(t)
      /\ ObTypeOK
  BY DEF ObIInv, ObTypeOK
<1>3. obPc[t] # "idle" /\ obPc[t] \in Events
  BY <1>1, <1>2 DEF ObCopy
<1>4. PICK e \in Events : e = obPc[t]
  BY <1>3
<1>5. PICK s, q : s = Tail(obTodo[t]) /\ q = obTodo[t]
  OBVIOUS
<1>6. /\ s \in Seq(Fns) /\ s # <<>> /\ s[Len(s)] = "return" /\ Once(s)
      /\ Head(q) = "metrics" => Has(q) /\ ~ Has(s)
      /\ Head(q) # "metrics" => (Has(s) <=> Has(q))
  <2>1. q \in Seq(Fns) /\ q # <<>> /\ Once(q) /\ q[Len(q)] = "return" /\ Head(q) # "return" /\ s = Tail(q)
    BY <1>1, <1>2, <1>5 DEF ObCopy
  <2> QED BY <2>1, ListTail
<1>7. obTodo' = [obTodo EXCEPT ![t] = s] /\ obTodo'[t] = s /\ \A u \in ObThreads : u # t => obTodo'[u] = obTodo[u]
  BY <1>1, <1>2, <1>5
<1>8. CASE Head(q) # "metrics"
  <2>1. UNCHANGED <<counters, dropped>> /\ ~ dead'
    BY <1>5, <1>8 DEF CallListener
  <2>2. dropped' \in [Events \cup Names -> Nat] /\ \A n \in DOMAIN counters' : counters'[n] \in Nat
    BY <1>2, <2>1 DEF ObTypeOK
  <2>3. /\ ObTypeOK' /\ ObLists' /\ \A u \in ObThreads : ObCopy(u)'
        /\ \A d \in Events : Has(fns[d])' <=> Has(fns[d])
        /\ \A d \in Events : d # obPc[t] => Pending(d)' = Pending(d)
    BY <1>1, <1>2, <1>3, <1>6, <1>7, <2>2, ObCopyStep
  <2>4. Pending(e)' = Pending(e)
    BY <1>1, <1>4, <1>5, <1>6, <1>7, <1>8 DEF Pending, Has
  <2>5. \A d \in Events : Gone(d)' = Gone(d) /\ Pending(d)' = Pending(d)
    BY <1>1, <1>4, <2>1, <2>3, <2>4, ObSame
  <2> QED BY <1>1, <2>1, <2>3, <2>5, ObQuiet
<1>9. CASE Head(q) = "metrics" /\ ~ selfCap
  <2>1. UNCHANGED <<counters, dropped>> /\ dead'
    BY <1>5, <1>9 DEF CallListener
  <2>2. dropped' \in [Events \cup Names -> Nat] /\ \A n \in DOMAIN counters' : counters'[n] \in Nat
    BY <1>2, <2>1 DEF ObTypeOK
  <2>3. /\ ObTypeOK' /\ ObLists' /\ \A u \in ObThreads : ObCopy(u)'
        /\ \A d \in Events : Has(fns[d])' <=> Has(fns[d])
    BY <1>1, <1>2, <1>3, <1>6, <1>7, <2>2, ObCopyStep
  <2> QED BY <1>1, <2>1, <2>3, ObQuiet
<1>10. CASE Head(q) = "metrics" /\ selfCap
  <2>1. Incr(e) /\ ~ dead'
    BY <1>4, <1>5, <1>10 DEF CallListener
  <2>2. /\ dropped' \in [Events \cup Names -> Nat]
        /\ \A m \in DOMAIN counters' : counters'[m] \in Nat
        /\ Gone(e)' = Gone(e) + 1
        /\ \A m \in Events \cup Names : m # e => Gone(m)' = Gone(m)
    BY <1>1, <1>2, <2>1, IncrFacts
  <2>3. /\ ObTypeOK' /\ ObLists' /\ \A u \in ObThreads : ObCopy(u)'
        /\ \A d \in Events : Has(fns[d])' <=> Has(fns[d])
        /\ \A d \in Events : d # obPc[t] => Pending(d)' = Pending(d)
    BY <1>1, <1>2, <1>3, <1>6, <1>7, <2>2, ObCopyStep
  <2>4. t \in Pending(e) /\ Pending(e)' = Pending(e) \ {t}
    <3>1. t \in Pending(e)
      BY <1>4, <1>5, <1>6, <1>10 DEF Pending
    <3>2. t \notin Pending(e)'
      BY <1>6, <1>7, <1>10 DEF Pending, Has
    <3>3. \A u \in ObThreads : u # t => (u \in Pending(e)' <=> u \in Pending(e))
      BY <1>1, <1>7 DEF Pending, Has
    <3>4. Pending(e) \subseteq ObThreads /\ Pending(e)' \subseteq ObThreads
      BY DEF Pending
    <3> QED BY <3>1, <3>2, <3>3, <3>4
  <2>5. ASSUME NEW d \in Events PROVE ObBooks(d)'
    <3>1. SUFFICES ASSUME subscribed => Has(fns[d])
                   PROVE  Gone(d)' = emitted'[d] - Cardinality(Pending(d))'
      BY <1>1, <2>3 DEF ObBooks
    <3>2. Gone(d) = emitted[d] - Cardinality(Pending(d))
      BY <1>1, <3>1 DEF ObIInv, ObBooks
    <3>3. Cardinality(Pending(d)) \in Nat /\ emitted[d] \in Nat
      BY <1>2, PendingFinite DEF ObTypeOK
    <3>4. CASE d = e
      <4>1. Cardinality(Pending(e))' = Cardinality(Pending(e)) - 1
        BY <2>4, PendingOut
      <4> QED BY <1>1, <2>2, <3>2, <3>3, <3>4, <4>1
    <3>5. CASE d # e
      BY <1>1, <1>4, <2>2, <2>3, <3>2, <3>5
    <3> QED BY <3>4, <3>5
  <2> QED BY <2>3, <2>5 DEF ObIInv
<1> QED BY <1>8, <1>9, <1>10

LEMMA ObReturn ==
  ASSUME ObIInv, NEW t \in ObThreads, EmitReturn(t)
  PROVE  ObIInv'
<1>1. obTodo[t] = <<"return">> /\ ~ dead /\ obTodo' = [obTodo EXCEPT ![t] = <<>>] /\ obPc' = [obPc EXCEPT ![t] = "idle"]
      /\ UNCHANGED <<subscribed, fns, counters, dead, emitted, cleared, dropped>>
  BY DEF EmitReturn, obGhosts
<1>2. obTodo \in [ObThreads -> Seq(Fns)] /\ obPc \in [ObThreads -> Events \cup {"idle"}] /\ ObCopy(t)
      /\ dropped \in [Events \cup Names -> Nat] /\ \A n \in DOMAIN counters : counters[n] \in Nat
  BY DEF ObIInv, ObTypeOK
<1>3. obPc[t] # "idle" /\ obPc[t] \in Events /\ ~ Has(<<"return">>) /\ <<"return">> # <<>>
  BY <1>1, <1>2 DEF ObCopy, Has
<1>4. obPc' \in [ObThreads -> Events \cup {"idle"}] /\ obPc'[t] = "idle"
      /\ \A u \in ObThreads : u # t => obPc'[u] = obPc[u] /\ obTodo'[u] = obTodo[u]
  BY <1>1, <1>2
<1>5. <<>> \in Seq(Fns) /\ Once(<<>>)
  BY DEF Once
<1>6. /\ ObTypeOK' /\ ObLists' /\ \A u \in ObThreads : ObCopy(u)'
      /\ \A d \in Events : Has(fns[d])' <=> Has(fns[d])
      /\ \A d \in Events : d # obPc[t] => Pending(d)' = Pending(d)
  BY <1>1, <1>2, <1>3, <1>4, <1>5, ObCopyStep
<1>7. \A d \in Events : Pending(d)' = Pending(d)
  <2>1. \A d \in Events : t \notin Pending(d) /\ t \notin Pending(d)'
    BY <1>1, <1>3, <1>4, ObAssumption DEF Pending
  <2>2. \A d : \A u \in ObThreads : u # t => (u \in Pending(d)' <=> u \in Pending(d))
    BY <1>4 DEF Pending, Has
  <2>3. \A d : Pending(d) \subseteq ObThreads /\ Pending(d)' \subseteq ObThreads
    BY DEF Pending
  <2> QED BY <2>1, <2>2, <2>3
<1>8. \A d \in Events : Gone(d)' = Gone(d)
  BY <1>1, ObSame
<1> QED BY <1>1, <1>6, <1>7, <1>8, ObQuiet

LEMMA ObStep == ASSUME ObIInv, [ObNext]_obVars PROVE ObIInv'
<1>1. CASE UNCHANGED obVars
  <2>1. UNCHANGED <<subscribed, fns, obPc, obTodo, dead, emitted, counters, cleared, dropped>>
    BY <1>1 DEF obVars
  <2> QED BY <2>1, ObSame, ObCounters DEF ObIInv, ObTypeOK
<1> QED BY <1>1, ObSubscribe, ObEmit, ObEmitCopy, ObCall, ObReturn, ObOwnIncr, ObGet, ObReset DEF ObNext

(* For any threads, events, counters and table size, each emit whose metrics listener has run is *)
(* in the counter, was cleared by a reset, or found the table full.                              *)
THEOREM EventsCorrect == ObSpec => []EventsCounted
<1>1. ObInit => ObIInv
  BY ObInitial
<1>2. ObIInv /\ [ObNext]_obVars => ObIInv'
  BY ObStep
<1> QED BY <1>1, <1>2, EventsFromInv, PTL DEF ObSpec
=============================================================================
