------------------------------- MODULE Fetch --------------------------------
(***************************************************************************)
(* The network client: oo_fetch (net/fetch.c) and oo_tls_connect           *)
(* (net/tls.c), called by several threads over one kernel descriptor       *)
(* table.  A call tries the addresses of its host one after the other,     *)
(* shakes hands for https, sends its request, reads until the peer closes, *)
(* and gives back what it took on every one of its returns.                *)
(*                                                                         *)
(* One step per system call or allocation; addresses, header text and body *)
(* bytes are left out, but for whether the blank line after the header has *)
(* been read.  A process without the capability exits, which is no step.   *)
(***************************************************************************)
EXTENDS Integers, FiniteSets, FiniteSetsExt

CONSTANTS FetchThreads,
          NFetchFds,      \* descriptors the process may have open
          NAddrs,         \* bound: addresses of a host
          ReqLen,         \* bound: writes that a request may take
          HaveOpenssl     \* built with OO_HAVE_OPENSSL

ASSUME FetchAssumption ==
  /\ NFetchFds \in Nat /\ NAddrs \in Nat /\ ReqLen \in Nat \ {0}
  /\ HaveOpenssl \in BOOLEAN

VARIABLES fpc,            \* where each thread is in its call
          floc,           \* its locals: the call, is_https, fd, addresses left, bytes to send, header seen
          ftab,           \* the kernel's table: the thread that opened each descriptor, or FreeFd
          fmem,           \* what it has allocated: SSL_CTX, SSL, session, accumulator
          wire,           \* how the bytes of its call went out: a set of "plain", "tls"
          answer          \* what its last call returned

fetchVars == <<fpc, floc, ftab, fmem, wire, answer>>

FetchFds == 0 .. NFetchFds - 1
FreeFd == "free"
NoSock == -1
ASSUME FreeFdAssumption == FreeFd \notin FetchThreads

Call(c, https, n, todo) ==
  [call |-> c, https |-> https, fd |-> NoSock, left |-> n, todo |-> todo, head |-> FALSE]
NoCall == Call("none", FALSE, 0, 0)

FetchInit ==
  /\ fpc = [t \in FetchThreads |-> "idle"]
  /\ floc = [t \in FetchThreads |-> NoCall]
  /\ ftab = [f \in FetchFds |-> FreeFd]
  /\ fmem = [t \in FetchThreads |-> {}]
  /\ wire = [t \in FetchThreads |-> {}]
  /\ answer = [t \in FetchThreads |-> "none"]

FGoto(t, l) == fpc' = [fpc EXCEPT ![t] = l]
SpareFds == {f \in FetchFds : ftab[f] = FreeFd}

\* close(fd): whatever the number stands for now is closed.
FClose(t) == ftab' = IF floc[t].fd \in FetchFds THEN [ftab EXCEPT ![floc[t].fd] = FreeFd] ELSE ftab

FReturn(t, a) ==
  /\ FGoto(t, "idle")
  /\ floc' = [floc EXCEPT ![t] = NoCall]
  /\ answer' = [answer EXCEPT ![t] = a]

\* oo_tls_close frees the session and what it holds.
TlsParts == {"ctx", "ssl", "sess"}
oo_tls_close(t) == fmem' = [fmem EXCEPT ![t] = @ \ TlsParts]
-----------------------------------------------------------------------------
(* What fetch_parse_url makes of a URL: one of the two schemes with host,  *)
(* port and path, or a refusal.                                            *)
fetch_parse_url == {"http", "https", "refused"}

(* oo_fetch up to the first socket; getaddrinfo gives some addresses or    *)
(* fails, which is as if it gave none.                                     *)
oo_fetch(t) ==
  /\ fpc[t] = "idle"
  /\ wire' = [wire EXCEPT ![t] = {}]
  /\ \E url \in fetch_parse_url, n \in 0 .. NAddrs :
       IF url = "refused" THEN FReturn(t, "err")
       ELSE /\ floc' = [floc EXCEPT ![t] = Call("fetch", url = "https", n, ReqLen)]
            /\ FGoto(t, "socket")
            /\ answer' = [answer EXCEPT ![t] = "none"]
  /\ UNCHANGED <<ftab, fmem>>

\* oo_tls_connect: a bad host or port is an error; otherwise the same walk over the addresses.
oo_tls_connect(t) ==
  /\ fpc[t] = "idle"
  /\ wire' = [wire EXCEPT ![t] = {}]
  /\ \/ /\ \E n \in 0 .. NAddrs :
             floc' = [floc EXCEPT ![t] = Call("tls", TRUE, n, 0)]
        /\ FGoto(t, "socket")
        /\ answer' = [answer EXCEPT ![t] = "none"]
     \/ FReturn(t, "err")
  /\ UNCHANGED <<ftab, fmem>>

(* The loop of fetch_tcp_connect and tls_tcp_fd: a socket for the next     *)
(* address, the next one when there is none; no address left: an error.    *)
tcp_socket(t) ==
  /\ fpc[t] = "socket"
  /\ \/ /\ floc[t].left > 0 /\ SpareFds # {}
        /\ LET f == Min(SpareFds) IN
             /\ ftab' = [ftab EXCEPT ![f] = t]
             /\ floc' = [floc EXCEPT ![t].fd = f]
        /\ FGoto(t, "dial")
        /\ UNCHANGED answer
     \/ /\ floc[t].left > 0
        /\ floc' = [floc EXCEPT ![t].left = @ - 1]
        /\ UNCHANGED <<fpc, ftab, answer>>
     \/ /\ floc[t].left = 0
        /\ FReturn(t, "err") /\ UNCHANGED ftab
  /\ UNCHANGED <<fmem, wire>>

\* connect(2): refused, the socket is closed and the next address tried.
tcp_dial(t) ==
  /\ fpc[t] = "dial"
  /\ \/ /\ FGoto(t, IF floc[t].https THEN "ctx" ELSE "send")
        /\ UNCHANGED <<ftab, floc>>
     \/ /\ FClose(t)
        /\ LET next == [floc[t] EXCEPT !.left = @ - 1]
           IN  floc' = [floc EXCEPT ![t] = [next EXCEPT !.fd = NoSock]]
        /\ FGoto(t, "socket")
  /\ UNCHANGED <<fmem, wire, answer>>
-----------------------------------------------------------------------------
\* Without a session both callers close the descriptor and return an error.
NoSession(t) == FClose(t) /\ FReturn(t, "err")

(* oo_tls_connect_fd: a context, a connection object, the handshake and    *)
(* the session record; each failure frees the ones before it.  A build     *)
(* without OpenSSL has no session to give ("no plaintext downgrade").      *)
tls_ctx(t) ==
  /\ fpc[t] = "ctx"
  /\ \/ /\ HaveOpenssl
        /\ fmem' = [fmem EXCEPT ![t] = @ \cup {"ctx"}]
        /\ FGoto(t, "ssl")
        /\ UNCHANGED <<floc, ftab, answer>>
     \/ NoSession(t) /\ UNCHANGED fmem
  /\ UNCHANGED wire

tls_ssl(t) ==
  /\ fpc[t] = "ssl"
  /\ \/ /\ fmem' = [fmem EXCEPT ![t] = @ \cup {"ssl"}]
        /\ FGoto(t, "shake")
        /\ UNCHANGED <<floc, ftab, answer>>
     \/ /\ fmem' = [fmem EXCEPT ![t] = @ \ {"ctx"}]
        /\ NoSession(t)
  /\ UNCHANGED wire

\* SSL_connect and the session record; both failures free the pair.
oo_tls_connect_fd(t) ==
  /\ fpc[t] = "shake"
  /\ \/ /\ fmem' = [fmem EXCEPT ![t] = @ \cup {"sess"}]
        /\ FGoto(t, IF floc[t].call = "tls" THEN "bye" ELSE "send")
        /\ UNCHANGED <<floc, ftab, answer>>
     \/ /\ fmem' = [fmem EXCEPT ![t] = @ \ {"ctx", "ssl"}]
        /\ NoSession(t)
  /\ UNCHANGED wire

\* oo_tls_connect only proves that it could connect.
tls_handshake_openssl(t) ==
  /\ fpc[t] = "bye"
  /\ oo_tls_close(t) /\ FClose(t) /\ FReturn(t, "ok")
  /\ UNCHANGED wire
-----------------------------------------------------------------------------
\* oo_tls_write and oo_tls_read of the session if there is one, write and read of the socket otherwise.
Through(t) == wire' = [wire EXCEPT ![t] = @ \cup {IF "sess" \in fmem[t] THEN "tls" ELSE "plain"}]

\* Mutant: the test for a session is missing, every call writes to the socket.
fetch_send_all_plain(t) ==
  /\ fpc[t] = "send"
  /\ wire' = [wire EXCEPT ![t] = @ \cup {"plain"}]
  /\ \/ /\ floc' = [floc EXCEPT ![t].todo = 0]
        /\ FGoto(t, "acc")
        /\ UNCHANGED <<ftab, fmem, answer>>
     \/ oo_tls_close(t) /\ FClose(t) /\ FReturn(t, "err")

(* fetch_send_all: through the session when there is one; some of the      *)
(* bytes, none and EINTR in errno (try again), or an error, after which    *)
(* the session and the socket go.                                          *)
fetch_send_all(t) ==
  /\ fpc[t] = "send"
  /\ Through(t)
  /\ \/ \E n \in 0 .. floc[t].todo :
          /\ floc' = [floc EXCEPT ![t].todo = @ - n]
          /\ FGoto(t, IF n = floc[t].todo THEN "acc" ELSE "send")
          /\ UNCHANGED <<ftab, fmem, answer>>
     \/ oo_tls_close(t) /\ FClose(t) /\ FReturn(t, "err")

\* The first 4096 bytes of the accumulator.
fetch_acc(t) ==
  /\ fpc[t] = "acc"
  /\ \/ /\ fmem' = [fmem EXCEPT ![t] = @ \cup {"acc"}]
        /\ FGoto(t, "recv")
        /\ UNCHANGED <<floc, ftab, answer>>
     \/ oo_tls_close(t) /\ FClose(t) /\ FReturn(t, "err")
  /\ UNCHANGED wire

(* One turn of the read loop: bytes, which may end the header; no memory   *)
(* for them: all is freed; end of file or an error, which are not told     *)
(* apart: the loop ends.                                                   *)
fetch_recv(t) ==
  /\ fpc[t] = "recv"
  /\ Through(t)
  /\ \/ /\ \E h \in BOOLEAN : floc' = [floc EXCEPT ![t].head = @ \/ h]
        /\ UNCHANGED <<fpc, ftab, fmem, answer>>
     \/ /\ fmem' = [fmem EXCEPT ![t] = @ \ (TlsParts \cup {"acc"})]
        /\ FClose(t) /\ FReturn(t, "err")
     \/ FGoto(t, "body") /\ UNCHANGED <<floc, ftab, fmem, answer>>

\* Session and socket are closed, the body is what follows the header; without one, an error.
fetch_body(t) ==
  /\ fpc[t] = "body"
  /\ fmem' = [fmem EXCEPT ![t] = @ \ (TlsParts \cup {"acc"})]
  /\ FClose(t) /\ FReturn(t, IF floc[t].head THEN "ok" ELSE "err")
  /\ UNCHANGED wire

FetchNext == \E t \in FetchThreads :
  \/ oo_fetch(t) \/ oo_tls_connect(t) \/ tcp_socket(t) \/ tcp_dial(t)
  \/ tls_ctx(t) \/ tls_ssl(t) \/ oo_tls_connect_fd(t) \/ tls_handshake_openssl(t)
  \/ fetch_send_all(t) \/ fetch_acc(t) \/ fetch_recv(t) \/ fetch_body(t)

FetchSpec == FetchInit /\ [][FetchNext]_fetchVars
-----------------------------------------------------------------------------
(***************************************************************************)
(* A call that returned holds no memory and no descriptor; while it runs   *)
(* its descriptor is open and its own, although two calls open and close   *)
(* the same numbers; and no byte of an https call goes out or comes in     *)
(* without a session ("no plaintext downgrade", tls.c:4).  About the seven *)
(* error returns of oo_fetch and the two owners of fd around               *)
(* oo_tls_connect_fd.                                                      *)
(***************************************************************************)
FetchSettled ==
  /\ \A t \in FetchThreads :
       /\ fpc[t] = "idle" => fmem[t] = {} /\ floc[t].fd = NoSock
       /\ floc[t].https => "plain" \notin wire[t]
       /\ floc[t].fd # NoSock => ftab[floc[t].fd] = t
  /\ \A f \in FetchFds : ftab[f] # FreeFd => floc[ftab[f]].fd = f
=============================================================================
