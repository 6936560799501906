-------------------------------- MODULE Caps --------------------------------
(***************************************************************************)
(* The capability tokens of sec/cap: four stores filled once from random   *)
(* bytes (caps.c, cap_time.c, cap_alloc.c, cap_ffi.c), the grants, the     *)
(* gates with their second opinion from the rights table, and the stores   *)
(* being wiped while exit() runs and other threads still call.  A token is *)
(* its kind and the initialisation that drew it; random values are taken   *)
(* to be distinct and non-zero.                                            *)
(***************************************************************************)
EXTENDS Integers, FiniteSets

CONSTANTS CapThreads,
          Kinds         \* the kinds of token the threads use, of those below

VARIABLES once,         \* stores whose pthread_once has run
          drawn,        \* how often each store was filled (0 or 1 with pthread_once)
          wiped,        \* stores zeroized by their exit handler
          exiting,      \* some thread is in exit()
          handed,       \* tokens the program has been given
          cpc, cloc     \* each thread's place in a gate; the gate, the token, what was read before

capVars == <<once, drawn, wiped, exiting, handed, cpc, cloc>>

Stores == {"main", "tr", "alloc", "ffi"}
StoreOf(k) == CASE k \in {"time", "rand"} -> "tr" [] k = "alloc" -> "alloc" [] k = "ffi" -> "ffi"
                [] OTHER -> "main"
Zero == [kind |-> "none", draw |-> 0]
Forged == [kind |-> "forged", draw |-> 1]

\* The token a global holds now: zero before the store is filled and after it is wiped.
Tok(k) == IF StoreOf(k) \in once \ wiped THEN [kind |-> k, draw |-> drawn[StoreOf(k)]] ELSE Zero

\* A gate that takes a second kind: the wider one.
AliasOf(k) == CASE k \in {"tcp", "udp", "bind"} -> "net" [] k \in {"fsread", "fswrite"} -> "fs"
                [] k = "process" -> "sys" [] OTHER -> "none"

\* SUBSTRATE_TO_LANGUAGE: the six devices borrow FsReadCap.
LanguageOf(k) == IF k \in {"audio", "camera", "usb", "hid", "window", "frame"} THEN "fsread" ELSE k
\* Rows of the rights table that hold the use bit, as the gates require it; a miss has no rights.
ROWS == {"fsread", "fswrite", "net", "tcp", "udp", "sys", "process", "env", "time", "rand", "alloc",
         "thread", "gpu", "ffi", "fs", "arena", "metrics", "sign", "bind", "compiler_read"}

\* Every kind of token has a row, its own or a borrowed one.
ASSUME KindsAssumption == \A k \in Kinds : LanguageOf(k) \in ROWS

NoGate == [gate |-> "none", got |-> Zero, want |-> Zero, alt |-> Zero]

CapInit ==
  /\ once = {} /\ wiped = {} /\ drawn = [s \in Stores |-> 0] /\ exiting = FALSE
  /\ handed = {}
  /\ cpc = [t \in CapThreads |-> "idle"] /\ cloc = [t \in CapThreads |-> NoGate]

CGoto(t, l) == cpc' = [cpc EXCEPT ![t] = l]
-----------------------------------------------------------------------------
\* Mutant: every call draws.
StoreInitAgain(s) ==
  /\ once' = once \cup {s}
  /\ drawn' = [drawn EXCEPT ![s] = IF @ < 2 THEN @ + 1 ELSE @]

(* oo_caps_init and its three siblings: pthread_once around the draw. *)
StoreInit(s) ==
  /\ once' = once \cup {s}
  /\ drawn' = IF s \in once THEN drawn ELSE [drawn EXCEPT ![s] = @ + 1]

CapGrant(t, k) ==
  /\ cpc[t] = "idle"
  /\ StoreInit(StoreOf(k))
  /\ handed' = IF StoreOf(k) \in wiped THEN handed
               ELSE handed \cup {[kind |-> k, draw |-> drawn'[StoreOf(k)]]}
  /\ UNCHANGED <<wiped, exiting, cpc, cloc>>

\* The issuers of the four stores; those of cap_grant.c are one function per kind.
oo_cap_grant(t, k) == StoreOf(k) = "main" /\ CapGrant(t, k)
oo_cap_grant_time(t, k) == StoreOf(k) = "tr" /\ CapGrant(t, k)
oo_cap_grant_alloc(t, k) == StoreOf(k) = "alloc" /\ CapGrant(t, k)
oo_cap_grant_ffi(t, k) == StoreOf(k) = "ffi" /\ CapGrant(t, k)

(* A gate is called: its wanted tokens are arguments, read before the store is initialised. *)
oo_cap_require(t, k, got) ==
  /\ cpc[t] = "idle"
  /\ cloc' = [cloc EXCEPT ![t] = [gate |-> k, got |-> got, want |-> Tok(k),
                                  alt |-> IF AliasOf(k) = "none" THEN Zero ELSE Tok(AliasOf(k))]]
  /\ CGoto(t, "check")
  /\ UNCHANGED <<once, drawn, wiped, exiting, handed>>

dual_check(t) ==
  LET c == cloc[t] IN
  /\ cpc[t] = "check" /\ StoreOf(c.gate) = "main"
  /\ StoreInit("main")
  /\ CGoto(t, IF c.got # Zero /\ c.got \in {c.want, c.alt} THEN "bridge" ELSE "refused")
  /\ UNCHANGED <<wiped, exiting, handed, cloc>>

\* The gates of the small stores read their token after initialising and ask no second opinion.
SmallGate(t, s) ==
  LET c == cloc[t] IN
  /\ cpc[t] = "check" /\ StoreOf(c.gate) = s
  /\ StoreInit(s)
  /\ UNCHANGED <<wiped, exiting, handed, cloc>>
  /\ CGoto(t, IF c.got # Zero /\ c.got = Tok(c.gate)' THEN "passed" ELSE "refused")

oo_cap_require_time(t) == SmallGate(t, "tr")
oo_cap_require_alloc(t) == SmallGate(t, "alloc")
oo_cap_require_ffi(t) == SmallGate(t, "ffi")

(* oo_cap_check_with_ocap: the token is looked up among those in force now, then its rights. *)
oo_cap_check_with_ocap(t) ==
  LET k == cloc[t].got.kind
      found == Tok(k) = cloc[t].got
  IN /\ cpc[t] = "bridge"
     /\ CGoto(t, IF found /\ LanguageOf(k) \in ROWS THEN "passed" ELSE "refused")
     /\ UNCHANGED <<once, drawn, wiped, exiting, handed, cloc>>

CapReturn(t) ==
  /\ cpc[t] = "passed"
  /\ CGoto(t, "idle") /\ cloc' = [cloc EXCEPT ![t] = NoGate]
  /\ UNCHANGED <<once, drawn, wiped, exiting, handed>>

(* A refusal calls exit(); so may the program. *)
CapExit(t) ==
  /\ cpc[t] \in {"refused", "idle"}
  /\ exiting' = TRUE
  /\ CGoto(t, "gone") /\ cloc' = [cloc EXCEPT ![t] = NoGate]
  /\ UNCHANGED <<once, drawn, wiped, handed>>

(* caps_zeroize, tr_zeroize, alloc_zeroize, ffi_zeroize. *)
Zeroize(s) ==
  /\ exiting /\ s \in once \ wiped
  /\ wiped' = wiped \cup {s}
  /\ UNCHANGED <<once, drawn, exiting, handed, cpc, cloc>>

caps_zeroize == Zeroize("main")
tr_zeroize == Zeroize("tr")
alloc_zeroize == Zeroize("alloc")
ffi_zeroize == Zeroize("ffi")

CapNext ==
  \/ \E t \in CapThreads :
       \/ \E k \in Kinds :
            \/ oo_cap_grant(t, k) \/ oo_cap_grant_time(t, k) \/ oo_cap_grant_alloc(t, k) \/ oo_cap_grant_ffi(t, k)
            \/ \E got \in handed \cup {Zero, Forged} : oo_cap_require(t, k, got)
       \/ dual_check(t) \/ oo_cap_require_time(t) \/ oo_cap_require_alloc(t) \/ oo_cap_require_ffi(t)
       \/ oo_cap_check_with_ocap(t) \/ CapReturn(t) \/ CapExit(t)
  \/ caps_zeroize \/ tr_zeroize \/ alloc_zeroize \/ ffi_zeroize

CapSpec == CapInit /\ [][CapNext]_capVars
-----------------------------------------------------------------------------
(***************************************************************************)
(* A gate lets through exactly the holders of its token or of the wider    *)
(* one: nobody with nothing or a forged value, in no phase of the process, *)
(* and every holder as long as nobody has called exit.  About the tokens   *)
(* being zero before pthread_once and after the wipe, about arguments read *)
(* before initialisation, and about the rights table agreeing.             *)
(***************************************************************************)
GateExact ==
  \A t \in CapThreads : LET c == cloc[t] IN
    /\ cpc[t] = "passed" => c.got \in handed /\ c.got.kind \in {c.gate, AliasOf(c.gate)}
    /\ cpc[t] = "refused" /\ ~exiting => ~(c.got \in handed /\ c.got.kind \in {c.gate, AliasOf(c.gate)})
=============================================================================
