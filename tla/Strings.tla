------------------------------ MODULE Strings ------------------------------
(***************************************************************************)
(* The interning pool of core/str/str_intern.c: a slab of short texts per  *)
(* thread, and one table for all threads that is searched without a lock   *)
(* and extended under g_intern_mu; with the one caller that writes into an *)
(* interned text, the signature verification of sec/pqc.                   *)
(*                                                                         *)
(* A text is a model value: hashing and comparing are equality.  All texts *)
(* share one bucket of the table; a new node is put at the head and nodes  *)
(* are never removed, so the table is a sequence whose LAST node is the    *)
(* head and node->next is the previous position.                           *)
(***************************************************************************)
EXTENDS Naturals, Sequences

CONSTANTS
  StrThreads,    \* the threads that intern
  Bytes,         \* texts of at most one byte: static storage
  Shorts,        \* texts of 2..15 bytes
  Longs,         \* texts of 16..1024 bytes
  Huge,          \* texts of more than 1024 bytes
  OKText,        \* the text "OK" that verification returns
  SlabCap,       \* OO_SLAB_CAP
  MaxNodes,      \* bound: nodes of the table
  Wiped,         \* the content of a wiped entry: zero bytes
  NoThread

\* The texts that are put into storage do not consist of zero bytes alone.
ASSUME StrAssumption == NoThread \notin StrThreads /\ Wiped \notin Shorts \cup Longs \cup {OKText}

VARIABLES
  slab,          \* slab[t]: the entries of t's slab, in insertion order
  interned,      \* the nodes of the bucket, the head last
  internMu,      \* holder of g_intern_mu
  strPc,         \* where each thread is
  strWant,       \* the text it interns
  strAt,         \* its position in the table
  strGot,        \* vr of a verification: [in, at] of the returned text
  strFresh,      \* the seal it verifies is freshly signed and untouched
  strRc          \* rc of the verification it is in

strVars == <<slab, interned, internMu, strPc, strWant, strAt, strGot, strFresh,
             strRc>>

Static == [in |-> "static", at |-> 0]   \* a text in static storage

Texts == Bytes \cup Shorts \cup Longs \cup Huge

StrInit ==
  /\ slab = [t \in StrThreads |-> <<>>]
  /\ interned = <<>>
  /\ internMu = NoThread
  /\ strPc = [t \in StrThreads |-> "idle"]
  /\ strWant = [t \in StrThreads |-> OKText]
  /\ strAt = [t \in StrThreads |-> 0]
  /\ strGot = [t \in StrThreads |-> Static]
  /\ strFresh = [t \in StrThreads |-> FALSE]
  /\ strRc = [t \in StrThreads |-> 0]

Go(t, pc) == strPc' = [strPc EXCEPT ![t] = pc]

(* The text is returned; the model keeps where only for a verification,    *)
(* the one caller that looks at the storage again.                         *)
Got(t, next, in, at) ==
  strGot' = [strGot EXCEPT ![t] =
               IF next = "check" THEN [in |-> in, at |-> at] ELSE Static]

Positions(s, x) == {i \in DOMAIN s : s[i] = x}

-----------------------------------------------------------------------------
(* oo_tls_slab and the short part of oo_str_intern_bytes: the thread's own *)
(* slab, found by its content or extended while there is room.             *)
SlabHas(t, x) == x \in Shorts /\ Positions(slab[t], x) # {}
SlabTakes(t, x) == x \in Shorts /\ Len(slab[t]) < SlabCap

oo_str_ascii_intern(t, x, next) ==
  /\ x \in Bytes
  /\ Got(t, next, "static", 0)
  /\ Go(t, next)
  /\ UNCHANGED <<slab, strWant, strAt>>

SlabIntern(t, x, next) ==
  /\ \/ /\ SlabHas(t, x)
        /\ Got(t, next, "slab", CHOOSE i \in Positions(slab[t], x) : TRUE)
        /\ UNCHANGED slab
     \/ /\ ~SlabHas(t, x) /\ SlabTakes(t, x)
        /\ slab' = [slab EXCEPT ![t] = Append(@, x)]
        /\ Got(t, next, "slab", Len(slab[t]) + 1)
  /\ Go(t, next)
  /\ UNCHANGED <<strWant, strAt>>

(* Longer texts, and short ones that the full slab does not take, go to    *)
(* the table, read without the lock first.                                 *)
TableIntern(t, x, walk) ==
  /\ x \in Shorts \cup Longs
  /\ ~SlabHas(t, x) /\ ~SlabTakes(t, x)
  /\ strWant' = [strWant EXCEPT ![t] = x]
  /\ strAt' = [strAt EXCEPT ![t] = Len(interned)]
  /\ Go(t, walk)
  /\ UNCHANGED <<slab, strGot>>

oo_str_intern_bytes(t, x, next, walk) ==
  /\ \/ oo_str_ascii_intern(t, x, next)
     \/ SlabIntern(t, x, next)
     \/ TableIntern(t, x, walk)
  /\ UNCHANGED <<interned, internMu, strRc>>

(* A walk on behalf of a verification has its own labels, so that the      *)
(* caller to go back to is known.                                          *)
Verifying == [walk |-> "vwalk", lock |-> "vlock", search |-> "vsearch", build |-> "vbuild"]
Phase(t, p) == strPc[t] \in {p, Verifying[p]}
Then(t, p)  == Go(t, IF strPc[t] \in DOMAIN Verifying THEN p ELSE Verifying[p])
Found(t, i) ==
  LET next == IF strPc[t] \in {"walk", "search", "build"}
                 THEN "idle" ELSE "check"
  IN  /\ Got(t, next, "interned", i)
      /\ Go(t, next)
      /\ strWant' = [strWant EXCEPT ![t] = OKText]
      /\ strAt' = [strAt EXCEPT ![t] = 0]

(* One node of the search without the lock.                                *)
WalkNode(t) ==
  /\ Phase(t, "walk")
  /\ LET i == strAt[t]
     IN  \/ /\ i = 0 /\ Then(t, "lock")
            /\ UNCHANGED <<strAt, strGot, strWant>>
         \/ /\ i > 0 /\ interned[i] = strWant[t]
            /\ Found(t, i)
         \/ /\ i > 0 /\ interned[i] # strWant[t]
            /\ strAt' = [strAt EXCEPT ![t] = i - 1]
            /\ UNCHANGED <<strPc, strGot, strWant>>
  /\ UNCHANGED <<slab, interned, internMu, strFresh, strRc>>

InternLock(t) ==
  /\ Phase(t, "lock")
  /\ internMu = NoThread
  /\ internMu' = t
  /\ Then(t, "search")
  /\ UNCHANGED <<slab, interned, strWant, strAt, strGot, strFresh, strRc>>

\* Mutant: the table is not searched again once the lock is held.
SearchAgain_trusts_walk(t) ==
  /\ Phase(t, "search")
  /\ Then(t, "build")
  /\ UNCHANGED <<slab, interned, internMu, strWant, strAt, strGot, strFresh, strRc>>

(* The second search, under the lock.                                      *)
SearchAgain(t) ==
  /\ Phase(t, "search")
  /\ LET hit == Positions(interned, strWant[t])
     IN  \/ /\ hit # {}
            /\ Found(t, CHOOSE i \in hit : \A j \in hit : i >= j)
            /\ internMu' = NoThread
         \/ /\ hit = {} /\ Then(t, "build")
            /\ UNCHANGED <<internMu, strGot, strWant, strAt>>
  /\ UNCHANGED <<slab, interned, strFresh, strRc>>

(* The node is filled, put at the head with a release store, and the lock  *)
(* given back.                                                             *)
Publish(t) ==
  /\ Phase(t, "build")
  /\ Len(interned) < MaxNodes
  /\ interned' = Append(interned, strWant[t])
  /\ internMu' = NoThread
  /\ Found(t, Len(interned) + 1)
  /\ UNCHANGED <<slab, strFresh, strRc>>

-----------------------------------------------------------------------------
(* The callers.  oo_byte_slice copies results of more than 1024 bytes to   *)
(* the heap and interns all others; oo_str_lit interns its argument.       *)
oo_str_lit(t) ==
  /\ strPc[t] = "idle"
  /\ \E x \in Texts \ Huge : oo_str_intern_bytes(t, x, "idle", "walk")
  /\ UNCHANGED strFresh

oo_byte_slice(t) ==
  /\ strPc[t] = "idle"
  /\ \E x \in Texts :
       \/ x \notin Huge /\ oo_str_intern_bytes(t, x, "idle", "walk")
       \/ /\ x \in Huge
          /\ UNCHANGED <<slab, interned, internMu, strPc, strWant, strAt, strGot,
                         strRc>>
  /\ UNCHANGED strFresh

(* crypto_mldsa65_verify_internal: "OK" for a genuine signature, "" else   *)
(* (malformed keys or signatures, too long messages and wrong signatures). *)
crypto_mldsa65_verify_internal(t, genuine) ==
  \/ genuine /\ oo_str_intern_bytes(t, OKText, "check", "vwalk")
  \/ /\ ~genuine
     /\ strGot' = [strGot EXCEPT ![t] = Static]
     /\ Go(t, "check")
     /\ UNCHANGED <<slab, interned, internMu, strWant, strAt, strRc>>

(* crypto_pq_hmac_sha256_verify_internal: a seal of a wrong length or that *)
(* is not hexadecimal is refused before anything is interned.              *)
PqVerify(t) ==
  /\ strPc[t] = "idle"
  /\ \/ UNCHANGED strVars
     \/ \E genuine \in BOOLEAN :
          /\ crypto_mldsa65_verify_internal(t, genuine)
          /\ strFresh' = [strFresh EXCEPT ![t] = genuine]

(* crypto_pq_hmac_self_test verifies what it has just signed; the message  *)
(* it interns on the way is one of the long texts of oo_str_lit.           *)
crypto_pq_hmac_self_test(t) ==
  /\ strPc[t] = "idle"
  /\ crypto_mldsa65_verify_internal(t, TRUE)
  /\ strFresh' = [strFresh EXCEPT ![t] = TRUE]

Content(t) ==
  CASE strGot[t].in = "slab"  -> slab[t][strGot[t].at]
    [] strGot[t].in = "interned" -> interned[strGot[t].at]
    [] OTHER                  -> Wiped

(* rc = the returned text reads "OK".                                      *)
ReadAnswer(t) ==
  /\ strPc[t] = "check"
  /\ strRc' = [strRc EXCEPT ![t] = IF Content(t) = OKText THEN 1 ELSE 0]
  /\ Go(t, "wipe")
  /\ UNCHANGED <<slab, interned, internMu, strWant, strAt, strGot, strFresh>>

(* crypto_secure_wipe(vr.data, vr.len): the interned entry itself.         *)
WipeAnswer(t) ==
  /\ strPc[t] = "wipe"
  /\ LET g == strGot[t]
     IN  /\ slab' = IF g.in = "slab"
                       THEN [slab EXCEPT ![t][g.at] = Wiped] ELSE slab
         /\ interned' = IF g.in = "interned"
                        THEN [interned EXCEPT ![g.at] = Wiped] ELSE interned
  /\ Go(t, "idle")
  /\ strGot' = [strGot EXCEPT ![t] = Static]
  /\ strFresh' = [strFresh EXCEPT ![t] = FALSE]
  /\ strRc' = [strRc EXCEPT ![t] = 0]
  /\ UNCHANGED <<internMu, strWant, strAt>>

StrNext ==
  \E t \in StrThreads :
    \/ oo_str_lit(t) \/ oo_byte_slice(t)
    \/ WalkNode(t) \/ InternLock(t) \/ SearchAgain(t) \/ Publish(t)
    \/ PqVerify(t) \/ crypto_pq_hmac_self_test(t)
    \/ ReadAnswer(t) \/ WipeAnswer(t)

StrSpec == StrInit /\ [][StrNext]_strVars

-----------------------------------------------------------------------------
(* Interning promises one storage per text: no two entries of a slab, and  *)
(* no two nodes of the table, show the same text, whatever the order in    *)
(* which threads search without the lock, search under it and publish.     *)
(* Wiped entries show no text.  str_intern.c:104.                          *)
InternUnique ==
  /\ \A t \in StrThreads : \A i, j \in DOMAIN slab[t] :
       slab[t][i] = slab[t][j] /\ slab[t][i] # Wiped => i = j
  /\ \A i, j \in DOMAIN interned :
       interned[i] = interned[j] /\ interned[i] # Wiped => i = j

(* pq_hmac.c:20, "The verify function must succeed for a freshly-signed    *)
(* seal.": the rc on a fresh seal is 1.  It is not when the slab is        *)
(* full: the "OK" of one thread is then the node another thread wipes.     *)
FreshSealVerifies ==
  \A t \in StrThreads : strPc[t] = "wipe" /\ strFresh[t] => strRc[t] = 1
=============================================================================
