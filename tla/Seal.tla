-------------------------------- MODULE Seal --------------------------------
(***************************************************************************)
(* Sealing (sec/crypto/seal.c, sec/crypto/aead, sec/pqc/pq_sig): the AEAD  *)
(* calls, the post-quantum seal that encrypts, signs and packs, the open   *)
(* that unpacks, checks and decrypts, the ML-DSA based MAC, and the sealed *)
(* messages of app/actor/actor_rpc.c.                                      *)
(*                                                                         *)
(* The primitives are symbolic: a ciphertext, a tag or a signature is the  *)
(* record of what it was computed from, and two are equal when those are.  *)
(* Strings keep what the code looks at: whether they are the hexadecimal   *)
(* form of other bytes (every loader decodes such a string), whether they  *)
(* are empty, and whether they fit the 4096 bytes of the signing buffer.   *)
(* Whether the bytes of a ciphertext happen to be hexadecimal digits is a  *)
(* choice.  malloc failures abort and are no step.                         *)
(***************************************************************************)
EXTENDS Naturals, FiniteSets

CONSTANTS
  CapKeys,       \* seeds of signing keys
  AeadKeys,      \* AEAD keys
  Nonces,        \* bound: nonces
  Plains,        \* payloads; those in LongPlains do not fit the signing buffer
  LongPlains,
  NoBytes,       \* the empty payload, a member of Plains
  Garbled,       \* bytes nobody computed
  MaxSeals       \* bound: seals, boxes and MACs made

ASSUME SealAssumption == Garbled \notin AeadKeys

VARIABLES
  call,          \* the running post-quantum seal, or the answer of an open
  secrets,       \* its buffers that hold secret bytes
  heap,          \* its allocations not yet freed
  nonces,        \* nonces the kernel has given out
  boxes,         \* post-quantum seals made: [cap, aead, p, box]
  pairs,         \* AEAD ciphertexts made: [alg, key, nonce, aad, p, ct, tag]
  macs,          \* MACs made: [pk, sig, msg]
  rpcs           \* messages sealed by oo_cap_rpc_send: [mac, p]

sealVars == <<call, secrets, heap, nonces, boxes, pairs, macs, rpcs>>

(* A string of the caller: its bytes, or their hexadecimal form.           *)
SealTexts == {s \in [b : Plains, hex : BOOLEAN] : s.b = NoBytes => ~s.hex}
(* A key argument: raw bytes or their hexadecimal form, which load to the  *)
(* same key, or a string that is refused.                                  *)
Forms == {"key", "bad"}
Algs  == {"gcm", "chacha"}
Idle  == [at |-> "idle"]
NoText == [b |-> NoBytes, hex |-> FALSE]

SealInit ==
  /\ call = Idle /\ secrets = {} /\ heap = {} /\ nonces = {}
  /\ boxes = {} /\ pairs = {} /\ macs = {} /\ rpcs = {}

Room == Cardinality(boxes) + Cardinality(pairs) + Cardinality(macs) + Cardinality(rpcs) < MaxSeals
-----------------------------------------------------------------------------
(* aead_all_hex and aead_load: an all-hexadecimal string of even length is *)
(* decoded, any other is taken as it is.  d_load_msg does the same.        *)
aead_load(s) == [s EXCEPT !.hex = FALSE]

(* aead_load of a ciphertext given as raw bytes: if they are all           *)
(* hexadecimal digits other bytes come out.  The hexadecimal form that the *)
(* seal returned decodes to the ciphertext.                                *)
LoadCt(ct, form) == IF form = "raw" /\ ct.digits THEN [ct EXCEPT !.key = Garbled]
                                                 ELSE ct

(* aead_fill, hex_load_n, d_hex_load: exact length, or twice it in         *)
(* hexadecimal digits.                                                     *)
aead_fill(form) == form # "bad"

Tag(alg, key, nonce, aad, ct) ==
  [alg |-> alg, key |-> key, nonce |-> nonce, aad |-> aad, ct |-> ct]

(* The key stream, and its inverse: under another key or nonce the bytes   *)
(* are nobody's.                                                           *)
Encrypt(alg, key, nonce, p, digits) ==
  [alg |-> alg, key |-> key, nonce |-> nonce, p |-> p,
   digits |-> digits /\ p.b # NoBytes]
Decrypt(alg, key, nonce, ct) ==
  IF ct.alg = alg /\ ct.key = key /\ ct.nonce = nonce
     THEN ct.p ELSE [b |-> Garbled, hex |-> FALSE]

(* crypto_aes_gcm_seal_internal and crypto_chacha20poly1305_seal_internal: *)
(* both return hex(ct || tag).                                             *)
AeadSeal(alg, key, nonce, pt, aad, digits) ==
  LET ct == Encrypt(alg, key, nonce, aead_load(pt), digits)
  IN  [ct |-> ct, tag |-> Tag(alg, key, nonce, aad, ct)]

\* Mutant: the bytes are returned without comparing the tags.
AeadOpen_any_tag(alg, key, nonce, ct, tag, aad) ==
  Decrypt(alg, key, nonce, ct)

(* The open halves: the expected tag is compared before anything is        *)
(* decrypted; "" when it differs.                                          *)
AeadOpen(alg, key, nonce, ct, tag, aad) ==
  IF tag = Tag(alg, key, nonce, aad, ct) THEN Decrypt(alg, key, nonce, ct)
                                         ELSE NoText

crypto_aes_gcm_seal_internal(key, nonce, pt, aad, digits) ==
  AeadSeal("gcm", key, nonce, pt, aad, digits)
crypto_aes_gcm_open_internal(key, nonce, ct, tag, aad) ==
  AeadOpen("gcm", key, nonce, ct, tag, aad)
crypto_chacha20poly1305_seal_internal(key, nonce, pt, aad, digits) ==
  AeadSeal("chacha", key, nonce, pt, aad, digits)
crypto_chacha20poly1305_open_internal(key, nonce, ct, tag, aad) ==
  AeadOpen("chacha", key, nonce, ct, tag, aad)

(* oo_seal, and the ChaCha20 entry of the private header: a key that does  *)
(* not load gives E_AEAD and makes nothing.  The caller chooses the nonce. *)
SealCall(alg, form, key, nonce, pt, aad, digits) ==
  LET r == IF alg = "gcm"
             THEN crypto_aes_gcm_seal_internal(key, nonce, pt, aad, digits)
             ELSE crypto_chacha20poly1305_seal_internal(key, nonce, pt, aad, digits)
  IN  /\ aead_fill(form) /\ Room
      /\ pairs' = pairs \cup {[alg |-> alg, key |-> key, nonce |-> nonce,
                               aad |-> aad, p |-> aead_load(pt),
                               ct |-> r.ct, tag |-> r.tag]}

oo_seal ==
  /\ call = Idle
  /\ \E alg \in Algs, form \in Forms, key \in AeadKeys, nonce \in Nonces,
        pt \in SealTexts, aad \in CapKeys, digits \in BOOLEAN :
       SealCall(alg, form, key, nonce, pt, aad, digits)
  /\ UNCHANGED <<call, secrets, heap, nonces, boxes, macs, rpcs>>

(* oo_open: any ciphertext with any tag, nonce and associated data, the    *)
(* ciphertext raw or in the hexadecimal form the seal returned.  An empty  *)
(* plaintext is reported as E_AEAD like a failure.                         *)
oo_open ==
  /\ call = Idle
  /\ \E alg \in Algs, form \in Forms, ctform \in {"raw", "hex"}, key \in AeadKeys,
        nonce \in Nonces, aad \in CapKeys, m1, m2 \in pairs :
       LET ct  == LoadCt(m1.ct, ctform)
           ans == IF ~aead_fill(form) THEN NoText
                  ELSE IF alg = "gcm"
                  THEN crypto_aes_gcm_open_internal(key, nonce, ct, m2.tag, aad)
                  ELSE crypto_chacha20poly1305_open_internal(key, nonce, ct,
                                                             m2.tag, aad)
       IN  call' = [at |-> "aead", alg |-> alg, form |-> form, ctform |-> ctform,
                      key |-> key, nonce |-> nonce, aad |-> aad, ct |-> m1.ct,
                      tag |-> m2.tag, ans |-> ans]
  /\ UNCHANGED <<secrets, heap, nonces, boxes, pairs, macs, rpcs>>
-----------------------------------------------------------------------------
(* ML-DSA: a signature names the signing key and the loaded message; a     *)
(* message longer than the buffer is not signed and does not verify.       *)
Signed(cap, msg) == [cap |-> cap, msg |-> msg]
Verifies(pk, msg, sig) == sig = Signed(pk, msg)

SignFits(p) == p.b \notin LongPlains

Done == call' = Idle

(* crypto_pq_aead_seal_internal: the arguments; the AEAD key decoded.      *)
PqSeal ==
  /\ call = Idle /\ Room
  /\ \E cf, af \in Forms, cap \in CapKeys, key \in AeadKeys, pt \in SealTexts :
       IF ~aead_fill(af) THEN UNCHANGED <<call, secrets>>
       ELSE /\ call' = [at |-> "keygen", cf |-> cf, cap |-> cap, key |-> key,
                        pt |-> pt]
            /\ secrets' = {"aead"}
  /\ UNCHANGED <<heap, nonces, boxes, pairs, macs, rpcs>>

(* The key pair is generated, split and its text wiped.  A seed that does  *)
(* not load gives no key pair.                                             *)
PqSealKeygen ==
  /\ call.at = "keygen"
  /\ IF aead_fill(call.cf)
       THEN call' = [call EXCEPT !.at = "nonce"] /\ secrets' = secrets \cup {"sk"}
       ELSE Done /\ secrets' = secrets \ {"aead"}
  /\ UNCHANGED <<heap, nonces, boxes, pairs, macs, rpcs>>

(* getentropy gives a nonce not seen before, or fails.                     *)
PqSealNonce ==
  /\ call.at = "nonce"
  /\ \/ Done /\ secrets' = secrets \ {"aead", "sk"} /\ UNCHANGED nonces
     \/ \E n \in Nonces \ nonces :
          /\ nonces' = nonces \cup {n}
          /\ call' = [at |-> "encrypt", cap |-> call.cap, key |-> call.key,
                      pt |-> call.pt, nonce |-> n]
          /\ UNCHANGED secrets
  /\ UNCHANGED <<heap, boxes, pairs, macs, rpcs>>

(* Encryption bound to the public key; ct is decoded into its own buffer.  *)
PqSealEncrypt ==
  /\ call.at = "encrypt"
  /\ \E digits \in BOOLEAN :
       LET r == crypto_aes_gcm_seal_internal(call.key, call.nonce, call.pt,
                                             call.cap, digits)
       IN  call' = [at |-> "sign", cap |-> call.cap, key |-> call.key, pt |-> call.pt,
                    nonce |-> call.nonce, ct |-> r.ct, tag |-> r.tag]
  /\ heap' = heap \cup {"ct"}
  /\ UNCHANGED <<secrets, nonces, boxes, pairs, macs, rpcs>>

SignedParts(pk, nonce, ct, tag) == <<pk, nonce, ct, tag>>

(* The signature over pk, nonce, ciphertext and tag; the signing key is    *)
(* wiped either way.  When the parts do not fit the signing buffer the     *)
(* call returns "" without freeing ct.                                     *)
PqSealSign ==
  /\ call.at = "sign"
  /\ IF SignFits(call.pt)
       THEN /\ call' = [call EXCEPT !.at = "pack"]
            /\ secrets' = secrets \ {"sk"}
       ELSE Done /\ secrets' = secrets \ {"sk", "aead"}
  /\ UNCHANGED <<heap, nonces, boxes, pairs, macs, rpcs>>

PqSealPack ==
  /\ call.at = "pack"
  /\ boxes' = boxes \cup
       {[cap |-> call.cap, aead |-> call.key, p |-> aead_load(call.pt),
         box |-> [pk |-> call.cap, nonce |-> call.nonce, ct |-> call.ct,
                  tag |-> call.tag,
                  sig |-> Signed(call.cap, SignedParts(call.cap, call.nonce,
                                                       call.ct, call.tag))]]}
  /\ secrets' = secrets \ {"aead"}
  /\ heap' = heap \ {"ct"}
  /\ Done
  /\ UNCHANGED <<nonces, pairs, macs, rpcs>>
-----------------------------------------------------------------------------
(* Any box put together from the parts of boxes made.                      *)
BoxesToOpen ==
  LET B == {m.box : m \in boxes}
  IN  {[pk |-> a.pk, nonce |-> b.nonce, ct |-> c.ct, tag |-> d.tag, sig |-> e.sig]
         : a, b, c, d, e \in B}

(* What crypto_pq_aead_open_internal answers, in the order of its tests:   *)
(* the key pair, the public key in the box, the signature, the AEAD key,   *)
(* the tag.  The key pair's text is wiped after each of the two key        *)
(* generations, so no secret of it outlives a test.                        *)
PqOpenAnswer(cf, cap, af, key, box) ==
  IF \/ ~aead_fill(cf)
     \/ box.pk # cap
     \/ ~Verifies(cap, SignedParts(cap, box.nonce, box.ct, box.tag), box.sig)
     \/ ~aead_fill(af)
  THEN NoText
  ELSE crypto_aes_gcm_open_internal(key, box.nonce, LoadCt(box.ct, "raw"),
                                    box.tag, cap)

PqOpen ==
  /\ call = Idle
  /\ \E cf, af \in Forms, cap \in CapKeys, key \in AeadKeys, box \in BoxesToOpen :
       call' = [at |-> "pq", cf |-> cf, af |-> af, cap |-> cap, key |-> key,
                  box |-> box, ans |-> PqOpenAnswer(cf, cap, af, key, box)]
  /\ UNCHANGED <<secrets, heap, nonces, boxes, pairs, macs, rpcs>>
-----------------------------------------------------------------------------
(* crypto_pq_hmac_sha256_internal: pk and signature of the loaded message; *)
(* "" for a key that does not load or a message that does not fit.         *)
PqMac ==
  /\ call = Idle /\ Room
  /\ \E cf \in Forms, cap \in CapKeys, msg \in SealTexts :
       /\ aead_fill(cf) /\ SignFits(msg)
       /\ macs' = macs \cup {[pk |-> cap, sig |-> Signed(cap, aead_load(msg)),
                              msg |-> msg]}
  /\ UNCHANGED <<call, secrets, heap, nonces, boxes, pairs, rpcs>>

(* A verification of any public key with any signature of a MAC made.      *)
PqMacVerify ==
  /\ call = Idle
  /\ \E m1, m2 \in macs, msg \in SealTexts :
       call' = [at |-> "mac", pk |-> m1.pk, sig |-> m2.sig, msg |-> msg,
                  ok |-> SignFits(msg) /\ Verifies(m1.pk, aead_load(msg), m2.sig)]
  /\ UNCHANGED <<secrets, heap, nonces, boxes, pairs, macs, rpcs>>

(* oo_rpc_mac: HMAC-SHA256 keyed with the sign token, the same in every    *)
(* call that passes oo_cap_require_sign; the bytes are not decoded.        *)
oo_rpc_mac(p) == [signed |-> p]

(* oo_cap_rpc_send: the MAC, then the payload; more than 192 bytes are     *)
(* refused.                                                                *)
oo_cap_rpc_send ==
  /\ call = Idle /\ Room
  /\ \E p \in SealTexts :
       /\ p.b \notin LongPlains
       /\ rpcs' = rpcs \cup {[mac |-> oo_rpc_mac(p), p |-> p]}
  /\ UNCHANGED <<call, secrets, heap, nonces, boxes, pairs, macs>>

(* oo_cap_rpc_recv: any MAC sent in front of any bytes, or a text too      *)
(* short to hold a MAC.                                                    *)
oo_cap_rpc_recv ==
  /\ call = Idle
  /\ \E m \in rpcs, p \in SealTexts, short \in BOOLEAN :
       call' = [at |-> "rpc", mac |-> m.mac, p |-> p, short |-> short,
                ok |-> ~short /\ m.mac = oo_rpc_mac(p)]
  /\ UNCHANGED <<secrets, heap, nonces, boxes, pairs, macs, rpcs>>

(* The answer goes to the caller.                                          *)
Answered ==
  /\ call.at \in {"pq", "aead", "mac", "rpc"}
  /\ Done
  /\ UNCHANGED <<secrets, heap, nonces, boxes, pairs, macs, rpcs>>

SealNext ==
  \/ oo_seal \/ oo_open
  \/ PqSeal \/ PqSealKeygen \/ PqSealNonce \/ PqSealEncrypt
  \/ PqSealSign \/ PqSealPack
  \/ PqOpen \/ PqMac \/ PqMacVerify
  \/ oo_cap_rpc_send \/ oo_cap_rpc_recv \/ Answered

SealSpec == SealInit /\ [][SealNext]_sealVars
-----------------------------------------------------------------------------
(* Parts of different seals never open together, and what was sealed opens *)
(* under its own keys, except a raw ciphertext whose bytes are hexadecimal *)
(* digits.  What comes back is the plaintext as it was loaded, which for a *)
(* hexadecimal plaintext is not the string that was sealed (aead.c:42).    *)
OpenExact ==
  /\ call.at = "pq" =>
       LET made == {m \in boxes : /\ m.box = call.box
                                  /\ m.cap = call.cap /\ m.aead = call.key}
           good == /\ call.cf # "bad" /\ call.af # "bad"
                   /\ ~call.box.ct.digits /\ made # {}
       IN  IF good THEN \A m \in made : call.ans = m.p
                   ELSE call.ans = NoText
  /\ call.at = "aead" =>
       LET made == {m \in pairs :
                      /\ m.alg = call.alg /\ m.key = call.key
                      /\ m.nonce = call.nonce /\ m.aad = call.aad
                      /\ m.ct = call.ct /\ m.tag = call.tag}
           good == /\ call.form # "bad" /\ made # {}
                   /\ call.ctform = "hex" \/ ~call.ct.digits
       IN  IF good THEN \A m \in made : call.ans = m.p
                   ELSE call.ans = NoText
  /\ call.at = "mac" =>
       (call.ok <=> \E m \in macs :
                        /\ m.pk = call.pk /\ m.sig = call.sig
                        /\ aead_load(m.msg) = aead_load(call.msg))
  /\ call.at = "rpc" =>
       (call.ok <=> ~call.short /\ [mac |-> call.mac, p |-> call.p] \in rpcs)

(* No return of the seal leaves the private signing key or the AEAD key in *)
(* memory, whichever of its steps failed (pq_aead_seal.c:146).  The digits *)
(* of a key string that is refused half way (line 44) are not counted.     *)
KeysWiped == call = Idle => secrets = {}

(* What a caller of the sealing functions relies on: a seal, a MAC or a    *)
(* capability message is accepted exactly when its parts belong together   *)
(* and the keys are its own, and no call leaves a key behind.              *)
SealSound == OpenExact /\ KeysWiped
=============================================================================
