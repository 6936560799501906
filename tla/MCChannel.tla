------------------------------ MODULE MCChannel ------------------------------
(***************************************************************************)
(* Channel for TLC: two threads, two slots of two messages, two strings of *)
(* up to MaxRefs references.  Threads and messages are interchangeable.    *)
(***************************************************************************)
EXTENDS Channel, TLC

Symmetry == Permutations(Threads) \cup Permutations(Msgs)
=============================================================================
