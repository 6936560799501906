------------------------------- MODULE MCList -------------------------------
(***************************************************************************)
(* List for TLC.  Threads, tokens, blocks and elements are interchangeable.*)
(***************************************************************************)
EXTENDS List, TLC

Symmetry == Permutations(Threads) \cup Permutations(Refs) \cup Permutations(Blocks)
            \cup Permutations(Vals)
=============================================================================
