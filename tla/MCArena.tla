------------------------------ MODULE MCArena ------------------------------
(* Two threads on one arena slot, two mmap regions and room for three frames. *)
EXTENDS Arena, TLC

\* Payload bytes that read as a dead header pointing into mid-arena, or to the bottom.
MCJunk == {[off |-> 3, top |-> 2], [off |-> 0, top |-> 2]}

Symmetry == Permutations(Threads) \cup Permutations(Regions)
=============================================================================
