----------------------------- MODULE MCFatMount -----------------------------
(* FatMount on a few clusters, with a few threads.                          *)
EXTENDS FatMount, TLC

CONSTANTS c1, c2, t1, t2

Symmetry == Permutations(Clusters) \cup Permutations(Threads)
=============================================================================
