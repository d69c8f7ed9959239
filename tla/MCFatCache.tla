----------------------------- MODULE MCFatCache -----------------------------
(* FatCache with a short list and few threads.                              *)
EXTENDS FatCache, TLC
Symmetry == Permutations(Readers)
=============================================================================
