--------------------------- MODULE MCFatInodeHash ---------------------------
(* FatInodeHash with a few names, slots, inodes and threads.                *)
EXTENDS FatInodeHash, TLC

CONSTANTS n1, n2, s1, s2, s3, i1, i2, f1, f2, f3, t1, t2

Symmetry == Permutations(Names) \cup Permutations(Slots) \cup Permutations(Inodes)
            \cup Permutations(Files) \cup Permutations(Threads)
=============================================================================
