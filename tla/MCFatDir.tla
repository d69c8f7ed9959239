------------------------------ MODULE MCFatDir ------------------------------
(* FatRecovery, and with it FatDir, on volumes of a few clusters.           *)
EXTENDS FatRecovery

CONSTANTS c0, c1, c2, c3, i1, i2, i3

(* L and K have the same first letters and one and two long slots, t is an  *)
(* alias that one of them gets; x is a short name in lower case, which has  *)
(* a long slot too; p ends with a character twice, q does not.              *)
MCForm ==
    LET Plain(k, a) == [longs |-> k, tail |-> FALSE, alias |-> <<a>>]
        Tailed(k, c) == [longs |-> k, tail |-> TRUE, alias |-> [j \in 1..3 |-> <<c, 126, 48 + j>>]]
    IN [L |-> Tailed(1, 76), K |-> Tailed(2, 76), t |-> Plain(0, <<76, 126, 49>>),
        x |-> Plain(1, <<88, 32, 32>>), p |-> Plain(0, <<65, 66, 66>>), q |-> Plain(0, <<65, 66, 67>>)]
MCNames == DOMAIN MCForm

Volume(ops, names, files, dirsync, label) ==
    [ops |-> ops, names |-> names, files |-> files, label |-> label,
     dirsync |-> dirsync, faults |-> dirsync, calls |-> None]
Aliases == Volume({"create", "unlink", "miss"}, {"L", "K", "t"}, 3, FALSE, FALSE)
Listing == Volume({"create", "unlink", "rename", "read"}, {"L", "t"}, 3, FALSE, FALSE)
Shuffling == Volume({"create", "rename", "read"}, {"L", "t"}, 2, FALSE, FALSE)
Growing == Volume({"create", "unlink", "rename", "write"}, {"K", "x"}, 2, TRUE, TRUE)
Nesting == Volume({"mkdir", "rmdir", "rename", "create", "unlink"}, {"p", "q"}, 2, FALSE, FALSE)
Moving == Volume({"mkdir", "rmdir", "rename", "create"}, {"p", "q"}, 2, TRUE, FALSE)
Replacing == [Volume({"mkdir", "rename"}, {"p", "q"}, 3, TRUE, FALSE) EXCEPT !.calls = 5]
Filling == Volume({"mkdir", "rmdir"}, {"K", "x"}, 3, TRUE, FALSE)
Undelete == Volume({"create", "unlink", "write", "recover"}, {"p", "q"}, 2, FALSE, FALSE)
MCSetups == {Aliases, Listing, Shuffling, Growing, Nesting, Moving, Replacing, Filling, Undelete}
=============================================================================
