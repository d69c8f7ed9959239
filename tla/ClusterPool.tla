---------------------------- MODULE ClusterPool ----------------------------
(***************************************************************************)
(* What the cluster chains of a FAT volume promise: a cluster is free,     *)
(* reserved by the thread of one inode, or part of one inode; it moves     *)
(* between these only by an operation of that inode, and is never in two   *)
(* of them.                                                                *)
(***************************************************************************)
EXTENDS FiniteSets

CONSTANTS Inodes, Clusters,
          MayLeak   \* a failed call may leave clusters that nobody reaches
VARIABLES free, reserved, owned
vars == <<free, reserved, owned>>

Init ==
    /\ free \subseteq Clusters
    /\ reserved = [i \in Inodes |-> {}]
    /\ owned = [i \in Inodes |-> {}]

Take(i) == \E c \in free :
    /\ free' = free \ {c}
    /\ reserved' = [reserved EXCEPT ![i] = @ \cup {c}]
    /\ UNCHANGED owned

Attach(i) ==
    /\ UNCHANGED free
    /\ owned' = [owned EXCEPT ![i] = @ \cup reserved[i]]
    /\ reserved' = [reserved EXCEPT ![i] = {}]

Detach(i) ==
    /\ UNCHANGED free
    /\ reserved[i] = {}
    /\ \E tail \in SUBSET owned[i] :
         /\ reserved' = [reserved EXCEPT ![i] = tail]
         /\ owned' = [owned EXCEPT ![i] = @ \ tail]

Return(i) == \E c \in reserved[i] :
    /\ free' = free \cup {c}
    /\ reserved' = [reserved EXCEPT ![i] = @ \ {c}]
    /\ UNCHANGED owned

Leak(i) ==
    /\ MayLeak
    /\ UNCHANGED <<free, owned>>
    /\ \E kept \in SUBSET reserved[i] : reserved' = [reserved EXCEPT ![i] = kept]

(* A failed fat_free_clusters frees one cluster and loses the others.       *)
ReturnAndLeak(i) ==
    /\ MayLeak
    /\ \E c \in reserved[i] : free' = free \cup {c}
    /\ reserved' = [reserved EXCEPT ![i] = {}]
    /\ UNCHANGED owned

Next == \E i \in Inodes : \/ Take(i) \/ Attach(i) \/ Detach(i) \/ Return(i)
                          \/ Leak(i) \/ ReturnAndLeak(i)
Spec == Init /\ [][Next]_vars
=============================================================================
