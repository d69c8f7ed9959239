----------------------------- MODULE FatChains -----------------------------
(***************************************************************************)
(* Properties of whole cluster chains, and the refinement of ClusterPool   *)
(* by FatTable: an inode owns the clusters its chain runs through, and its *)
(* thread has reserved those that hang from its local cluster.             *)
(***************************************************************************)
EXTENDS FatTable

(* The clusters a walk from c meets: those that no set holding c can do     *)
(* without unless an entry leads out of it.                                 *)
ChainFrom(c) ==
    {d \in Clusters : /\ c \in Clusters
                      /\ \A S \in SUBSET (Clusters \ {d}) :
                           c \in S => \E e \in S : fat[e] \in Clusters \ S}
Chain(i) == ChainFrom(iStart[i])

(* What hangs from the cluster a thread holds.                              *)
Hung(i) == ChainFrom(Held(i))

(* Between two operations an inode has exactly the clusters its size needs, *)
(* i_blocks says so and mmu_private is i_size: a write that ran out of      *)
(* space, or was short, has given everything back.                          *)
SettledExact ==
    \A i \in Inodes : pc[i] = "idle" =>
        /\ Cardinality(Chain(i)) = Ceil(iSize[i])
        /\ iBlocks[i] = Ceil(iSize[i])
        /\ mmuPrivate[i] = iSize[i]

(* Whatever failed, every block below i_size has a cluster in the chain, so *)
(* fat_bmap_cluster never has to report a "request beyond EOF".             *)
EveryBlockBacked ==
    \A i \in Inodes : pc[i] = "idle" =>
        /\ Ceil(iSize[i]) <= Cardinality(Chain(i))
        /\ mmuPrivate[i] = iSize[i]

(* The block a write has just allocated is the one it goes on to map: data  *)
(* never lands on a cluster that was left over.                             *)
MapsWhatItTook ==
    [][\A i \in Inodes :
         pc[i] = "walk_map" /\ pc'[i] = "block" /\ cluster[i] # 0 =>
             loc[i].dclus = cluster[i]]_vars

(* The chains implement the pool: clusters pass from free to reserved to    *)
(* owned and back by steps of their own inode, none is in two places, and   *)
(* none is lost unless a call failed.                                       *)
Pool == INSTANCE ClusterPool WITH
          MayLeak  <- Faults # {},
          free     <- FreeSet,
          reserved <- [i \in Inodes |-> Hung(i)],
          owned    <- [i \in Inodes |-> Chain(i)]
ImplementsPool == Pool!Spec
=============================================================================
