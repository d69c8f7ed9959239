--------------------------- MODULE FatTableProofs ---------------------------
(***************************************************************************)
(* Theorems about FatTable and FatChains, for every volume, every set of   *)
(* inodes and, where it matters, every set of failing calls.  First types, *)
(* and that no cluster has two owners.                                     *)
(*                                                                         *)
(* fat_lock keeps one thread at a time in the critical sections, and the   *)
(* scan of fat_alloc_clusters, which starts anywhere in the table, wraps   *)
(* and stops by a count, misses no free entry.  The free counter is exact: *)
(* an entry changes only at the hands of the thread whose cluster it is;   *)
(* every cluster in use has an owner, chains stay inside what their inode  *)
(* owns, and a thread walks, links and frees only clusters of its own.     *)
(*                                                                         *)
(* Then whole chains: FatTable implements ClusterPool, and the chain of an *)
(* inode, i_blocks, mmu_private and i_size agree.                          *)
(***************************************************************************)
EXTENDS FatChains, FiniteSetTheorems, TLAPS

-----------------------------------------------------------------------------
(* Types.                                                                   *)

(* Dividing a size by the cluster size gives a natural number.              *)
LEMMA DivNat == ASSUME NEW a \in Nat, NEW b \in Nat \ {0} PROVE a \div b \in Nat
  BY SMT

(* The free entries can be counted.                                         *)
LEMMA FreeSetFinite ==
  IsFiniteSet(Clusters) /\ IsFiniteSet(FreeSet) /\ Cardinality(FreeSet) \in Nat
<1>1. IsFiniteSet(Clusters)
  BY FS_Interval, ClusterAssumption DEF Clusters
<1>2. FreeSet \subseteq Clusters
  BY DEF FreeSet
<1> QED BY <1>1, <1>2, FS_Subset, FS_CardinalityType

(* The numbers that mark an entry are no clusters.                          *)
LEMMA Marks == /\ FREE \notin Clusters /\ EOF \notin Clusters /\ FREE # EOF
               /\ 0 \notin Clusters /\ EOF # 0 /\ FREE = 0 /\ EOF = MaxCluster
               /\ Clusters \subseteq Nat
  BY ClusterAssumption DEF FREE, EOF, Clusters

LEMMA BlankType == Blank \in LocType
  BY DEF Blank, LocType

(* The helpers of the actions keep the types of what they assign.           *)
LEMMA LeaveType ==
  ASSUME TypeOK, NEW i \in Inodes, Leave(i)
  PROVE  /\ pc' \in [Inodes -> PCs] /\ goal' \in [Inodes -> Nat]
         /\ loc' \in [Inodes -> LocType]
         /\ cluster' \in [Inodes -> Clusters \cup {0, EOF}]
  BY BlankType DEF TypeOK, Leave, Goto, PCs

LEMMA WalkType ==
  ASSUME TypeOK, NEW i \in Inodes, NEW label \in PCs, NEW target \in Nat,
         Walk(i, label, target)
  PROVE  pc' \in [Inodes -> PCs] /\ loc' \in [Inodes -> LocType]
<1> DEFINE l == [loc[i] EXCEPT !.fclus = 0, !.dclus = iStart[i], !.target = target]
<1>1. loc[i] \in LocType /\ iStart[i] \in Clusters \cup {0}
  BY DEF TypeOK
<1>2. l \in LocType
  BY <1>1 DEF LocType
<1>3. loc' = [loc EXCEPT ![i] = l]
  BY <1>1 DEF TypeOK, Walk, LocType
<1>4. pc' \in [Inodes -> PCs]
  BY DEF TypeOK, Walk, Goto
<1> QED BY <1>2, <1>3, <1>4 DEF TypeOK

LEMMA LocTyped ==
  ASSUME TypeOK, NEW i \in Inodes, NEW l \in LocType, loc' = [loc EXCEPT ![i] = l]
  PROVE  loc' \in [Inodes -> LocType]
  BY DEF TypeOK

LEMMA GotoType ==
  ASSUME TypeOK, NEW i \in Inodes, NEW label \in PCs, Goto(i, label)
  PROVE  pc' \in [Inodes -> PCs]
  BY DEF TypeOK, Goto

(* What the locals of a thread are worth at each point of its program.      *)
HasCluster == {"a_mirror", "chain", "walk_end", "link", "link_sync", "chain_end",
               "cut_sync", "f_lock", "f_step"}
LocalOK(i) ==
    /\ pc[i] = "a_scan" => loc[i].entry # 0
    /\ pc[i] \in {"a_lock", "a_scan", "a_unlock"} => loc[i].req > 0
    /\ pc[i] \in {"a_scan", "a_unlock"} /\ loc[i].got > 0 => cluster[i] \in Clusters
    /\ pc[i] \in HasCluster => cluster[i] \in Clusters
TypeInv == TypeOK /\ \A i \in Inodes : LocalOK(i)

LEMMA ScannedType ==
  ASSUME TypeInv, NEW i \in Inodes, pc[i] = "a_scan"
  PROVE  Scanned(i) \in Clusters /\ Scanned(i) + 1 \in Clusters \cup {MaxCluster}
<1>1. loc[i] \in LocType
  BY DEF TypeInv, TypeOK
<1>2. loc[i].entry \in Clusters \cup {MaxCluster}
  BY <1>1 DEF LocType, TypeInv, LocalOK
<1> QED BY <1>2, ClusterAssumption DEF Scanned, Clusters

LEMMA TypeInit == Init => TypeInv
<1> SUFFICES ASSUME Init PROVE TypeInv
  OBVIOUS
<1>1. Cardinality(Clusters \ BadClusters) \in Nat
  BY FreeSetFinite, FS_Subset, FS_CardinalityType
<1>2. TypeOK
  BY <1>1, BlankType, CountAssumption DEF Init, TypeOK, PCs
<1>3. \A i \in Inodes : LocalOK(i)
  BY DEF Init, LocalOK, HasCluster
<1> QED BY <1>2, <1>3 DEF TypeInv

(* A step of one inode's thread leaves the locals, and the first cluster,   *)
(* of every other inode alone.                                              *)
LEMMA Frame ==
  ASSUME TypeOK, NEW i \in Inodes, Request(i) \/ Step(i), NEW j \in Inodes, j # i
  PROVE  /\ pc'[j] = pc[j] /\ loc'[j] = loc[j] /\ cluster'[j] = cluster[j]
         /\ iStart'[j] = iStart[j]
<1> USE DEF TypeOK, counters, inode, locals, Goto, Leave, Walk, Cleanup
<1>1. CASE WriteBegin(i) \/ DirGrow(i) \/ Shrink(i)
  BY <1>1 DEF WriteBegin, DirGrow, Shrink
<1>2. CASE GetBlock(i) \/ WriteEnd(i)
  BY <1>2 DEF GetBlock, WriteEnd
<1>3. CASE AllocLock(i) \/ AllocTake(i) \/ AllocSkip(i) \/ AllocFull(i)
  BY <1>3 DEF AllocLock, LockFree, AllocTake, Counted, Linked, ScanLeft, AllocSkip, AllocFull
<1>4. CASE AllocReadFails(i) \/ AllocUnlock(i) \/ AllocMirror(i)
  BY <1>4 DEF AllocReadFails, AllocUnlock, AllGot, AllocMirror
<1>5. CASE ChainAdd(i) \/ ChainLink(i) \/ ChainSync(i) \/ ChainEnd(i)
  BY <1>5 DEF ChainAdd, ChainLink, ChainSync, ChainEnd, Grown
<1>6. CASE WalkStep(i) \/ WalkFails(i) \/ WalkEof(i) \/ WalkDone(i)
  BY <1>6 DEF WalkStep, WalkFails, WalkEof, WalkDone
<1>7. CASE Truncate(i) \/ Cut(i) \/ CutSync(i)
  BY <1>7 DEF Truncate, StartCleared, Cut, CutSync
<1>8. CASE FreeLock(i) \/ FreeStep(i) \/ FreeFails(i) \/ FreeUnlock(i)
  BY <1>8 DEF FreeLock, LockFree, FreeStep, Counted, FreeFails, FreeUnlock
<1> QED BY <1>1, <1>2, <1>3, <1>4, <1>5, <1>6, <1>7, <1>8 DEF Request, Step

-----------------------------------------------------------------------------
(* The steps, one lemma for each group of actions.                          *)

LEMMA TypeRequests ==
  ASSUME TypeInv, NEW i \in Inodes, Request(i)  PROVE TypeOK' /\ LocalOK(i)'
<1> TypeOK
  BY DEF TypeInv
<1> USE DEF counters, inode, locals
<1>1. CASE WriteBegin(i)
  <2>1. PICK size \in (iSize[i] + 1)..MaxBlocks : goal' = [goal EXCEPT ![i] = size]
    BY <1>1 DEF WriteBegin
  <2>2. size \in Nat
    BY <2>1, SizeAssumption DEF TypeOK
  <2>3. goal' \in [Inodes -> Nat]
    BY <2>1, <2>2 DEF TypeOK
  <2>4. pc' \in [Inodes -> PCs] /\ pc'[i] = "block"
    BY <1>1 DEF WriteBegin, Goto, PCs, TypeOK
  <2> QED BY <1>1, <2>3, <2>4 DEF WriteBegin, TypeOK, LocalOK, HasCluster
<1>2. CASE DirGrow(i)
  <2>1. PICK n \in {1, 2} : loc' = [loc EXCEPT ![i].req = n]
    BY <1>2 DEF DirGrow
  <2>2. [loc[i] EXCEPT !.req = n] \in LocType
    <3>1. n \in Nat /\ loc[i] \in LocType
      BY DEF TypeOK
    <3> QED BY <3>1 DEF LocType
  <2>3. loc' = [loc EXCEPT ![i] = [loc[i] EXCEPT !.req = n]]
    BY <2>1
  <2>4. loc' \in [Inodes -> LocType] /\ loc'[i].req > 0
    BY <2>2, <2>3 DEF TypeOK, LocType
  <2>5. pc' \in [Inodes -> PCs] /\ pc'[i] = "a_lock"
    BY <1>2 DEF DirGrow, Goto, PCs, TypeOK
  <2>6. UNCHANGED <<fat, counters, fatLock, inode, fsError, cluster, goal>>
    BY <1>2 DEF DirGrow
  <2> QED BY <2>4, <2>5, <2>6 DEF TypeOK, LocalOK, HasCluster
<1>3. CASE Shrink(i)
  <2>1. pc' \in [Inodes -> PCs] /\ pc'[i] = "trunc"
    BY <1>3 DEF Shrink, Goto, PCs, TypeOK
  <2>2. UNCHANGED <<fat, counters, fatLock, iStart, iBlocks, mmuPrivate, fsError, locals>>
    BY <1>3 DEF Shrink
  <2>3. PICK size \in IF i \in Dirs \/ ~Writable THEN {0} ELSE 0..iSize[i] :
           iSize' = [iSize EXCEPT ![i] = size]
    BY <1>3 DEF Shrink
  <2>4. size \in Nat
    BY <2>3
  <2>5. iSize' \in [Inodes -> Nat]
    BY <2>3, <2>4 DEF TypeOK
  <2> QED BY <2>1, <2>2, <2>5 DEF TypeOK, LocalOK, HasCluster
<1> QED BY <1>1, <1>2, <1>3 DEF Request

LEMMA TypeWrite ==
  ASSUME TypeInv, NEW i \in Inodes, GetBlock(i) \/ WriteEnd(i)
  PROVE  TypeOK' /\ LocalOK(i)'
<1> TypeOK
  BY DEF TypeInv
<1> USE DEF counters, inode, locals
<1>1. CASE GetBlock(i) /\ mmuPrivate[i] % SecPerClus = 0
  <2>1. [loc[i] EXCEPT !.req = 1] \in LocType
    BY ZenonT(30) DEF TypeOK, LocType
  <2>2. loc' = [loc EXCEPT ![i] = [loc[i] EXCEPT !.req = 1]]
    BY <1>1 DEF GetBlock
  <2>3. loc' \in [Inodes -> LocType] /\ loc'[i].req > 0
    BY <2>1, <2>2 DEF TypeOK, LocType
  <2>4. pc' \in [Inodes -> PCs] /\ pc'[i] = "a_lock"
    BY <1>1 DEF GetBlock, Goto, PCs, TypeOK
  <2> QED BY <1>1, <2>3, <2>4 DEF GetBlock, TypeOK, LocalOK, HasCluster
<1>2. CASE GetBlock(i) /\ mmuPrivate[i] % SecPerClus # 0
  <2>1. mmuPrivate[i] \div SecPerClus \in Nat /\ "walk_map" \in PCs
    BY DivNat, SizeAssumption DEF TypeOK, PCs, Walks
  <2>2. /\ pc' \in [Inodes -> PCs] /\ loc' \in [Inodes -> LocType]
        /\ pc'[i] = "walk_map"
    BY <1>2, <2>1, WalkType DEF GetBlock, Walk, Goto, TypeOK
  <2>3. mmuPrivate' \in [Inodes -> Nat]
    BY <1>2 DEF GetBlock, TypeOK
  <2> QED BY <1>2, <2>2, <2>3 DEF GetBlock, TypeOK, LocalOK, HasCluster
<1>3. CASE WriteEnd(i)
  <2>1. PICK size \in iSize[i]..goal[i] :
           /\ iSize' = [iSize EXCEPT ![i] = size]
           /\ Goto(i, IF size < goal[i] THEN "trunc" ELSE "idle")
    BY <1>3 DEF WriteEnd
  <2>2. size \in Nat
    BY <2>1 DEF TypeOK
  <2>3. pc' \in [Inodes -> PCs] /\ pc'[i] \in {"trunc", "idle"}
    BY <2>1, <2>2 DEF Goto, PCs, TypeOK
  <2>4. iSize' \in [Inodes -> Nat] /\ loc' \in [Inodes -> LocType]
    BY <1>3, <2>1, <2>2, BlankType DEF TypeOK, WriteEnd
  <2> QED BY <1>3, <2>3, <2>4 DEF WriteEnd, TypeOK, LocalOK, HasCluster
<1> QED BY <1>1, <1>2, <1>3

LEMMA TypeAlloc ==
  ASSUME TypeInv, NEW i \in Inodes,
         AllocLock(i) \/ AllocTake(i) \/ AllocSkip(i) \/ AllocFull(i)
  PROVE  TypeOK' /\ LocalOK(i)'
<1> TypeOK
  BY DEF TypeInv
<1> LocalOK(i)
  BY DEF TypeInv
<1> USE DEF counters, inode, locals
<1>0. loc[i] \in LocType /\ loc[i].count + 1 \in Nat /\ loc[i].got + 1 \in Nat
  BY DEF TypeOK, LocType
<1>1. CASE AllocLock(i) /\ Leave(i)
  <2>1. pc'[i] \in {"idle", "trunc"}
    BY <1>1 DEF Leave, Goto, TypeOK
  <2> QED BY <1>1, <2>1, LeaveType DEF AllocLock, LockFree, TypeOK, LocalOK, HasCluster
<1>2. CASE AllocLock(i) /\ ~Leave(i)
  <2> DEFINE l == [loc[i] EXCEPT !.entry = prevFree + 1, !.count = 2, !.got = 0, !.prev = 0]
  <2>1. prevFree + 1 \in Clusters \cup {MaxCluster} /\ prevFree + 1 # 0
    BY ClusterAssumption DEF TypeOK, Clusters
  <2>2. l \in LocType
    BY <1>0, <2>1 DEF LocType
  <2>3. loc' = [loc EXCEPT ![i] = l]
    BY <1>0, <1>2 DEF AllocLock, LockFree, TypeOK, LocType
  <2>4. loc' \in [Inodes -> LocType]
    BY <2>2, <2>3, LocTyped
  <2>5. loc'[i].entry # 0 /\ loc'[i].got = 0 /\ loc'[i].req = loc[i].req
    BY <1>0, <2>1, <2>3 DEF TypeOK, LocType
  <2>6. pc' \in [Inodes -> PCs] /\ pc[i] = "a_lock" /\ pc'[i] = "a_scan"
    BY <1>2 DEF AllocLock, LockFree, Goto, PCs, Locked, TypeOK
  <2>7. TypeOK'
    BY <1>2, <2>4, <2>6 DEF AllocLock, LockFree, TypeOK
  <2> QED BY <2>5, <2>6, <2>7 DEF LocalOK, HasCluster
<1>3. CASE AllocTake(i)
  <2> DEFINE e == Scanned(i)
             l == [loc[i] EXCEPT !.got = loc[i].got + 1, !.prev = e]
             m == [loc[i] EXCEPT !.got = loc[i].got + 1, !.prev = e,
                                 !.count = loc[i].count + 1, !.entry = e + 1]
  <2>1. e \in Clusters /\ e + 1 \in Clusters \cup {MaxCluster}
    BY <1>3, ScannedType DEF AllocTake, Counted, Linked, ScanLeft
  <2>2. l \in LocType /\ m \in LocType
    BY <1>0, <2>1 DEF LocType
  <2>3. loc' = [loc EXCEPT ![i] = l] \/ loc' = [loc EXCEPT ![i] = m]
    BY <1>0, <1>3 DEF AllocTake, Counted, Linked, ScanLeft, TypeOK, LocType
  <2>4. loc' \in [Inodes -> LocType]
    BY <2>2, <2>3, LocTyped
  <2>5. /\ pc' \in [Inodes -> PCs] /\ pc[i] = "a_scan"
        /\ pc'[i] \in {"a_scan", "a_unlock"}
        /\ pc'[i] = "a_scan" => loc'[i] = m
    BY <1>0, <1>3 DEF AllocTake, Counted, Linked, ScanLeft, Goto, PCs, Locked, TypeOK, LocType
  <2>6. fat' \in [Clusters -> Clusters \cup {FREE, EOF}]
    BY <1>3, <2>1 DEF AllocTake, Counted, Linked, ScanLeft, TypeOK
  <2>7. freeClusters' \in Nat \cup {Unknown}
    BY <1>3 DEF AllocTake, Counted, Linked, ScanLeft, TypeOK, Unknown
  <2>8. cluster' \in [Inodes -> Clusters \cup {0, EOF}] /\ prevFree' \in Clusters
    BY <1>3, <2>1 DEF AllocTake, Counted, Linked, ScanLeft, TypeOK
  <2>9. TypeOK'
    BY <1>3, <2>4, <2>5, <2>6, <2>7, <2>8 DEF AllocTake, Counted, Linked, ScanLeft, TypeOK
  <2>10. loc'[i].req = loc[i].req
    BY <1>0, <2>3 DEF TypeOK, LocType
  <2>11. m.entry # 0
    BY <1>0, <2>1 DEF LocType, Clusters
  <2>12. cluster'[i] \in Clusters
    <3>1. CASE loc[i].got > 0
      BY <1>3, <2>5, <3>1 DEF AllocTake, Counted, Linked, ScanLeft, LocalOK
    <3>2. CASE ~(loc[i].got > 0)
      BY <1>3, <2>1, <3>2 DEF AllocTake, Counted, Linked, ScanLeft, TypeOK
    <3> QED BY <3>1, <3>2
  <2> QED BY <2>5, <2>9, <2>10, <2>11, <2>12 DEF LocalOK, HasCluster
<1>4. CASE AllocSkip(i)
  <2> DEFINE l == [loc[i] EXCEPT !.count = loc[i].count + 1, !.entry = Scanned(i) + 1]
  <2>1. Scanned(i) + 1 \in Clusters \cup {MaxCluster} /\ Scanned(i) + 1 # 0
    BY <1>4, ScannedType DEF AllocSkip, ScanLeft, Clusters
  <2>2. l \in LocType
    BY <1>0, <2>1 DEF LocType
  <2>3. loc' = [loc EXCEPT ![i] = l]
    BY <1>0, <1>4 DEF AllocSkip, ScanLeft, TypeOK, LocType
  <2>4. loc' \in [Inodes -> LocType]
    BY <2>2, <2>3, LocTyped
  <2>5. loc'[i].entry # 0 /\ loc'[i].req = loc[i].req /\ loc'[i].got = loc[i].got
    BY <1>0, <2>1, <2>3 DEF TypeOK, LocType
  <2> QED BY <1>4, <2>4, <2>5 DEF AllocSkip, ScanLeft, TypeOK, LocalOK, HasCluster
<1>5. CASE AllocFull(i)
  <2>1. pc' \in [Inodes -> PCs] /\ pc[i] = "a_scan" /\ pc'[i] = "a_unlock"
    BY <1>5 DEF AllocFull, ScanLeft, Goto, PCs, Locked, TypeOK
  <2> QED BY <1>5, <2>1 DEF AllocFull, ScanLeft, TypeOK, LocalOK, HasCluster
<1> QED BY <1>1, <1>2, <1>3, <1>4, <1>5

LEMMA TypeAllocEnd ==
  ASSUME TypeInv, NEW i \in Inodes, AllocReadFails(i) \/ AllocUnlock(i) \/ AllocMirror(i)
  PROVE  TypeOK' /\ LocalOK(i)'
<1> TypeOK
  BY DEF TypeInv
<1> LocalOK(i)
  BY DEF TypeInv
<1> USE DEF counters, inode, locals
<1>0. loc[i].got \in Nat
  BY DEF TypeOK, LocType
<1>1. CASE AllocReadFails(i)
  <2>1. pc' \in [Inodes -> PCs] /\ pc[i] = "a_scan" /\ pc'[i] = "a_unlock"
    BY <1>1 DEF AllocReadFails, ScanLeft, Goto, PCs, Locked, TypeOK
  <2> QED BY <1>1, <2>1 DEF AllocReadFails, ScanLeft, TypeOK, LocalOK, HasCluster
<1>2. CASE AllocUnlock(i) /\ Leave(i)
  <2>1. pc'[i] \in {"idle", "trunc"}
    BY <1>2 DEF Leave, Goto, TypeOK
  <2> QED BY <1>2, <2>1, LeaveType DEF AllocUnlock, AllGot, TypeOK, LocalOK, HasCluster
<1>3. CASE AllocUnlock(i) /\ ~Leave(i)
  <2>1. /\ pc' \in [Inodes -> PCs] /\ pc[i] = "a_unlock"
        /\ pc'[i] \in {"a_mirror", "f_lock"} /\ UNCHANGED locals
    BY <1>3 DEF AllocUnlock, AllGot, Cleanup, Goto, PCs, TypeOK
  <2>2. loc[i].got > 0
    BY <1>0, <1>3, <2>1 DEF AllocUnlock, AllGot, LocalOK
  <2> QED BY <1>3, <2>1, <2>2 DEF AllocUnlock, AllGot, TypeOK, LocalOK, HasCluster
<1>4. CASE AllocMirror(i)
  <2>1. cluster[i] \in Clusters /\ pc[i] = "a_mirror"
    BY <1>4 DEF AllocMirror, LocalOK, HasCluster
  <2>2. /\ iStart' \in [Inodes -> Clusters \cup {0}] /\ iBlocks' \in [Inodes -> Nat]
        /\ iSize' \in [Inodes -> Nat] /\ mmuPrivate' \in [Inodes -> Nat]
    BY <1>4, <2>1, SizeAssumption DEF AllocMirror, TypeOK
  <2>3. CASE Leave(i)
    <3>1. pc'[i] \in {"idle", "trunc"}
      BY <2>3 DEF Leave, Goto, TypeOK
    <3> QED BY <1>4, <2>2, <2>3, <3>1, LeaveType DEF AllocMirror, TypeOK, LocalOK, HasCluster
  <2>4. CASE ~Leave(i)
    <3>1. /\ pc' \in [Inodes -> PCs] /\ pc'[i] \in {"chain", "f_lock"} /\ UNCHANGED locals
      BY <1>4, <2>4 DEF AllocMirror, Cleanup, Goto, PCs, TypeOK
    <3> QED BY <1>4, <2>1, <2>2, <3>1 DEF AllocMirror, TypeOK, LocalOK, HasCluster
  <2> QED BY <2>3, <2>4
<1> QED BY <1>1, <1>2, <1>3, <1>4

LEMMA TypeChain ==
  ASSUME TypeInv, NEW i \in Inodes,
         ChainAdd(i) \/ ChainLink(i) \/ ChainSync(i) \/ ChainEnd(i)
  PROVE  TypeOK' /\ LocalOK(i)'
<1> TypeOK
  BY DEF TypeInv
<1> LocalOK(i)
  BY DEF TypeInv
<1> USE DEF counters, inode, locals
<1>0. loc[i] \in LocType /\ loc[i].fclus + 1 \in Nat /\ EOF \in Nat
  BY ClusterAssumption DEF TypeOK, LocType, EOF
<1>1. CASE ChainAdd(i) /\ iStart[i] = 0
  <2>1. [loc[i] EXCEPT !.fclus = 0] \in LocType
    BY <1>0 DEF LocType
  <2>2. loc' = [loc EXCEPT ![i] = [loc[i] EXCEPT !.fclus = 0]]
    BY <1>1 DEF ChainAdd
  <2>3. loc' \in [Inodes -> LocType]
    BY <2>1, <2>2, LocTyped
  <2>4. pc' \in [Inodes -> PCs] /\ pc[i] = "chain" /\ pc'[i] = "chain_end"
    BY <1>1 DEF ChainAdd, Goto, PCs, TypeOK
  <2>5. cluster[i] \in Clusters
    BY <2>4 DEF LocalOK, HasCluster
  <2> QED BY <1>1, <2>3, <2>4, <2>5 DEF ChainAdd, TypeOK, LocalOK, HasCluster
<1>2. CASE ChainAdd(i) /\ iStart[i] # 0
  <2>1. Walk(i, "walk_end", EOF) /\ "walk_end" \in PCs
    BY <1>2 DEF ChainAdd, PCs, Walks
  <2>2. pc' \in [Inodes -> PCs] /\ loc' \in [Inodes -> LocType]
    BY <1>0, <2>1, WalkType
  <2>3. pc[i] = "chain" /\ pc'[i] = "walk_end"
    BY <1>2, <2>1 DEF ChainAdd, Walk, Goto, TypeOK
  <2> QED BY <1>2, <2>2, <2>3 DEF ChainAdd, TypeOK, LocalOK, HasCluster
<1>3. CASE ChainLink(i)
  <2>1. pc' \in [Inodes -> PCs] /\ pc[i] = "link" /\ pc'[i] \in {"link_sync", "f_lock"}
    BY <1>3 DEF ChainLink, Cleanup, Goto, PCs, TypeOK
  <2>2. cluster[i] \in Clusters
    BY <2>1 DEF LocalOK, HasCluster
  <2>3. fat' \in [Clusters -> Clusters \cup {FREE, EOF}]
    BY <1>3, <2>2 DEF ChainLink, TypeOK
  <2> QED BY <1>3, <2>1, <2>2, <2>3 DEF ChainLink, TypeOK, LocalOK, HasCluster
<1>4. CASE ChainSync(i)
  <2>1. [loc[i] EXCEPT !.fclus = loc[i].fclus + 1] \in LocType
    BY <1>0 DEF LocType
  <2>2. loc' = [loc EXCEPT ![i] = [loc[i] EXCEPT !.fclus = loc[i].fclus + 1]] \/ UNCHANGED loc
    BY <1>4 DEF ChainSync
  <2>3. loc' \in [Inodes -> LocType]
    BY <2>1, <2>2, LocTyped DEF TypeOK
  <2>4. pc' \in [Inodes -> PCs] /\ pc[i] = "link_sync" /\ pc'[i] \in {"chain_end", "f_lock"}
    BY <1>4 DEF ChainSync, Cleanup, Goto, PCs, TypeOK
  <2> QED BY <1>4, <2>3, <2>4 DEF ChainSync, TypeOK, LocalOK, HasCluster
<1>5. CASE ChainEnd(i)
  <2>1. loc[i].req \in Nat /\ loc[i].req * SecPerClus \in Nat
    BY <1>0, SizeAssumption DEF LocType
  <2>2. /\ iBlocks' \in [Inodes -> Nat] /\ mmuPrivate' \in [Inodes -> Nat]
        /\ iSize' \in [Inodes -> Nat]
    BY <1>5, <2>1 DEF ChainEnd, Grown, TypeOK
  <2>3. fsError' \in BOOLEAN
    BY <1>5 DEF ChainEnd, Grown, TypeOK
  <2>4. CASE i \in Dirs
    <3>1. Leave(i)
      BY <1>5, <2>4 DEF ChainEnd, Grown
    <3>2. pc'[i] \in {"idle", "trunc"}
      BY <3>1 DEF Leave, Goto, TypeOK
    <3> QED BY <1>5, <2>2, <2>3, <3>1, <3>2, LeaveType DEF ChainEnd, Grown, TypeOK,
       LocalOK, HasCluster
  <2>5. CASE i \notin Dirs
    <3>1. Walk(i, "walk_map", mmuPrivate[i] \div SecPerClus)
      BY <1>5, <2>5 DEF ChainEnd, Grown
    <3>2. mmuPrivate[i] \div SecPerClus \in Nat /\ "walk_map" \in PCs
      BY DivNat, SizeAssumption DEF TypeOK, PCs, Walks
    <3>3. /\ pc' \in [Inodes -> PCs] /\ loc' \in [Inodes -> LocType]
      BY <3>1, <3>2, WalkType
    <3>4. pc'[i] = "walk_map"
      BY <3>1 DEF Walk, Goto, TypeOK
    <3> QED BY <1>5, <2>2, <2>3, <2>5, <3>3, <3>4 DEF ChainEnd, Grown, TypeOK, LocalOK,
       HasCluster
  <2> QED BY <2>4, <2>5
<1> QED BY <1>1, <1>2, <1>3, <1>4, <1>5

LEMMA TypeWalk ==
  ASSUME TypeInv, NEW i \in Inodes,
         WalkStep(i) \/ WalkFails(i) \/ WalkEof(i) \/ WalkDone(i)
  PROVE  TypeOK' /\ LocalOK(i)'
<1> TypeOK
  BY DEF TypeInv
<1> LocalOK(i)
  BY DEF TypeInv
<1> USE DEF counters, inode, locals
<1>1. CASE WalkStep(i)
  <2> DEFINE l == [loc[i] EXCEPT !.fclus = loc[i].fclus + 1, !.dclus = fat[loc[i].dclus]]
  <2>1. loc[i] \in LocType /\ loc[i].fclus + 1 \in Nat
    BY DEF TypeOK, LocType
  <2>2. l \in LocType
    BY <1>1, <2>1 DEF WalkStep, LocType
  <2>3. loc' = [loc EXCEPT ![i] = l]
    BY <1>1, <2>1 DEF WalkStep, TypeOK, LocType
  <2>4. loc' \in [Inodes -> LocType]
    BY <2>2, <2>3, LocTyped
  <2>5. pc[i] \in Walks
    BY <1>1 DEF WalkStep, Walking
  <2> QED BY <1>1, <2>4, <2>5 DEF WalkStep, TypeOK, LocalOK, HasCluster, Walks
<1>2. CASE WalkFails(i)
  <2>1. fsError' \in BOOLEAN /\ pc[i] \in Walks
    BY <1>2 DEF WalkFails, Walking, TypeOK
  <2>2. CASE pc[i] = "walk_end"
    <3>1. /\ pc' \in [Inodes -> PCs] /\ pc'[i] = "f_lock" /\ UNCHANGED locals
      BY <1>2, <2>2 DEF WalkFails, Cleanup, Goto, PCs, TypeOK
    <3> QED BY <1>2, <2>1, <2>2, <3>1 DEF WalkFails, TypeOK, LocalOK, HasCluster
  <2>3. CASE pc[i] # "walk_end"
    <3>1. Leave(i)
      BY <1>2, <2>3 DEF WalkFails
    <3>2. pc'[i] \in {"idle", "trunc"}
      BY <3>1 DEF Leave, Goto, TypeOK
    <3> QED BY <1>2, <2>1, <3>1, <3>2, LeaveType DEF WalkFails, TypeOK, LocalOK, HasCluster
  <2> QED BY <2>2, <2>3
<1>3. CASE WalkEof(i)
  <2>1. CASE pc[i] = "walk_end"
    <3>1. /\ pc' \in [Inodes -> PCs] /\ pc'[i] = "link" /\ UNCHANGED locals
      BY <1>3, <2>1 DEF WalkEof, Goto, PCs, TypeOK
    <3> QED BY <1>3, <2>1, <3>1 DEF WalkEof, TypeOK, LocalOK, HasCluster
  <2>2. CASE pc[i] # "walk_end"
    <3>1. Leave(i)
      BY <1>3, <2>2 DEF WalkEof
    <3>2. pc'[i] \in {"idle", "trunc"}
      BY <3>1 DEF Leave, Goto, TypeOK
    <3> QED BY <1>3, <3>1, <3>2, LeaveType DEF WalkEof, TypeOK, LocalOK, HasCluster
  <2> QED BY <2>1, <2>2
<1>4. CASE WalkDone(i)
  <2>1. /\ pc' \in [Inodes -> PCs] /\ pc[i] \in Walks
        /\ pc'[i] \in {"cut", "block", "link"}
        /\ pc'[i] = "link" => pc[i] = "walk_end"
    BY <1>4 DEF WalkDone, Goto, PCs, Walks, TypeOK
  <2> QED BY <1>4, <2>1 DEF WalkDone, TypeOK, LocalOK, HasCluster
<1> QED BY <1>1, <1>2, <1>3, <1>4

LEMMA TypeTruncate ==
  ASSUME TypeInv, NEW i \in Inodes, Truncate(i) \/ Cut(i) \/ CutSync(i)
  PROVE  TypeOK' /\ LocalOK(i)'
<1> TypeOK
  BY DEF TypeInv
<1> LocalOK(i)
  BY DEF TypeInv
<1> USE DEF counters, inode, locals
<1>0. Ceil(iSize[i]) \in Nat
  BY DivNat, SizeAssumption DEF Ceil, TypeOK
<1>1. CASE Truncate(i)
  <2>1. mmuPrivate' \in [Inodes -> Nat]
    BY <1>1 DEF Truncate, StartCleared, TypeOK, Lesser
  <2>2. iStart' \in [Inodes -> Clusters \cup {0}] /\ iBlocks' \in [Inodes -> Nat]
    BY <1>1 DEF Truncate, StartCleared, TypeOK
  <2>3. CASE Leave(i)
    <3>1. pc'[i] \in {"idle", "trunc"}
      BY <2>3 DEF Leave, Goto, TypeOK
    <3> QED BY <1>1, <2>1, <2>2, <2>3, <3>1, LeaveType DEF Truncate, StartCleared, TypeOK,
       LocalOK, HasCluster
  <2>4. CASE ~Leave(i) /\ Ceil(iSize[i]) = 0
    <3>1. /\ pc' \in [Inodes -> PCs] /\ pc'[i] = "f_lock"
          /\ iStart[i] # 0 /\ cluster' = [cluster EXCEPT ![i] = iStart[i]]
          /\ UNCHANGED <<goal, loc>>
      BY <1>1, <2>4 DEF Truncate, StartCleared, Cleanup, Goto, PCs, TypeOK
    <3>2. cluster' \in [Inodes -> Clusters \cup {0, EOF}] /\ cluster'[i] \in Clusters
      BY <3>1 DEF TypeOK
    <3> QED BY <1>1, <2>1, <2>2, <3>1, <3>2 DEF Truncate, StartCleared, TypeOK, LocalOK,
       HasCluster
  <2>5. CASE ~Leave(i) /\ Ceil(iSize[i]) # 0
    <3>1. Walk(i, "walk_cut", Ceil(iSize[i]) - 1) /\ UNCHANGED <<cluster, goal>>
      BY <1>0, <1>1, <2>5 DEF Truncate, StartCleared
    <3>2. Ceil(iSize[i]) - 1 \in Nat /\ "walk_cut" \in PCs
      BY <1>0, <2>5 DEF PCs, Walks
    <3>3. pc' \in [Inodes -> PCs] /\ loc' \in [Inodes -> LocType]
      BY <3>1, <3>2, WalkType
    <3>4. pc'[i] = "walk_cut"
      BY <3>1 DEF Walk, Goto, TypeOK
    <3> QED BY <1>1, <2>1, <2>2, <3>1, <3>3, <3>4 DEF Truncate, StartCleared, TypeOK,
       LocalOK, HasCluster
  <2> QED BY <2>3, <2>4, <2>5
<1>2. CASE Cut(i)
  <2>1. fat' \in [Clusters -> Clusters \cup {FREE, EOF}] /\ fsError' \in BOOLEAN
    BY <1>2 DEF Cut, TypeOK
  <2>2. CASE Leave(i)
    <3>1. pc'[i] \in {"idle", "trunc"}
      BY <2>2 DEF Leave, Goto, TypeOK
    <3> QED BY <1>2, <2>1, <2>2, <3>1, LeaveType DEF Cut, TypeOK, LocalOK, HasCluster
  <2>3. CASE ~Leave(i)
    <3>1. /\ pc' \in [Inodes -> PCs] /\ pc'[i] = "cut_sync" /\ UNCHANGED <<goal, loc>>
          /\ fat[loc[i].dclus] \in Clusters
          /\ cluster' = [cluster EXCEPT ![i] = fat[loc[i].dclus]]
      BY <1>2, <2>3 DEF Cut, Goto, PCs, TypeOK
    <3> QED BY <1>2, <2>1, <3>1 DEF Cut, TypeOK, LocalOK, HasCluster
  <2> QED BY <2>2, <2>3
<1>3. CASE CutSync(i)
  <2>1. iBlocks' \in [Inodes -> Nat] /\ pc[i] = "cut_sync"
    BY <1>0, <1>3 DEF CutSync, TypeOK
  <2>2. CASE Leave(i)
    <3>1. pc'[i] \in {"idle", "trunc"}
      BY <2>2 DEF Leave, Goto, TypeOK
    <3> QED BY <1>3, <2>1, <2>2, <3>1, LeaveType DEF CutSync, TypeOK, LocalOK, HasCluster
  <2>3. CASE ~Leave(i)
    <3>1. pc' \in [Inodes -> PCs] /\ pc'[i] = "f_lock" /\ UNCHANGED locals
      BY <1>3, <2>3 DEF CutSync, Cleanup, Goto, PCs, TypeOK
    <3> QED BY <1>3, <2>1, <3>1 DEF CutSync, TypeOK, LocalOK, HasCluster
  <2> QED BY <2>2, <2>3
<1> QED BY <1>1, <1>2, <1>3

LEMMA TypeFree ==
  ASSUME TypeInv, NEW i \in Inodes,
         FreeLock(i) \/ FreeStep(i) \/ FreeFails(i) \/ FreeUnlock(i)
  PROVE  TypeOK' /\ LocalOK(i)'
<1> TypeOK
  BY DEF TypeInv
<1> LocalOK(i)
  BY DEF TypeInv
<1> USE DEF counters, inode, locals
<1>1. CASE FreeLock(i)
  <2>1. pc' \in [Inodes -> PCs] /\ pc[i] = "f_lock" /\ pc'[i] = "f_step"
    BY <1>1 DEF FreeLock, LockFree, Goto, PCs, Locked, TypeOK
  <2> QED BY <1>1, <2>1 DEF FreeLock, LockFree, TypeOK, LocalOK, HasCluster
<1>2. CASE FreeStep(i)
  <2>1. /\ pc' \in [Inodes -> PCs] /\ pc[i] = "f_step" /\ pc'[i] \in {"f_step", "f_unlock"}
        /\ pc'[i] = "f_step" => fat[cluster[i]] # EOF
    BY <1>2 DEF FreeStep, Counted, Goto, PCs, Locked, TypeOK
  <2>2. cluster[i] \in Clusters /\ fat[cluster[i]] \in Clusters \cup {EOF}
    BY <1>2 DEF FreeStep, Counted, TypeOK
  <2>3. cluster' \in [Inodes -> Clusters \cup {0, EOF}] /\ cluster'[i] = fat[cluster[i]]
    BY <1>2, <2>2 DEF FreeStep, Counted, TypeOK
  <2>4. fat' \in [Clusters -> Clusters \cup {FREE, EOF}]
    BY <1>2 DEF FreeStep, Counted, TypeOK
  <2>5. freeClusters' \in Nat \cup {Unknown}
    BY <1>2 DEF FreeStep, Counted, TypeOK, Unknown
  <2> QED BY <1>2, <2>1, <2>2, <2>3, <2>4, <2>5 DEF FreeStep, Counted, TypeOK, LocalOK,
     HasCluster
<1>3. CASE FreeFails(i)
  <2>1. pc' \in [Inodes -> PCs] /\ pc[i] = "f_step" /\ pc'[i] = "f_unlock" /\ fsError' \in BOOLEAN
    BY <1>3 DEF FreeFails, Goto, PCs, Locked, TypeOK
  <2> QED BY <1>3, <2>1 DEF FreeFails, TypeOK, LocalOK, HasCluster
<1>4. CASE FreeUnlock(i)
  <2>1. Leave(i) /\ fatLock' \in Inodes \cup {NoOne}
    BY <1>4 DEF FreeUnlock
  <2>2. pc'[i] \in {"idle", "trunc"}
    BY <2>1 DEF Leave, Goto, TypeOK
  <2> QED BY <1>4, <2>1, <2>2, LeaveType DEF FreeUnlock, TypeOK, LocalOK, HasCluster
<1> QED BY <1>1, <1>2, <1>3, <1>4

LEMMA TypeNext == TypeInv /\ [Next]_vars => TypeInv'
<1> SUFFICES ASSUME TypeInv, [Next]_vars PROVE TypeInv'
  OBVIOUS
<1>1. ASSUME NEW i \in Inodes, Request(i) \/ Step(i)  PROVE TypeInv'
  <2>1. TypeOK' /\ LocalOK(i)'
    BY <1>1, TypeRequests, TypeWrite, TypeAlloc, TypeAllocEnd, TypeChain, TypeWalk,
       TypeTruncate, TypeFree DEF Step
  <2>2. ASSUME NEW j \in Inodes, j # i  PROVE LocalOK(j)'
    BY <1>1, <2>2, Frame DEF TypeInv, LocalOK
  <2> QED BY <2>1, <2>2 DEF TypeInv
<1>2. CASE CountFree
  BY <1>2, FreeSetFinite DEF CountFree, LockFree, TypeInv, TypeOK, LocalOK, inode, locals
<1>3. CASE UNCHANGED vars
  BY <1>3 DEF vars, counters, inode, locals, TypeInv, TypeOK, LocalOK
<1> QED BY <1>1, <1>2, <1>3 DEF Next

LEMMA TypeInvCorrect == Spec => []TypeInv
  BY TypeInit, TypeNext, PTL DEF Spec

(* Every variable keeps its type, whatever calls fail.                      *)
THEOREM TypeCorrect == Spec => []TypeOK
<1>1. TypeInv => TypeOK
  BY DEF TypeInv
<1> QED BY <1>1, TypeInvCorrect, PTL

-----------------------------------------------------------------------------
(* No cluster is shared, none in use is free.                               *)

OwnInv == NoSharedCluster /\ NoFreeInUse

LEMMA HeldFrame ==
  ASSUME TypeOK, NEW i \in Inodes, Request(i) \/ Step(i), NEW j \in Inodes, j # i
  PROVE  Held(j)' = Held(j) /\ iStart'[j] = iStart[j]
  BY Frame DEF Held

(* A step that leaves the table and the first clusters alone, and whose     *)
(* thread keeps its cluster or forgets it, cannot break the invariant.      *)
LEMMA OwnDrop ==
  ASSUME TypeInv, OwnInv, NEW i \in Inodes, Request(i) \/ Step(i),
         UNCHANGED <<fat, iStart>>, Held(i)' = Held(i) \/ Held(i)' \notin Clusters
  PROVE  OwnInv'
<1>1. \A j \in Inodes : j # i => Held(j)' = Held(j)
  BY HeldFrame DEF TypeInv
<1>2. NoSharedCluster'
  BY <1>1 DEF OwnInv, NoSharedCluster
<1>3. NoFreeInUse'
  BY <1>1 DEF OwnInv, NoFreeInUse, FreeSet
<1> QED BY <1>2, <1>3 DEF OwnInv

LEMMA OwnRequests ==
  ASSUME TypeInv, OwnInv, NEW i \in Inodes, Request(i) \/ GetBlock(i) \/ WriteEnd(i)
  PROVE  OwnInv'
<1>1. UNCHANGED <<fat, iStart>> /\ pc'[i] \notin Holding
  BY DEF Request, WriteBegin, DirGrow, Shrink, GetBlock, WriteEnd, Walk, Goto, inode,
         TypeInv, TypeOK, Holding
<1>2. Held(i)' \notin Clusters
  BY <1>1, Marks DEF Held
<1> QED BY <1>1, <1>2, OwnDrop DEF Step

(* fat_alloc_clusters takes a free entry, which nothing refers to.          *)
LEMMA OwnTake ==
  ASSUME TypeInv, OwnInv, NEW i \in Inodes, AllocTake(i)
  PROVE  OwnInv'
<1> DEFINE e == Scanned(i)
           p == loc[i].prev
<1>0. TypeOK /\ loc[i] \in LocType
  BY DEF TypeInv, TypeOK
<1>1. e \in FreeSet /\ e \in Clusters /\ iStart' = iStart /\ p \in Clusters \cup {0}
  BY <1>0, ScannedType DEF AllocTake, Counted, Linked, ScanLeft, FreeSet, LocType, inode
<1>2. /\ \A j \in Inodes : j # i => Held(j)' = Held(j)
      /\ pc[i] \in Holding /\ pc'[i] \in Holding
  BY <1>0, HeldFrame DEF Step, AllocTake, Counted, Linked, ScanLeft, Goto, Holding, TypeOK
<1>3. Held(i) = cluster[i] /\ Held(i)' = cluster'[i]
  BY <1>2 DEF Held
<1>4. \A d \in Clusters : fat[d] # e
  BY <1>1 DEF OwnInv, NoFreeInUse
<1>5. \A j \in Inodes : iStart[j] # e /\ Held(j) # e
  BY <1>1 DEF OwnInv, NoFreeInUse
<1>6. CASE loc[i].got > 0
  <2>1. Held(i)' = Held(i)
    BY <1>3, <1>6 DEF AllocTake, Counted, Linked, ScanLeft
  <2>2. \A c \in Clusters : fat'[c] = IF c = p THEN e ELSE IF c = e THEN EOF ELSE fat[c]
    BY <1>0, <1>1, <1>6 DEF AllocTake, Counted, Linked, ScanLeft, TypeOK
  <2>3. NoSharedCluster'
    BY <1>1, <1>2, <1>4, <1>5, <2>1, <2>2, Marks DEF OwnInv, NoSharedCluster
  <2>4. \A c \in FreeSet' : c # e /\ c \in FreeSet
    BY <1>1, <2>2, Marks DEF FreeSet
  <2>5. NoFreeInUse'
    BY <1>1, <1>2, <2>1, <2>2, <2>4, Marks DEF OwnInv, NoFreeInUse, FreeSet
  <2> QED BY <2>3, <2>5 DEF OwnInv
<1>7. CASE ~(loc[i].got > 0)
  <2>1. Held(i)' = e
    BY <1>0, <1>3, <1>7 DEF AllocTake, Counted, Linked, ScanLeft, TypeOK
  <2>2. \A c \in Clusters : fat'[c] = IF c = e THEN EOF ELSE fat[c]
    BY <1>0, <1>1, <1>7 DEF AllocTake, Counted, Linked, ScanLeft, TypeOK
  <2>3. NoSharedCluster'
    BY <1>1, <1>2, <1>4, <1>5, <2>1, <2>2, Marks DEF OwnInv, NoSharedCluster
  <2>4. \A c \in FreeSet' : c # e /\ c \in FreeSet
    BY <1>1, <2>2, Marks DEF FreeSet
  <2>5. NoFreeInUse'
    BY <1>1, <1>2, <2>1, <2>2, <2>4, Marks DEF OwnInv, NoFreeInUse, FreeSet
  <2> QED BY <2>3, <2>5 DEF OwnInv
<1> QED BY <1>6, <1>7

LEMMA OwnAlloc ==
  ASSUME TypeInv, OwnInv, NEW i \in Inodes,
         AllocLock(i) \/ AllocSkip(i) \/ AllocFull(i) \/ AllocReadFails(i) \/ AllocUnlock(i)
  PROVE  OwnInv'
<1>1. TypeOK /\ UNCHANGED <<fat, iStart>> /\ Step(i)
  BY DEF TypeInv, AllocLock, LockFree, AllocSkip, AllocFull, ScanLeft, AllocReadFails,
     AllocUnlock, AllGot, inode, Step
<1>2. \/ pc'[i] \notin Holding
      \/ cluster'[i] \notin Clusters
      \/ pc[i] \in Holding /\ cluster'[i] = cluster[i]
  BY <1>1, Marks DEF AllocLock, LockFree, AllocSkip, AllocFull, ScanLeft, AllocReadFails,
     AllocUnlock, AllGot, Leave, Goto,
     Cleanup, locals, TypeOK, Holding
<1>3. Held(i)' = Held(i) \/ Held(i)' \notin Clusters
  BY <1>2, Marks DEF Held
<1> QED BY <1>1, <1>3, OwnDrop

(* The cluster passes from the thread to its inode.                         *)
LEMMA OwnStart ==
  ASSUME TypeInv, OwnInv, NEW i \in Inodes, Step(i),
         pc[i] \in Holding, pc'[i] \notin Holding,
         fat' = fat, iStart' = [iStart EXCEPT ![i] = cluster[i]]
  PROVE  OwnInv'
<1>1. /\ TypeOK /\ Held(i) = cluster[i] /\ Held(i)' = 0
      /\ \A j \in Inodes : j # i => Held(j)' = Held(j) /\ iStart'[j] = iStart[j]
  BY HeldFrame DEF TypeInv, Held
<1>2. iStart'[i] = cluster[i]
  BY <1>1 DEF TypeOK
<1>3. NoSharedCluster'
  BY <1>1, <1>2, Marks DEF OwnInv, NoSharedCluster
<1>4. NoFreeInUse'
  BY <1>1, <1>2, Marks DEF OwnInv, NoFreeInUse, FreeSet
<1> QED BY <1>3, <1>4 DEF OwnInv

LEMMA OwnMirror ==
  ASSUME TypeInv, OwnInv, NEW i \in Inodes, AllocMirror(i)
  PROVE  OwnInv'
<1>0. TypeOK /\ Step(i) /\ pc[i] = "a_mirror" /\ pc[i] \in Holding
  BY DEF TypeInv, Step, AllocMirror, Holding
<1>1. CASE Leave(i)
  <2>1. pc'[i] \notin Holding
    BY <1>0, <1>1 DEF Leave, Goto, Holding, TypeOK
  <2>2. fat' = fat /\ (iStart' = iStart \/ iStart' = [iStart EXCEPT ![i] = cluster[i]])
    BY DEF AllocMirror, inode
  <2>3. Held(i)' \notin Clusters
    BY <2>1, Marks DEF Held
  <2> QED BY <1>0, <2>1, <2>2, <2>3, OwnStart, OwnDrop
<1>2. CASE ~Leave(i)
  <2>1. UNCHANGED <<fat, iStart>> /\ pc'[i] \in Holding /\ cluster' = cluster
    BY <1>0, <1>2 DEF AllocMirror, Cleanup, Goto, Holding, TypeOK, inode, locals
  <2>2. Held(i)' = Held(i)
    BY <1>0, <2>1 DEF Held
  <2> QED BY <1>0, <2>1, <2>2, OwnDrop
<1> QED BY <1>1, <1>2

(* fat_chain_add hands the cluster to i_start or to the last entry.         *)
LEMMA OwnChain ==
  ASSUME TypeInv, OwnInv, NEW i \in Inodes, "chain_io" \notin Faults,
         ChainAdd(i) \/ ChainLink(i) \/ ChainSync(i) \/ ChainEnd(i)
  PROVE  OwnInv'
<1>0. TypeOK /\ Step(i)
  BY DEF TypeInv, Step
<1>1. CASE ChainAdd(i) /\ iStart[i] = 0
  <2>1. /\ pc[i] \in Holding /\ pc'[i] \notin Holding /\ fat' = fat
        /\ iStart' = [iStart EXCEPT ![i] = cluster[i]]
    BY <1>0, <1>1 DEF ChainAdd, Goto, Holding, TypeOK
  <2> QED BY <1>0, <2>1, OwnStart
<1>2. CASE ChainAdd(i) /\ iStart[i] # 0
  <2>1. /\ pc[i] \in Holding /\ pc'[i] \in Holding
        /\ UNCHANGED <<fat, iStart>> /\ cluster' = cluster
    BY <1>0, <1>2 DEF ChainAdd, Walk, Goto, Holding, TypeOK
  <2>2. Held(i)' = Held(i)
    BY <2>1 DEF Held
  <2> QED BY <1>0, <2>1, <2>2, OwnDrop
<1>3. CASE ChainLink(i) /\ Goto(i, "link_sync")
  <2> DEFINE last == loc[i].dclus
  <2>1. /\ last \in Clusters /\ fat' = [fat EXCEPT ![last] = cluster[i]]
        /\ iStart' = iStart /\ pc[i] = "link" /\ pc'[i] = "link_sync"
    BY <1>0, <1>3 DEF ChainLink, Cleanup, Goto, TypeOK, inode
  <2>2. /\ Held(i) = cluster[i] /\ Held(i)' = 0 /\ cluster[i] \in Clusters
    BY <2>1 DEF Held, Holding, TypeInv, LocalOK, HasCluster
  <2>3. \A j \in Inodes : j # i => Held(j)' = Held(j)
    BY <1>0, HeldFrame
  <2>4. \A c \in Clusters : fat'[c] = IF c = last THEN cluster[i] ELSE fat[c]
    BY <1>0, <2>1 DEF TypeOK
  <2>5. NoSharedCluster'
    BY <2>1, <2>2, <2>3, <2>4, Marks DEF OwnInv, NoSharedCluster
  <2>6. \A c \in FreeSet' : c \in FreeSet
    BY <2>2, <2>4, Marks DEF FreeSet
  <2>7. NoFreeInUse'
    BY <2>1, <2>2, <2>3, <2>4, <2>6, Marks DEF OwnInv, NoFreeInUse, FreeSet
  <2> QED BY <2>5, <2>7 DEF OwnInv
<1>4. CASE ChainLink(i) /\ ~Goto(i, "link_sync")
  <2>1. /\ pc[i] \in Holding /\ pc'[i] \in Holding
        /\ UNCHANGED <<fat, iStart>> /\ cluster' = cluster
    BY <1>0, <1>4 DEF ChainLink, Cleanup, Goto, Holding, TypeOK, inode, locals
  <2>2. Held(i)' = Held(i)
    BY <2>1 DEF Held
  <2> QED BY <1>0, <2>1, <2>2, OwnDrop
<1>5. CASE ChainSync(i) \/ ChainEnd(i)
  <2>1. UNCHANGED <<fat, iStart>> /\ pc'[i] \notin Holding
    BY <1>0, <1>5 DEF ChainSync, ChainEnd, Grown, Leave, Walk, Goto, Holding, TypeOK, inode
  <2>2. Held(i)' \notin Clusters
    BY <2>1, Marks DEF Held
  <2> QED BY <1>0, <2>1, <2>2, OwnDrop
<1> QED BY <1>1, <1>2, <1>3, <1>4, <1>5

LEMMA OwnWalk ==
  ASSUME TypeInv, OwnInv, NEW i \in Inodes,
         WalkStep(i) \/ WalkFails(i) \/ WalkEof(i) \/ WalkDone(i)
  PROVE  OwnInv'
<1>1. TypeOK /\ Step(i) /\ UNCHANGED <<fat, iStart>>
  BY DEF TypeInv, Step, WalkStep, WalkFails, WalkEof, WalkDone, inode
<1>2. pc'[i] \notin Holding \/ (pc[i] \in Holding /\ cluster'[i] = cluster[i])
  BY <1>1 DEF WalkStep, WalkFails, WalkEof, WalkDone, Walking, Walks, Leave, Goto, Cleanup,
     Holding, TypeOK, locals
<1>3. Held(i)' = Held(i) \/ Held(i)' \notin Clusters
  BY <1>2, Marks DEF Held
<1> QED BY <1>1, <1>3, OwnDrop

(* fat_free cuts the tail off before anything in it is freed: the reference *)
(* that was in i_start or in the new last entry is now the thread's.        *)
LEMMA OwnTruncate ==
  ASSUME TypeInv, OwnInv, NEW i \in Inodes, Truncate(i) \/ Cut(i) \/ CutSync(i)
  PROVE  OwnInv'
<1>0. TypeOK /\ Step(i) /\ \A j \in Inodes : j # i => Held(j)' = Held(j) /\ iStart'[j] = iStart[j]
  BY HeldFrame DEF TypeInv, Step
<1>1. CASE Truncate(i) /\ iStart' # iStart
  <2>1. /\ fat' = fat /\ cluster' = [cluster EXCEPT ![i] = iStart[i]]
        /\ iStart' = [iStart EXCEPT ![i] = 0] /\ pc[i] = "trunc" /\ pc'[i] = "f_lock"
    BY <1>0, <1>1 DEF Truncate, StartCleared, Cleanup, Goto, TypeOK
  <2>2. Held(i) = 0 /\ Held(i)' = iStart[i] /\ iStart'[i] = 0
    BY <1>0, <2>1 DEF Held, Holding, TypeOK
  <2>3. NoSharedCluster'
    <3>0. iStart[i] \in Clusters
      BY <1>0, <1>1, <2>1 DEF TypeOK
    <3>1. \A j \in Inodes : j # i => /\ Held(j)' = Held(j) /\ Held(j) # iStart[i]
                                     /\ iStart'[j] = iStart[j]
      BY <1>0, <3>0 DEF OwnInv, NoSharedCluster
    <3>2. \A a, b \in Inodes : /\ (iStart'[a] \in Clusters /\ iStart'[a] = iStart'[b]) => a = b
                               /\ (Held(a)' \in Clusters /\ Held(a)' = Held(b)') => a = b
                               /\ iStart'[a] \in Clusters => iStart'[a] # Held(b)'
      BY <2>2, <3>1, Marks DEF OwnInv, NoSharedCluster
    <3>3. \A a \in Clusters, j \in Inodes :
            fat'[a] \in Clusters => fat'[a] # iStart'[j] /\ fat'[a] # Held(j)'
      BY <2>1, <2>2, <3>1, Marks DEF OwnInv, NoSharedCluster
    <3>4. \A a, b \in Clusters : fat'[a] \in Clusters /\ fat'[a] = fat'[b] => a = b
      BY <2>1 DEF OwnInv, NoSharedCluster
    <3> QED BY <3>2, <3>3, <3>4 DEF NoSharedCluster
  <2>4. NoFreeInUse'
    BY <1>0, <2>1, <2>2, Marks DEF OwnInv, NoFreeInUse, FreeSet
  <2> QED BY <2>3, <2>4 DEF OwnInv
<1>2. CASE Truncate(i) /\ iStart' = iStart
  <2>1. fat' = fat
    BY <1>2 DEF Truncate, StartCleared
  <2>2. pc'[i] \notin Holding
    <3>1. CASE Leave(i)
      BY <1>0, <3>1 DEF Leave, Goto, Holding, TypeOK
    <3>2. CASE Walk(i, "walk_cut", Ceil(iSize[i]) - 1)
      BY <1>0, <3>2 DEF Walk, Goto, Holding, TypeOK
    <3>3. CASE iStart[i] # 0 /\ iStart' = [iStart EXCEPT ![i] = 0]
      BY <1>0, <1>2, <3>3 DEF TypeOK
    <3> QED BY <1>2, <3>1, <3>2, <3>3 DEF Truncate, StartCleared
  <2>3. Held(i)' \notin Clusters
    BY <2>2, Marks DEF Held
  <2> QED BY <1>0, <1>2, <2>1, <2>3, OwnDrop
<1>3. CASE Cut(i) /\ Leave(i)
  <2>1. pc'[i] \notin Holding
    BY <1>0, <1>3 DEF Leave, Goto, Holding, TypeOK
  <2>2. UNCHANGED <<fat, iStart>>
    BY <1>0, <1>3 DEF Cut, Leave, Goto, TypeOK, inode
  <2>3. Held(i)' \notin Clusters
    BY <2>1, Marks DEF Held
  <2> QED BY <1>0, <2>2, <2>3, OwnDrop
<1>4. CASE Cut(i) /\ ~Leave(i)
  <2> DEFINE last == loc[i].dclus
  <2>1. /\ last \in Clusters /\ fat[last] \in Clusters
        /\ cluster' = [cluster EXCEPT ![i] = fat[last]]
        /\ fat' = [fat EXCEPT ![last] = EOF]
        /\ iStart' = iStart /\ pc[i] = "cut" /\ pc'[i] = "cut_sync"
    BY <1>0, <1>4 DEF Cut, Goto, TypeOK, inode
  <2>2. Held(i) = 0 /\ Held(i)' = fat[last]
    BY <1>0, <2>1 DEF Held, Holding, TypeOK
  <2>3. \A c \in Clusters : fat'[c] = IF c = last THEN EOF ELSE fat[c]
    BY <1>0, <2>1 DEF TypeOK
  <2>4. NoSharedCluster'
    BY <1>0, <2>1, <2>2, <2>3, Marks DEF OwnInv, NoSharedCluster
  <2>5. \A c \in FreeSet' : c \in FreeSet
    BY <2>3, Marks DEF FreeSet
  <2>6. NoFreeInUse'
    <3> SUFFICES ASSUME NEW e \in FreeSet'
                 PROVE  /\ \A d \in Clusters : fat'[d] # e
                        /\ \A j \in Inodes : iStart'[j] # e /\ Held(j)' # e
      BY DEF NoFreeInUse
    <3>1. /\ e \in Clusters /\ \A d \in Clusters : fat[d] # e
          /\ \A j \in Inodes : iStart[j] # e /\ Held(j) # e
      BY <2>5 DEF OwnInv, NoFreeInUse, FreeSet
    <3>2. \A d \in Clusters : fat'[d] # e
      <4>1. ASSUME NEW d \in Clusters  PROVE fat'[d] # e
        <5>1. fat'[d] = EOF \/ fat'[d] = fat[d]
          BY <2>3
        <5> QED BY <3>1, <5>1, Marks
      <4> QED BY <4>1
    <3>3. Held(i)' # e
      BY <2>1, <2>2, <3>1
    <3>4. \A j \in Inodes : iStart'[j] # e /\ Held(j)' # e
      BY <1>0, <2>1, <3>1, <3>3
    <3> QED BY <3>2, <3>4
  <2> QED BY <2>4, <2>6 DEF OwnInv
<1>5. CASE CutSync(i)
  <2>1. UNCHANGED <<fat, iStart>> /\ pc[i] \in Holding
        /\ (pc'[i] \notin Holding \/ cluster' = cluster)
    BY <1>0, <1>5 DEF CutSync, Leave, Cleanup, Goto, Holding, TypeOK, locals
  <2>2. Held(i)' = Held(i) \/ Held(i)' \notin Clusters
    BY <2>1, Marks DEF Held
  <2> QED BY <1>0, <2>1, <2>2, OwnDrop
<1> QED BY <1>1, <1>2, <1>3, <1>4, <1>5

(* fat_free_clusters moves on to the next entry before the one it frees can *)
(* be taken again.                                                          *)
LEMMA OwnFree ==
  ASSUME TypeInv, OwnInv, NEW i \in Inodes,
         FreeLock(i) \/ FreeStep(i) \/ FreeFails(i) \/ FreeUnlock(i)
  PROVE  OwnInv'
<1>0. TypeOK /\ Step(i) /\ \A j \in Inodes : j # i => Held(j)' = Held(j)
  BY HeldFrame DEF TypeInv, Step
<1>1. CASE FreeStep(i)
  <2> DEFINE c == cluster[i]
  <2>1. /\ c \in Clusters /\ fat[c] # FREE /\ fat' = [fat EXCEPT ![c] = FREE]
        /\ cluster' = [cluster EXCEPT ![i] = fat[c]]
        /\ iStart' = iStart /\ pc[i] \in Holding
    BY <1>1 DEF FreeStep, Counted, Holding, inode
  <2>2. Held(i) = c /\ Held(i)' \in {0, fat[c]}
    BY <1>0, <2>1 DEF Held, TypeOK
  <2>3. \A d \in Clusters : fat'[d] = IF d = c THEN FREE ELSE fat[d]
    BY <1>0, <2>1 DEF TypeOK
  <2>4. fat[c] # c /\ \A d \in Clusters : fat[d] # c
    BY <2>1, <2>2 DEF OwnInv, NoSharedCluster
  <2>5. \A j \in Inodes : iStart[j] # c /\ (j # i => Held(j) # c)
    BY <2>1, <2>2 DEF OwnInv, NoSharedCluster
  <2>6. NoSharedCluster'
    <3>1. \A a, b \in Clusters : fat'[a] \in Clusters /\ fat'[a] = fat'[b] => a = b
      BY <2>3, Marks DEF OwnInv, NoSharedCluster
    <3>2. \A a \in Clusters : fat'[a] \in Clusters => a # c /\ fat'[a] = fat[a]
      BY <2>3, Marks
    <3>3. Held(i)' \in Clusters =>
            /\ Held(i)' = fat[c] /\ fat[c] \in Clusters
            /\ \A j \in Inodes : iStart[j] # fat[c] /\ Held(j) # fat[c]
            /\ \A a \in Clusters : a # c => fat[a] # fat[c]
      BY <2>1, <2>2, Marks DEF OwnInv, NoSharedCluster
    <3>4. \A a, b \in Inodes : /\ (iStart'[a] \in Clusters /\ iStart'[a] = iStart'[b]) => a = b
                               /\ (Held(a)' \in Clusters /\ Held(a)' = Held(b)') => a = b
                               /\ iStart'[a] \in Clusters => iStart'[a] # Held(b)'
      BY <1>0, <2>1, <3>3 DEF OwnInv, NoSharedCluster
    <3>5. \A a \in Clusters, j \in Inodes :
            fat'[a] \in Clusters => fat'[a] # iStart'[j] /\ fat'[a] # Held(j)'
      BY <1>0, <2>1, <3>2, <3>3 DEF OwnInv, NoSharedCluster
    <3> QED BY <3>1, <3>4, <3>5 DEF NoSharedCluster
  <2>7. FreeSet' = FreeSet \cup {c}
    BY <2>1, <2>3 DEF FreeSet
  <2>8. NoFreeInUse'
    <3>1. Held(i)' # c /\ iStart[i] # c
      BY <2>1, <2>2, <2>4, <2>5, Marks
    <3>2. \A d \in Clusters : fat'[d] # c
      BY <2>3, <2>4, <2>1, Marks
    <3>3. \A j \in Inodes : iStart'[j] # c /\ Held(j)' # c
      BY <1>0, <2>1, <2>5, <3>1
    <3>4. ASSUME NEW e \in FreeSet
          PROVE  /\ \A d \in Clusters : fat'[d] # e
                 /\ \A j \in Inodes : iStart'[j] # e /\ Held(j)' # e
      <4>1. /\ e \in Clusters /\ \A d \in Clusters : fat[d] # e
            /\ \A j \in Inodes : iStart[j] # e /\ Held(j) # e
        BY DEF OwnInv, NoFreeInUse, FreeSet
      <4>2. Held(i)' # e
        BY <2>1, <2>2, <4>1, Marks
      <4>3. ASSUME NEW d \in Clusters  PROVE fat'[d] # e
        <5>1. fat'[d] = FREE \/ fat'[d] = fat[d]
          BY <2>3
        <5> QED BY <4>1, <5>1, Marks
      <4>4. \A j \in Inodes : iStart'[j] # e /\ Held(j)' # e
        BY <1>0, <2>1, <4>1, <4>2
      <4> QED BY <4>3, <4>4
    <3> QED BY <2>7, <3>2, <3>3, <3>4 DEF NoFreeInUse
  <2> QED BY <2>6, <2>8 DEF OwnInv
<1>2. CASE FreeLock(i) \/ FreeFails(i) \/ FreeUnlock(i)
  <2>1. UNCHANGED <<fat, iStart>>
        /\ (pc'[i] \notin Holding \/ (pc[i] \in Holding /\ cluster' = cluster))
    BY <1>0, <1>2 DEF FreeLock, LockFree, FreeFails, FreeUnlock, Leave, Goto, Holding,
       TypeOK, locals, inode
  <2>2. Held(i)' = Held(i) \/ Held(i)' \notin Clusters
    BY <2>1, Marks DEF Held
  <2> QED BY <1>0, <2>1, <2>2, OwnDrop
<1> QED BY <1>1, <1>2

LEMMA OwnInit == Init => OwnInv
<1> SUFFICES ASSUME Init PROVE OwnInv
  OBVIOUS
<1>1. \A c \in Clusters : fat[c] \notin Clusters
  BY Marks DEF Init
<1>2. \A i \in Inodes : iStart[i] = 0 /\ Held(i) = 0
  BY DEF Init, Held, Holding
<1> QED BY <1>1, <1>2, Marks DEF OwnInv, NoSharedCluster, NoFreeInUse, FreeSet

LEMMA OwnNext ==
  ASSUME "chain_io" \notin Faults
  PROVE  TypeInv /\ OwnInv /\ [Next]_vars => OwnInv'
<1> SUFFICES ASSUME TypeInv, OwnInv, [Next]_vars PROVE OwnInv'
  OBVIOUS
<1>1. ASSUME NEW i \in Inodes, Request(i) \/ Step(i)  PROVE OwnInv'
  BY <1>1, OwnRequests, OwnTake, OwnAlloc, OwnMirror, OwnChain, OwnWalk, OwnTruncate, OwnFree
     DEF Step
<1>2. CASE CountFree
  BY <1>2 DEF CountFree, LockFree, OwnInv, NoSharedCluster, NoFreeInUse, FreeSet, Held,
     inode, locals
<1>3. CASE UNCHANGED vars
  BY <1>3 DEF vars, OwnInv, NoSharedCluster, NoFreeInUse, FreeSet, Held, inode, locals
<1> QED BY <1>1, <1>2, <1>3 DEF Next

(* If the writes fat_chain_add makes never fail, no cluster is ever reached *)
(* from two places, whatever other calls fail and however threads meet.     *)
THEOREM NothingShared ==
  ASSUME "chain_io" \notin Faults  PROVE Spec => []NoSharedCluster
<1>1. OwnInv => NoSharedCluster
  BY DEF OwnInv
<1>2. TypeInv /\ OwnInv /\ [Next]_vars => OwnInv'
  BY OwnNext
<1> QED BY <1>1, <1>2, OwnInit, TypeInvCorrect, PTL DEF Spec

(* Under the same assumption no cluster that anything refers to is free.    *)
THEOREM NothingFreeInUse ==
  ASSUME "chain_io" \notin Faults  PROVE Spec => []NoFreeInUse
<1>1. OwnInv => NoFreeInUse
  BY DEF OwnInv
<1>2. TypeInv /\ OwnInv /\ [Next]_vars => OwnInv'
  BY OwnNext
<1> QED BY <1>1, <1>2, OwnInit, TypeInvCorrect, PTL DEF Spec

-----------------------------------------------------------------------------
(* The lock.                                                                *)

LockInv == \A i \in Inodes : pc[i] \in Locked <=> fatLock = i

Acquires(i) == fatLock = NoOne /\ fatLock' = i /\ pc'[i] \in Locked
Releases(i) == pc[i] \in Locked /\ fatLock' = NoOne /\ pc'[i] \notin Locked
KeepsLock(i) == fatLock' = fatLock /\ (pc'[i] \in Locked <=> pc[i] \in Locked)

(* Every step takes the lock when it is free, gives it back, or does not    *)
(* touch it.                                                                *)
LEMMA LockStep ==
  ASSUME TypeOK, NEW i \in Inodes, Request(i) \/ Step(i)
  PROVE  Acquires(i) \/ Releases(i) \/ KeepsLock(i)
<1> USE DEF TypeOK, Goto, Leave, Walk, Cleanup, Locked, locals, Walks
<1>1. CASE WriteBegin(i) \/ DirGrow(i) \/ Shrink(i)
  BY <1>1 DEF WriteBegin, DirGrow, Shrink, KeepsLock
<1>2. CASE GetBlock(i) \/ WriteEnd(i)
  BY <1>2 DEF GetBlock, WriteEnd, KeepsLock
<1>3. CASE AllocLock(i)
  BY <1>3 DEF AllocLock, LockFree, KeepsLock, Acquires
<1>4. CASE AllocTake(i) \/ AllocSkip(i) \/ AllocFull(i) \/ AllocReadFails(i)
  BY <1>4 DEF AllocTake, AllocSkip, AllocFull, AllocReadFails, KeepsLock
<1>5. CASE AllocUnlock(i)
  BY <1>5 DEF AllocUnlock, Releases
<1>6. CASE AllocMirror(i)
  BY <1>6 DEF AllocMirror, KeepsLock
<1>7. CASE ChainAdd(i) \/ ChainLink(i) \/ ChainSync(i) \/ ChainEnd(i)
  BY <1>7 DEF ChainAdd, ChainLink, ChainSync, ChainEnd, Grown, KeepsLock
<1>8. CASE WalkStep(i) \/ WalkFails(i) \/ WalkEof(i) \/ WalkDone(i)
  BY <1>8 DEF WalkStep, WalkFails, WalkEof, WalkDone, Walking, KeepsLock
<1>9. CASE Truncate(i) \/ Cut(i) \/ CutSync(i)
  BY <1>9 DEF Truncate, StartCleared, Cut, CutSync, KeepsLock
<1>10. CASE FreeLock(i)
  BY <1>10 DEF FreeLock, LockFree, Acquires
<1>11. CASE FreeStep(i) \/ FreeFails(i)
  BY <1>11 DEF FreeStep, FreeFails, KeepsLock
<1>12. CASE FreeUnlock(i)
  BY <1>12 DEF FreeUnlock, Releases
<1> QED BY <1>1, <1>2, <1>3, <1>4, <1>5, <1>6, <1>7, <1>8, <1>9, <1>10, <1>11, <1>12
        DEF Request, Step

LEMMA LockInit == Init => LockInv
  BY InodeAssumption DEF Init, LockInv, Locked

LEMMA LockNext == TypeInv /\ LockInv /\ [Next]_vars => LockInv'
<1> SUFFICES ASSUME TypeInv, LockInv, [Next]_vars PROVE LockInv'
  OBVIOUS
<1> TypeOK
  BY DEF TypeInv
<1>1. ASSUME NEW i \in Inodes, Request(i) \/ Step(i)  PROVE LockInv'
  <2>1. \A j \in Inodes : j # i => pc'[j] = pc[j]
    BY <1>1, Frame
  <2>2. Acquires(i) \/ Releases(i) \/ KeepsLock(i)
    BY <1>1, LockStep
  <2> QED BY <2>1, <2>2, InodeAssumption DEF LockInv, Acquires, Releases, KeepsLock
<1>2. CASE CountFree
  BY <1>2 DEF CountFree, LockInv
<1>3. CASE UNCHANGED vars
  BY <1>3 DEF vars, LockInv
<1> QED BY <1>1, <1>2, <1>3 DEF Next

LEMMA LockInvCorrect == Spec => []LockInv
  BY TypeInvCorrect, LockInit, LockNext, PTL DEF Spec

(* lock_fat and unlock_fat: no two threads are ever inside together.        *)
THEOREM OneInside ==
  Spec => [](\A i, j \in Inodes : pc[i] \in Locked /\ pc[j] \in Locked => i = j)
<1>1. LockInv => \A i, j \in Inodes : pc[i] \in Locked /\ pc[j] \in Locked => i = j
  BY DEF LockInv
<1> QED BY <1>1, LockInvCorrect, PTL

-----------------------------------------------------------------------------
(* The scan.                                                                *)

(* The entries a scan has passed, counted back from the one it looks at     *)
(* next and round the end of the table; none of them is free.               *)
Passed(i, c) ==
    \/ c < loc[i].entry /\ loc[i].entry - c <= loc[i].count - 2
    \/ c >= loc[i].entry /\ loc[i].entry - c + (MaxCluster - 2) <= loc[i].count - 2
ScanInv == \A i \in Inodes : pc[i] = "a_scan" =>
    /\ loc[i].count >= 2
    /\ \A c \in Clusters : Passed(i, c) => fat[c] # FREE

(* Only fat_free_clusters makes an entry free.                              *)
LEMMA UsedKept ==
  ASSUME TypeInv, NEW i \in Inodes, Request(i) \/ Step(i), ~FreeStep(i),
         NEW c \in Clusters, fat[c] # FREE
  PROVE  fat'[c] # FREE
<1> TypeOK /\ LocalOK(i)
  BY DEF TypeInv
<1>1. CASE AllocTake(i)
  <2>1. Scanned(i) \in Clusters
    BY <1>1, ScannedType DEF AllocTake
  <2> QED BY <1>1, <2>1, Marks DEF AllocTake, Linked, TypeOK
<1>2. CASE ChainLink(i)
  BY <1>2, Marks DEF ChainLink, LocalOK, HasCluster, TypeOK
<1>3. CASE Cut(i)
  BY <1>3, Marks DEF Cut, TypeOK
<1>4. CASE ~AllocTake(i) /\ ~ChainLink(i) /\ ~Cut(i)
  <2>1. fat' = fat
    BY <1>4 DEF Request, WriteBegin, DirGrow, Shrink, Step, GetBlock, WriteEnd,
       AllocLock, AllocSkip, AllocFull, AllocReadFails, AllocUnlock, AllocMirror,
       ChainAdd, ChainSync, ChainEnd, Grown, WalkStep, WalkFails, WalkEof, WalkDone,
       Truncate, StartCleared, CutSync, FreeLock, FreeFails, FreeUnlock
  <2> QED BY <2>1
<1> QED BY <1>1, <1>2, <1>3, <1>4

(* A thread is at the scan after a step of its own only by these.           *)
LEMMA ScanSteps ==
  ASSUME TypeOK, NEW i \in Inodes, Request(i) \/ Step(i), pc'[i] = "a_scan"
  PROVE  AllocLock(i) \/ AllocTake(i) \/ AllocSkip(i)
<1> USE DEF TypeOK, Goto, Leave, Walk, Cleanup, locals, Walks
<1>1. CASE WriteBegin(i) \/ DirGrow(i) \/ Shrink(i)
  BY <1>1 DEF WriteBegin, DirGrow, Shrink
<1>2. CASE GetBlock(i) \/ WriteEnd(i)
  BY <1>2 DEF GetBlock, WriteEnd
<1>3. CASE AllocFull(i) \/ AllocReadFails(i) \/ AllocUnlock(i) \/ AllocMirror(i)
  BY <1>3 DEF AllocFull, AllocReadFails, AllocUnlock, AllocMirror
<1>4. CASE ChainAdd(i) \/ ChainLink(i) \/ ChainSync(i) \/ ChainEnd(i)
  BY <1>4 DEF ChainAdd, ChainLink, ChainSync, ChainEnd, Grown
<1>5. CASE WalkStep(i) \/ WalkFails(i) \/ WalkEof(i) \/ WalkDone(i)
  BY <1>5 DEF WalkStep, WalkFails, WalkEof, WalkDone, Walking
<1>6. CASE Truncate(i) \/ Cut(i) \/ CutSync(i)
  BY <1>6 DEF Truncate, StartCleared, Cut, CutSync
<1>7. CASE FreeLock(i) \/ FreeStep(i) \/ FreeFails(i) \/ FreeUnlock(i)
  BY <1>7 DEF FreeLock, FreeStep, FreeFails, FreeUnlock
<1> QED BY <1>1, <1>2, <1>3, <1>4, <1>5, <1>6, <1>7 DEF Request, Step

(* One turn of the loop passes the entry it looked at and no other.         *)
LEMMA ScanTurn ==
  ASSUME TypeInv, NEW i \in Inodes, AllocTake(i) \/ AllocSkip(i), pc'[i] = "a_scan",
         loc[i].count >= 2
  PROVE  /\ loc'[i].count = loc[i].count + 1
         /\ loc'[i].entry = Scanned(i) + 1
         /\ \A c \in Clusters : Passed(i, c)' => c = Scanned(i) \/ Passed(i, c)
<1> TypeOK
  BY DEF TypeInv
<1>1. loc'[i].count = loc[i].count + 1 /\ loc'[i].entry = Scanned(i) + 1
  BY DEF AllocTake, AllocSkip, Goto, TypeOK, LocType
<1>2. pc[i] = "a_scan"
  BY DEF AllocTake, AllocSkip
<1>3. /\ Scanned(i) \in Clusters /\ loc[i].count \in Nat
      /\ loc[i].entry \in Clusters \cup {MaxCluster}
  BY <1>2, ScannedType DEF TypeInv, TypeOK, LocalOK, LocType
<1>4. ASSUME NEW c \in Clusters, Passed(i, c)'  PROVE c = Scanned(i) \/ Passed(i, c)
  BY <1>1, <1>3, <1>4, ClusterAssumption DEF Passed, Scanned, Clusters
<1> QED BY <1>1, <1>4

LEMMA ScanInit == Init => ScanInv
  BY DEF Init, ScanInv

LEMMA ScanNext == TypeInv /\ LockInv /\ ScanInv /\ [Next]_vars => ScanInv'
<1> SUFFICES ASSUME TypeInv, LockInv, ScanInv, [Next]_vars PROVE ScanInv'
  OBVIOUS
<1> TypeOK
  BY DEF TypeInv
<1>1. ASSUME NEW i \in Inodes, Request(i) \/ Step(i),
             NEW j \in Inodes, j # i, pc'[j] = "a_scan"
      PROVE  loc'[j].count >= 2 /\ \A c \in Clusters : Passed(j, c)' => fat'[c] # FREE
  <2>1. pc[j] = "a_scan" /\ loc'[j] = loc[j]
    BY <1>1, Frame
  <2>2. ~FreeStep(i)
    BY <1>1, <2>1 DEF FreeStep, LockInv, Locked
  <2>3. \A c \in Clusters : Passed(j, c)' = Passed(j, c)
    BY <2>1 DEF Passed
  <2> QED BY <1>1, <2>1, <2>2, <2>3, UsedKept DEF ScanInv
<1>2. ASSUME NEW i \in Inodes, Request(i) \/ Step(i), pc'[i] = "a_scan"
      PROVE  loc'[i].count >= 2 /\ \A c \in Clusters : Passed(i, c)' => fat'[c] # FREE
  <2>1. CASE AllocLock(i)
    <3>1. /\ loc'[i].count = 2 /\ loc'[i].entry = prevFree + 1 /\ prevFree \in Clusters
      BY <1>2, <2>1 DEF AllocLock, Leave, Goto, TypeOK, LocType
    <3>2. ASSUME NEW c \in Clusters  PROVE ~Passed(i, c)'
      BY <3>1, ClusterAssumption DEF Passed, Clusters
    <3> QED BY <3>1, <3>2
  <2>2. CASE AllocTake(i) \/ AllocSkip(i)
    <3>1. pc[i] = "a_scan" /\ loc[i].count >= 2 /\ loc[i].count \in Nat
      BY <2>2 DEF AllocTake, AllocSkip, ScanInv, TypeOK, LocType
    <3>2. /\ loc'[i].count = loc[i].count + 1
          /\ \A c \in Clusters : Passed(i, c)' => c = Scanned(i) \/ Passed(i, c)
      BY <1>2, <2>2, <3>1, ScanTurn
    <3>3. Scanned(i) \in Clusters
      BY <3>1, ScannedType
    <3>4. fat'[Scanned(i)] # FREE
      BY <2>2, <3>3, Marks DEF AllocTake, AllocSkip, Linked, TypeOK
    <3>5. \A c \in Clusters : fat[c] # FREE => fat'[c] # FREE
      <4>1. ~FreeStep(i)
        BY <3>1 DEF FreeStep
      <4> QED BY <1>2, <4>1, UsedKept
    <3> QED BY <3>1, <3>2, <3>4, <3>5 DEF ScanInv
  <2> QED BY <1>2, <2>1, <2>2, ScanSteps
<1>3. ASSUME NEW i \in Inodes, Request(i) \/ Step(i)  PROVE ScanInv'
  BY <1>1, <1>2, <1>3 DEF ScanInv
<1>4. CASE CountFree
  BY <1>4 DEF CountFree, ScanInv, Passed, locals
<1>5. CASE UNCHANGED vars
  BY <1>5 DEF vars, ScanInv, Passed, locals
<1> QED BY <1>3, <1>4, <1>5 DEF Next

LEMMA ScanInvCorrect == Spec => []ScanInv
  BY TypeInvCorrect, LockInvCorrect, ScanInit, ScanNext, PTL DEF Spec

(* When the count of fat_alloc_clusters runs out the table has no free      *)
(* entry: neither the wrap at max_cluster nor threads that free or link     *)
(* clusters meanwhile hide one.                                             *)
LEMMA ScanSeesAll ==
  ASSUME TypeInv, ScanInv, NEW i \in Inodes, AllocFull(i)
  PROVE  FreeSet = {}
<1>0. pc[i] = "a_scan" /\ loc[i] \in LocType /\ LocalOK(i)
  BY DEF AllocFull, TypeInv, TypeOK
<1>1. /\ pc[i] = "a_scan" /\ loc[i].count \in Nat /\ loc[i].count >= MaxCluster
      /\ loc[i].entry \in Clusters \cup {MaxCluster}
  BY <1>0, ClusterAssumption DEF AllocFull, ScanLeft, LocType, LocalOK
<1>2. ASSUME NEW c \in Clusters  PROVE fat[c] # FREE
  <2>1. Passed(i, c)
    BY <1>1, ClusterAssumption DEF Passed, Clusters
  <2> QED BY <1>1, <2>1 DEF ScanInv
<1> QED BY <1>2 DEF FreeSet

(* When the scan of fat_alloc_clusters gives up and reports -ENOSPC it has  *)
(* looked at every entry, from prev_free round to prev_free, and no entry   *)
(* is free; the lock kept the others from freeing one behind it.            *)
THEOREM ScanMissesNothing ==
  Spec => [][\A i \in Inodes : AllocFull(i) => FreeSet = {}]_vars
<1>1. TypeInv /\ ScanInv => [\A i \in Inodes : AllocFull(i) => FreeSet = {}]_vars
  <2>1. ASSUME TypeInv, ScanInv  PROVE \A i \in Inodes : AllocFull(i) => FreeSet = {}
    BY <2>1, ScanSeesAll
  <2> QED BY <2>1
<1> QED BY <1>1, TypeInvCorrect, ScanInvCorrect, PTL DEF Spec

-----------------------------------------------------------------------------
(* Who owns a cluster.                                                      *)

(* A labelling of the clusters by the inodes that own them.                 *)
Labels(own) ==
    /\ own \in [Clusters -> Inodes \cup {NoOne}]
    /\ \A c \in Clusters : fat[c] = FREE => own[c] = NoOne
    /\ \A c \in Clusters : own[c] # NoOne /\ fat[c] \in Clusters => own[fat[c]] = own[c]
    /\ \A i \in Inodes :
         /\ iStart[i] \in Clusters => own[iStart[i]] = i
         /\ Held(i) \in Clusters => own[Held(i)] = i
         /\ pc[i] \in Walks \cup {"link", "cut"} /\ loc[i].dclus \in Clusters
              => own[loc[i].dclus] = i
         /\ pc[i] = "a_scan" /\ loc[i].got > 0
              => loc[i].prev \in Clusters /\ own[loc[i].prev] = i
LabelInv == \E own : Labels(own)

(* What a step must show of its own thread when the table stays as it is.   *)
Keeps(i, own) ==
    /\ iStart'[i] \in Clusters => own[iStart'[i]] = i
    /\ Held(i)' \in Clusters => own[Held(i)'] = i
    /\ pc'[i] \in Walks \cup {"link", "cut"} /\ loc'[i].dclus \in Clusters
         => own[loc'[i].dclus] = i
    /\ pc'[i] = "a_scan" /\ loc'[i].got > 0
         => loc'[i].prev \in Clusters /\ own[loc'[i].prev] = i

LEMMA LabelFrame ==
  ASSUME TypeOK, NEW i \in Inodes, Request(i) \/ Step(i), fat' = fat,
         NEW own, Labels(own), Keeps(i, own)
  PROVE  Labels(own)'
<1>1. \A j \in Inodes : j # i => /\ pc'[j] = pc[j] /\ loc'[j] = loc[j]
                                 /\ iStart'[j] = iStart[j] /\ Held(j)' = Held(j)
  BY Frame, HeldFrame
<1>2. \A j \in Inodes :
         /\ iStart'[j] \in Clusters => own[iStart'[j]] = j
         /\ Held(j)' \in Clusters => own[Held(j)'] = j
         /\ pc'[j] \in Walks \cup {"link", "cut"} /\ loc'[j].dclus \in Clusters
              => own[loc'[j].dclus] = j
         /\ pc'[j] = "a_scan" /\ loc'[j].got > 0
              => loc'[j].prev \in Clusters /\ own[loc'[j].prev] = j
  BY <1>1 DEF Labels, Keeps
<1> QED BY <1>2 DEF Labels

LEMMA LabelRequests ==
  ASSUME TypeOK, NEW own, Labels(own), NEW i \in Inodes,
         Request(i) \/ GetBlock(i) \/ WriteEnd(i)
  PROVE  Labels(own)'
<1>1. fat' = fat /\ iStart' = iStart /\ (Step(i) \/ Request(i))
  BY DEF Request, WriteBegin, DirGrow, Shrink, Step, GetBlock, WriteEnd, inode
<1>2. Keeps(i, own)
  <2> USE DEF Goto, Holding, Walks, Held, Keeps
  <2>1. CASE Request(i)
    BY <2>1, Marks DEF Request, WriteBegin, DirGrow, Shrink, TypeOK, Labels, inode
  <2>2. CASE GetBlock(i)
    BY <2>2, Marks DEF GetBlock, Walk, TypeOK, LocType, Labels
  <2>3. CASE WriteEnd(i)
    BY <2>3, Marks DEF WriteEnd, TypeOK, Labels
  <2> QED BY <2>1, <2>2, <2>3
<1>3. fat' = fat /\ (Request(i) \/ Step(i))
  BY <1>1 DEF Request, WriteBegin, DirGrow, Shrink, Step, GetBlock, WriteEnd
<1> QED BY <1>2, <1>3, LabelFrame

(* The thread takes an entry that nobody owned.                             *)
LEMMA LabelTake ==
  ASSUME TypeInv, OwnInv, NEW own, Labels(own), NEW i \in Inodes, AllocTake(i)
  PROVE  \E new : Labels(new)'
<1> DEFINE e == Scanned(i)
           p == loc[i].prev
<1>a. PICK new : new = [own EXCEPT ![e] = i]
  OBVIOUS
<1>0. TypeOK /\ Step(i) /\ pc[i] = "a_scan" /\ fat[e] = FREE /\ e \in Clusters
  BY ScannedType DEF TypeInv, Step, AllocTake
<1>1. /\ own \in [Clusters -> Inodes \cup {NoOne}] /\ own[e] = NoOne
      /\ new \in [Clusters -> Inodes \cup {NoOne}]
      /\ \A c \in Clusters : new[c] = IF c = e THEN i ELSE own[c]
  BY <1>0, <1>a DEF Labels
<1>2. loc[i].got > 0 => p \in Clusters /\ own[p] = i /\ p # e
  BY <1>0, <1>1, InodeAssumption DEF Labels
<1>2a. fat' = Linked(i, e)
  BY <1>0 DEF AllocTake
<1>2b. \A c \in Clusters : fat'[c] = IF c = e THEN EOF
                                    ELSE IF loc[i].got > 0 /\ c = p THEN e ELSE fat[c]
  BY <1>0, <1>2, <1>2a DEF Linked, TypeOK
<1>3. \A c \in Clusters : fat'[c] = FREE => new[c] = NoOne
  BY <1>0, <1>1, <1>2, <1>2b, Marks DEF Labels
<1>4. \A c \in Clusters : fat[c] # e
  BY <1>0 DEF OwnInv, NoFreeInUse, FreeSet
<1>5. \A c \in Clusters : new[c] # NoOne /\ fat'[c] \in Clusters => new[fat'[c]] = new[c]
  <2> SUFFICES ASSUME NEW c \in Clusters, new[c] # NoOne, fat'[c] \in Clusters
               PROVE  new[fat'[c]] = new[c]
    OBVIOUS
  <2>1. c # e
    BY <1>2b, Marks
  <2>2. CASE loc[i].got > 0 /\ c = p
    BY <1>0, <1>1, <1>2, <1>2b, <2>1, <2>2
  <2>3. CASE ~(loc[i].got > 0 /\ c = p)
    <3>1. fat'[c] = fat[c] /\ fat[c] # e /\ new[c] = own[c] /\ fat[c] \in Clusters
      BY <1>1, <1>2b, <1>4, <2>1, <2>3
    <3>2. own[fat[c]] = own[c]
      BY <3>1 DEF Labels
    <3> QED BY <1>1, <3>1, <3>2
  <2> QED BY <2>2, <2>3
<1>6. \A j \in Inodes : j # i => /\ pc'[j] = pc[j] /\ loc'[j] = loc[j]
                                 /\ iStart'[j] = iStart[j] /\ Held(j)' = Held(j)
  BY <1>0, Frame, HeldFrame
<1>7. \A c \in Clusters : own[c] \in Inodes => new[c] = own[c]
  BY <1>1, InodeAssumption
<1>8. \A j \in Inodes : j # i =>
         /\ iStart'[j] \in Clusters => new[iStart'[j]] = j
         /\ Held(j)' \in Clusters => new[Held(j)'] = j
         /\ pc'[j] \in Walks \cup {"link", "cut"} /\ loc'[j].dclus \in Clusters
              => new[loc'[j].dclus] = j
         /\ pc'[j] = "a_scan" /\ loc'[j].got > 0
              => loc'[j].prev \in Clusters /\ new[loc'[j].prev] = j
  BY <1>6, <1>7 DEF Labels
<1>9. Keeps(i, new)
  <2>1. iStart' = iStart /\ pc'[i] \in {"a_scan", "a_unlock"}
    BY <1>0 DEF AllocTake, Goto, TypeOK, inode
  <2>2. iStart'[i] \in Clusters => new[iStart'[i]] = i
    BY <1>7, <2>1 DEF Labels
  <2>3. Held(i) = cluster[i] /\ Held(i)' = cluster'[i]
    BY <1>0, <2>1 DEF Held, Holding
  <2>4. cluster'[i] = IF loc[i].got > 0 THEN cluster[i] ELSE e
    BY <1>0 DEF AllocTake, TypeOK
  <2>5. Held(i)' \in Clusters => new[Held(i)'] = i
    BY <1>0, <1>1, <1>7, <2>3, <2>4 DEF Labels
  <2>6. loc'[i].prev = e
    BY <1>0 DEF AllocTake, TypeOK, LocType
  <2>7. pc'[i] \notin Walks \cup {"link", "cut"}
    BY <2>1 DEF Walks
  <2>8. loc'[i].prev \in Clusters /\ new[loc'[i].prev] = i
    BY <1>0, <1>1, <2>6
  <2> QED BY <2>2, <2>5, <2>7, <2>8 DEF Keeps
<1>10. Labels(new)'
  BY <1>1, <1>3, <1>5, <1>8, <1>9 DEF Labels, Keeps
<1> QED BY <1>10

LEMMA LabelAlloc ==
  ASSUME TypeInv, NEW own, Labels(own), NEW i \in Inodes,
         AllocLock(i) \/ AllocSkip(i) \/ AllocFull(i) \/ AllocReadFails(i)
         \/ AllocUnlock(i) \/ AllocMirror(i)
  PROVE  Labels(own)'
<1> TypeOK /\ LocalOK(i)
  BY DEF TypeInv
<1>1. fat' = fat /\ Step(i)
  BY DEF AllocLock, AllocSkip, AllocFull, AllocReadFails, AllocUnlock, AllocMirror, Step
<1>2. Keeps(i, own)
  <2> USE Marks DEF Goto, Leave, Cleanup, Holding, Walks, Held, Keeps, inode, locals
  <2>1. CASE AllocLock(i)
    BY <2>1 DEF AllocLock, TypeOK, LocType, Labels
  <2>2. CASE AllocSkip(i)
    BY <2>2 DEF AllocSkip, TypeOK, LocType, Labels
  <2>3. CASE AllocFull(i) \/ AllocReadFails(i)
    BY <2>3 DEF AllocFull, AllocReadFails, TypeOK, Labels
  <2>4. CASE AllocUnlock(i)
    BY <2>4 DEF AllocUnlock, TypeOK, Labels
  <2>5. CASE AllocMirror(i)
    BY <2>5 DEF AllocMirror, TypeOK, Labels
  <2> QED BY <2>1, <2>2, <2>3, <2>4, <2>5
<1> QED BY <1>1, <1>2, LabelFrame

(* Linking joins two pieces of one owner.                                   *)
LEMMA LabelChain ==
  ASSUME TypeInv, "chain_io" \notin Faults, NEW own, Labels(own), NEW i \in Inodes,
         ChainAdd(i) \/ ChainLink(i) \/ ChainSync(i) \/ ChainEnd(i)
  PROVE  Labels(own)'
<1> TypeOK /\ LocalOK(i) /\ Step(i)
  BY DEF TypeInv, Step
<1>1. Keeps(i, own)
  <2> USE Marks DEF Goto, Leave, Walk, Cleanup, Holding, Walks, Held, Keeps, inode, locals
  <2>1. CASE ChainAdd(i)
    BY <2>1 DEF ChainAdd, TypeOK, LocType, Labels, LocalOK, HasCluster
  <2>2. CASE ChainLink(i)
    BY <2>2 DEF ChainLink, TypeOK, Labels
  <2>3. CASE ChainSync(i)
    BY <2>3 DEF ChainSync, TypeOK, Labels
  <2>4. CASE ChainEnd(i)
    BY <2>4 DEF ChainEnd, Grown, TypeOK, LocType, Labels
  <2> QED BY <2>1, <2>2, <2>3, <2>4
<1>2. CASE fat' = fat
  BY <1>1, <1>2, LabelFrame
<1>3. CASE ChainLink(i) /\ fat' # fat
  <2> DEFINE last == loc[i].dclus
  <2>1. /\ last \in Clusters /\ pc[i] = "link" /\ cluster[i] \in Clusters
        /\ \A c \in Clusters : fat'[c] = IF c = last THEN cluster[i] ELSE fat[c]
    BY <1>3 DEF ChainLink, TypeOK, LocalOK, HasCluster
  <2>2. own[last] = i /\ own[cluster[i]] = i
    BY <2>1 DEF Labels, Held, Holding
  <2>3. \A c \in Clusters : fat'[c] = FREE => own[c] = NoOne
    BY <2>1, Marks DEF Labels
  <2>4. \A c \in Clusters : own[c] # NoOne /\ fat'[c] \in Clusters => own[fat'[c]] = own[c]
    BY <2>1, <2>2 DEF Labels
  <2>5. \A j \in Inodes : j # i => /\ pc'[j] = pc[j] /\ loc'[j] = loc[j]
                                   /\ iStart'[j] = iStart[j] /\ Held(j)' = Held(j)
    BY Frame, HeldFrame
  <2> QED BY <1>1, <2>3, <2>4, <2>5 DEF Labels, Keeps
<1> QED BY <1>2, <1>3 DEF ChainAdd, ChainSync, ChainEnd, Grown

LEMMA LabelWalk ==
  ASSUME TypeInv, NEW own, Labels(own), NEW i \in Inodes,
         WalkStep(i) \/ WalkFails(i) \/ WalkEof(i) \/ WalkDone(i)
  PROVE  Labels(own)'
<1> TypeOK
  BY DEF TypeInv
<1>1. fat' = fat /\ Step(i)
  BY DEF WalkStep, WalkFails, WalkEof, WalkDone, Step
<1>2. Keeps(i, own)
  <2> USE Marks DEF Goto, Leave, Cleanup, Holding, Walking, Walks, Held, Keeps, inode, locals
  <2>1. CASE WalkStep(i)
    BY <2>1, InodeAssumption DEF WalkStep, TypeOK, LocType, Labels
  <2>2. CASE WalkFails(i)
    BY <2>2 DEF WalkFails, TypeOK, Labels
  <2>3. CASE WalkEof(i)
    BY <2>3 DEF WalkEof, TypeOK, Labels
  <2>4. CASE WalkDone(i)
    BY <2>4 DEF WalkDone, TypeOK, Labels
  <2> QED BY <2>1, <2>2, <2>3, <2>4
<1> QED BY <1>1, <1>2, LabelFrame

(* The rest of a chain that is cut off stays with its owner.                *)
LEMMA LabelTruncate ==
  ASSUME TypeInv, NEW own, Labels(own), NEW i \in Inodes,
         Truncate(i) \/ Cut(i) \/ CutSync(i)
  PROVE  Labels(own)'
<1> TypeOK /\ LocalOK(i) /\ Step(i)
  BY DEF TypeInv, Step
<1>1. CASE Truncate(i)
  <2>1. fat' = fat
    BY <1>1 DEF Truncate, StartCleared
  <2>2. Keeps(i, own)
    BY <1>1, Marks DEF Truncate, StartCleared, Goto, Leave, Walk, Cleanup, Holding, Walks,
       Held, Keeps,
       TypeOK, LocType, Labels
  <2> QED BY <2>1, <2>2, LabelFrame
<1>2. CASE Cut(i)
  <2> DEFINE last == loc[i].dclus
  <2>1. Keeps(i, own)
    <3>1. pc[i] = "cut" /\ iStart' = iStart
      BY <1>2 DEF Cut, inode
    <3>2. iStart'[i] \in Clusters => own[iStart'[i]] = i
      BY <3>1 DEF Labels
    <3>3. pc'[i] \in {"cut_sync", "idle", "trunc"}
      BY <1>2 DEF Cut, Goto, Leave, TypeOK
    <3>4. CASE Leave(i)
      BY <3>2, <3>4, Marks DEF Leave, Goto, Holding, Walks, Held, Keeps, TypeOK
    <3>5. CASE ~Leave(i)
      <4>1. last \in Clusters /\ fat[last] \in Clusters /\ cluster'[i] = fat[last]
        BY <1>2, <3>5 DEF Cut, TypeOK
      <4>2. own[last] = i
        BY <3>1, <4>1 DEF Labels
      <4>3. own[fat[last]] = i
        BY <4>1, <4>2, InodeAssumption DEF Labels
      <4>4. Held(i)' \in Clusters => own[Held(i)'] = i
        BY <4>1, <4>3, Marks DEF Held
      <4>5. pc'[i] \notin Walks \cup {"link", "cut"}
        <5>1. CASE pc'[i] \in {"idle", "trunc"}
          BY <5>1 DEF Walks
        <5>2. CASE pc'[i] = "cut_sync"
          BY <5>2 DEF Walks
        <5> QED BY <3>3, <5>1, <5>2
      <4> QED BY <3>2, <3>3, <4>4, <4>5 DEF Keeps
    <3> QED BY <3>4, <3>5
  <2>2. fat' = fat \/ (last \in Clusters /\ fat[last] # FREE /\ fat' = [fat EXCEPT ![last] = EOF])
    BY <1>2, Marks DEF Cut
  <2>3. \A c \in Clusters : /\ fat'[c] = FREE => own[c] = NoOne
                            /\ own[c] # NoOne /\ fat'[c] \in Clusters => own[fat'[c]] = own[c]
    BY <2>2, Marks DEF TypeOK, Labels
  <2>4. \A j \in Inodes : j # i => /\ pc'[j] = pc[j] /\ loc'[j] = loc[j]
                                   /\ iStart'[j] = iStart[j] /\ Held(j)' = Held(j)
    BY Frame, HeldFrame
  <2> QED BY <2>1, <2>3, <2>4 DEF Labels, Keeps
<1>3. CASE CutSync(i)
  <2>1. fat' = fat
    BY <1>3 DEF CutSync
  <2>2. Keeps(i, own)
    BY <1>3, Marks DEF CutSync, Goto, Leave, Cleanup, Holding, Walks, Held, Keeps,
       TypeOK, LocType, Labels, locals
  <2> QED BY <2>1, <2>2, LabelFrame
<1> QED BY <1>1, <1>2, <1>3

(* A freed cluster loses its owner; nobody else had a hold of it.           *)
LEMMA LabelFree ==
  ASSUME TypeInv, OwnInv, NEW own, Labels(own), NEW i \in Inodes,
         FreeLock(i) \/ FreeStep(i) \/ FreeFails(i) \/ FreeUnlock(i)
  PROVE  \E new : Labels(new)'
<1> TypeOK /\ LocalOK(i) /\ Step(i)
  BY DEF TypeInv, Step
<1>1. CASE FreeStep(i)
  <2> DEFINE c == cluster[i]
  <2>a. PICK new : new = [own EXCEPT ![c] = NoOne]
    OBVIOUS
  <2>1. /\ c \in Clusters /\ pc[i] = "f_step" /\ iStart' = iStart
        /\ fat' = [fat EXCEPT ![c] = FREE] /\ cluster'[i] = fat[c] /\ loc' = loc
    BY <1>1 DEF FreeStep, TypeOK, inode
  <2>2. Held(i) = c /\ own[c] = i
    BY <2>1 DEF Held, Holding, Labels
  <2>3. /\ new \in [Clusters -> Inodes \cup {NoOne}]
        /\ \A d \in Clusters : new[d] = IF d = c THEN NoOne ELSE own[d]
        /\ \A d \in Clusters : fat'[d] = IF d = c THEN FREE ELSE fat[d]
    BY <2>a, <2>1 DEF Labels, TypeOK
  <2>4. /\ \A d \in Clusters : fat[d] # c
        /\ \A j \in Inodes : iStart[j] # c /\ (j # i => Held(j) # c)
    BY <2>1, <2>2 DEF OwnInv, NoSharedCluster
  <2>5. \A d \in Clusters : fat'[d] = FREE => new[d] = NoOne
    BY <2>3 DEF Labels
  <2>6. \A d \in Clusters : new[d] # NoOne /\ fat'[d] \in Clusters => new[fat'[d]] = new[d]
    <3> SUFFICES ASSUME NEW d \in Clusters, new[d] # NoOne, fat'[d] \in Clusters
                 PROVE  new[fat'[d]] = new[d]
      OBVIOUS
    <3>1. d # c /\ fat'[d] = fat[d] /\ new[d] = own[d] /\ fat[d] # c /\ fat[d] \in Clusters
      BY <2>3, <2>4
    <3>2. own[fat[d]] = own[d]
      BY <3>1 DEF Labels
    <3> QED BY <2>3, <3>1, <3>2
  <2>7. \A j \in Inodes : j # i => /\ pc'[j] = pc[j] /\ loc'[j] = loc[j]
                                   /\ iStart'[j] = iStart[j] /\ Held(j)' = Held(j)
    BY Frame, HeldFrame
  <2>8. \A j \in Inodes : j # i =>
           /\ iStart'[j] \in Clusters => new[iStart'[j]] = j
           /\ Held(j)' \in Clusters => new[Held(j)'] = j
           /\ pc'[j] \in Walks \cup {"link", "cut"} /\ loc'[j].dclus \in Clusters
                => new[loc'[j].dclus] = j
           /\ pc'[j] = "a_scan" /\ loc'[j].got > 0
                => loc'[j].prev \in Clusters /\ new[loc'[j].prev] = j
    BY <2>1, <2>2, <2>3, <2>4, <2>7 DEF Labels
  <2>9. Keeps(i, new)
    <3>1. pc'[i] \in {"f_step", "f_unlock"}
      BY <1>1 DEF FreeStep, Goto, TypeOK
    <3>2. iStart'[i] \in Clusters => new[iStart'[i]] = i
      BY <2>1, <2>3, <2>4 DEF Labels
    <3>3. Held(i)' \in Clusters => Held(i)' = fat[c]
      BY <2>1, Marks DEF Held
    <3>4. fat[c] \in Clusters => own[fat[c]] = i /\ fat[c] # c
      BY <2>1, <2>2, <2>4, InodeAssumption DEF Labels
    <3>5. Held(i)' \in Clusters => new[Held(i)'] = i
      BY <2>3, <3>3, <3>4
    <3>6. pc'[i] \notin Walks \cup {"link", "cut"} /\ pc'[i] # "a_scan"
      BY <3>1 DEF Walks
    <3> QED BY <3>2, <3>5, <3>6 DEF Keeps
  <2>10. Labels(new)'
    BY <2>3, <2>5, <2>6, <2>8, <2>9 DEF Labels, Keeps
  <2> QED BY <2>10
<1>2. CASE FreeLock(i) \/ FreeFails(i) \/ FreeUnlock(i)
  <2>1. fat' = fat
    BY <1>2 DEF FreeLock, FreeFails, FreeUnlock
  <2>2. Keeps(i, own)
    BY <1>2, Marks DEF FreeLock, FreeFails, FreeUnlock, Goto, Leave, Holding, Walks, Held,
       Keeps, TypeOK, LocType, Labels, inode, locals
  <2>3. Labels(own)'
    BY <2>1, <2>2, LabelFrame
  <2> QED BY <2>3
<1> QED BY <1>1, <1>2

LEMMA LabelInit == Init => LabelInv
<1> SUFFICES ASSUME Init PROVE LabelInv
  OBVIOUS
<1>1. PICK own : own = [c \in Clusters |-> NoOne]
  OBVIOUS
<1>2. \A c \in Clusters : fat[c] \notin Clusters
  BY Marks DEF Init
<1>3. \A i \in Inodes : iStart[i] = 0 /\ Held(i) = 0 /\ pc[i] = "idle"
  BY DEF Init, Held, Holding
<1>4. Labels(own)
  BY <1>1, <1>2, <1>3, Marks DEF Labels, Walks
<1> QED BY <1>4 DEF LabelInv

LEMMA LabelNext ==
  ASSUME "chain_io" \notin Faults
  PROVE  TypeInv /\ OwnInv /\ LabelInv /\ [Next]_vars => LabelInv'
<1> SUFFICES ASSUME TypeInv, OwnInv, LabelInv, [Next]_vars PROVE LabelInv'
  OBVIOUS
<1> TypeOK
  BY DEF TypeInv
<1>0. PICK own : Labels(own)
  BY DEF LabelInv
<1>1. ASSUME NEW i \in Inodes, Request(i) \/ Step(i)  PROVE \E new : Labels(new)'
  BY <1>0, <1>1, LabelRequests, LabelTake, LabelAlloc, LabelChain, LabelWalk, LabelTruncate,
     LabelFree DEF Step
<1>2. CASE CountFree
  <2>1. \A i \in Inodes : Held(i)' = Held(i)
    BY <1>2 DEF CountFree, Held, locals
  <2>2. Labels(own)'
    BY <1>0, <1>2, <2>1 DEF CountFree, Labels, inode, locals
  <2> QED BY <2>2 DEF LabelInv
<1>3. CASE UNCHANGED vars
  <2>1. \A i \in Inodes : Held(i)' = Held(i)
    BY <1>3 DEF vars, Held, locals
  <2>2. Labels(own)'
    BY <1>0, <1>3, <2>1 DEF vars, Labels, inode, locals
  <2> QED BY <2>2 DEF LabelInv
<1> QED BY <1>1, <1>2, <1>3 DEF Next, LabelInv

-----------------------------------------------------------------------------
(* Only AllocTake and FreeStep change which entries are free, by one.       *)

LEMMA TakeOne ==
  ASSUME TypeInv, NEW own, Labels(own), NEW i \in Inodes, AllocTake(i)
  PROVE  Scanned(i) \in FreeSet /\ FreeSet' = FreeSet \ {Scanned(i)}
<1> DEFINE e == Scanned(i)
<1>0. TypeOK /\ pc[i] = "a_scan" /\ fat[e] = FREE /\ e \in Clusters /\ fat' = Linked(i, e)
  BY ScannedType DEF TypeInv, AllocTake
<1>1. loc[i].got > 0 => loc[i].prev \in Clusters /\ fat[loc[i].prev] # FREE
  BY <1>0, InodeAssumption DEF Labels
<1>2. \A c \in Clusters : fat'[c] = IF c = e THEN EOF
                                   ELSE IF loc[i].got > 0 /\ c = loc[i].prev THEN e ELSE fat[c]
  BY <1>0, <1>1 DEF Linked, TypeOK
<1>3. \A c \in Clusters : fat'[c] = FREE <=> c # e /\ fat[c] = FREE
  BY <1>0, <1>1, <1>2, Marks
<1> QED BY <1>0, <1>3 DEF FreeSet

LEMMA FreeOne ==
  ASSUME TypeInv, NEW i \in Inodes, FreeStep(i)
  PROVE  /\ cluster[i] \in Clusters /\ cluster[i] \notin FreeSet
         /\ FreeSet' = FreeSet \cup {cluster[i]}
<1> TypeOK
  BY DEF TypeInv
<1> DEFINE c == cluster[i]
<1>1. c \in Clusters /\ fat[c] # FREE /\ fat' = [fat EXCEPT ![c] = FREE]
  BY DEF FreeStep
<1>2. \A d \in Clusters : fat'[d] = IF d = c THEN FREE ELSE fat[d]
  BY <1>1 DEF TypeOK
<1> QED BY <1>1, <1>2 DEF FreeSet

LEMMA FreeSame ==
  ASSUME TypeInv, NEW own, Labels(own), NEW i \in Inodes, Request(i) \/ Step(i),
         ~AllocTake(i), ~FreeStep(i)
  PROVE  FreeSet' = FreeSet
<1> TypeOK /\ LocalOK(i)
  BY DEF TypeInv
<1>1. \A c \in Clusters : fat[c] # FREE => fat'[c] # FREE
  BY UsedKept
<1>2. ASSUME NEW c \in Clusters, fat[c] = FREE  PROVE fat'[c] = FREE
  <2>1. CASE ChainLink(i)
    <3>1. loc[i].dclus \in Clusters => own[loc[i].dclus] = i
      BY <2>1 DEF ChainLink, Labels
    <3>2. loc[i].dclus \in Clusters => fat[loc[i].dclus] # FREE
      BY <3>1, InodeAssumption DEF Labels
    <3> QED BY <1>2, <2>1, <3>2 DEF ChainLink, TypeOK
  <2>2. CASE Cut(i)
    BY <1>2, <2>2, Marks DEF Cut, TypeOK
  <2>3. CASE ~ChainLink(i) /\ ~Cut(i)
    <3>1. fat' = fat
      BY <2>3 DEF Request, WriteBegin, DirGrow, Shrink, Step, GetBlock, WriteEnd,
         AllocLock, AllocSkip, AllocFull, AllocReadFails, AllocUnlock, AllocMirror,
         ChainAdd, ChainSync, ChainEnd, Grown, WalkStep, WalkFails, WalkEof, WalkDone,
         Truncate, StartCleared, CutSync, FreeLock, FreeFails, FreeUnlock
    <3> QED BY <1>2, <3>1
  <2> QED BY <2>1, <2>2, <2>3
<1> QED BY <1>1, <1>2 DEF FreeSet

(* The counters change only with the table, or when all of it was counted.  *)
LEMMA CountersSame ==
  ASSUME NEW i \in Inodes, Request(i) \/ Step(i), ~AllocTake(i), ~FreeStep(i), ~AllocFull(i)
  PROVE  UNCHANGED <<freeClusters, freeClusValid>>
  BY DEF counters, Request, WriteBegin, DirGrow, Shrink, Step, GetBlock, WriteEnd,
     AllocLock, AllocSkip, AllocReadFails, AllocUnlock, AllocMirror,
     ChainAdd, ChainLink, ChainSync, ChainEnd, Grown, WalkStep, WalkFails, WalkEof, WalkDone,
     Truncate, StartCleared, Cut, CutSync, FreeLock, FreeFails, FreeUnlock

LEMMA CountInit == Init => FreeCountExact
<1> SUFFICES ASSUME Init, freeClusValid  PROVE freeClusters = Cardinality(FreeSet)
  BY DEF FreeCountExact
<1>1. freeClusters = Cardinality(Clusters \ BadClusters)
  BY DEF Init
<1>2. FreeSet = Clusters \ BadClusters
  BY Marks DEF Init, FreeSet
<1> QED BY <1>1, <1>2

LEMMA CountNext ==
  TypeInv /\ LabelInv /\ ScanInv /\ FreeCountExact /\ [Next]_vars => FreeCountExact'
<1> SUFFICES ASSUME TypeInv, LabelInv, ScanInv, FreeCountExact, [Next]_vars
             PROVE  FreeCountExact'
  OBVIOUS
<1> TypeOK
  BY DEF TypeInv
<1>0. PICK own : Labels(own)
  BY DEF LabelInv
<1>1. ASSUME NEW i \in Inodes, Request(i) \/ Step(i)  PROVE FreeCountExact'
  <2>1. CASE AllocTake(i)
    <3>1. /\ Scanned(i) \in FreeSet
          /\ FreeSet' = FreeSet \ {Scanned(i)}
      BY <1>0, <2>1, TakeOne
    <3>2. Cardinality(FreeSet') = Cardinality(FreeSet) - 1
      BY <3>1, FreeSetFinite, FS_RemoveElement
    <3>3. freeClusters' = Counted(-1) /\ freeClusValid' = freeClusValid
      BY <2>1 DEF AllocTake
    <3> QED BY <3>2, <3>3, FreeSetFinite DEF FreeCountExact, Counted, TypeOK
  <2>2. CASE FreeStep(i)
    <3>1. /\ cluster[i] \notin FreeSet
          /\ FreeSet' = FreeSet \cup {cluster[i]}
      BY <2>2, FreeOne
    <3>2. Cardinality(FreeSet') = Cardinality(FreeSet) + 1
      BY <3>1, FreeSetFinite, FS_AddElement
    <3>3. freeClusters' = Counted(1) /\ freeClusValid' = freeClusValid
      BY <2>2 DEF FreeStep
    <3> QED BY <3>2, <3>3, FreeSetFinite DEF FreeCountExact, Counted, TypeOK
  <2>3. CASE AllocFull(i)
    <3>1. FreeSet = {} /\ FreeSet' = FreeSet
      BY <2>3, ScanSeesAll DEF AllocFull, FreeSet
    <3> QED BY <2>3, <3>1, FS_EmptySet DEF FreeCountExact, AllocFull
  <2>4. CASE ~AllocTake(i) /\ ~FreeStep(i) /\ ~AllocFull(i)
    BY <1>0, <1>1, <2>4, FreeSame, CountersSame DEF FreeCountExact
  <2> QED BY <2>1, <2>2, <2>3, <2>4
<1>2. CASE CountFree
  BY <1>2 DEF CountFree, FreeCountExact, FreeSet
<1>3. CASE UNCHANGED vars
  BY <1>3 DEF vars, counters, FreeCountExact, FreeSet
<1> QED BY <1>1, <1>2, <1>3 DEF Next

(* The free counter, once known and valid, is exact in every state, however *)
(* allocation, linking, truncation and freeing interleave and whichever     *)
(* calls other than fat_chain_add's writes fail.                            *)
THEOREM CounterCorrect ==
  ASSUME "chain_io" \notin Faults  PROVE Spec => []FreeCountExact
<1>1. TypeInv /\ OwnInv /\ [Next]_vars => OwnInv'
  BY OwnNext
<1>2. TypeInv /\ OwnInv /\ LabelInv /\ [Next]_vars => LabelInv'
  BY LabelNext
<1>3. TypeInv /\ LabelInv /\ ScanInv /\ FreeCountExact /\ [Next]_vars => FreeCountExact'
  BY CountNext
<1> QED BY <1>1, <1>2, <1>3, TypeInvCorrect, ScanInvCorrect, OwnInit, LabelInit, CountInit,
        PTL DEF Spec

(* A refusal for want of space is justified, at both places that refuse.    *)
THEOREM EnospcCorrect ==
  ASSUME "chain_io" \notin Faults  PROVE Spec => EnospcIsTrue
<1> DEFINE A == \A i \in Inodes :
                  /\ pc[i] = "a_lock" /\ pc'[i] \in {"idle", "trunc"} =>
                       Cardinality(FreeSet) < loc[i].req
                  /\ AllocFull(i) => FreeSet = {}
<1>1. TypeInv /\ ScanInv /\ FreeCountExact /\ [Next]_vars => [A]_vars
  <2> SUFFICES ASSUME TypeInv, ScanInv, FreeCountExact, Next  PROVE A
    BY DEF vars
  <2>1. ASSUME NEW i \in Inodes, pc[i] = "a_lock", pc'[i] \in {"idle", "trunc"}
        PROVE  Cardinality(FreeSet) < loc[i].req
    <3>1. PICK j \in Inodes : Request(j) \/ Step(j)
      BY <2>1 DEF Next, CountFree
    <3>2. j = i
      BY <2>1, <3>1, Frame DEF TypeInv
    <3>3. AllocLock(i)
      BY <2>1, <3>1, <3>2 DEF Request, WriteBegin, DirGrow, Shrink, Step, GetBlock, WriteEnd,
         AllocTake, AllocSkip, AllocFull, AllocReadFails, AllocUnlock, AllocMirror,
         ChainAdd, ChainLink, ChainSync, ChainEnd, Grown, WalkStep, WalkFails, WalkEof, WalkDone,
         Walking, Walks, Truncate, StartCleared, Cut, CutSync, FreeLock, FreeStep, FreeFails, FreeUnlock
    <3>4. freeClusters # Unknown /\ freeClusValid /\ freeClusters < loc[i].req
      BY <2>1, <3>3 DEF AllocLock, Goto, TypeInv, TypeOK
    <3> QED BY <3>4 DEF FreeCountExact
  <2>2. ASSUME NEW i \in Inodes, AllocFull(i)  PROVE FreeSet = {}
    BY <2>2, ScanSeesAll
  <2> QED BY <2>1, <2>2
<1>2. Spec => [][A]_vars
  BY <1>1, CounterCorrect, TypeInvCorrect, ScanInvCorrect, PTL DEF Spec
<1> QED BY <1>2 DEF EnospcIsTrue

-----------------------------------------------------------------------------
(* What a walk of a table f meets.                                          *)

From(f, c) ==
    {d \in Clusters : /\ c \in Clusters
                      /\ \A S \in SUBSET (Clusters \ {d}) :
                           c \in S => \E e \in S : f[e] \in Clusters \ S}

(* No two entries lead to one cluster; no entry leads to the cluster c.     *)
Apart(f) == \A c, d \in Clusters : f[c] \in Clusters /\ f[c] = f[d] => c = d
Root(f, c) == \A d \in Clusters : f[d] \in Clusters => f[d] # c

LEMMA ChainIs == \A c : ChainFrom(c) = From(fat, c)
  BY DEF ChainFrom, From

LEMMA FromNothing == ASSUME NEW f, NEW c, c \notin Clusters  PROVE From(f, c) = {}
  BY DEF From

(* The walk meets no more than any set that holds c and that no entry leads *)
(* out of, and it meets such a set.                                         *)
LEMMA FromLeast ==
  ASSUME NEW f, NEW c, NEW S \in SUBSET Clusters, c \in S,
         \A d \in S : f[d] \in Clusters => f[d] \in S
  PROVE  From(f, c) \subseteq S
<1> SUFFICES ASSUME NEW d \in From(f, c), d \notin S PROVE FALSE
  OBVIOUS
<1>1. S \in SUBSET (Clusters \ {d})
  OBVIOUS
<1>2. PICK e \in S : f[e] \in Clusters \ S
  BY <1>1 DEF From
<1> QED BY <1>2

LEMMA FromHolds ==
  ASSUME NEW f, NEW c
  PROVE  /\ From(f, c) \subseteq Clusters
         /\ c \in Clusters => c \in From(f, c)
         /\ \A d \in From(f, c) : f[d] \in Clusters => f[d] \in From(f, c)
<1>1. From(f, c) \subseteq Clusters
  BY DEF From
<1>2. c \in Clusters => c \in From(f, c)
  BY DEF From
<1>3. ASSUME NEW d \in From(f, c), f[d] \in Clusters  PROVE f[d] \in From(f, c)
  <2>0. c \in Clusters /\ d \in Clusters
    BY DEF From
  <2>1. ASSUME NEW S \in SUBSET (Clusters \ {f[d]}), c \in S
        PROVE  \E e \in S : f[e] \in Clusters \ S
    <3>1. CASE d \in S
      BY <1>3, <3>1
    <3>2. CASE d \notin S
      <4>1. S \in SUBSET (Clusters \ {d})
        BY <3>2
      <4> QED BY <2>1, <4>1 DEF From
    <3> QED BY <3>1, <3>2
  <2> QED BY <1>3, <2>0, <2>1 DEF From
<1> QED BY <1>1, <1>2, <1>3

LEMMA FromIn ==
  ASSUME NEW f, NEW c, NEW d \in From(f, c)
  PROVE  From(f, d) \subseteq From(f, c)
<1>1. /\ From(f, c) \in SUBSET Clusters
      /\ \A e \in From(f, c) : f[e] \in Clusters => f[e] \in From(f, c)
  BY FromHolds
<1> QED BY <1>1, FromLeast

(* One step of the walk.                                                    *)
LEMMA FromStep ==
  ASSUME NEW f, NEW c \in Clusters
  PROVE  From(f, c) = {c} \cup From(f, f[c])
<1> DEFINE S == {c} \cup From(f, f[c])
<1>1. /\ From(f, f[c]) \subseteq Clusters
      /\ f[c] \in Clusters => f[c] \in From(f, f[c])
      /\ \A d \in From(f, f[c]) : f[d] \in Clusters => f[d] \in From(f, f[c])
  BY FromHolds
<1>2. S \in SUBSET Clusters /\ c \in S /\ \A d \in S : f[d] \in Clusters => f[d] \in S
  BY <1>1
<1>3. From(f, c) \subseteq S
  <2> HIDE DEF S
  <2> QED BY <1>2, FromLeast
<1>4. c \in From(f, c)
  BY FromHolds
<1>5. From(f, f[c]) \subseteq From(f, c)
  <2>1. CASE f[c] \in Clusters
    <3>1. f[c] \in From(f, c)
      BY <1>4, <2>1, FromHolds
    <3> QED BY <3>1, FromIn
  <2>2. CASE f[c] \notin Clusters
    BY <2>2, FromNothing
  <2> QED BY <2>1, <2>2
<1> QED BY <1>3, <1>4, <1>5

(* What is met has been led to.                                             *)
LEMMA FromLed ==
  ASSUME NEW f, NEW c, NEW d \in From(f, c), d # c
  PROVE  \E e \in From(f, c) : f[e] = d
<1> SUFFICES ASSUME \A e \in From(f, c) : f[e] # d  PROVE FALSE
  OBVIOUS
<1> DEFINE S == From(f, c) \ {d}
<1>0. c \in Clusters
  BY FromNothing
<1>1. /\ From(f, c) \subseteq Clusters /\ c \in From(f, c)
      /\ \A e \in From(f, c) : f[e] \in Clusters => f[e] \in From(f, c)
  BY <1>0, FromHolds
<1>2. S \in SUBSET Clusters /\ c \in S /\ \A e \in S : f[e] \in Clusters => f[e] \in S
  BY <1>1
<1>3. From(f, c) \subseteq S
  <2> HIDE DEF S
  <2> QED BY <1>2, FromLeast
<1> QED BY <1>3

(* A walk does not see what changes elsewhere.                              *)
LEMMA FromSame ==
  ASSUME NEW f, NEW g, NEW c, \A d \in From(f, c) : g[d] = f[d]
  PROVE  From(g, c) = From(f, c)
<1>1. CASE c \notin Clusters
  BY <1>1, FromNothing
<1>2. CASE c \in Clusters
  <2> DEFINE F == From(f, c)
             G == From(g, c)
  <2>1. F \in SUBSET Clusters /\ c \in F /\ \A d \in F : f[d] \in Clusters => f[d] \in F
    BY <1>2, FromHolds
  <2>2. G \in SUBSET Clusters /\ c \in G /\ \A d \in G : g[d] \in Clusters => g[d] \in G
    BY <1>2, FromHolds
  <2>3. \A d \in F : g[d] \in Clusters => g[d] \in F
    BY <2>1
  <2> HIDE DEF F, G
  <2>4. G \subseteq F
    BY <2>1, <2>3, FromLeast DEF G
  <2>5. \A d \in G : f[d] \in Clusters => f[d] \in G
    BY <2>2, <2>4 DEF F
  <2>6. F \subseteq G
    BY <2>2, <2>5, FromLeast DEF F
  <2> QED BY <2>4, <2>6 DEF F, G
<1> QED BY <1>1, <1>2

(* Walks from two roots have nothing in common.                             *)
LEMMA FromApart ==
  ASSUME NEW f, Apart(f), NEW a, NEW b, Root(f, a), Root(f, b),
         a # b \/ a \notin Clusters
  PROVE  From(f, a) \cap From(f, b) = {}
<1>1. CASE a \notin Clusters
  BY <1>1, FromNothing
<1>2. CASE a \in Clusters
  <2> DEFINE S == From(f, a) \ From(f, b)
  <2>1. /\ From(f, a) \subseteq Clusters /\ a \in From(f, a)
        /\ \A d \in From(f, a) : f[d] \in Clusters => f[d] \in From(f, a)
    BY <1>2, FromHolds
  <2>2. \A d \in From(f, b) : d # b => \E e \in From(f, b) : f[e] = d
    BY FromLed
  <2>3. From(f, b) \subseteq Clusters
    BY FromHolds
  <2>4. a \notin From(f, b)
    BY <2>2, <2>3 DEF Root
  <2>5. ASSUME NEW d \in S, f[d] \in Clusters  PROVE f[d] \in S
    <3>1. f[d] # b /\ d \in Clusters
      BY <2>1, <2>5 DEF Root
    <3>2. CASE f[d] \in From(f, b)
      <4>1. PICK e \in From(f, b) : f[e] = f[d]
        BY <2>2, <3>1, <3>2
      <4>2. e = d
        BY <2>3, <2>5, <3>1, <4>1 DEF Apart
      <4> QED BY <4>2
    <3> QED BY <2>1, <2>5, <3>2
  <2>6. S \in SUBSET Clusters /\ a \in S
    BY <2>1, <2>4
  <2>7. From(f, a) \subseteq S
    <3> HIDE DEF S
    <3> QED BY <2>5, <2>6, FromLeast
  <2> QED BY <2>7
<1> QED BY <1>1, <1>2

(* A walk from a root never comes back to where it was.                     *)
LEMMA FromOnward ==
  ASSUME NEW f, Apart(f), NEW c, Root(f, c), NEW d \in From(f, c)
  PROVE  d \notin From(f, f[d])
<1> SUFFICES ASSUME d \in From(f, f[d])  PROVE FALSE
  OBVIOUS
<1> DEFINE L == From(f, d)
           S == From(f, c) \ L
<1>1. c \in Clusters
  BY FromNothing
<1>2. /\ From(f, c) \subseteq Clusters /\ c \in From(f, c)
      /\ \A e \in From(f, c) : f[e] \in Clusters => f[e] \in From(f, c)
  BY <1>1, FromHolds
<1>3. L \subseteq Clusters /\ d \in L /\ L = {d} \cup From(f, f[d])
  BY <1>2, FromHolds, FromStep
<1>4. ASSUME NEW e \in L  PROVE \E h \in L : f[h] = e
  <2>1. CASE e # d
    BY <2>1, FromLed
  <2>2. CASE e = d /\ f[d] = d
    BY <1>3, <2>2
  <2>3. CASE e = d /\ f[d] # d
    <3>1. \E h \in From(f, f[d]) : f[h] = d
      BY <2>3, FromLed
    <3> QED BY <1>3, <2>3, <3>1
  <2> QED BY <2>1, <2>2, <2>3
<1>5. c \notin L
  BY <1>3, <1>4 DEF Root
<1>6. ASSUME NEW e \in S, f[e] \in Clusters  PROVE f[e] \in S
  <2>1. CASE f[e] \in L
    <3>1. PICK h \in L : f[h] = f[e]
      BY <1>4, <2>1
    <3>2. h = e
      BY <1>2, <1>3, <1>6, <3>1 DEF Apart
    <3> QED BY <3>2
  <2> QED BY <1>2, <1>6, <2>1
<1>7. S \in SUBSET Clusters /\ c \in S
  BY <1>2, <1>5
<1>8. From(f, c) \subseteq S
  <2> HIDE DEF S
  <2> QED BY <1>6, <1>7, FromLeast
<1> QED BY <1>3, <1>8

(* A walk has one end at the most.                                          *)
LEMMA FromEnd ==
  ASSUME NEW f, NEW c, NEW x \in From(f, c), NEW y \in From(f, c),
         f[x] \notin Clusters, f[y] \notin Clusters
  PROVE  x = y
<1> DEFINE S == {d \in From(f, c) : x \in From(f, d)}
<1>1. c \in Clusters
  BY FromNothing
<1>2. /\ From(f, c) \subseteq Clusters /\ c \in From(f, c)
      /\ \A e \in From(f, c) : f[e] \in Clusters => f[e] \in From(f, c)
  BY <1>1, FromHolds
<1>3. ASSUME NEW d \in S, f[d] \in Clusters  PROVE f[d] \in S
  <2>1. From(f, d) = {d} \cup From(f, f[d])
    BY <1>2, FromStep
  <2>2. x # d
    BY <1>3
  <2> QED BY <1>2, <1>3, <2>1, <2>2
<1>4. S \in SUBSET Clusters /\ c \in S
  BY <1>2
<1>5. From(f, c) \subseteq S
  <2> HIDE DEF S
  <2> QED BY <1>3, <1>4, FromLeast
<1>6. x \in From(f, y)
  BY <1>5
<1>7. From(f, y) = {y}
  BY <1>2, FromStep, FromNothing
<1> QED BY <1>6, <1>7

(* Cutting behind d: what is left of the walk, and what comes off.          *)
LEMMA FromCut ==
  ASSUME NEW f, NEW g, Apart(f), NEW c, Root(f, c), NEW d \in From(f, c),
         \A e \in From(f, c) \ {d} : g[e] = f[e], g[d] \notin Clusters
  PROVE  /\ From(g, c) = From(f, c) \ From(f, f[d])
         /\ From(g, f[d]) = From(f, f[d])
<1> DEFINE F == From(f, c)
           T == From(f, f[d])
           S == F \ T
           G == From(g, c)
<1>1. c \in Clusters
  BY FromNothing
<1>2. F \subseteq Clusters /\ c \in F /\ \A e \in F : f[e] \in Clusters => f[e] \in F
  BY <1>1, FromHolds
<1>3. T \subseteq F
  <2>1. From(f, d) = {d} \cup T
    BY <1>2, FromStep
  <2>2. From(f, d) \subseteq F
    BY FromIn
  <2> QED BY <2>1, <2>2
<1>4. d \notin T
  BY FromOnward
<1>5. T = From(g, f[d])
  <2>1. \A e \in T : g[e] = f[e]
    BY <1>3, <1>4
  <2> QED BY <2>1, FromSame
<1>6. \A e \in T : e # f[d] => \E h \in T : f[h] = e
  BY FromLed
<1>7. c \notin T
  BY <1>2, <1>3, <1>6 DEF Root
<1>8. ASSUME NEW e \in S, g[e] \in Clusters  PROVE g[e] \in S
  <2>1. e # d /\ g[e] = f[e] /\ f[e] \in F
    BY <1>2, <1>8
  <2>2. CASE f[e] \in T
    <3>1. f[e] # f[d]
      BY <1>2, <1>8, <2>1 DEF Apart
    <3>2. PICK h \in T : f[h] = f[e]
      BY <1>6, <2>2, <3>1
    <3>3. h = e
      BY <1>2, <1>3, <1>8, <2>1, <3>2 DEF Apart
    <3> QED BY <3>3
  <2> QED BY <2>1, <2>2
<1>9. G \subseteq S
  <2>1. S \in SUBSET Clusters /\ c \in S
    BY <1>2, <1>7
  <2> HIDE DEF S
  <2> QED BY <1>8, <2>1, FromLeast
<1>10. S \subseteq G
  <2>1. G \subseteq Clusters /\ c \in G /\ \A e \in G : g[e] \in Clusters => g[e] \in G
    BY <1>1, FromHolds
  <2>2. T \subseteq Clusters /\ (f[d] \in Clusters => f[d] \in T)
        /\ \A e \in T : f[e] \in Clusters => f[e] \in T
    BY FromHolds
  <2>3. \A e \in G \cup T : f[e] \in Clusters => f[e] \in G \cup T
    BY <1>9, <2>1, <2>2
  <2>4. G \cup T \in SUBSET Clusters /\ c \in G \cup T
    BY <2>1, <2>2
  <2>5. F \subseteq G \cup T
    BY ZenonT(30), <2>3, <2>4, FromLeast
  <2> QED BY <2>5
<1> QED BY <1>5, <1>9, <1>10

(* Linking x behind the end d of a walk.                                    *)
LEMMA FromLink ==
  ASSUME NEW f, NEW g, NEW c, NEW d \in From(f, c), f[d] \notin Clusters,
         NEW x \in Clusters, \A e \in From(f, c) \ {d} : g[e] = f[e], g[d] = x
  PROVE  From(g, c) = From(f, c) \cup From(g, x)
<1> DEFINE F == From(f, c)
           G == From(g, c)
           X == From(g, x)
<1>1. c \in Clusters
  BY FromNothing
<1>2. F \subseteq Clusters /\ c \in F /\ \A e \in F : f[e] \in Clusters => f[e] \in F
  BY <1>1, FromHolds
<1>3. G \subseteq Clusters /\ c \in G /\ \A e \in G : g[e] \in Clusters => g[e] \in G
  BY <1>1, FromHolds
<1>4. X \subseteq Clusters /\ x \in X /\ \A e \in X : g[e] \in Clusters => g[e] \in X
  BY FromHolds
<1>5. G \subseteq F \cup X
  <2>1. \A e \in F \cup X : g[e] \in Clusters => g[e] \in F \cup X
    BY <1>2, <1>4
  <2>2. F \cup X \in SUBSET Clusters /\ c \in F \cup X
    BY <1>2, <1>4
  <2> QED BY ZenonT(30), <2>1, <2>2, FromLeast
<1>6. F \subseteq F \cap G
  <2>1. \A e \in F \cap G : f[e] \in Clusters => f[e] \in F \cap G
    BY <1>2, <1>3
  <2>2. F \cap G \in SUBSET Clusters /\ c \in F \cap G
    BY <1>2, <1>3
  <2> QED BY ZenonT(30), <2>1, <2>2, FromLeast
<1>7. x \in G
  BY <1>3, <1>6
<1>8. X \subseteq G
  BY <1>7, FromIn
<1> QED BY <1>5, <1>6, <1>8

(* The length of a walk.                                                    *)
LEMMA FromSize ==
  ASSUME NEW f, NEW c
  PROVE  /\ IsFiniteSet(From(f, c)) /\ Cardinality(From(f, c)) \in Nat
         /\ Cardinality(From(f, c)) <= MaxCluster - 2
         /\ c \notin Clusters => Cardinality(From(f, c)) = 0
         /\ c \in Clusters => Cardinality(From(f, c)) > 0
<1>1. IsFiniteSet(Clusters) /\ Cardinality(Clusters) = MaxCluster - 2
  BY FS_Interval, ClusterAssumption DEF Clusters
<1>2. /\ IsFiniteSet(From(f, c)) /\ Cardinality(From(f, c)) \in Nat
      /\ Cardinality(From(f, c)) <= MaxCluster - 2
  BY <1>1, FromHolds, FS_Subset, FS_CardinalityType
<1>3. c \notin Clusters => Cardinality(From(f, c)) = 0
  BY FromNothing, FS_EmptySet
<1>4. c \in Clusters => Cardinality(From(f, c)) > 0
  <2>1. c \in Clusters => From(f, c) # {}
    BY FromHolds
  <2> QED BY <1>2, <2>1, FS_EmptySet
<1> QED BY <1>2, <1>3, <1>4

LEMMA FromShorter ==
  ASSUME NEW f, Apart(f), NEW c, Root(f, c), NEW d \in From(f, c)
  PROVE  Cardinality(From(f, d)) = Cardinality(From(f, f[d])) + 1
<1>1. From(f, d) = From(f, f[d]) \cup {d}
  BY FromHolds, FromStep
<1>2. d \notin From(f, f[d])
  BY FromOnward
<1>3. IsFiniteSet(From(f, f[d]))
  BY FromSize
<1> QED BY <1>1, <1>2, <1>3, FS_AddElement

-----------------------------------------------------------------------------
(* The chains of the volume.                                                *)

(* How many clusters an inode has.                                          *)
Length(i) == Cardinality(Chain(i))

LEMMA ChainsAre ==
  ASSUME NEW i \in Inodes
  PROVE  /\ Chain(i) = From(fat, iStart[i]) /\ Chain(i)' = From(fat', iStart'[i])
         /\ Hung(i) = From(fat, Held(i)) /\ Hung(i)' = From(fat', Held(i)')
  BY DEF Chain, Hung, ChainFrom, From

LEMMA Rooted ==
  ASSUME OwnInv
  PROVE  /\ Apart(fat)
         /\ \A i \in Inodes : Root(fat, iStart[i]) /\ Root(fat, Held(i))
  BY DEF OwnInv, NoSharedCluster, Apart, Root

(* Nothing is in two chains, or hangs from two threads, or both.            *)
LEMMA Disjoint ==
  ASSUME OwnInv, NEW i \in Inodes, NEW j \in Inodes
  PROVE  /\ Chain(i) \cap Hung(j) = {}
         /\ i # j => Chain(i) \cap Chain(j) = {} /\ Hung(i) \cap Hung(j) = {}
<1>1. Apart(fat) /\ \A k \in Inodes : Root(fat, iStart[k]) /\ Root(fat, Held(k))
  BY Rooted
<1>2. /\ iStart[i] # Held(j) \/ iStart[i] \notin Clusters
      /\ i # j => iStart[i] # iStart[j] \/ iStart[i] \notin Clusters
      /\ i # j => Held(i) # Held(j) \/ Held(i) \notin Clusters
  BY DEF OwnInv, NoSharedCluster
<1> QED BY <1>1, <1>2, FromApart, ChainsAre

(* What is in a chain or hangs from a thread is not free.                   *)
LEMMA ChainsUsed ==
  ASSUME OwnInv, NEW i \in Inodes
  PROVE  \A c \in Chain(i) \cup Hung(i) : c \in Clusters /\ fat[c] # FREE
<1>1. ASSUME NEW r, NEW c \in From(fat, r), r = iStart[i] \/ r = Held(i)
      PROVE  c \in Clusters /\ fat[c] # FREE
  <2>1. From(fat, r) \subseteq Clusters
    BY FromHolds
  <2>2. c = r \/ \E e \in From(fat, r) : fat[e] = c
    BY FromLed
  <2> QED BY <1>1, <2>1, <2>2 DEF OwnInv, NoFreeInUse, FreeSet
<1> QED BY <1>1, ChainsAre

(* Where a thread is on its way along the chain, and what it has taken.     *)
WalkOK(i) ==
    /\ pc[i] \in Walks \cup {"link", "cut"} /\ loc[i].dclus \in Clusters =>
         /\ loc[i].dclus \in Chain(i)
         /\ loc[i].fclus + Cardinality(ChainFrom(loc[i].dclus)) = Length(i)
    /\ pc[i] = "walk_end" => loc[i].target = EOF
    /\ pc[i] = "link" /\ loc[i].dclus \in Clusters => fat[loc[i].dclus] \notin Clusters
    /\ pc[i] = "a_scan" => loc[i].got < loc[i].req
    /\ pc[i] \in {"a_scan", "a_unlock"} =>
         /\ Cardinality(Hung(i)) = loc[i].got
         /\ IF loc[i].got = 0 THEN cluster[i] = 0
            ELSE loc[i].prev \in Hung(i) /\ fat[loc[i].prev] \notin Clusters
    /\ pc[i] \in {"a_mirror", "chain", "walk_end", "link"} => Cardinality(Hung(i)) = loc[i].req
WalkInv == \A i \in Inodes : WalkOK(i)

(* What the lemmas about a step start from.                                 *)
Sound == TypeInv /\ OwnInv /\ LabelInv /\ WalkInv

(* A step changes only entries that are free, or of its own inode.          *)
LEMMA Touches ==
  ASSUME Sound, NEW i \in Inodes, Request(i) \/ Step(i), NEW c \in Clusters, fat'[c] # fat[c]
  PROVE  fat[c] = FREE \/ c \in Chain(i) \cup Hung(i)
<1>0. TypeOK /\ LocalOK(i) /\ OwnInv /\ WalkOK(i)
  BY DEF Sound, TypeInv, WalkInv
<1>1. CASE AllocTake(i)
  <2>1. pc[i] = "a_scan" /\ fat' = Linked(i, Scanned(i)) /\ fat[Scanned(i)] = FREE
    BY <1>1 DEF AllocTake
  <2>2. c = Scanned(i) \/ (loc[i].got > 0 /\ c = loc[i].prev)
    BY <1>0, <2>1 DEF Linked, TypeOK
  <2>3. loc[i].got > 0 => loc[i].prev \in Hung(i)
    BY <1>0, <2>1 DEF WalkOK, TypeOK, LocType
  <2> QED BY <2>1, <2>2, <2>3
<1>2. CASE ChainLink(i) \/ Cut(i)
  <2>1. pc[i] \in {"link", "cut"} /\ loc[i].dclus = c
    BY <1>0, <1>2 DEF ChainLink, Cut, TypeOK
  <2> QED BY <1>0, <2>1 DEF WalkOK
<1>3. CASE FreeStep(i)
  <2>1. cluster[i] = c /\ Held(i) = c
    BY <1>0, <1>3 DEF FreeStep, TypeOK, Held, Holding
  <2>2. c \in Hung(i)
    BY <2>1, ChainsAre, FromHolds
  <2> QED BY <2>2
<1>4. CASE ~AllocTake(i) /\ ~ChainLink(i) /\ ~Cut(i) /\ ~FreeStep(i)
  <2>1. fat' = fat
    BY <1>4 DEF Request, WriteBegin, DirGrow, Shrink, Step, GetBlock, WriteEnd,
       AllocLock, AllocSkip, AllocFull, AllocReadFails, AllocUnlock, AllocMirror,
       ChainAdd, ChainSync, ChainEnd, Grown, WalkStep, WalkFails, WalkEof, WalkDone,
       Truncate, StartCleared, CutSync, FreeLock, FreeFails, FreeUnlock
  <2> QED BY <2>1
<1> QED BY <1>1, <1>2, <1>3, <1>4

(* So nothing happens to the other inodes' chains.                          *)
LEMMA Others ==
  ASSUME Sound, NEW i \in Inodes, Request(i) \/ Step(i), NEW j \in Inodes, j # i
  PROVE  /\ \A d \in Chain(j) \cup Hung(j) : fat'[d] = fat[d]
         /\ Chain(j)' = Chain(j) /\ Hung(j)' = Hung(j)
<1>0. TypeOK /\ OwnInv
  BY DEF Sound, TypeInv
<1>1. \A d \in Chain(j) \cup Hung(j) : fat'[d] = fat[d]
  <2>1. Chain(j) \cap (Chain(i) \cup Hung(i)) = {} /\ Hung(j) \cap (Chain(i) \cup Hung(i)) = {}
    BY <1>0, Disjoint
  <2>2. \A d \in Chain(j) \cup Hung(j) : d \in Clusters /\ fat[d] # FREE
    BY <1>0, ChainsUsed
  <2> QED BY <2>1, <2>2, Touches
<1>2. iStart'[j] = iStart[j] /\ Held(j)' = Held(j)
  BY <1>0, HeldFrame
<1>3. Chain(j)' = From(fat', iStart[j]) /\ Hung(j)' = From(fat', Held(j))
  BY <1>2, ChainsAre
<1> QED BY <1>1, <1>3, FromSame, ChainsAre

-----------------------------------------------------------------------------
(* What the steps of a thread do to its own chain.                          *)

(* Most leave it alone; a failed call may forget the clusters it held.      *)
LEMMA Quiet ==
  ASSUME Sound, "chain_io" \notin Faults, NEW i \in Inodes, Request(i) \/ Step(i),
         UNCHANGED <<fat, iStart>>
  PROVE  /\ Chain(i)' = Chain(i)
         /\ \/ Hung(i)' = Hung(i)
            \/ Hung(i)' = {} /\ Faults # {} /\ (CutSync(i) \/ FreeFails(i))
<1>0. TypeOK /\ LocalOK(i) /\ OwnInv /\ WalkOK(i)
  BY DEF Sound, TypeInv, WalkInv
<1>1. Held(i)' = Held(i) \/ (Held(i)' = 0 /\ Faults # {} /\ (CutSync(i) \/ FreeFails(i)))
  <2> USE <1>0, Marks DEF TypeOK, Held, Holding, Goto, Leave, Walk, Cleanup, inode, locals
  <2>1. CASE WriteBegin(i) \/ DirGrow(i) \/ Shrink(i)
    BY <2>1 DEF WriteBegin, DirGrow, Shrink
  <2>2. CASE GetBlock(i) \/ WriteEnd(i)
    BY <2>2 DEF GetBlock, WriteEnd
  <2>3. CASE AllocLock(i)
    BY <2>3 DEF AllocLock
  <2>4. CASE AllocTake(i) \/ FreeStep(i)
    <3>1. CASE AllocTake(i)
      <4>1. fat[Scanned(i)] = FREE /\ Scanned(i) \in Clusters /\ fat' = Linked(i, Scanned(i))
        BY <3>1, ScannedType DEF AllocTake, Sound
      <4>2. fat'[Scanned(i)] # FREE
        BY <4>1, ClusterAssumption DEF Linked, FREE, EOF, Clusters
      <4> QED BY <4>1, <4>2
    <3>2. CASE FreeStep(i)
      BY <3>2 DEF FreeStep
    <3> QED BY <2>4, <3>1, <3>2
  <2>5. CASE AllocSkip(i) \/ AllocFull(i) \/ AllocReadFails(i)
    BY <2>5 DEF AllocSkip, AllocFull, AllocReadFails
  <2>6. CASE AllocUnlock(i)
    BY <2>6 DEF AllocUnlock, WalkOK
  <2>7. CASE AllocMirror(i)
    BY <2>7 DEF AllocMirror, LocalOK, HasCluster
  <2>8. CASE ChainAdd(i)
    BY <2>8 DEF ChainAdd, LocalOK, HasCluster
  <2>9. CASE ChainLink(i)
    <3>1. CASE ReadFails /\ Cleanup(i)
      BY <2>9, <3>1 DEF ChainLink
    <3>2. CASE ~(ReadFails /\ Cleanup(i))
      <4>1. /\ loc[i].dclus \in Clusters /\ fat' = [fat EXCEPT ![loc[i].dclus] = cluster[i]]
            /\ pc[i] = "link" /\ cluster[i] \in Clusters
        BY <2>9, <3>2 DEF ChainLink, LocalOK, HasCluster
      <4>2. fat[loc[i].dclus] \notin Clusters /\ fat'[loc[i].dclus] = cluster[i]
        BY <4>1 DEF WalkOK
      <4> QED BY <4>1, <4>2
    <3> QED BY <3>1, <3>2
  <2>10. CASE ChainSync(i) \/ ChainEnd(i)
    BY <2>10 DEF ChainSync, ChainEnd, Grown
  <2>11. CASE WalkStep(i) \/ WalkFails(i) \/ WalkEof(i) \/ WalkDone(i)
    BY <2>11 DEF WalkStep, WalkFails, WalkEof, WalkDone, Walking, Walks
  <2>12. CASE Truncate(i)
    BY <2>12 DEF Truncate, StartCleared
  <2>13. CASE Cut(i)
    BY <2>13 DEF Cut
  <2>14. CASE CutSync(i)
    BY <2>14 DEF CutSync
  <2>15. CASE FreeLock(i) \/ FreeUnlock(i)
    BY <2>15 DEF FreeLock, FreeUnlock
  <2>16. CASE FreeFails(i)
    <3>1. pc[i] = "f_step" /\ Held(i) = cluster[i] /\ cluster[i] \in Clusters
      BY <2>16 DEF FreeFails, LocalOK, HasCluster
    <3>2. fat[cluster[i]] # FREE
      BY <3>1 DEF OwnInv, NoFreeInUse, FreeSet
    <3>3. ReadFails
      BY <2>16, <3>1, <3>2 DEF FreeFails
    <3>4. Held(i)' = 0
      BY <2>16 DEF FreeFails
    <3> QED BY <2>16, <3>3, <3>4 DEF ReadFails
  <2> QED BY <2>1, <2>2, <2>3, <2>4, <2>5, <2>6, <2>7, <2>8, <2>9, <2>10, <2>11, <2>12,
             <2>13, <2>14, <2>15, <2>16 DEF Request, Step
<1>2. fat' = fat /\ iStart'[i] = iStart[i]
  OBVIOUS
<1>3. Chain(i)' = Chain(i)
  BY <1>2, ChainsAre
<1>4. Held(i)' = Held(i) => Hung(i)' = Hung(i)
  BY <1>2, ChainsAre
<1>5. Held(i)' = 0 => Hung(i)' = {}
  BY ChainsAre, FromNothing, Marks
<1> QED BY <1>1, <1>3, <1>4, <1>5

(* fat_alloc_clusters: a free entry is added to what hangs from the thread. *)
LEMMA TakeMoves ==
  ASSUME Sound, NEW i \in Inodes, AllocTake(i)
  PROVE  /\ Chain(i)' = Chain(i)
         /\ Hung(i)' = Hung(i) \cup {Scanned(i)} /\ Scanned(i) \notin Hung(i)
         /\ Scanned(i) \in FreeSet /\ FreeSet' = FreeSet \ {Scanned(i)}
         /\ fat'[Scanned(i)] \notin Clusters
<1> DEFINE e == Scanned(i)
           p == loc[i].prev
<1>0. TypeOK /\ LocalOK(i) /\ OwnInv /\ WalkOK(i) /\ TypeInv /\ LabelInv
  BY DEF Sound, TypeInv, WalkInv
<1>1. /\ pc[i] = "a_scan" /\ fat' = Linked(i, e) /\ fat[e] = FREE /\ iStart' = iStart
      /\ e \in Clusters
      /\ cluster' = IF loc[i].got > 0 THEN cluster ELSE [cluster EXCEPT ![i] = e]
      /\ pc'[i] \in {"a_scan", "a_unlock"}
  BY <1>0, ScannedType DEF AllocTake, inode, TypeOK, Goto
<1>2. e \in FreeSet /\ FreeSet' = FreeSet \ {e}
  BY <1>0, TakeOne DEF LabelInv
<1>3. \A c \in Chain(i) \cup Hung(i) : c \in Clusters /\ fat[c] # FREE
  BY <1>0, ChainsUsed
<1>4. Chain(i) \cap Hung(i) = {}
  BY <1>0, Disjoint
<1>5. loc[i].got \in Nat /\ (loc[i].got > 0 => p \in Hung(i) /\ fat[p] \notin Clusters)
  BY <1>0, <1>1 DEF WalkOK, TypeOK, LocType
<1>6. /\ \A c \in Clusters : c # e /\ ~(loc[i].got > 0 /\ c = p) => fat'[c] = fat[c]
      /\ loc[i].got > 0 => fat'[p] = e
      /\ fat'[e] = EOF
  BY <1>0, <1>1, <1>3, <1>5 DEF Linked, TypeOK
<1>7. Chain(i)' = Chain(i)
  <2>1. \A c \in Chain(i) : fat'[c] = fat[c]
    BY <1>1, <1>3, <1>4, <1>5, <1>6
  <2> QED BY <1>1, <2>1, FromSame, ChainsAre
<1>8. From(fat', e) = {e}
  <2>1. From(fat', e) = {e} \cup From(fat', fat'[e])
    BY <1>1, FromStep
  <2>2. fat'[e] \notin Clusters
    BY <1>6, Marks
  <2>3. From(fat', fat'[e]) = {}
    BY <2>2, FromNothing
  <2> QED BY <2>1, <2>3
<1>9. Hung(i)' = Hung(i) \cup {e}
  <2>1. CASE loc[i].got = 0
    <3>1. cluster[i] = 0 /\ cluster'[i] = e
      BY <1>0, <1>1, <2>1 DEF WalkOK, TypeOK
    <3>2. Held(i) = 0 /\ Held(i)' = e
      BY <1>1, <3>1 DEF Held, Holding
    <3> QED BY <1>8, <3>2, ChainsAre, FromNothing, Marks
  <2>2. CASE loc[i].got > 0
    <3>1. Held(i)' = Held(i)
      BY <1>1, <2>2 DEF Held, Holding
    <3>2. \A c \in From(fat, Held(i)) \ {p} : fat'[c] = fat[c]
      BY <1>1, <1>3, <1>6, ChainsAre
    <3>3. p \in From(fat, Held(i)) /\ fat[p] \notin Clusters /\ fat'[p] = e
      BY <1>5, <1>6, <2>2, ChainsAre
    <3>4. From(fat', Held(i)) = From(fat, Held(i)) \cup From(fat', e)
      BY <1>1, <3>2, <3>3, FromLink
    <3> QED BY <1>8, <3>1, <3>4, ChainsAre
  <2> QED BY <1>5, <2>1, <2>2
<1>10. e \notin Hung(i) /\ fat'[e] \notin Clusters
  BY <1>1, <1>3, <1>6, Marks
<1> QED BY <1>2, <1>7, <1>9, <1>10

(* The steps that change i_start only: an inode without clusters gets what  *)
(* its thread took, or fat_free takes the chain away from it.               *)
Starts(i) ==
    /\ iStart[i] = 0 /\ Held(i) = cluster[i] /\ Held(i)' = 0
    /\ iStart' = [iStart EXCEPT ![i] = cluster[i]]
    /\ AllocMirror(i) \/ ChainAdd(i)
Clears(i) ==
    /\ iStart[i] # 0 /\ Held(i) = 0 /\ Held(i)' = iStart[i] /\ Truncate(i)
    /\ iStart' = [iStart EXCEPT ![i] = 0] /\ pc'[i] = "f_lock"

LEMMA StartSteps ==
  ASSUME Sound, NEW i \in Inodes, Request(i) \/ Step(i), iStart' # iStart
  PROVE  Starts(i) \/ Clears(i)
<1>0. TypeOK
  BY DEF Sound, TypeInv
<1> USE <1>0 DEF TypeOK, Held, Holding, Goto, Leave, Walk, Cleanup, Starts, Clears
<1>1. CASE AllocMirror(i)
  BY <1>1 DEF AllocMirror, inode
<1>2. CASE ChainAdd(i)
  BY <1>2 DEF ChainAdd
<1>3. CASE Truncate(i)
  BY <1>3 DEF Truncate, StartCleared
<1>4. CASE ~AllocMirror(i) /\ ~ChainAdd(i) /\ ~Truncate(i)
  BY <1>4 DEF Request, WriteBegin, DirGrow, Shrink, Step, GetBlock, WriteEnd,
     AllocLock, AllocTake, AllocSkip, AllocFull, AllocReadFails, AllocUnlock,
     ChainLink, ChainSync, ChainEnd, Grown, WalkStep, WalkFails, WalkEof, WalkDone,
     Cut, CutSync, FreeLock, FreeStep, FreeFails, FreeUnlock, inode
<1> QED BY <1>1, <1>2, <1>3, <1>4

LEMMA StartMoves ==
  ASSUME Sound, NEW i \in Inodes, Starts(i)
  PROVE  fat' = fat /\ Chain(i) = {} /\ Chain(i)' = Hung(i) /\ Hung(i)' = {}
<1>1. fat' = fat
  BY DEF Starts, AllocMirror, ChainAdd
<1>2. iStart'[i] = Held(i)
  BY DEF Starts, Sound, TypeInv, TypeOK
<1>3. iStart[i] \notin Clusters /\ Held(i)' \notin Clusters
  BY Marks DEF Starts
<1> QED BY <1>1, <1>2, <1>3, ChainsAre, FromNothing

LEMMA ClearMoves ==
  ASSUME Sound, NEW i \in Inodes, Clears(i)
  PROVE  fat' = fat /\ Hung(i) = {} /\ Hung(i)' = Chain(i) /\ Chain(i)' = {}
<1>1. fat' = fat
  BY DEF Clears, Truncate
<1>2. iStart'[i] = 0 /\ Held(i)' = iStart[i] /\ Held(i) = 0
  BY DEF Clears, Sound, TypeInv, TypeOK
<1> QED BY <1>1, <1>2, ChainsAre, FromNothing, Marks

(* fat_chain_add: what hung from the thread is now the end of the chain.    *)
LEMMA LinkMoves ==
  ASSUME Sound, NEW i \in Inodes, ChainLink(i), fat' # fat
  PROVE  /\ Chain(i)' = Chain(i) \cup Hung(i) /\ Hung(i)' = {}
         /\ pc'[i] = "link_sync" /\ loc[i].dclus \in Chain(i)
         /\ \A c \in Hung(i) : fat'[c] = fat[c]
<1> DEFINE p == loc[i].dclus
<1>0. TypeOK /\ LocalOK(i) /\ OwnInv /\ WalkOK(i)
  BY DEF Sound, TypeInv, WalkInv
<1>1. /\ pc[i] = "link" /\ pc'[i] = "link_sync" /\ iStart' = iStart
      /\ p \in Clusters /\ cluster[i] \in Clusters
      /\ \A c \in Clusters : fat'[c] = IF c = p THEN cluster[i] ELSE fat[c]
  BY <1>0 DEF ChainLink, TypeOK, LocalOK, HasCluster, inode, Goto
<1>2. Held(i) = cluster[i] /\ Held(i)' = 0
  BY <1>1 DEF Held, Holding
<1>3. p \in Chain(i) /\ fat[p] \notin Clusters
  BY <1>0, <1>1 DEF WalkOK
<1>4. \A c \in Chain(i) \cup Hung(i) : c \in Clusters
  BY <1>0, ChainsUsed
<1>5. \A c \in Hung(i) : fat'[c] = fat[c]
  BY <1>0, <1>1, <1>3, <1>4, Disjoint
<1>6. From(fat', cluster[i]) = Hung(i)
  BY <1>2, <1>5, FromSame, ChainsAre
<1>7. From(fat', iStart[i]) = From(fat, iStart[i]) \cup From(fat', cluster[i])
  <2>1. \A c \in From(fat, iStart[i]) \ {p} : fat'[c] = fat[c]
    BY <1>1, <1>4, ChainsAre
  <2>2. p \in From(fat, iStart[i]) /\ fat'[p] = cluster[i]
    BY <1>1, <1>3, ChainsAre
  <2> QED BY <1>1, <1>3, <2>1, <2>2, FromLink
<1>8. Hung(i)' = {}
  BY <1>2, ChainsAre, FromNothing, Marks
<1> QED BY <1>1, <1>3, <1>5, <1>6, <1>7, <1>8, ChainsAre

(* fat_free: what is behind the new end of the file comes off.              *)
LEMMA CutMoves ==
  ASSUME Sound, NEW i \in Inodes, Cut(i), fat' # fat
  PROVE  /\ Hung(i) = {} /\ pc'[i] = "cut_sync"
         /\ Hung(i)' \subseteq Chain(i) /\ Chain(i)' = Chain(i) \ Hung(i)'
         /\ Length(i)' = loc[i].fclus + 1
<1> DEFINE p == loc[i].dclus
           T == From(fat, fat[p])
<1>0. TypeOK /\ OwnInv /\ WalkOK(i)
  BY DEF Sound, TypeInv, WalkInv
<1>1. /\ pc[i] = "cut" /\ pc'[i] = "cut_sync" /\ iStart' = iStart
      /\ p \in Clusters /\ fat[p] \in Clusters /\ cluster'[i] = fat[p]
      /\ \A c \in Clusters : fat'[c] = IF c = p THEN EOF ELSE fat[c]
  BY <1>0 DEF Cut, TypeOK, inode, Goto
<1>2. Held(i) = 0 /\ Held(i)' = fat[p]
  BY <1>1 DEF Held, Holding
<1>3. p \in From(fat, iStart[i]) /\ Apart(fat) /\ Root(fat, iStart[i])
  BY <1>0, <1>1, ChainsAre, Rooted DEF WalkOK
<1>4. \A c \in From(fat, iStart[i]) \ {p} : fat'[c] = fat[c]
  BY <1>1, FromHolds
<1>5. fat'[p] \notin Clusters
  BY <1>1, Marks
<1>6. /\ From(fat', iStart[i]) = From(fat, iStart[i]) \ T
      /\ From(fat', fat[p]) = T
  BY <1>3, <1>4, <1>5, FromCut
<1>7. T \subseteq From(fat, iStart[i])
  BY <1>1, <1>3, FromHolds, FromIn
<1>8. Hung(i) = {} /\ Hung(i)' = T /\ Chain(i)' = Chain(i) \ T
  BY <1>1, <1>2, <1>6, ChainsAre, FromNothing, Marks
<1>9. Length(i)' = loc[i].fclus + 1
  <2>1. Cardinality(From(fat, p)) = Cardinality(T) + 1
    BY <1>3, FromShorter
  <2>2. loc[i].fclus + Cardinality(From(fat, p)) = Cardinality(Chain(i))
    BY <1>0, <1>1 DEF WalkOK, Length, ChainFrom, From
  <2>3. /\ IsFiniteSet(Chain(i)) /\ Cardinality(Chain(i)) \in Nat /\ Cardinality(T) \in Nat
        /\ Chain(i) \cap T = T
    BY <1>7, FromSize, ChainsAre
  <2>4. Cardinality(Chain(i) \ T) = Cardinality(Chain(i)) - Cardinality(T)
    BY <2>3, FS_Difference
  <2>5. Length(i)' = Cardinality(Chain(i) \ T)
    BY <1>8 DEF Length
  <2>6. loc[i].fclus \in Nat
    BY <1>0 DEF TypeOK, LocType
  <2> QED BY <2>1, <2>2, <2>3, <2>4, <2>5, <2>6
<1> QED BY <1>1, <1>7, <1>8, <1>9, ChainsAre

(* fat_free_clusters: the cluster at the head becomes free; with an error   *)
(* the rest is forgotten.                                                   *)
LEMMA FreeMoves ==
  ASSUME Sound, NEW i \in Inodes, FreeStep(i)
  PROVE  /\ Chain(i)' = Chain(i)
         /\ cluster[i] \in Hung(i) /\ FreeSet' = FreeSet \cup {cluster[i]}
         /\ Hung(i)' = Hung(i) \ {cluster[i]} \/ (Hung(i)' = {} /\ Faults # {})
<1> DEFINE c == cluster[i]
           T == From(fat, fat[c])
<1>0. TypeOK /\ LocalOK(i) /\ OwnInv /\ TypeInv
  BY DEF Sound, TypeInv
<1>1. /\ pc[i] = "f_step" /\ c \in Clusters /\ fat[c] # FREE /\ iStart' = iStart
      /\ cluster'[i] = fat[c] /\ pc'[i] \in {"f_step", "f_unlock"}
      /\ pc'[i] = "f_unlock" => fat[c] = EOF \/ "free_io" \in Faults
      /\ \A d \in Clusters : fat'[d] = IF d = c THEN FREE ELSE fat[d]
  BY <1>0 DEF FreeStep, TypeOK, inode, Goto
<1>2. Held(i) = c /\ Held(i)' = IF pc'[i] = "f_step" THEN fat[c] ELSE 0
  BY <1>1 DEF Held, Holding
<1>3. FreeSet' = FreeSet \cup {c}
  BY <1>0, FreeOne
<1>4. c \in Hung(i) /\ Hung(i) = {c} \cup T
  BY <1>1, <1>2, ChainsAre, FromHolds, FromStep
<1>5. c \notin T
  BY <1>0, <1>2, <1>4, ChainsAre, Rooted, FromOnward
<1>6. \A d \in Chain(i) \cup T : fat'[d] = fat[d]
  <2>1. \A d \in Chain(i) \cup T : d \in Clusters
    BY FromHolds, ChainsAre
  <2>2. c \notin Chain(i)
    BY <1>0, <1>4, Disjoint
  <2> QED BY <1>1, <1>5, <2>1, <2>2
<1>7. Chain(i)' = Chain(i)
  BY <1>1, <1>6, FromSame, ChainsAre
<1>8. CASE pc'[i] = "f_step"
  <2>1. From(fat', fat[c]) = T
    BY <1>6, FromSame
  <2>2. Hung(i)' = T
    BY <1>2, <1>8, <2>1, ChainsAre
  <2> QED BY <1>3, <1>4, <1>5, <1>7, <2>2
<1>9. CASE pc'[i] = "f_unlock"
  <2>1. Hung(i)' = {}
    BY <1>2, <1>9, ChainsAre, FromNothing, Marks
  <2>2. CASE fat[c] = EOF
    <3>1. T = {}
      BY <2>2, FromNothing, Marks
    <3> QED BY <1>3, <1>4, <1>7, <2>1, <3>1
  <2>3. CASE fat[c] # EOF
    BY <1>1, <1>3, <1>4, <1>7, <1>9, <2>1, <2>3
  <2> QED BY <2>2, <2>3
<1> QED BY <1>1, <1>8, <1>9

(* The table changes at the hands of these four.                            *)
LEMMA TableSteps ==
  ASSUME NEW i \in Inodes, Request(i) \/ Step(i), fat' # fat
  PROVE  AllocTake(i) \/ ChainLink(i) \/ Cut(i) \/ FreeStep(i)
  BY DEF Request, WriteBegin, DirGrow, Shrink, Step, GetBlock, WriteEnd,
     AllocLock, AllocSkip, AllocFull, AllocReadFails, AllocUnlock, AllocMirror,
     ChainAdd, ChainSync, ChainEnd, Grown, WalkStep, WalkFails, WalkEof, WalkDone,
     Truncate, StartCleared, CutSync, FreeLock, FreeFails, FreeUnlock

-----------------------------------------------------------------------------
(* Every thread stays on its chain.                                         *)

(* Where nothing is said about the thread's place.                          *)
Elsewhere == {"idle", "block", "trunc", "a_lock", "link_sync", "chain_end", "cut_sync",
              "f_lock", "f_step", "f_unlock"}

LEMMA WalkAway == ASSUME NEW i \in Inodes, pc'[i] \in Elsewhere  PROVE WalkOK(i)'
  BY DEF WalkOK, Elsewhere, Walks

(* fat_get_cluster starts at the first cluster.                             *)
LEMMA WalkBegins ==
  ASSUME Sound, NEW i \in Inodes, NEW label, NEW target, Walk(i, label, target),
         label = "walk_cut" \/ label = "walk_map"
           \/ (label = "walk_end" /\ target = EOF /\ Hung(i)' = Hung(i)
               /\ Cardinality(Hung(i)) = loc[i].req),
         UNCHANGED <<fat, iStart>>
  PROVE  WalkOK(i)'
<1>0. TypeOK
  BY DEF Sound, TypeInv
<1>1. /\ pc'[i] = label /\ loc'[i].dclus = iStart[i] /\ loc'[i].fclus = 0
      /\ loc'[i].target = target /\ loc'[i].req = loc[i].req
  BY <1>0 DEF Walk, Goto, TypeOK, LocType
<1>2. /\ Chain(i)' = From(fat, iStart[i]) /\ Length(i)' = Cardinality(Chain(i)')
      /\ ChainFrom(loc[i].dclus)' = From(fat, iStart[i])
  BY <1>1, ChainsAre DEF Length, ChainFrom, From
<1>3. iStart[i] \in Clusters => iStart[i] \in Chain(i)'
  BY <1>2, FromHolds
<1>4. 0 + Cardinality(From(fat, iStart[i])) = Length(i)'
  BY <1>2, FromSize
<1>5. loc'[i].dclus \in Clusters =>
         /\ loc'[i].dclus \in Chain(i)'
         /\ loc'[i].fclus + Cardinality(ChainFrom(loc[i].dclus)') = Length(i)'
  BY <1>1, <1>2, <1>3, <1>4
<1>6. CASE label = "walk_end"
  BY <1>1, <1>5, <1>6 DEF WalkOK, Walks
<1>7. CASE label \in {"walk_cut", "walk_map"}
  BY <1>1, <1>5, <1>7 DEF WalkOK, Walks
<1> QED BY <1>6, <1>7

LEMMA WalkRequests ==
  ASSUME Sound, NEW i \in Inodes, Request(i) \/ GetBlock(i) \/ WriteEnd(i)
  PROVE  WalkOK(i)'
<1>0. TypeOK
  BY DEF Sound, TypeInv
<1>1. CASE Request(i) \/ WriteEnd(i)
  <2>1. pc'[i] \in Elsewhere
    BY <1>0, <1>1 DEF Request, WriteBegin, DirGrow, Shrink, WriteEnd, Goto, TypeOK, Elsewhere
  <2> QED BY <2>1, WalkAway
<1>2. CASE GetBlock(i) /\ mmuPrivate[i] % SecPerClus = 0
  <2>1. pc'[i] \in Elsewhere
    BY <1>0, <1>2 DEF GetBlock, Goto, TypeOK, Elsewhere
  <2> QED BY <2>1, WalkAway
<1>3. CASE GetBlock(i) /\ mmuPrivate[i] % SecPerClus # 0
  BY <1>3, WalkBegins DEF GetBlock
<1> QED BY <1>1, <1>2, <1>3

LEMMA WalkAlloc ==
  ASSUME Sound, "chain_io" \notin Faults, NEW i \in Inodes,
         AllocLock(i) \/ AllocTake(i) \/ AllocSkip(i) \/ AllocFull(i) \/ AllocReadFails(i)
         \/ AllocUnlock(i) \/ AllocMirror(i)
  PROVE  WalkOK(i)'
<1>0. TypeOK /\ LocalOK(i) /\ WalkOK(i) /\ loc[i] \in LocType /\ Step(i)
  BY DEF Sound, TypeInv, WalkInv, TypeOK, Step
<1> USE <1>0
<1>1. CASE AllocLock(i)
  <2>1. CASE Leave(i)
    <3>1. pc'[i] \in Elsewhere
      BY <2>1 DEF Leave, Goto, TypeOK, Elsewhere
    <3> QED BY <3>1, WalkAway
  <2>2. CASE ~Leave(i)
    <3>1. /\ pc'[i] = "a_scan" /\ loc'[i].got = 0 /\ loc'[i].req = loc[i].req /\ loc[i].req > 0
          /\ cluster'[i] = 0
      BY <1>1, <2>2 DEF AllocLock, Goto, TypeOK, LocType, LocalOK
    <3>2. Held(i)' = 0
      BY <3>1 DEF Held
    <3>3. Hung(i)' = {}
      BY <3>2, ChainsAre, FromNothing, Marks
    <3> QED BY <3>1, <3>3, FS_EmptySet DEF WalkOK, Walks
  <2> QED BY <2>1, <2>2
<1>2. CASE AllocTake(i)
  <2>1. /\ Hung(i)' = Hung(i) \cup {Scanned(i)} /\ Scanned(i) \notin Hung(i)
        /\ fat'[Scanned(i)] \notin Clusters
    BY <1>2, TakeMoves
  <2>2. IsFiniteSet(Hung(i)) /\ Cardinality(Hung(i)) = loc[i].got /\ loc[i].got < loc[i].req
    BY <1>2, FromSize, ChainsAre DEF AllocTake, WalkOK
  <2>3. Cardinality(Hung(i)') = loc[i].got + 1
    BY <2>1, <2>2, FS_AddElement
  <2>4. /\ pc'[i] \in {"a_scan", "a_unlock"}
        /\ loc'[i].got = loc[i].got + 1 /\ loc'[i].req = loc[i].req /\ loc'[i].prev = Scanned(i)
        /\ pc'[i] = "a_scan" => loc[i].got + 1 # loc[i].req
    BY <1>2 DEF AllocTake, Goto, TypeOK, LocType
  <2>5. loc[i].got \in Nat /\ loc[i].req \in Nat
    BY DEF LocType
  <2>6. pc'[i] = "a_scan" => loc'[i].got < loc'[i].req
    BY <2>2, <2>4, <2>5
  <2>7. loc'[i].got # 0
    BY <2>4, <2>5
  <2> QED BY <2>1, <2>3, <2>4, <2>6, <2>7 DEF WalkOK, Walks
<1>3. CASE AllocSkip(i) \/ AllocFull(i) \/ AllocReadFails(i)
  <2>1. Hung(i)' = Hung(i) /\ fat' = fat
    <3>1. UNCHANGED <<fat, iStart>> /\ ~CutSync(i) /\ ~FreeFails(i)
      BY <1>3 DEF AllocSkip, AllocFull, AllocReadFails, inode, CutSync, FreeFails
    <3> QED BY <3>1, Quiet
  <2>2. /\ pc[i] = "a_scan" /\ pc'[i] \in {"a_scan", "a_unlock"}
        /\ loc'[i].got = loc[i].got /\ loc'[i].req = loc[i].req /\ loc'[i].prev = loc[i].prev
        /\ cluster'[i] = cluster[i]
    BY <1>3 DEF AllocSkip, AllocFull, AllocReadFails, Goto, TypeOK, LocType, locals
  <2>3. pc'[i] \notin Walks \cup {"link", "cut", "a_mirror", "chain", "walk_end"}
    BY <2>2 DEF Walks
  <2> QED BY <2>1, <2>2, <2>3 DEF WalkOK
<1>4. CASE AllocUnlock(i) \/ AllocMirror(i)
  <2>1. CASE pc'[i] \in {"a_mirror", "chain"}
    <3>1. /\ loc' = loc /\ UNCHANGED <<fat, iStart>> /\ ~CutSync(i) /\ ~FreeFails(i)
          /\ pc[i] = "a_mirror" \/ (pc[i] = "a_unlock" /\ AllGot(i))
      BY <1>4, <2>1 DEF AllocUnlock, AllocMirror, Goto, Cleanup, Leave, TypeOK, inode, locals,
         CutSync, FreeFails
    <3>2. Hung(i)' = Hung(i)
      BY <3>1, Quiet
    <3>3. Cardinality(Hung(i)) = loc[i].req
      BY <3>1 DEF WalkOK, AllGot
    <3> QED BY <2>1, <3>1, <3>2, <3>3 DEF WalkOK, Walks
  <2>2. CASE pc'[i] \notin {"a_mirror", "chain"}
    <3>1. pc'[i] \in Elsewhere
      BY <1>4, <2>2 DEF AllocUnlock, AllocMirror, Goto, Cleanup, Leave, TypeOK, Elsewhere
    <3> QED BY <3>1, WalkAway
  <2> QED BY <2>1, <2>2
<1> QED BY <1>1, <1>2, <1>3, <1>4

LEMMA WalkChain ==
  ASSUME Sound, "chain_io" \notin Faults, NEW i \in Inodes,
         ChainAdd(i) \/ ChainLink(i) \/ ChainSync(i) \/ ChainEnd(i)
  PROVE  WalkOK(i)'
<1>0. TypeOK /\ WalkOK(i) /\ Step(i)
  BY DEF Sound, TypeInv, WalkInv, Step
<1>1. CASE ChainAdd(i) /\ iStart[i] # 0
  <2>1. Walk(i, "walk_end", EOF) /\ UNCHANGED <<fat, iStart>> /\ pc[i] = "chain"
    BY <1>1 DEF ChainAdd
  <2>2. Hung(i)' = Hung(i)
    BY <1>0, <2>1, Quiet DEF CutSync, FreeFails
  <2>3. Cardinality(Hung(i)) = loc[i].req
    BY <1>0, <2>1 DEF WalkOK
  <2> QED BY <2>1, <2>2, <2>3, WalkBegins
<1>2. CASE ChainEnd(i) /\ i \notin Dirs
  <2>1. Walk(i, "walk_map", mmuPrivate[i] \div SecPerClus) /\ UNCHANGED <<fat, iStart>>
    BY <1>2 DEF ChainEnd, Grown
  <2> QED BY <2>1, WalkBegins
<1>3. CASE (ChainAdd(i) /\ iStart[i] = 0) \/ ChainLink(i) \/ ChainSync(i)
           \/ (ChainEnd(i) /\ i \in Dirs)
  <2>1. pc'[i] \in Elsewhere
    BY <1>0, <1>3 DEF ChainAdd, ChainLink, ChainSync, ChainEnd, Grown, Goto, Leave, Cleanup,
       TypeOK, Elsewhere
  <2> QED BY <2>1, WalkAway
<1> QED BY <1>1, <1>2, <1>3

LEMMA WalkWalk ==
  ASSUME Sound, "chain_io" \notin Faults, NEW i \in Inodes,
         WalkStep(i) \/ WalkFails(i) \/ WalkEof(i) \/ WalkDone(i)
  PROVE  WalkOK(i)'
<1>0. /\ TypeOK /\ WalkOK(i) /\ Step(i) /\ OwnInv /\ loc[i] \in LocType
      /\ UNCHANGED <<fat, iStart>>
  BY DEF Sound, TypeInv, WalkInv, Step, WalkStep, WalkFails, WalkEof, WalkDone, inode, TypeOK
<1> USE <1>0
<1>a. Chain(i)' = Chain(i) /\ Hung(i)' = Hung(i) /\ Length(i)' = Length(i)
  BY Quiet DEF CutSync, FreeFails, WalkStep, WalkFails, WalkEof, WalkDone, Walking, Walks, Length
<1>b. \A c : ChainFrom(c)' = ChainFrom(c)
  BY DEF ChainFrom
<1>1. CASE WalkStep(i)
  <2> DEFINE p == loc[i].dclus
  <2>1. /\ pc[i] \in Walks /\ pc' = pc /\ p \in Clusters /\ fat[p] \in Clusters
        /\ loc'[i].dclus = fat[p] /\ loc'[i].fclus = loc[i].fclus + 1
        /\ loc'[i].target = loc[i].target /\ loc'[i].req = loc[i].req
    BY <1>1 DEF WalkStep, Walking, TypeOK, LocType
  <2>2. p \in Chain(i) /\ loc[i].fclus + Cardinality(From(fat, p)) = Length(i)
    BY <2>1, ChainIs DEF WalkOK
  <2>3. fat[p] \in Chain(i)
    BY <2>1, <2>2, ChainsAre, FromHolds
  <2>4. Cardinality(From(fat, p)) = Cardinality(From(fat, fat[p])) + 1
    BY <2>2, ChainsAre, Rooted, FromShorter
  <2>5. loc[i].fclus \in Nat /\ Cardinality(From(fat, fat[p])) \in Nat
    BY FromSize DEF LocType
  <2>6. loc'[i].fclus + Cardinality(From(fat, fat[p])) = Length(i)
    BY <2>1, <2>2, <2>4, <2>5
  <2>7. ChainFrom(loc[i].dclus)' = From(fat, fat[p])
    BY <2>1 DEF ChainFrom, From
  <2>8. pc'[i] \in Walks
    BY <2>1
  <2> QED BY <1>a, <2>1, <2>3, <2>6, <2>7, <2>8 DEF WalkOK, Walks
<1>2. CASE WalkFails(i) \/ (WalkEof(i) /\ pc[i] # "walk_end")
  <2>1. pc'[i] \in Elsewhere
    BY <1>2 DEF WalkFails, WalkEof, Goto, Leave, Cleanup, TypeOK, Elsewhere
  <2> QED BY <2>1, WalkAway
<1>3. CASE (WalkEof(i) /\ pc[i] = "walk_end") \/ WalkDone(i)
  <2>1. /\ pc[i] \in Walks /\ loc' = loc /\ pc'[i] \in {"link", "cut", "block"}
        /\ pc'[i] = "link" => pc[i] = "walk_end"
    BY <1>3 DEF WalkEof, WalkDone, Walking, Walks, Goto, TypeOK, locals
  <2>2. pc[i] = "walk_end" /\ loc[i].dclus \in Clusters => fat[loc[i].dclus] \notin Clusters
    <3>1. CASE WalkEof(i)
      BY <3>1, Marks DEF WalkEof
    <3>2. CASE WalkDone(i)
      <4> SUFFICES ASSUME pc[i] = "walk_end", loc[i].dclus \in Clusters  PROVE FALSE
        OBVIOUS
      <4>1. loc[i].fclus >= MaxCluster
        BY <3>2 DEF WalkDone, WalkOK, EOF
      <4>2. loc[i].fclus + Cardinality(From(fat, loc[i].dclus)) = Cardinality(Chain(i))
        BY <2>1, ChainIs DEF WalkOK, Length
      <4>3. /\ Cardinality(Chain(i)) <= MaxCluster - 2 /\ Cardinality(Chain(i)) \in Nat
            /\ Cardinality(From(fat, loc[i].dclus)) \in Nat /\ loc[i].fclus \in Nat
        BY FromSize, ChainsAre DEF LocType
      <4> QED BY <4>1, <4>2, <4>3, ClusterAssumption
    <3> QED BY <1>3, <3>1, <3>2
  <2>3. ChainFrom(loc[i].dclus)' = ChainFrom(loc[i].dclus)
    BY <2>1 DEF ChainFrom
  <2> QED BY <1>a, <2>1, <2>2, <2>3 DEF WalkOK, Walks
<1> QED BY <1>1, <1>2, <1>3

LEMMA WalkTruncate ==
  ASSUME Sound, NEW i \in Inodes,
         Truncate(i) \/ Cut(i) \/ CutSync(i)
         \/ FreeLock(i) \/ FreeStep(i) \/ FreeFails(i) \/ FreeUnlock(i)
  PROVE  WalkOK(i)'
<1>0. TypeOK
  BY DEF Sound, TypeInv
<1>1. CASE pc'[i] = "walk_cut"
  <2>1. Walk(i, "walk_cut", Ceil(iSize[i]) - 1) /\ UNCHANGED <<fat, iStart>>
    BY <1>0, <1>1 DEF Truncate, Cut, CutSync, FreeLock, FreeStep, FreeFails, FreeUnlock,
       Goto, Leave, Cleanup, TypeOK
  <2> QED BY <2>1, WalkBegins
<1>2. CASE pc'[i] # "walk_cut"
  <2>1. pc'[i] \in Elsewhere
    BY <1>0, <1>2 DEF Truncate, Cut, CutSync, FreeLock, FreeStep, FreeFails, FreeUnlock,
       Walk, Goto, Leave, Cleanup, TypeOK, Elsewhere
  <2> QED BY <2>1, WalkAway
<1> QED BY <1>1, <1>2

LEMMA WalkOthers ==
  ASSUME Sound, NEW i \in Inodes, Request(i) \/ Step(i), NEW j \in Inodes, j # i
  PROVE  WalkOK(j)'
<1>0. TypeOK /\ WalkOK(j)
  BY DEF Sound, TypeInv, WalkInv
<1>1. pc'[j] = pc[j] /\ loc'[j] = loc[j] /\ cluster'[j] = cluster[j]
  BY <1>0, Frame
<1>2. /\ \A d \in Chain(j) \cup Hung(j) : fat'[d] = fat[d]
      /\ Chain(j)' = Chain(j) /\ Hung(j)' = Hung(j) /\ Length(j)' = Length(j)
  BY Others DEF Length
<1>3. loc[j].dclus \in Chain(j) => ChainFrom(loc[j].dclus)' = ChainFrom(loc[j].dclus)
  <2> SUFFICES ASSUME loc[j].dclus \in Chain(j)
               PROVE  From(fat', loc[j].dclus) = From(fat, loc[j].dclus)
    BY <1>1 DEF ChainFrom, From
  <2>1. From(fat, loc[j].dclus) \subseteq Chain(j)
    BY ChainsAre, FromIn
  <2> QED BY <1>2, <2>1, FromSame
<1> QED BY <1>0, <1>1, <1>2, <1>3 DEF WalkOK

LEMMA WalkInit == Init => WalkInv
  BY DEF Init, WalkInv, WalkOK, Walks

LEMMA WalkNext ==
  ASSUME "chain_io" \notin Faults
  PROVE  Sound /\ [Next]_vars => WalkInv'
<1> SUFFICES ASSUME Sound, [Next]_vars PROVE WalkInv'
  OBVIOUS
<1>1. ASSUME NEW i \in Inodes, Request(i) \/ Step(i)  PROVE WalkInv'
  <2>1. WalkOK(i)'
    BY <1>1, WalkRequests, WalkAlloc, WalkChain, WalkWalk, WalkTruncate DEF Step
  <2> QED BY <1>1, <2>1, WalkOthers DEF WalkInv
<1>2. CASE CountFree \/ UNCHANGED vars
  <2>1. UNCHANGED <<fat, iStart, pc, loc, cluster>>
    BY <1>2 DEF CountFree, vars, inode, locals
  <2>2. ASSUME NEW i \in Inodes  PROVE WalkOK(i)'
    <3>1. Held(i)' = Held(i) /\ WalkOK(i)
      BY <2>1 DEF Held, Sound, WalkInv
    <3>2. /\ Chain(i)' = Chain(i) /\ Hung(i)' = Hung(i) /\ Length(i)' = Length(i)
          /\ ChainFrom(loc[i].dclus)' = ChainFrom(loc[i].dclus)
      BY <2>1, <3>1, ChainsAre DEF Length, ChainFrom
    <3> QED BY <2>1, <3>1, <3>2 DEF WalkOK
  <2> QED BY <2>2 DEF WalkInv
<1> QED BY <1>1, <1>2 DEF Next

LEMMA SoundCorrect == ASSUME "chain_io" \notin Faults  PROVE Spec => []Sound
<1>1. TypeInv /\ OwnInv /\ [Next]_vars => OwnInv'
  BY OwnNext
<1>2. TypeInv /\ OwnInv /\ LabelInv /\ [Next]_vars => LabelInv'
  BY LabelNext
<1>3. Sound /\ [Next]_vars => WalkInv'
  BY WalkNext
<1>4. Init => Sound
  BY TypeInit, OwnInit, LabelInit, WalkInit DEF Sound
<1>5. Sound /\ [Next]_vars => Sound'
  BY <1>1, <1>2, <1>3, TypeNext DEF Sound
<1> QED BY <1>4, <1>5, PTL DEF Spec

-----------------------------------------------------------------------------
(* The chains implement ClusterPool.                                        *)

LEMMA PoolInit == Init => Pool!Init
<1> SUFFICES ASSUME Init PROVE Pool!Init
  OBVIOUS
<1>1. ASSUME NEW i \in Inodes  PROVE Chain(i) = {} /\ Hung(i) = {}
  <2>1. iStart[i] = 0 /\ Held(i) = 0
    BY DEF Init, Held, Holding
  <2> QED BY <2>1, ChainsAre, FromNothing, Marks
<1>2. FreeSet \subseteq Clusters
  BY DEF FreeSet
<1> QED BY <1>1, <1>2 DEF Pool!Init

(* A step of one thread is a step of its inode in the pool, or none.        *)
LEMMA PoolStep ==
  ASSUME Sound, "chain_io" \notin Faults, NEW i \in Inodes, Request(i) \/ Step(i)
  PROVE  Pool!Next \/ UNCHANGED Pool!vars
<1>0. TypeOK /\ OwnInv /\ TypeInv /\ LabelInv
  BY DEF Sound, TypeInv
<1>1. \A j \in Inodes : j # i => Chain(j)' = Chain(j) /\ Hung(j)' = Hung(j)
  BY Others
<1>2. CASE UNCHANGED <<fat, iStart>>
  <2>1. FreeSet' = FreeSet /\ Chain(i)' = Chain(i)
    BY <1>2, Quiet DEF FreeSet
  <2>2. CASE Hung(i)' = Hung(i)
    BY <1>1, <2>1, <2>2 DEF Pool!vars
  <2>3. CASE Hung(i)' = {} /\ Faults # {}
    <3>1. Pool!Leak(i)
      BY <1>1, <2>1, <2>3 DEF Pool!Leak
    <3> QED BY <3>1 DEF Pool!Next
  <2> QED BY <1>2, <2>2, <2>3, Quiet
<1>3. CASE iStart' # iStart
  <2>1. CASE Starts(i)
    <3>1. FreeSet' = FreeSet /\ Chain(i) = {} /\ Chain(i)' = Hung(i) /\ Hung(i)' = {}
      BY <2>1, StartMoves DEF FreeSet
    <3>2. Pool!Attach(i)
      BY <1>1, <3>1 DEF Pool!Attach
    <3> QED BY <3>2 DEF Pool!Next
  <2>2. CASE Clears(i)
    <3>1. FreeSet' = FreeSet /\ Hung(i) = {} /\ Hung(i)' = Chain(i) /\ Chain(i)' = {}
      BY <2>2, ClearMoves DEF FreeSet
    <3>2. Chain(i) \in SUBSET Chain(i)
      OBVIOUS
    <3>3. Pool!Detach(i)
      BY <1>1, <3>1, <3>2 DEF Pool!Detach
    <3> QED BY <3>3 DEF Pool!Next
  <2> QED BY <1>3, <2>1, <2>2, StartSteps
<1>4. CASE fat' # fat
  <2>1. CASE AllocTake(i)
    <3>1. /\ Chain(i)' = Chain(i) /\ Hung(i)' = Hung(i) \cup {Scanned(i)}
          /\ Scanned(i) \in FreeSet /\ FreeSet' = FreeSet \ {Scanned(i)}
      BY <2>1, TakeMoves
    <3>2. Pool!Take(i)
      BY <1>1, <3>1 DEF Pool!Take
    <3> QED BY <3>2 DEF Pool!Next
  <2>2. CASE ChainLink(i) /\ ~AllocTake(i)
    <3>1. FreeSet' = FreeSet
      BY <1>0, <2>2, FreeSame DEF LabelInv, ChainLink, FreeStep
    <3>2. Chain(i)' = Chain(i) \cup Hung(i) /\ Hung(i)' = {}
      BY <1>4, <2>2, LinkMoves
    <3>3. Pool!Attach(i)
      BY <1>1, <3>1, <3>2 DEF Pool!Attach
    <3> QED BY <3>3 DEF Pool!Next
  <2>3. CASE Cut(i) /\ ~AllocTake(i)
    <3>1. FreeSet' = FreeSet
      BY <1>0, <2>3, FreeSame DEF LabelInv, Cut, FreeStep
    <3>2. /\ Hung(i) = {} /\ Hung(i)' \subseteq Chain(i)
          /\ Chain(i)' = Chain(i) \ Hung(i)'
      BY <1>4, <2>3, CutMoves
    <3>3. Pool!Detach(i)
      BY <1>1, <3>1, <3>2 DEF Pool!Detach
    <3> QED BY <3>3 DEF Pool!Next
  <2>4. CASE FreeStep(i)
    <3>1. /\ Chain(i)' = Chain(i)
          /\ cluster[i] \in Hung(i) /\ FreeSet' = FreeSet \cup {cluster[i]}
      BY <2>4, FreeMoves
    <3>2. CASE Hung(i)' = Hung(i) \ {cluster[i]}
      <4>1. Pool!Return(i)
        BY <1>1, <3>1, <3>2 DEF Pool!Return
      <4> QED BY <4>1 DEF Pool!Next
    <3>3. CASE Hung(i)' = {} /\ Faults # {}
      <4>1. Pool!ReturnAndLeak(i)
        BY <1>1, <3>1, <3>3 DEF Pool!ReturnAndLeak
      <4> QED BY <4>1 DEF Pool!Next
    <3> QED BY <2>4, <3>2, <3>3, FreeMoves
  <2> QED BY <1>4, <2>1, <2>2, <2>3, <2>4, TableSteps
<1> QED BY <1>2, <1>3, <1>4

(* The chains implement the pool for every volume and every set of inodes:  *)
(* a cluster passes from free to reserved to owned and back by steps of its *)
(* own inode and is never in two places; without failures none is lost.     *)
THEOREM ChainsArePool ==
  ASSUME "chain_io" \notin Faults  PROVE Spec => ImplementsPool
<1>1. Sound /\ [Next]_vars => [Pool!Next]_(Pool!vars)
  <2> SUFFICES ASSUME Sound, [Next]_vars  PROVE [Pool!Next]_(Pool!vars)
    OBVIOUS
  <2>1. ASSUME NEW i \in Inodes, Request(i) \/ Step(i)
        PROVE  Pool!Next \/ UNCHANGED Pool!vars
    BY <2>1, PoolStep
  <2>2. CASE CountFree \/ UNCHANGED vars
    <3>1. UNCHANGED <<fat, iStart, pc, cluster>>
      BY <2>2 DEF CountFree, vars, inode, locals
    <3>2. ASSUME NEW i \in Inodes  PROVE Chain(i)' = Chain(i) /\ Hung(i)' = Hung(i)
      <4>1. Held(i)' = Held(i)
        BY <3>1 DEF Held
      <4> QED BY <3>1, <4>1, ChainsAre
    <3>3. FreeSet' = FreeSet
      BY <3>1 DEF FreeSet
    <3> QED BY <3>2, <3>3 DEF Pool!vars
  <2> QED BY <2>1, <2>2 DEF Next
<1> QED BY <1>1, PoolInit, SoundCorrect, PTL DEF Spec, ImplementsPool, Pool!Spec

-----------------------------------------------------------------------------
(* Sizes in blocks and in clusters.                                         *)

LEMMA CeilNat == ASSUME NEW a \in Nat  PROVE Ceil(a) \in Nat /\ (Ceil(a) = 0 <=> a = 0)
  BY SizeAssumption, SMT DEF Ceil

LEMMA CeilMono == ASSUME NEW a \in Nat, NEW b \in Nat, a <= b  PROVE Ceil(a) <= Ceil(b)
  BY SizeAssumption, SMT DEF Ceil

LEMMA CeilMore ==
  ASSUME NEW a \in Nat, NEW k \in Nat
  PROVE  /\ a + k * SecPerClus \in Nat
         /\ Ceil(a + k * SecPerClus) = Ceil(a) + k
  BY SizeAssumption, SMT DEF Ceil

(* The next block begins a cluster, or lies within the last one.            *)
LEMMA CeilFull ==
  ASSUME NEW a \in Nat, a % SecPerClus = 0
  PROVE  Ceil(a + 1) = Ceil(a) + 1 /\ Ceil(a) = a \div SecPerClus
  BY SizeAssumption, SMT DEF Ceil

LEMMA CeilWithin ==
  ASSUME NEW a \in Nat, a % SecPerClus # 0
  PROVE  Ceil(a + 1) = Ceil(a) /\ Ceil(a) = (a \div SecPerClus) + 1
  BY SizeAssumption, SMT DEF Ceil

LEMMA SizeFrame ==
  ASSUME TypeOK, NEW i \in Inodes, Request(i) \/ Step(i), NEW j \in Inodes, j # i
  PROVE  /\ iSize'[j] = iSize[j] /\ mmuPrivate'[j] = mmuPrivate[j]
         /\ iBlocks'[j] = iBlocks[j] /\ goal'[j] = goal[j]
<1> USE DEF TypeOK, counters, inode, locals, Leave, Walk, Cleanup
<1>1. CASE WriteBegin(i) \/ DirGrow(i) \/ Shrink(i)
  BY <1>1 DEF WriteBegin, DirGrow, Shrink
<1>2. CASE GetBlock(i) \/ WriteEnd(i)
  BY <1>2 DEF GetBlock, WriteEnd
<1>3. CASE AllocLock(i) \/ AllocTake(i) \/ AllocSkip(i) \/ AllocFull(i)
  BY <1>3 DEF AllocLock, AllocTake, AllocSkip, AllocFull
<1>4. CASE AllocReadFails(i) \/ AllocUnlock(i) \/ AllocMirror(i)
  BY <1>4 DEF AllocReadFails, AllocUnlock, AllocMirror
<1>5. CASE ChainAdd(i) \/ ChainLink(i) \/ ChainSync(i) \/ ChainEnd(i)
  BY <1>5 DEF ChainAdd, ChainLink, ChainSync, ChainEnd, Grown
<1>6. CASE WalkStep(i) \/ WalkFails(i) \/ WalkEof(i) \/ WalkDone(i)
  BY <1>6 DEF WalkStep, WalkFails, WalkEof, WalkDone
<1>7. CASE Truncate(i) \/ Cut(i) \/ CutSync(i)
  BY <1>7 DEF Truncate, StartCleared, Cut, CutSync
<1>8. CASE FreeLock(i) \/ FreeStep(i) \/ FreeFails(i) \/ FreeUnlock(i)
  BY <1>8 DEF FreeLock, FreeStep, FreeFails, FreeUnlock
<1> QED BY <1>1, <1>2, <1>3, <1>4, <1>5, <1>6, <1>7, <1>8 DEF Request, Step

LEMMA LengthNat == ASSUME NEW i \in Inodes  PROVE Length(i) \in Nat /\ Length(i)' \in Nat
  BY ChainsAre, FromSize DEF Length

(* How long the chain of a thread's inode is after a step.                  *)
LEMMA Lengths ==
  ASSUME Sound, "chain_io" \notin Faults, NEW i \in Inodes, Request(i) \/ Step(i)
  PROVE  /\ UNCHANGED <<fat, iStart>> \/ AllocTake(i) \/ FreeStep(i) => Length(i)' = Length(i)
         /\ Starts(i) => Length(i) = 0 /\ Length(i)' = Cardinality(Hung(i)) /\ Length(i)' > 0
         /\ Clears(i) => Length(i)' = 0
         /\ ChainLink(i) /\ fat' # fat => Length(i)' = Length(i) + loc[i].req
         /\ Cut(i) /\ fat' # fat => Length(i)' = loc[i].fclus + 1
<1>0. TypeOK /\ OwnInv /\ WalkOK(i) /\ LocalOK(i)
  BY DEF Sound, TypeInv, WalkInv
<1>1. UNCHANGED <<fat, iStart>> \/ AllocTake(i) \/ FreeStep(i) => Length(i)' = Length(i)
  BY Quiet, TakeMoves, FreeMoves DEF Length
<1>2. ASSUME Starts(i)
      PROVE  Length(i) = 0 /\ Length(i)' = Cardinality(Hung(i)) /\ Length(i)' > 0
  <2>1. Length(i) = 0 /\ Length(i)' = Cardinality(Hung(i))
    BY <1>2, StartMoves, FS_EmptySet DEF Length
  <2>2. cluster[i] \in Clusters /\ Held(i) = cluster[i]
    BY <1>0, <1>2 DEF Starts, AllocMirror, ChainAdd, LocalOK, HasCluster
  <2> QED BY <2>1, <2>2, ChainsAre, FromSize
<1>3. Clears(i) => Length(i)' = 0
  BY ClearMoves, FS_EmptySet DEF Length
<1>4. ASSUME ChainLink(i), fat' # fat  PROVE Length(i)' = Length(i) + loc[i].req
  <2>1. Chain(i)' = Chain(i) \cup Hung(i)
    BY <1>4, LinkMoves
  <2>2. Chain(i) \cap Hung(i) = {} /\ Cardinality(Hung(i)) = loc[i].req
    BY <1>0, <1>4, Disjoint DEF WalkOK, ChainLink
  <2>3. IsFiniteSet(Chain(i)) /\ IsFiniteSet(Hung(i))
    BY ChainsAre, FromSize
  <2>4. Cardinality(Chain(i) \cup Hung(i)) = Cardinality(Chain(i)) + Cardinality(Hung(i))
    <3>1. Cardinality(Chain(i) \cap Hung(i)) = 0
      BY <2>2, FS_EmptySet
    <3>2. Cardinality(Chain(i) \cup Hung(i))
            = Cardinality(Chain(i)) + Cardinality(Hung(i)) - Cardinality(Chain(i) \cap Hung(i))
      BY <2>3, FS_Union
    <3>3. Cardinality(Chain(i)) \in Nat /\ Cardinality(Hung(i)) \in Nat
      BY ChainsAre, FromSize
    <3> QED BY <3>1, <3>2, <3>3
  <2> QED BY <2>1, <2>2, <2>4 DEF Length
<1>5. Cut(i) /\ fat' # fat => Length(i)' = loc[i].fclus + 1
  BY CutMoves
<1> QED BY <1>1, <1>2, <1>3, <1>4, <1>5

(* While a cluster is sought and linked; the places of a thread that has    *)
(* not yet changed its chain for good.                                      *)
Growing == {"a_lock", "a_scan", "a_unlock", "a_mirror", "chain", "walk_end", "link",
            "link_sync", "chain_end"}
Freeing == {"f_lock", "f_step", "f_unlock"}

(* The chain always backs the blocks up to mmu_private, and mmu_private is  *)
(* i_size unless a write or a truncation is under way.                      *)
BackedOK(i) ==
    /\ iSize[i] <= mmuPrivate[i]
    /\ Ceil(mmuPrivate[i]) <= Length(i)
    /\ goal[i] = 0 /\ pc[i] # "trunc" => mmuPrivate[i] = iSize[i]
    /\ pc[i] \in {"block", "walk_map"} => goal[i] > 0
    /\ pc[i] \in {"idle", "trunc", "walk_cut", "cut", "cut_sync"} => goal[i] = 0
    /\ goal[i] > 0 => i \notin Dirs /\ mmuPrivate[i] <= goal[i]
    /\ pc[i] \in Growing =>
         IF goal[i] = 0 THEN i \in Dirs
         ELSE mmuPrivate[i] % SecPerClus = 0 /\ loc[i].req = 1 /\ mmuPrivate[i] < goal[i]
    /\ pc[i] \in {"link_sync", "chain_end"} => Ceil(mmuPrivate[i]) + loc[i].req <= Length(i)
    /\ pc[i] \in {"walk_cut", "cut"} => loc[i].target + 1 = Ceil(iSize[i])
    /\ pc[i] \in {"walk_cut", "walk_map", "cut"} => loc[i].fclus <= loc[i].target
    /\ pc[i] = "cut" => loc[i].fclus = loc[i].target
BackedInv == \A i \in Inodes : BackedOK(i)

KeepsSizes(i) == /\ iSize'[i] = iSize[i] /\ mmuPrivate'[i] = mmuPrivate[i]
                 /\ goal'[i] = goal[i]

(* A step inside the allocation or the linking.                             *)
LEMMA BackedGrow ==
  ASSUME TypeOK, NEW i \in Inodes, BackedOK(i), KeepsSizes(i),
         pc[i] \in Growing, pc'[i] \in Growing, loc'[i].req = loc[i].req,
         Length(i) <= Length(i)',
         pc'[i] \in {"link_sync", "chain_end"} =>
           Ceil(mmuPrivate[i]) + loc[i].req <= Length(i)'
  PROVE  BackedOK(i)'
<1>1. Ceil(mmuPrivate[i])' = Ceil(mmuPrivate[i])
  BY DEF KeepsSizes, Ceil
<1>2. Ceil(mmuPrivate[i]) <= Length(i)'
  BY LengthNat, CeilNat DEF BackedOK, TypeOK
<1> QED BY <1>1, <1>2 DEF BackedOK, KeepsSizes, Growing

(* A step that ends an operation.                                           *)
LEMMA BackedLeave ==
  ASSUME TypeOK, NEW i \in Inodes, Leave(i), iSize'[i] <= mmuPrivate'[i],
         Ceil(mmuPrivate'[i]) <= Length(i)', goal[i] = 0 => mmuPrivate'[i] = iSize'[i]
  PROVE  BackedOK(i)'
<1>1. /\ goal'[i] = 0 /\ pc'[i] = IF goal[i] > 0 THEN "trunc" ELSE "idle"
      /\ goal[i] \in Nat
  BY DEF Leave, Goto, TypeOK
<1>2. Ceil(mmuPrivate[i])' = Ceil(mmuPrivate'[i])
  BY DEF Ceil
<1> QED BY <1>1, <1>2 DEF BackedOK, Growing

(* A step inside fat_free_clusters.                                         *)
LEMMA BackedFree ==
  ASSUME TypeOK, NEW i \in Inodes, pc'[i] \in Freeing, goal'[i] = goal[i],
         iSize'[i] <= mmuPrivate'[i], Ceil(mmuPrivate'[i]) <= Length(i)',
         goal[i] = 0 => mmuPrivate'[i] = iSize'[i],
         goal[i] > 0 => i \notin Dirs /\ mmuPrivate'[i] <= goal[i]
  PROVE  BackedOK(i)'
<1>1. Ceil(mmuPrivate[i])' = Ceil(mmuPrivate'[i])
  BY DEF Ceil
<1> QED BY <1>1 DEF BackedOK, Growing, Freeing

LEMMA BackedRequests ==
  ASSUME Sound, "chain_io" \notin Faults, NEW i \in Inodes, BackedOK(i), Request(i)
  PROVE  BackedOK(i)'
<1>0. TypeOK /\ loc[i] \in LocType /\ iSize[i] \in Nat /\ mmuPrivate[i] \in Nat
  BY DEF Sound, TypeInv, TypeOK
<1>1. Length(i)' = Length(i)
  BY Lengths DEF Request, WriteBegin, DirGrow, Shrink, inode
<1>2. pc[i] = "idle" /\ goal[i] = 0 /\ mmuPrivate[i] = iSize[i] /\ mmuPrivate' = mmuPrivate
  BY DEF Request, WriteBegin, DirGrow, Shrink, inode, BackedOK
<1>3. Ceil(mmuPrivate[i])' = Ceil(mmuPrivate[i])
  BY <1>2 DEF Ceil
<1>4. CASE WriteBegin(i)
  <2>1. pc'[i] = "block" /\ goal'[i] > iSize[i] /\ goal'[i] \in Nat /\ iSize' = iSize
    <3>1. PICK size \in (iSize[i] + 1)..MaxBlocks : goal' = [goal EXCEPT ![i] = size]
      BY <1>4 DEF WriteBegin
    <3>2. goal'[i] = size
      BY <1>0, <3>1 DEF TypeOK
    <3> QED BY <1>0, <1>4, <3>1, <3>2, SizeAssumption DEF WriteBegin, Goto, TypeOK, inode
  <2>2. i \notin Dirs
    BY <1>4 DEF WriteBegin
  <2> QED BY <1>0, <1>1, <1>2, <1>3, <2>1, <2>2 DEF BackedOK, Growing
<1>5. CASE DirGrow(i)
  <2>1. pc'[i] = "a_lock" /\ goal' = goal /\ iSize' = iSize /\ i \in Dirs
    BY <1>0, <1>5 DEF DirGrow, Goto, TypeOK, inode
  <2> QED BY <1>0, <1>1, <1>2, <1>3, <2>1 DEF BackedOK, Growing
<1>6. CASE Shrink(i)
  <2>1. pc'[i] = "trunc" /\ goal' = goal
    BY <1>0, <1>6 DEF Shrink, Goto, TypeOK, locals
  <2>2. iSize'[i] <= iSize[i] /\ iSize'[i] \in Nat
    <3>1. PICK size \in (IF i \in Dirs \/ ~Writable THEN {0} ELSE 0..iSize[i]) :
            iSize' = [iSize EXCEPT ![i] = size]
      BY <1>6 DEF Shrink
    <3>2. iSize'[i] = size /\ size \in 0..iSize[i]
      BY <1>0, <3>1 DEF TypeOK
    <3> QED BY <1>0, <3>2
  <2> QED BY <1>0, <1>1, <1>2, <1>3, <2>1, <2>2 DEF BackedOK, Growing
<1> QED BY <1>4, <1>5, <1>6 DEF Request

LEMMA BackedWrite ==
  ASSUME Sound, "chain_io" \notin Faults, NEW i \in Inodes, BackedOK(i),
         GetBlock(i) \/ WriteEnd(i)
  PROVE  BackedOK(i)'
<1>0. /\ TypeOK /\ loc[i] \in LocType /\ iSize[i] \in Nat /\ mmuPrivate[i] \in Nat
      /\ goal[i] \in Nat /\ Step(i)
  BY DEF Sound, TypeInv, TypeOK, Step
<1>1. Length(i)' = Length(i)
  BY <1>0, Lengths DEF GetBlock, WriteEnd, inode
<1>2. pc[i] = "block" /\ goal[i] > 0 /\ i \notin Dirs
  BY DEF GetBlock, WriteEnd, BackedOK
<1>3. CASE GetBlock(i) /\ mmuPrivate[i] % SecPerClus = 0
  <2>1. /\ pc'[i] = "a_lock" /\ KeepsSizes(i) /\ loc'[i].req = 1 /\ mmuPrivate[i] < goal[i]
    BY <1>0, <1>3 DEF GetBlock, Goto, TypeOK, LocType, KeepsSizes
  <2>2. Ceil(mmuPrivate[i])' = Ceil(mmuPrivate[i])
    BY <2>1 DEF KeepsSizes, Ceil
  <2> QED BY <1>0, <1>1, <1>2, <1>3, <2>1, <2>2 DEF BackedOK, Growing, KeepsSizes
<1>4. CASE GetBlock(i) /\ mmuPrivate[i] % SecPerClus # 0
  <2>1. /\ pc'[i] = "walk_map" /\ iSize' = iSize /\ goal' = goal
        /\ mmuPrivate'[i] = mmuPrivate[i] + 1 /\ mmuPrivate[i] < goal[i]
        /\ loc'[i].fclus = 0 /\ loc'[i].target = mmuPrivate[i] \div SecPerClus
    BY <1>0, <1>4 DEF GetBlock, Walk, Goto, TypeOK, LocType
  <2>2. Ceil(mmuPrivate[i])' = Ceil(mmuPrivate[i] + 1)
    BY <2>1 DEF Ceil
  <2>3. Ceil(mmuPrivate[i])' = Ceil(mmuPrivate[i])
    BY <1>0, <1>4, <2>2, CeilWithin
  <2>4. loc'[i].target \in Nat
    BY <1>0, <2>1, DivNat, SizeAssumption
  <2> QED BY <1>0, <1>1, <1>2, <2>1, <2>3, <2>4 DEF BackedOK, Growing
<1>5. CASE WriteEnd(i)
  <2>1. PICK size \in iSize[i]..goal[i] :
          /\ iSize' = [iSize EXCEPT ![i] = size]
          /\ Goto(i, IF size < goal[i] THEN "trunc" ELSE "idle")
    BY <1>5 DEF WriteEnd
  <2>2. /\ iSize'[i] = size /\ size \in Nat /\ size <= goal[i] /\ goal'[i] = 0
        /\ mmuPrivate'[i] = mmuPrivate[i] /\ mmuPrivate[i] = goal[i]
        /\ pc'[i] = IF size < goal[i] THEN "trunc" ELSE "idle"
    BY <1>0, <1>2, <1>5, <2>1 DEF WriteEnd, Goto, TypeOK, BackedOK
  <2>3. Ceil(mmuPrivate[i])' = Ceil(mmuPrivate[i])
    BY <2>2 DEF Ceil
  <2> QED BY <1>0, <1>1, <2>2, <2>3 DEF BackedOK, Growing
<1> QED BY <1>3, <1>4, <1>5

LEMMA BackedAlloc ==
  ASSUME Sound, "chain_io" \notin Faults, NEW i \in Inodes, BackedOK(i),
         AllocLock(i) \/ AllocTake(i) \/ AllocSkip(i) \/ AllocFull(i) \/ AllocReadFails(i)
         \/ AllocUnlock(i) \/ AllocMirror(i)
  PROVE  BackedOK(i)'
<1>0. /\ TypeOK /\ loc[i] \in LocType /\ iSize[i] \in Nat /\ mmuPrivate[i] \in Nat
      /\ goal[i] \in Nat /\ Step(i)
  BY DEF Sound, TypeInv, TypeOK, Step
<1>a. /\ pc[i] \in Growing \ {"link_sync", "chain_end"}
      /\ goal[i] = 0 => mmuPrivate[i] = iSize[i]
      /\ goal[i] > 0 => i \notin Dirs /\ mmuPrivate[i] <= goal[i]
      /\ iSize[i] <= mmuPrivate[i] /\ Ceil(mmuPrivate[i]) <= Length(i)
  BY DEF AllocLock, AllocTake, AllocSkip, AllocFull, AllocReadFails, AllocUnlock, AllocMirror,
     Growing, BackedOK
<1>1. CASE inode' = inode
  <2>1. Length(i)' = Length(i)
    <3>1. AllocTake(i) \/ fat' = fat
      BY DEF AllocLock, AllocSkip, AllocFull, AllocReadFails, AllocUnlock, AllocMirror
    <3> QED BY <1>0, <1>1, <3>1, Lengths DEF inode
  <2>2. iSize' = iSize /\ mmuPrivate' = mmuPrivate
    BY <1>1 DEF inode
  <2>3. Ceil(mmuPrivate'[i]) = Ceil(mmuPrivate[i])
    BY <2>2
  <2>4. CASE Leave(i)
    BY <1>0, <1>a, <2>1, <2>2, <2>4, BackedLeave
  <2>5. CASE ~Leave(i) /\ pc'[i] \in Freeing
    <3>1. goal' = goal
      BY <1>0, <2>5 DEF AllocLock, AllocTake, AllocSkip, AllocFull, AllocReadFails,
         AllocUnlock, AllocMirror, Goto, locals, TypeOK
    <3> QED BY <1>0, <1>a, <2>1, <2>2, <2>5, <3>1, BackedFree
  <2>6. CASE ~Leave(i) /\ pc'[i] \notin Freeing
    <3>1. /\ goal' = goal /\ pc'[i] \in Growing \ {"link_sync", "chain_end"}
          /\ loc'[i].req = loc[i].req
      BY <1>0, <2>6 DEF AllocLock, AllocTake, AllocSkip, AllocFull, AllocReadFails,
         AllocUnlock, AllocMirror, Goto, Cleanup, locals, TypeOK, LocType, Growing, Freeing
    <3>2. KeepsSizes(i) /\ Length(i) <= Length(i)'
      BY <2>1, <2>2, <3>1, LengthNat DEF KeepsSizes
    <3> QED BY <1>0, <1>a, <3>1, <3>2, BackedGrow
  <2> QED BY <2>4, <2>5, <2>6
<1>2. CASE inode' # inode
  <2>1. /\ AllocMirror(i) /\ Leave(i) /\ iStart[i] = 0
        /\ iStart' = [iStart EXCEPT ![i] = cluster[i]]
        /\ iSize'[i] = SecPerClus /\ mmuPrivate'[i] = SecPerClus /\ i \in Dirs
    BY <1>0, <1>2 DEF AllocLock, AllocTake, AllocSkip, AllocFull, AllocReadFails,
       AllocUnlock, AllocMirror, TypeOK, inode
  <2>2. Starts(i)
    BY <1>0, <2>1 DEF Starts, AllocMirror, Leave, Goto, Held, Holding, TypeOK
  <2>3. Length(i)' > 0 /\ Length(i)' \in Nat
    BY <1>0, <2>2, Lengths, LengthNat
  <2>4. Ceil(SecPerClus) = 1 /\ SecPerClus \in Nat
    BY CeilMore, CeilNat, SizeAssumption, 0 + 1 * SecPerClus = SecPerClus
  <2> QED BY <1>0, <1>a, <2>1, <2>3, <2>4, BackedLeave
<1> QED BY <1>1, <1>2

LEMMA BackedChain ==
  ASSUME Sound, "chain_io" \notin Faults, NEW i \in Inodes, BackedOK(i),
         ChainAdd(i) \/ ChainLink(i) \/ ChainSync(i) \/ ChainEnd(i)
  PROVE  BackedOK(i)'
<1>0. /\ TypeOK /\ loc[i] \in LocType /\ iSize[i] \in Nat /\ mmuPrivate[i] \in Nat
      /\ goal[i] \in Nat /\ Step(i) /\ WalkOK(i) /\ loc[i].req \in Nat
  BY DEF Sound, TypeInv, TypeOK, Step, WalkInv, LocType
<1>a. /\ pc[i] \in Growing
      /\ goal[i] = 0 => mmuPrivate[i] = iSize[i]
      /\ goal[i] > 0 => i \notin Dirs /\ mmuPrivate[i] <= goal[i]
      /\ iSize[i] <= mmuPrivate[i] /\ Ceil(mmuPrivate[i]) <= Length(i)
  BY DEF ChainAdd, ChainLink, ChainSync, ChainEnd, Growing, BackedOK
<1>b. Length(i) \in Nat /\ Length(i)' \in Nat /\ Ceil(mmuPrivate[i]) \in Nat
  BY <1>0, LengthNat, CeilNat
<1>1. CASE ChainAdd(i) /\ iStart[i] = 0
  <2>1. /\ pc[i] = "chain" /\ pc'[i] = "chain_end" /\ KeepsSizes(i) /\ loc'[i].req = loc[i].req
    BY <1>0, <1>1 DEF ChainAdd, Goto, TypeOK, LocType, KeepsSizes
  <2>2. Starts(i)
    BY <1>0, <1>1, <2>1 DEF Starts, ChainAdd, Held, Holding
  <2>3. Length(i) = 0 /\ Length(i)' = loc[i].req
    BY <1>0, <2>1, <2>2, Lengths DEF WalkOK
  <2> QED BY <1>0, <1>a, <1>b, <2>1, <2>3, BackedGrow DEF Growing
<1>2. CASE ChainAdd(i) /\ iStart[i] # 0
  <2>1. /\ pc'[i] = "walk_end" /\ KeepsSizes(i) /\ loc'[i].req = loc[i].req
        /\ UNCHANGED <<fat, iStart>>
    BY <1>0, <1>2 DEF ChainAdd, Walk, Goto, TypeOK, LocType, KeepsSizes
  <2> QED BY <1>0, <1>a, <1>b, <2>1, Lengths, BackedGrow DEF Growing
<1>3. CASE ChainLink(i) /\ fat' # fat
  <2>1. /\ pc'[i] = "link_sync" /\ KeepsSizes(i) /\ loc' = loc
    BY <1>0, <1>3, LinkMoves DEF ChainLink, KeepsSizes, inode, locals
  <2>2. Length(i)' = Length(i) + loc[i].req
    BY <1>0, <1>3, Lengths
  <2> QED BY <1>0, <1>a, <1>b, <2>1, <2>2, BackedGrow DEF Growing
<1>4. CASE ChainLink(i) /\ fat' = fat
  <2>1. /\ pc'[i] \in {"f_lock", "link_sync"} /\ UNCHANGED <<fat, inode, locals>>
        /\ pc[i] = "link"
    BY <1>0, <1>4 DEF ChainLink, Goto, Cleanup, TypeOK
  <2>2. pc'[i] = "f_lock"
    <3> SUFFICES ASSUME pc'[i] = "link_sync"  PROVE FALSE
      BY <2>1
    <3>1. /\ loc[i].dclus \in Clusters /\ fat' = [fat EXCEPT ![loc[i].dclus] = cluster[i]]
      BY <1>0, <1>4 DEF ChainLink, Goto, Cleanup, TypeOK
    <3>2. fat[loc[i].dclus] \notin Clusters /\ cluster[i] \in Clusters
      BY <1>0, <2>1, <3>1 DEF WalkOK, Sound, TypeInv, LocalOK, HasCluster
    <3>3. fat'[loc[i].dclus] = cluster[i]
      BY <1>0, <3>1 DEF TypeOK
    <3> QED BY <1>4, <3>2, <3>3
  <2>3. Length(i)' = Length(i)
    BY <1>0, <2>1, Lengths DEF inode
  <2> QED BY <1>0, <1>a, <2>1, <2>2, <2>3, BackedFree DEF Freeing, inode, locals
<1>5. CASE ChainSync(i)
  <2>1. /\ pc[i] = "link_sync" /\ pc'[i] = "chain_end" /\ KeepsSizes(i)
        /\ loc'[i].req = loc[i].req /\ UNCHANGED <<fat, iStart>>
    BY <1>0, <1>5 DEF ChainSync, Goto, TypeOK, LocType, KeepsSizes, inode
  <2>2. Length(i)' = Length(i) /\ Ceil(mmuPrivate[i]) + loc[i].req <= Length(i)
    BY <1>0, <2>1, Lengths DEF BackedOK
  <2> QED BY <1>0, <1>a, <1>b, <2>1, <2>2, BackedGrow DEF Growing
<1>6. CASE ChainEnd(i)
  <2>1. /\ pc[i] = "chain_end" /\ UNCHANGED <<fat, iStart>>
    BY <1>6 DEF ChainEnd, Grown
  <2>2. Length(i)' = Length(i) /\ Ceil(mmuPrivate[i]) + loc[i].req <= Length(i)
    BY <1>0, <2>1, Lengths DEF BackedOK
  <2>3. CASE i \in Dirs
    <3>1. /\ goal[i] = 0 /\ Leave(i)
          /\ iSize'[i] = iSize[i] + loc[i].req * SecPerClus
          /\ mmuPrivate'[i] = mmuPrivate[i] + loc[i].req * SecPerClus
      BY <1>0, <1>6, <1>a, <2>3 DEF ChainEnd, Grown, TypeOK
    <3>2. Ceil(mmuPrivate'[i]) <= Length(i)' /\ mmuPrivate'[i] \in Nat
      BY <1>0, <2>2, <3>1, CeilMore
    <3> QED BY <1>0, <1>a, <3>1, <3>2, BackedLeave
  <2>4. CASE i \notin Dirs
    <3>1. /\ pc'[i] = "walk_map" /\ iSize' = iSize /\ goal' = goal
          /\ mmuPrivate'[i] = mmuPrivate[i] + 1
          /\ loc'[i].fclus = 0 /\ loc'[i].target = mmuPrivate[i] \div SecPerClus
      BY <1>0, <1>6, <2>4 DEF ChainEnd, Grown, Walk, Goto, TypeOK, LocType
    <3>2. /\ goal[i] > 0 /\ mmuPrivate[i] % SecPerClus = 0 /\ loc[i].req = 1
          /\ mmuPrivate[i] < goal[i]
      BY <1>0, <1>a, <2>4 DEF BackedOK
    <3>3. Ceil(mmuPrivate[i])' = Ceil(mmuPrivate[i] + 1)
      BY <3>1 DEF Ceil
    <3>4. Ceil(mmuPrivate[i])' = Ceil(mmuPrivate[i]) + 1
      BY <1>0, <3>2, <3>3, CeilFull
    <3>5. loc'[i].target \in Nat
      BY <1>0, <3>1, DivNat, SizeAssumption
    <3> QED BY <1>0, <1>a, <1>b, <2>2, <2>4, <3>1, <3>2, <3>4, <3>5 DEF BackedOK, Growing
  <2> QED BY <2>3, <2>4
<1> QED BY <1>1, <1>2, <1>3, <1>4, <1>5, <1>6

LEMMA BackedWalk ==
  ASSUME Sound, "chain_io" \notin Faults, NEW i \in Inodes, BackedOK(i),
         WalkStep(i) \/ WalkFails(i) \/ WalkEof(i) \/ WalkDone(i)
  PROVE  BackedOK(i)'
<1>0. /\ TypeOK /\ loc[i] \in LocType /\ iSize[i] \in Nat /\ mmuPrivate[i] \in Nat
      /\ goal[i] \in Nat /\ Step(i)
  BY DEF Sound, TypeInv, TypeOK, Step
<1>a. /\ pc[i] \in Walks
      /\ goal[i] = 0 => mmuPrivate[i] = iSize[i]
      /\ goal[i] > 0 => i \notin Dirs /\ mmuPrivate[i] <= goal[i]
      /\ iSize[i] <= mmuPrivate[i] /\ Ceil(mmuPrivate[i]) <= Length(i)
  BY DEF WalkStep, WalkFails, WalkEof, WalkDone, Walking, Walks, BackedOK
<1>b. UNCHANGED <<fat, iStart, iSize, mmuPrivate>>
  BY DEF WalkStep, WalkFails, WalkEof, WalkDone, inode
<1>c. /\ Length(i)' = Length(i) /\ Length(i) \in Nat
      /\ Ceil(mmuPrivate[i])' = Ceil(mmuPrivate[i])
      /\ Ceil(iSize[i])' = Ceil(iSize[i])
  BY <1>0, <1>b, Lengths, LengthNat DEF Ceil
<1>1. CASE Leave(i)
  BY <1>0, <1>1, <1>a, <1>b, <1>c, BackedLeave
<1>2. CASE pc'[i] = "f_lock" /\ ~Leave(i)
  <2>1. goal' = goal
    BY <1>0, <1>2, <1>a DEF WalkStep, WalkFails, WalkEof, WalkDone, Walks, Goto, TypeOK, locals
  <2> QED BY <1>0, <1>2, <1>a, <1>b, <1>c, <2>1, BackedFree DEF Freeing
<1>3. CASE pc'[i] # "f_lock" /\ ~Leave(i) /\ pc[i] = "walk_end"
  <2>1. goal' = goal /\ pc'[i] \in {"walk_end", "link"} /\ loc'[i].req = loc[i].req
    BY <1>0, <1>3, <1>b DEF WalkStep, WalkFails, WalkEof, WalkDone, Walking, Goto, Cleanup,
       TypeOK, LocType, locals
  <2>2. KeepsSizes(i) /\ Length(i) <= Length(i)'
    BY <1>b, <1>c, <2>1 DEF KeepsSizes
  <2> QED BY <1>0, <1>3, <2>1, <2>2, BackedGrow DEF Growing
<1>4. CASE ~Leave(i) /\ pc[i] # "walk_end"
  <2>1. /\ goal' = goal /\ loc'[i].target = loc[i].target
        /\ loc'[i].fclus \in Nat /\ loc'[i].fclus <= loc[i].target
        /\ \/ pc'[i] = pc[i]
           \/ pc[i] = "walk_map" /\ pc'[i] = "block"
           \/ pc[i] = "walk_cut" /\ pc'[i] = "cut" /\ loc'[i].fclus = loc[i].target
    <3>1. CASE WalkStep(i)
      BY <1>0, <1>4, <3>1 DEF WalkStep, Walking, TypeOK, LocType
    <3>2. CASE WalkDone(i)
      <4>1. loc[i].fclus \in Nat /\ loc[i].target \in Nat
        BY <1>0 DEF LocType
      <4>2. loc[i].fclus <= loc[i].target /\ loc[i].fclus >= loc[i].target
        BY <1>4, <1>a, <3>2 DEF WalkDone, Walks, BackedOK
      <4>3. goal' = goal /\ loc' = loc /\ pc'[i] = IF pc[i] = "walk_cut" THEN "cut" ELSE "block"
        BY <1>0, <1>4, <1>a, <3>2 DEF WalkDone, Walks, Goto, TypeOK, locals
      <4> QED BY <1>4, <1>a, <4>1, <4>2, <4>3 DEF Walks
    <3> QED BY <1>4, <3>1, <3>2 DEF WalkFails, WalkEof
  <2>2. loc[i].target + 1 = Ceil(iSize[i]) \/ pc[i] = "walk_map"
    BY <1>4, <1>a DEF BackedOK, Walks
  <2>3. pc[i] \in {"walk_cut", "walk_map"}
    BY <1>4, <1>a DEF Walks
  <2>4. /\ pc[i] = "walk_cut" => goal[i] = 0
        /\ pc[i] = "walk_map" => goal[i] > 0
    BY DEF BackedOK
  <2>5. KeepsSizes(i)
    BY <1>b, <2>1 DEF KeepsSizes
  <2> QED BY <1>a, <1>c, <2>1, <2>2, <2>3, <2>4, <2>5 DEF BackedOK, Growing, KeepsSizes
<1> QED BY <1>1, <1>2, <1>3, <1>4

LEMMA BackedTruncate ==
  ASSUME Sound, "chain_io" \notin Faults, NEW i \in Inodes, BackedOK(i),
         Truncate(i) \/ Cut(i) \/ CutSync(i)
  PROVE  BackedOK(i)'
<1>0. /\ TypeOK /\ loc[i] \in LocType /\ iSize[i] \in Nat /\ mmuPrivate[i] \in Nat
      /\ goal[i] = 0 /\ Step(i) /\ iSize[i] <= mmuPrivate[i] /\ iSize' = iSize
  BY DEF Sound, TypeInv, TypeOK, Step, Truncate, Cut, CutSync, BackedOK, inode
<1>a. mmuPrivate'[i] = iSize[i] /\ iSize'[i] = iSize[i]
  BY <1>0 DEF Truncate, Cut, CutSync, BackedOK, TypeOK, Lesser, inode
<1>b. /\ Ceil(mmuPrivate'[i]) = Ceil(iSize[i]) /\ Ceil(mmuPrivate[i])' = Ceil(iSize[i])
      /\ Ceil(iSize[i])' = Ceil(iSize[i]) /\ Ceil(iSize[i]) \in Nat
      /\ Length(i) \in Nat /\ Length(i)' \in Nat
  BY <1>0, <1>a, LengthNat, CeilNat DEF Ceil
<1>c. Ceil(iSize[i]) <= Length(i)
  <2>1. Ceil(iSize[i]) <= Ceil(mmuPrivate[i]) /\ Ceil(mmuPrivate[i]) <= Length(i)
    BY <1>0, CeilMono DEF BackedOK
  <2> QED BY <1>0, <1>b, <2>1, CeilNat
<1>d. Ceil(iSize[i]) <= Length(i)'
  <2>1. CASE UNCHANGED <<fat, iStart>>
    BY <1>0, <1>b, <1>c, <2>1, Lengths
  <2>2. CASE Cut(i) /\ fat' # fat
    <3>1. Length(i)' = loc[i].fclus + 1
      BY <1>0, <2>2, Lengths
    <3>2. loc[i].fclus = loc[i].target /\ loc[i].target + 1 = Ceil(iSize[i])
      BY <2>2 DEF Cut, BackedOK
    <3> QED BY <1>b, <3>1, <3>2
  <2>3. CASE iStart' # iStart
    <3>1. Ceil(iSize[i]) = 0
      BY <2>3 DEF Truncate, Walk, Cut, CutSync, inode
    <3> QED BY <1>b, <3>1
  <2> QED BY <2>1, <2>2, <2>3 DEF Truncate, Cut, CutSync, inode
<1>1. CASE Leave(i)
  BY <1>0, <1>1, <1>a, <1>b, <1>d, BackedLeave
<1>2. CASE ~Leave(i) /\ pc'[i] = "f_lock"
  <2>1. goal' = goal
    BY <1>0, <1>2 DEF Truncate, Cut, CutSync, Walk, Goto, TypeOK, locals
  <2> QED BY <1>0, <1>2, <1>a, <1>b, <1>d, <2>1, BackedFree DEF Freeing
<1>3. CASE ~Leave(i) /\ pc'[i] # "f_lock"
  <2>1. CASE Truncate(i)
    <3>1. /\ pc'[i] = "walk_cut" /\ goal' = goal /\ loc'[i].fclus = 0
          /\ loc'[i].target = Ceil(iSize[i]) - 1 /\ Ceil(iSize[i]) > 0
      BY <1>0, <1>3, <2>1 DEF Truncate, Cleanup, Walk, Goto, TypeOK, LocType
    <3> QED BY <1>0, <1>a, <1>b, <1>d, <3>1 DEF BackedOK, Growing
  <2>2. CASE Cut(i) \/ CutSync(i)
    <3>1. pc'[i] = "cut_sync" /\ goal' = goal
      BY <1>0, <1>3, <2>2 DEF Cut, CutSync, Cleanup, Goto, TypeOK
    <3> QED BY <1>0, <1>a, <1>b, <1>d, <3>1 DEF BackedOK, Growing
  <2> QED BY <2>1, <2>2
<1> QED BY <1>1, <1>2, <1>3

LEMMA BackedFreeing ==
  ASSUME Sound, "chain_io" \notin Faults, NEW i \in Inodes, BackedOK(i),
         FreeLock(i) \/ FreeStep(i) \/ FreeFails(i) \/ FreeUnlock(i)
  PROVE  BackedOK(i)'
<1>0. /\ TypeOK /\ Step(i) /\ UNCHANGED <<iSize, mmuPrivate, iStart>>
      /\ pc[i] \in Freeing
  BY DEF Sound, TypeInv, Step, FreeLock, FreeStep, FreeFails, FreeUnlock, inode, Freeing
<1>a. /\ goal[i] = 0 => mmuPrivate[i] = iSize[i]
      /\ goal[i] > 0 => i \notin Dirs /\ mmuPrivate[i] <= goal[i]
      /\ iSize[i] <= mmuPrivate[i] /\ Ceil(mmuPrivate[i]) <= Length(i)
  BY <1>0 DEF Freeing, BackedOK
<1>b. Length(i)' = Length(i) /\ Ceil(mmuPrivate'[i]) = Ceil(mmuPrivate[i])
  BY <1>0, Lengths DEF FreeLock, FreeStep, FreeFails, FreeUnlock
<1>1. CASE FreeUnlock(i)
  BY <1>0, <1>1, <1>a, <1>b, BackedLeave DEF FreeUnlock
<1>2. CASE ~FreeUnlock(i)
  <2>1. goal' = goal /\ pc'[i] \in Freeing
    BY <1>0, <1>2 DEF FreeLock, FreeStep, FreeFails, Goto, TypeOK, Freeing, locals
  <2> QED BY <1>0, <1>a, <1>b, <2>1, BackedFree
<1> QED BY <1>1, <1>2

LEMMA BackedOthers ==
  ASSUME Sound, NEW i \in Inodes, Request(i) \/ Step(i), NEW j \in Inodes, j # i, BackedOK(j)
  PROVE  BackedOK(j)'
<1>0. TypeOK
  BY DEF Sound, TypeInv
<1>1. /\ pc'[j] = pc[j] /\ loc'[j] = loc[j] /\ goal'[j] = goal[j]
      /\ iSize'[j] = iSize[j] /\ mmuPrivate'[j] = mmuPrivate[j]
  BY <1>0, Frame, SizeFrame
<1>2. /\ Length(j)' = Length(j) /\ Ceil(mmuPrivate[j])' = Ceil(mmuPrivate[j])
      /\ Ceil(iSize[j])' = Ceil(iSize[j])
  BY <1>1, Others DEF Length, Ceil
<1> QED BY <1>1, <1>2 DEF BackedOK

LEMMA BackedInit == Init => BackedInv
<1> SUFFICES ASSUME Init, NEW i \in Inodes  PROVE BackedOK(i)
  BY DEF BackedInv
<1>1. Ceil(0) = 0
  BY CeilNat
<1>2. Length(i) \in Nat
  BY LengthNat
<1> QED BY <1>1, <1>2 DEF Init, BackedOK, Growing

LEMMA BackedNext ==
  ASSUME "chain_io" \notin Faults
  PROVE  Sound /\ BackedInv /\ [Next]_vars => BackedInv'
<1> SUFFICES ASSUME Sound, BackedInv, [Next]_vars  PROVE BackedInv'
  OBVIOUS
<1>1. ASSUME NEW i \in Inodes, Request(i) \/ Step(i)  PROVE BackedInv'
  <2>1. BackedOK(i)'
    BY <1>1, BackedRequests, BackedWrite, BackedAlloc, BackedChain, BackedWalk,
       BackedTruncate, BackedFreeing DEF Step, BackedInv
  <2> QED BY <1>1, <2>1, BackedOthers DEF BackedInv
<1>2. CASE CountFree \/ UNCHANGED vars
  <2>1. UNCHANGED <<fat, iStart, pc, loc, goal, iSize, mmuPrivate>>
    BY <1>2 DEF CountFree, vars, inode, locals
  <2>2. ASSUME NEW i \in Inodes  PROVE BackedOK(i)'
    <3>1. Length(i)' = Length(i)
      BY <2>1, ChainsAre DEF Length
    <3> QED BY <2>1, <3>1 DEF BackedOK, BackedInv, Ceil
  <2> QED BY <2>2 DEF BackedInv
<1> QED BY <1>1, <1>2 DEF Next

(* fat_bmap_cluster finds a cluster for every block of an inode at rest,    *)
(* whichever other calls failed before.  (When the write of a new link      *)
(* fails, the cluster behind the link is freed: see FatTableChainIo.cfg.)   *)
THEOREM BlocksBacked ==
  ASSUME "chain_io" \notin Faults  PROVE Spec => []EveryBlockBacked
<1>1. Sound /\ BackedInv /\ [Next]_vars => BackedInv'
  BY BackedNext
<1>2. BackedInv /\ TypeOK => EveryBlockBacked
  BY DEF BackedInv, BackedOK, EveryBlockBacked, Length
<1>3. Sound => TypeOK
  BY DEF Sound, TypeInv
<1> QED BY <1>1, <1>2, <1>3, BackedInit, SoundCorrect, PTL DEF Spec

-----------------------------------------------------------------------------
(* Without failures nothing is left over and nothing is reported.           *)

ExactOK(i) ==
    /\ pc[i] \in Walks \cup {"link", "cut"} => loc[i].dclus \in Clusters
    /\ pc[i] \notin {"link_sync", "chain_end", "walk_cut", "cut"} => Length(i) = Ceil(mmuPrivate[i])
    /\ pc[i] \in {"link_sync", "chain_end"} => Length(i) = Ceil(mmuPrivate[i]) + loc[i].req
    /\ pc[i] \notin {"link_sync", "chain_end", "cut_sync"} => iBlocks[i] = Length(i)
    /\ pc[i] \in {"link_sync", "chain_end"} => iBlocks[i] + loc[i].req = Length(i)
    /\ pc[i] = "link_sync" => loc[i].fclus + 1 = iBlocks[i]
    /\ pc[i] = "chain_end" => loc[i].fclus = iBlocks[i]
    /\ i \in Dirs /\ iStart[i] = 0 /\ pc[i] \in Growing => loc[i].req = 1
    /\ pc[i] = "walk_map" => loc[i].target + 1 = Ceil(mmuPrivate[i])
    /\ goal[i] > 0 /\ pc[i] \in {"link_sync", "chain_end", "walk_map", "block"} /\ cluster[i] # 0 =>
         cluster[i] \in Chain(i) /\ fat[cluster[i]] \notin Clusters
    /\ pc[i] = "idle" => cluster[i] = 0
ExactInv == \A i \in Inodes : ExactOK(i)

Exact == Sound /\ BackedInv /\ ExactInv /\ ~fsError

LEMMA ExactPlain ==
  ASSUME NEW i \in Inodes,
         pc'[i] \notin {"link_sync", "chain_end", "walk_cut", "cut", "cut_sync"},
         Length(i)' = Ceil(mmuPrivate'[i]), iBlocks'[i] = Length(i)',
         pc'[i] \in {"walk_end", "walk_map", "link"} => loc'[i].dclus \in Clusters,
         i \in Dirs /\ iStart'[i] = 0 /\ pc'[i] \in Growing => loc'[i].req = 1,
         pc'[i] = "walk_map" => loc'[i].target + 1 = Ceil(mmuPrivate'[i]),
         goal'[i] > 0 /\ pc'[i] \in {"walk_map", "block"} /\ cluster'[i] # 0 =>
           cluster'[i] \in Chain(i)' /\ fat'[cluster'[i]] \notin Clusters,
         pc'[i] = "idle" => cluster'[i] = 0
  PROVE  ExactOK(i)'
<1>1. Ceil(mmuPrivate[i])' = Ceil(mmuPrivate'[i])
  BY DEF Ceil
<1> QED BY <1>1 DEF ExactOK, Walks

(* The last cluster of a chain is the one behind which nothing hangs.       *)
LEMMA LastOne ==
  ASSUME OwnInv, NEW i \in Inodes, NEW c \in Chain(i) \cup Hung(i)
  PROVE  Cardinality(From(fat, c)) = 1 <=> fat[c] \notin Clusters
<1>1. Cardinality(From(fat, c)) = Cardinality(From(fat, fat[c])) + 1
  BY Rooted, ChainsAre, FromShorter
<1> QED BY <1>1, FromSize

LEMMA NoChain ==
  ASSUME TypeOK, NEW i \in Inodes
  PROVE  Length(i) = 0 <=> iStart[i] = 0
  BY ChainsAre, FromSize, Marks DEF Length, TypeOK

LEMMA ExactRequests ==
  ASSUME Exact, "chain_io" \notin Faults, NEW i \in Inodes,
         Request(i) \/ GetBlock(i) \/ WriteEnd(i)
  PROVE  ExactOK(i)' /\ ~fsError'
<1>0. /\ TypeOK /\ ExactOK(i) /\ BackedOK(i) /\ Sound /\ loc[i] \in LocType
      /\ mmuPrivate[i] \in Nat /\ iSize[i] \in Nat
  BY DEF Exact, Sound, TypeInv, ExactInv, BackedInv, TypeOK
<1>a. /\ UNCHANGED <<fat, iStart, iBlocks, fsError>> /\ pc[i] \in {"idle", "block"}
      /\ Request(i) \/ Step(i)
  BY DEF Request, WriteBegin, DirGrow, Shrink, GetBlock, WriteEnd, Step, inode
<1>b. /\ Length(i)' = Length(i) /\ Chain(i)' = Chain(i)
      /\ Length(i) = Ceil(mmuPrivate[i]) /\ iBlocks[i] = Length(i)
  BY <1>0, <1>a, Lengths, Quiet DEF ExactOK
<1>c. /\ ~fsError'
      /\ iBlocks'[i] = Length(i)'
  BY <1>a, <1>b DEF Exact
<1>1. CASE WriteBegin(i) \/ DirGrow(i) \/ Shrink(i)
  <2>1. /\ pc'[i] \in {"block", "a_lock", "trunc"} /\ mmuPrivate' = mmuPrivate
        /\ pc[i] = "idle" /\ cluster' = cluster
    BY <1>0, <1>1 DEF WriteBegin, DirGrow, Shrink, Goto, TypeOK, inode, locals
  <2>2. cluster[i] = 0
    BY <1>0, <2>1 DEF ExactOK
  <2>3. i \in Dirs /\ iStart'[i] = 0 /\ pc'[i] \in Growing => loc'[i].req = 1
    BY <1>0, <1>1, <1>a DEF WriteBegin, DirGrow, Shrink, Goto, TypeOK, LocType, Growing, inode
  <2> QED BY <1>b, <1>c, <2>1, <2>2, <2>3, ExactPlain
<1>2. CASE GetBlock(i) /\ mmuPrivate[i] % SecPerClus = 0
  <2>1. pc'[i] = "a_lock" /\ loc'[i].req = 1 /\ mmuPrivate' = mmuPrivate
    BY <1>0, <1>2 DEF GetBlock, Goto, TypeOK, LocType
  <2> QED BY <1>b, <1>c, <2>1, ExactPlain
<1>3. CASE GetBlock(i) /\ mmuPrivate[i] % SecPerClus # 0
  <2>1. /\ pc'[i] = "walk_map" /\ mmuPrivate'[i] = mmuPrivate[i] + 1
        /\ loc'[i].dclus = iStart[i] /\ loc'[i].target = mmuPrivate[i] \div SecPerClus
        /\ cluster' = cluster /\ goal' = goal /\ pc[i] = "block"
    BY <1>0, <1>3 DEF GetBlock, Walk, Goto, TypeOK, LocType
  <2>2. /\ Ceil(mmuPrivate[i] + 1) = Ceil(mmuPrivate[i])
        /\ Ceil(mmuPrivate[i]) = (mmuPrivate[i] \div SecPerClus) + 1
    BY <1>0, <1>3, CeilWithin
  <2>3. iStart[i] \in Clusters
    <3>1. mmuPrivate[i] \div SecPerClus \in Nat
      BY <1>0, DivNat, SizeAssumption
    <3>2. Length(i) # 0
      BY <1>b, <2>2, <3>1
    <3> QED BY <1>0, <3>2, NoChain DEF TypeOK
  <2>4. goal[i] > 0 /\ cluster[i] # 0 => cluster[i] \in Chain(i) /\ fat[cluster[i]] \notin Clusters
    BY <1>0, <2>1 DEF ExactOK
  <2> QED BY <1>a, <1>b, <1>c, <2>1, <2>2, <2>3, <2>4, ExactPlain DEF Growing
<1>4. CASE WriteEnd(i)
  <2>1. pc'[i] \in {"trunc", "idle"} /\ mmuPrivate' = mmuPrivate /\ cluster'[i] = 0
    BY <1>0, <1>4 DEF WriteEnd, Goto, TypeOK
  <2> QED BY <1>b, <1>c, <2>1, ExactPlain DEF Growing
<1> QED BY <1>1, <1>2, <1>3, <1>4 DEF Request

LEMMA ExactAlloc ==
  ASSUME Exact, Faults = {}, NEW i \in Inodes,
         AllocLock(i) \/ AllocTake(i) \/ AllocSkip(i) \/ AllocFull(i) \/ AllocReadFails(i)
         \/ AllocUnlock(i) \/ AllocMirror(i)
  PROVE  ExactOK(i)' /\ ~fsError'
<1>0. /\ TypeOK /\ ExactOK(i) /\ BackedOK(i) /\ WalkOK(i) /\ Sound /\ loc[i] \in LocType
      /\ mmuPrivate[i] \in Nat /\ Step(i)
  BY DEF Exact, Sound, TypeInv, ExactInv, BackedInv, WalkInv, TypeOK, Step
<1>a. /\ pc[i] \in {"a_lock", "a_scan", "a_unlock", "a_mirror"}
      /\ pc'[i] \in {"a_lock", "a_scan", "a_unlock", "a_mirror", "chain", "f_lock", "idle", "trunc"}
      /\ fsError' = fsError /\ (pc'[i] = "idle" => cluster'[i] = 0)
  BY <1>0 DEF AllocLock, AllocTake, AllocSkip, AllocFull, AllocReadFails, AllocUnlock,
     AllocMirror, Goto, Leave, Cleanup, TypeOK
<1>b. Length(i) = Ceil(mmuPrivate[i]) /\ iBlocks[i] = Length(i)
  BY <1>0, <1>a DEF ExactOK
<1>1. CASE inode' = inode
  <2>1. Length(i)' = Length(i)
    <3>1. AllocTake(i) \/ fat' = fat
      BY DEF AllocLock, AllocSkip, AllocFull, AllocReadFails, AllocUnlock, AllocMirror
    <3> QED BY <1>0, <1>1, <3>1, Lengths DEF inode
  <2>2. i \in Dirs /\ iStart'[i] = 0 /\ pc'[i] \in Growing => loc'[i].req = 1
    <3>1. pc'[i] \in Growing => loc'[i].req = loc[i].req /\ pc[i] \in Growing
      BY <1>0, <1>a DEF AllocLock, AllocTake, AllocSkip, AllocFull, AllocReadFails,
         AllocUnlock, AllocMirror, Goto, Leave, Cleanup, locals, TypeOK, LocType, Growing
    <3> QED BY <1>0, <1>1, <3>1 DEF ExactOK, inode
  <2>3. iBlocks' = iBlocks /\ mmuPrivate' = mmuPrivate
    BY <1>1 DEF inode
  <2> QED BY <1>a, <1>b, <2>1, <2>2, <2>3, ExactPlain DEF Exact
<1>2. CASE inode' # inode
  <2>1. /\ AllocMirror(i) /\ Leave(i) /\ iStart[i] = 0 /\ i \in Dirs
        /\ iStart' = [iStart EXCEPT ![i] = cluster[i]]
        /\ iBlocks'[i] = 1 /\ mmuPrivate'[i] = SecPerClus
    BY <1>0, <1>2 DEF AllocLock, AllocTake, AllocSkip, AllocFull, AllocReadFails,
       AllocUnlock, AllocMirror, TypeOK, inode
  <2>2. Starts(i) /\ pc[i] = "a_mirror" /\ pc'[i] \notin Growing
    BY <1>0, <2>1 DEF Starts, AllocMirror, Leave, Goto, Held, Holding, TypeOK, Growing
  <2>3. Length(i)' = 1
    <3>1. Cardinality(Hung(i)) = loc[i].req /\ loc[i].req = 1
      BY <1>0, <2>1, <2>2 DEF WalkOK, ExactOK, Growing
    <3> QED BY <1>0, <2>2, <3>1, Lengths
  <2>4. Ceil(SecPerClus) = 1
    BY CeilMore, CeilNat, SizeAssumption, 0 + 1 * SecPerClus = SecPerClus
  <2> QED BY <1>a, <2>1, <2>2, <2>3, <2>4, ExactPlain DEF Exact
<1> QED BY <1>1, <1>2

LEMMA ExactChain ==
  ASSUME Exact, Faults = {}, NEW i \in Inodes,
         ChainAdd(i) \/ ChainLink(i) \/ ChainSync(i) \/ ChainEnd(i)
  PROVE  ExactOK(i)' /\ ~fsError'
<1>0. /\ TypeOK /\ OwnInv /\ LocalOK(i) /\ ExactOK(i) /\ BackedOK(i) /\ WalkOK(i) /\ Sound
      /\ loc[i] \in LocType /\ loc[i].req \in Nat /\ loc[i].fclus \in Nat
      /\ mmuPrivate[i] \in Nat /\ iBlocks[i] \in Nat /\ goal[i] \in Nat
      /\ Step(i) /\ ~fsError
  BY DEF Exact, Sound, TypeInv, ExactInv, BackedInv, WalkInv, TypeOK, LocType, Step
<1>a. Length(i) \in Nat /\ Length(i)' \in Nat /\ Ceil(mmuPrivate[i]) \in Nat
  BY <1>0, LengthNat, CeilNat
(* A file takes one cluster at a time, and nothing hangs behind it.         *)
<1>b. goal[i] > 0 /\ pc[i] \in {"chain", "link"} =>
        cluster[i] \in Hung(i) /\ fat[cluster[i]] \notin Clusters
  <2> SUFFICES ASSUME goal[i] > 0, pc[i] \in {"chain", "link"}
               PROVE  cluster[i] \in Hung(i) /\ fat[cluster[i]] \notin Clusters
    OBVIOUS
  <2>1. cluster[i] \in Clusters /\ Held(i) = cluster[i]
    BY <1>0 DEF LocalOK, HasCluster, Held, Holding
  <2>2. Cardinality(Hung(i)) = 1
    BY <1>0 DEF WalkOK, BackedOK, Growing
  <2>3. Hung(i) = From(fat, cluster[i]) /\ cluster[i] \in Hung(i)
    BY <2>1, ChainsAre, FromHolds
  <2> QED BY <1>0, <2>2, <2>3, LastOne
<1>1. CASE ChainAdd(i) /\ iStart[i] = 0
  <2>1. /\ pc[i] = "chain" /\ pc'[i] = "chain_end" /\ loc'[i].req = loc[i].req
        /\ loc'[i].fclus = 0
        /\ UNCHANGED <<fat, iBlocks, mmuPrivate, fsError, cluster, goal>>
    BY <1>0, <1>1 DEF ChainAdd, Goto, TypeOK, LocType
  <2>2. Starts(i)
    BY <1>0, <1>1, <2>1 DEF Starts, ChainAdd, Held, Holding
  <2>3. Length(i) = 0 /\ Length(i)' = loc[i].req /\ Chain(i)' = Hung(i)
    BY <1>0, <2>1, <2>2, Lengths, StartMoves DEF WalkOK
  <2>4. iBlocks[i] = 0 /\ Ceil(mmuPrivate[i])' = 0
    BY <1>0, <2>1, <2>3 DEF ExactOK, Ceil
  <2>5. iStart'[i] # 0
    BY <2>2, <1>0, <2>1, Marks DEF Starts, TypeOK, LocalOK, HasCluster
  <2>6. goal[i] > 0 => cluster[i] \in Chain(i)' /\ fat[cluster[i]] \notin Clusters
    BY <1>b, <2>1, <2>3
  <2> QED BY <1>0, <2>1, <2>3, <2>4, <2>5, <2>6 DEF ExactOK, Walks, Growing
<1>2. CASE ChainAdd(i) /\ iStart[i] # 0
  <2>1. /\ pc[i] = "chain" /\ pc'[i] = "walk_end" /\ loc'[i].req = loc[i].req
        /\ loc'[i].dclus = iStart[i] /\ iStart[i] \in Clusters
        /\ UNCHANGED <<fat, iStart, iBlocks, mmuPrivate, fsError, cluster, goal>>
    BY <1>0, <1>2 DEF ChainAdd, Walk, Goto, TypeOK, LocType
  <2>2. Length(i)' = Length(i)
    BY <1>0, <2>1, Lengths
  <2> QED BY <1>0, <1>2, <2>1, <2>2, ExactPlain DEF ExactOK
<1>3. CASE ChainLink(i)
  <2>1. /\ pc[i] = "link" /\ pc'[i] = "link_sync" /\ UNCHANGED <<inode, locals, fsError>>
        /\ fat' = [fat EXCEPT ![loc[i].dclus] = cluster[i]] /\ loc[i].dclus \in Clusters
    BY <1>0, <1>3 DEF ChainLink, ReadFails, Goto, TypeOK
  <2>2. cluster[i] \in Clusters /\ fat[loc[i].dclus] \notin Clusters /\ loc[i].dclus \in Chain(i)
    BY <1>0, <2>1 DEF WalkOK, LocalOK, HasCluster
  <2>3. fat' # fat
    <3>1. fat'[loc[i].dclus] = cluster[i]
      BY <1>0, <2>1 DEF TypeOK
    <3> QED BY <2>2, <3>1
  <2>4. /\ Length(i)' = Length(i) + loc[i].req /\ Chain(i)' = Chain(i) \cup Hung(i)
        /\ \A c \in Hung(i) : fat'[c] = fat[c]
    BY <1>0, <1>3, <2>3, Lengths, LinkMoves
  <2>5. loc[i].fclus + 1 = Length(i)
    <3>1. loc[i].fclus + Cardinality(From(fat, loc[i].dclus)) = Length(i)
      BY <1>0, <2>1, ChainIs DEF WalkOK
    <3> QED BY <1>0, <2>2, <3>1, LastOne
  <2>6. Length(i) = Ceil(mmuPrivate[i]) /\ iBlocks[i] = Length(i)
    BY <1>0, <2>1 DEF ExactOK
  <2>7. Ceil(mmuPrivate[i])' = Ceil(mmuPrivate[i])
    BY <2>1 DEF Ceil, inode
  <2>8. goal[i] > 0 => cluster[i] \in Chain(i)' /\ fat'[cluster[i]] \notin Clusters
    BY <1>b, <2>1, <2>4
  <2>9. i \in Dirs /\ iStart[i] = 0 => loc[i].req = 1
    BY <1>0, <2>1 DEF ExactOK, Growing
  <2> QED BY <1>0, <2>1, <2>4, <2>5, <2>6, <2>7, <2>8, <2>9 DEF ExactOK, Walks, inode, locals
<1>4. CASE ChainSync(i)
  <2>1. /\ pc[i] = "link_sync" /\ pc'[i] = "chain_end" /\ loc'[i].req = loc[i].req
        /\ loc'[i].fclus = loc[i].fclus + 1
        /\ UNCHANGED <<fat, inode, cluster, goal, fsError>>
    BY <1>0, <1>4 DEF ChainSync, Goto, TypeOK, LocType
  <2>2. Length(i)' = Length(i) /\ Chain(i)' = Chain(i)
    BY <1>0, <2>1, ChainsAre DEF inode, Length
  <2>3. Ceil(mmuPrivate[i])' = Ceil(mmuPrivate[i])
    BY <2>1 DEF Ceil, inode
  <2> QED BY <1>0, <2>1, <2>2, <2>3 DEF ExactOK, Walks, inode, Growing
<1>5. CASE ChainEnd(i)
  <2>1. /\ pc[i] = "chain_end" /\ UNCHANGED <<fat, iStart>>
        /\ iBlocks'[i] = iBlocks[i] + loc[i].req
        /\ fsError' = (fsError \/ loc[i].fclus # iBlocks[i])
    BY <1>0, <1>5 DEF ChainEnd, Grown, TypeOK
  <2>2. /\ Length(i)' = Length(i) /\ Chain(i)' = Chain(i)
        /\ Length(i) = Ceil(mmuPrivate[i]) + loc[i].req
        /\ iBlocks[i] + loc[i].req = Length(i) /\ loc[i].fclus = iBlocks[i]
    BY <1>0, <2>1, ChainsAre DEF Length, ExactOK
  <2>3. ~fsError'
    BY <1>0, <2>1, <2>2
  <2>4. CASE i \in Dirs
    <3>1. /\ Leave(i) /\ mmuPrivate'[i] = mmuPrivate[i] + loc[i].req * SecPerClus
      BY <1>0, <1>5, <2>4 DEF ChainEnd, Grown, TypeOK
    <3>2. Ceil(mmuPrivate'[i]) = Length(i)
      BY <1>0, <2>2, <3>1, CeilMore
    <3>3. pc'[i] \in {"idle", "trunc"} /\ cluster'[i] = 0
      BY <1>0, <3>1 DEF Leave, Goto, TypeOK
    <3> QED BY <2>1, <2>2, <2>3, <3>2, <3>3, ExactPlain DEF Growing
  <2>5. CASE i \notin Dirs
    <3>1. /\ pc'[i] = "walk_map" /\ UNCHANGED <<cluster, goal>>
          /\ mmuPrivate'[i] = mmuPrivate[i] + 1
          /\ loc'[i].dclus = iStart[i] /\ loc'[i].target = mmuPrivate[i] \div SecPerClus
      BY <1>0, <1>5, <2>5 DEF ChainEnd, Grown, Walk, Goto, TypeOK, LocType
    <3>2. /\ goal[i] > 0 /\ mmuPrivate[i] % SecPerClus = 0 /\ loc[i].req = 1
      BY <1>0, <2>1, <2>5 DEF BackedOK, Growing
    <3>3. /\ Ceil(mmuPrivate[i] + 1) = Ceil(mmuPrivate[i]) + 1
          /\ Ceil(mmuPrivate[i]) = mmuPrivate[i] \div SecPerClus
      BY <1>0, <3>2, CeilFull
    <3>4. iStart[i] \in Clusters
      <4>1. Length(i) # 0
        BY <1>a, <2>2, <3>2
      <4> QED BY <1>0, <4>1, NoChain DEF TypeOK
    <3>5. cluster[i] # 0 => cluster[i] \in Chain(i) /\ fat[cluster[i]] \notin Clusters
      BY <1>0, <2>1, <3>2 DEF ExactOK
    <3> QED BY <2>1, <2>2, <2>3, <2>5, <3>1, <3>2, <3>3, <3>4, <3>5, ExactPlain DEF Growing
  <2> QED BY <2>4, <2>5
<1> QED BY <1>1, <1>2, <1>3, <1>4, <1>5

LEMMA ExactWalk ==
  ASSUME Exact, Faults = {}, NEW i \in Inodes,
         WalkStep(i) \/ WalkFails(i) \/ WalkEof(i) \/ WalkDone(i)
  PROVE  ExactOK(i)' /\ ~fsError'
<1>0. /\ TypeOK /\ OwnInv /\ ExactOK(i) /\ BackedOK(i) /\ WalkOK(i) /\ Sound
      /\ loc[i].fclus \in Nat /\ loc[i].target \in Nat
      /\ mmuPrivate[i] \in Nat /\ Step(i) /\ ~fsError
  BY DEF Exact, Sound, TypeInv, ExactInv, BackedInv, WalkInv, TypeOK, LocType, Step
<1>a. /\ pc[i] \in Walks /\ loc[i].dclus \in Clusters
      /\ UNCHANGED <<fat, inode>>
  BY <1>0 DEF WalkStep, WalkFails, WalkEof, WalkDone, Walking, Walks, ExactOK
<1>b. /\ Length(i)' = Length(i) /\ Chain(i)' = Chain(i)
      /\ Ceil(mmuPrivate[i])' = Ceil(mmuPrivate[i])
      /\ Length(i) \in Nat /\ Length(i) <= MaxCluster - 2
  BY <1>a, ChainsAre, FromSize DEF inode, Length, Ceil
<1>c. /\ loc[i].fclus + Cardinality(From(fat, loc[i].dclus)) = Length(i)
      /\ loc[i].dclus \in Chain(i) /\ fat[loc[i].dclus] # FREE
      /\ Cardinality(From(fat, loc[i].dclus)) \in Nat
      /\ fat[loc[i].dclus] = EOF => Cardinality(From(fat, loc[i].dclus)) = 1
  <2>1. /\ loc[i].fclus + Cardinality(From(fat, loc[i].dclus)) = Length(i)
        /\ loc[i].dclus \in Chain(i)
    BY <1>0, <1>a, ChainIs DEF WalkOK
  <2> QED BY <1>0, <2>1, ChainsUsed, LastOne, FromSize, Marks
<1>d. ~WalkFails(i)
  <2> SUFFICES ASSUME WalkFails(i)  PROVE FALSE
    OBVIOUS
  <2>1. loc[i].fclus <= Limit
    BY <1>0, <1>b, <1>c, ClusterAssumption DEF Limit
  <2>2. /\ pc[i] = "walk_map" /\ fat[loc[i].dclus] = EOF /\ loc[i].fclus < loc[i].target
    BY <1>0, <1>a, <1>c, <2>1, ClusterAssumption DEF WalkFails, Walking, ReadFails, Limit
  <2>3. loc[i].target + 1 = Length(i)
    BY <1>0, <2>2 DEF ExactOK
  <2> QED BY <1>0, <1>c, <2>2, <2>3
<1>e. WalkEof(i) => pc[i] = "walk_end"
  <2> SUFFICES ASSUME WalkEof(i), pc[i] = "walk_cut"  PROVE FALSE
    BY <1>a DEF WalkEof, Walks
  <2>1. loc[i].target + 1 = Ceil(iSize[i]) /\ mmuPrivate[i] = iSize[i]
        /\ Ceil(mmuPrivate[i]) <= Length(i)
    BY <1>0 DEF BackedOK
  <2>2. loc[i].fclus + 1 = Length(i) /\ loc[i].fclus < loc[i].target
    BY <1>c DEF WalkEof, Walking
  <2> QED BY <1>0, <1>b, <2>1, <2>2
<1>1. /\ UNCHANGED <<cluster, goal>> /\ loc'[i].req = loc[i].req
      /\ loc'[i].target = loc[i].target /\ loc'[i].dclus \in Clusters
      /\ ~fsError'
      /\ \/ pc'[i] = pc[i]
         \/ pc[i] = "walk_end" /\ pc'[i] = "link"
         \/ pc[i] = "walk_cut" /\ pc'[i] = "cut"
         \/ pc[i] = "walk_map" /\ pc'[i] = "block"
  <2>1. CASE WalkStep(i)
    BY <1>0, <2>1 DEF WalkStep, TypeOK, LocType
  <2>2. CASE WalkEof(i)
    BY <1>0, <1>a, <1>e, <2>2 DEF WalkEof, Goto, TypeOK, locals
  <2>3. CASE WalkDone(i)
    BY <1>0, <1>a, <2>3 DEF WalkDone, Goto, TypeOK, locals, Walks
  <2> QED BY <1>d, <2>1, <2>2, <2>3
<1> QED BY <1>0, <1>a, <1>b, <1>1 DEF ExactOK, Walks, inode, Growing

LEMMA ExactTruncate ==
  ASSUME Exact, Faults = {}, NEW i \in Inodes,
         Truncate(i) \/ Cut(i) \/ CutSync(i)
  PROVE  ExactOK(i)' /\ ~fsError'
<1>0. /\ TypeOK /\ OwnInv /\ ExactOK(i) /\ BackedOK(i) /\ WalkOK(i) /\ Sound
      /\ loc[i].fclus \in Nat /\ loc[i].target \in Nat
      /\ mmuPrivate[i] \in Nat /\ iSize[i] \in Nat /\ goal[i] = 0 /\ Step(i) /\ ~fsError
  BY DEF Exact, Sound, TypeInv, ExactInv, BackedInv, WalkInv, TypeOK, LocType, Step,
     BackedOK, Truncate, Cut, CutSync
<1>1. CASE Truncate(i)
  <2>1. /\ Length(i) = Ceil(mmuPrivate[i]) /\ iBlocks[i] = Length(i) /\ pc[i] = "trunc"
        /\ mmuPrivate'[i] = iSize[i] /\ iSize[i] <= mmuPrivate[i] /\ iSize' = iSize
        /\ fsError' = fsError /\ fat' = fat
    BY <1>0, <1>1 DEF Truncate, ExactOK, BackedOK, Lesser, TypeOK
  <2>2. CASE iStart[i] = 0
    <3>1. Length(i)' = Length(i) /\ Length(i) = 0
      BY <1>0, <1>1, <2>2, NoChain, Lengths DEF Truncate
    <3>2. Ceil(mmuPrivate'[i]) = 0
      <4>1. mmuPrivate[i] = 0
        BY <1>0, <2>1, <3>1, CeilNat
      <4>2. mmuPrivate'[i] = 0
        BY <1>0, <2>1, <4>1
      <4>3. Ceil(0) = 0
        BY CeilNat
      <4> QED BY <4>2, <4>3
    <3>3. iBlocks' = iBlocks /\ pc'[i] = "idle" /\ cluster'[i] = 0
      BY <1>0, <1>1, <2>2 DEF Truncate, Leave, Goto, TypeOK
    <3> QED BY <1>0, <2>1, <3>1, <3>2, <3>3, ExactPlain DEF Growing
  <2>3. CASE iStart[i] # 0 /\ Ceil(iSize[i]) = 0
    <3>1. Clears(i) /\ iBlocks'[i] = 0 /\ pc'[i] = "f_lock" /\ goal' = goal
      BY <1>0, <1>1, <2>3 DEF Clears, Truncate, StartCleared, Cleanup, Goto, TypeOK, Held, Holding
    <3>2. Length(i)' = 0
      BY <1>0, <3>1, Lengths
    <3> QED BY <1>0, <2>1, <2>3, <3>1, <3>2, ExactPlain DEF Growing
  <2>4. CASE iStart[i] # 0 /\ Ceil(iSize[i]) # 0
    <3>1. /\ pc'[i] = "walk_cut" /\ loc'[i].dclus = iStart[i] /\ iStart[i] \in Clusters
          /\ UNCHANGED <<iStart, iBlocks, goal>>
      BY <1>0, <1>1, <2>4 DEF Truncate, Walk, Goto, TypeOK, LocType
    <3>2. Length(i)' = Length(i)
      BY <2>1, <3>1, ChainsAre DEF Length
    <3> QED BY <1>0, <2>1, <3>1, <3>2 DEF ExactOK, Walks, Growing
  <2> QED BY <2>2, <2>3, <2>4
<1>2. CASE Cut(i)
  <2>1. /\ pc[i] = "cut" /\ UNCHANGED inode /\ loc[i].dclus \in Clusters
        /\ mmuPrivate[i] = iSize[i] /\ iBlocks[i] = Length(i)
        /\ loc[i].fclus + 1 = Ceil(mmuPrivate[i])
    BY <1>0, <1>2 DEF Cut, ExactOK, BackedOK
  <2>2. loc[i].dclus \in Chain(i) /\ fat[loc[i].dclus] # FREE
    BY <1>0, <2>1, ChainsUsed DEF WalkOK
  <2>3. CASE fat[loc[i].dclus] \in Clusters
    <3>1. /\ fat' = [fat EXCEPT ![loc[i].dclus] = EOF] /\ pc'[i] = "cut_sync" /\ goal' = goal
          /\ fsError' = fsError
      BY <1>0, <1>2, <2>1, <2>3, Marks DEF Cut, Goto, TypeOK, ReadFails
    <3>2. fat' # fat
      <4>1. fat'[loc[i].dclus] = EOF
        BY <1>0, <2>1, <3>1 DEF TypeOK
      <4> QED BY <2>3, <4>1, Marks
    <3>3. Length(i)' = loc[i].fclus + 1 /\ Ceil(mmuPrivate[i])' = Ceil(mmuPrivate[i])
      BY <1>0, <1>2, <2>1, <3>2, Lengths DEF inode, Ceil
    <3> QED BY <1>0, <2>1, <3>1, <3>3 DEF ExactOK, Walks, Growing
  <2>4. CASE fat[loc[i].dclus] \notin Clusters
    <3>1. fat' = fat /\ fsError' = fsError /\ Leave(i)
      BY <1>0, <1>2, <2>1, <2>2, <2>4 DEF Cut, ReadFails
    <3>2. Length(i) = loc[i].fclus + 1
      <4>1. loc[i].fclus + Cardinality(From(fat, loc[i].dclus)) = Length(i)
        BY <1>0, <2>1, ChainIs DEF WalkOK
      <4> QED BY <1>0, <2>2, <2>4, <4>1, LastOne
    <3>3. Length(i)' = Length(i)
      BY <2>1, <3>1, ChainsAre DEF Length, inode
    <3>4. pc'[i] = "idle" /\ cluster'[i] = 0
      BY <1>0, <3>1 DEF Leave, Goto, TypeOK
    <3> QED BY <1>0, <2>1, <3>1, <3>2, <3>3, <3>4, ExactPlain DEF Growing, inode
  <2> QED BY <2>3, <2>4
<1>3. CASE CutSync(i)
  <2>1. /\ pc[i] = "cut_sync" /\ pc'[i] = "f_lock" /\ iBlocks'[i] = Ceil(iSize[i])
        /\ UNCHANGED <<fat, iStart, mmuPrivate, fsError, goal>>
    BY <1>0, <1>3 DEF CutSync, Cleanup, Goto, TypeOK, locals
  <2>2. Length(i) = Ceil(mmuPrivate[i]) /\ mmuPrivate[i] = iSize[i] /\ Length(i)' = Length(i)
    BY <1>0, <2>1, ChainsAre DEF ExactOK, BackedOK, Length
  <2> QED BY <1>0, <2>1, <2>2, ExactPlain DEF Growing
<1> QED BY <1>1, <1>2, <1>3

LEMMA ExactFreeing ==
  ASSUME Exact, Faults = {}, NEW i \in Inodes,
         FreeLock(i) \/ FreeStep(i) \/ FreeFails(i) \/ FreeUnlock(i)
  PROVE  ExactOK(i)' /\ ~fsError'
<1>0. /\ TypeOK /\ OwnInv /\ LocalOK(i) /\ ExactOK(i) /\ Sound /\ Step(i) /\ ~fsError
  BY DEF Exact, Sound, TypeInv, ExactInv, Step
<1>1. ~FreeFails(i)
  <2> SUFFICES ASSUME FreeFails(i)  PROVE FALSE
    OBVIOUS
  <2>1. cluster[i] \in Clusters /\ Held(i) = cluster[i]
    BY <1>0 DEF FreeFails, LocalOK, HasCluster, Held, Holding
  <2>2. cluster[i] \in Hung(i)
    BY <2>1, ChainsAre, FromHolds
  <2>3. fat[cluster[i]] # FREE
    BY <1>0, <2>2, ChainsUsed
  <2> QED BY <2>1, <2>3 DEF FreeFails, ReadFails
<1>2. /\ pc[i] \in Freeing /\ pc'[i] \in Freeing \cup {"idle", "trunc"}
      /\ UNCHANGED <<inode, fsError>> /\ (pc'[i] = "idle" => cluster'[i] = 0)
      /\ FreeStep(i) \/ fat' = fat
  BY <1>0, <1>1 DEF FreeLock, FreeStep, FreeUnlock, Leave, Goto, TypeOK, Freeing
<1>3. Length(i)' = Length(i)
  BY <1>0, <1>2, Lengths DEF inode
<1>4. Length(i) = Ceil(mmuPrivate[i]) /\ iBlocks[i] = Length(i)
  BY <1>0, <1>2 DEF ExactOK, Freeing
<1> QED BY <1>0, <1>2, <1>3, <1>4, ExactPlain DEF Growing, Freeing, inode

LEMMA ExactOthers ==
  ASSUME Exact, NEW i \in Inodes, Request(i) \/ Step(i), NEW j \in Inodes, j # i
  PROVE  ExactOK(j)'
<1>0. TypeOK /\ ExactOK(j) /\ Sound
  BY DEF Exact, ExactInv, Sound, TypeInv
<1>1. /\ pc'[j] = pc[j] /\ loc'[j] = loc[j] /\ goal'[j] = goal[j] /\ cluster'[j] = cluster[j]
      /\ mmuPrivate'[j] = mmuPrivate[j] /\ iBlocks'[j] = iBlocks[j] /\ iStart'[j] = iStart[j]
  BY <1>0, Frame, SizeFrame, HeldFrame
<1>2. /\ \A d \in Chain(j) : fat'[d] = fat[d]
      /\ Chain(j)' = Chain(j) /\ Length(j)' = Length(j)
      /\ Ceil(mmuPrivate[j])' = Ceil(mmuPrivate[j])
  BY <1>0, <1>1, Others DEF Length, Ceil
<1> QED BY <1>0, <1>1, <1>2 DEF ExactOK

LEMMA ExactInit == Init => ExactInv /\ ~fsError
<1> SUFFICES ASSUME Init  PROVE ExactInv /\ ~fsError
  OBVIOUS
<1>1. ASSUME NEW i \in Inodes  PROVE ExactOK(i)
  <2>1. Ceil(0) = 0
    BY CeilNat
  <2>2. Length(i) = 0
    BY <1>1, ChainsAre, FromSize, Marks DEF Init, Length
  <2> QED BY <1>1, <2>1, <2>2 DEF Init, ExactOK, Walks, Growing
<1> QED BY <1>1 DEF ExactInv, Init

LEMMA ExactNext ==
  ASSUME Faults = {}
  PROVE  Exact /\ [Next]_vars => ExactInv' /\ ~fsError'
<1> SUFFICES ASSUME Exact, [Next]_vars  PROVE ExactInv' /\ ~fsError'
  OBVIOUS
<1>1. ASSUME NEW i \in Inodes, Request(i) \/ Step(i)  PROVE ExactInv' /\ ~fsError'
  <2>1. ExactOK(i)' /\ ~fsError'
    BY <1>1, ExactRequests, ExactAlloc, ExactChain, ExactWalk, ExactTruncate,
       ExactFreeing DEF Step
  <2> QED BY <1>1, <2>1, ExactOthers DEF ExactInv
<1>2. CASE CountFree \/ UNCHANGED vars
  <2>1. UNCHANGED <<fat, iStart, iBlocks, mmuPrivate, pc, loc, goal, cluster, fsError>>
    BY <1>2 DEF CountFree, vars, inode, locals
  <2>2. ASSUME NEW i \in Inodes  PROVE ExactOK(i)'
    <3>1. Chain(i)' = Chain(i) /\ Length(i)' = Length(i)
      BY <2>1, ChainsAre DEF Length
    <3> QED BY <2>1, <3>1 DEF ExactOK, Exact, ExactInv, Ceil
  <2> QED BY <2>1, <2>2 DEF ExactInv, Exact
<1> QED BY <1>1, <1>2 DEF Next

LEMMA ExactCorrect == ASSUME Faults = {}  PROVE Spec => []Exact
<1>1. "chain_io" \notin Faults
  OBVIOUS
<1>2. Sound /\ BackedInv /\ [Next]_vars => BackedInv'
  BY <1>1, BackedNext
<1>3. Exact /\ [Next]_vars => ExactInv' /\ ~fsError'
  BY ExactNext
<1>4. Spec => []Sound
  BY <1>1, SoundCorrect
<1> QED BY <1>2, <1>3, <1>4, BackedInit, ExactInit, PTL DEF Spec, Exact

(* Between two operations the chain has the clusters i_size needs, and      *)
(* i_blocks and mmu_private agree: what failed for want of space was undone. *)
THEOREM NothingLeftOver == ASSUME Faults = {}  PROVE Spec => []SettledExact
<1>1. Exact => SettledExact
  <2> SUFFICES ASSUME Exact, NEW i \in Inodes, pc[i] = "idle"
               PROVE  /\ Cardinality(Chain(i)) = Ceil(iSize[i])
                      /\ iBlocks[i] = Ceil(iSize[i]) /\ mmuPrivate[i] = iSize[i]
    BY DEF SettledExact
  <2>1. mmuPrivate[i] = iSize[i]
    BY DEF Exact, BackedInv, BackedOK
  <2>2. Length(i) = Ceil(mmuPrivate[i]) /\ iBlocks[i] = Length(i)
    BY DEF Exact, ExactInv, ExactOK
  <2> QED BY <2>1, <2>2 DEF Length
<1> QED BY <1>1, ExactCorrect, PTL

(* Then fat_fs_error is never called: the position of the last cluster is   *)
(* i_blocks, no walk runs past the end, no free entry is freed.             *)
THEOREM NothingReported == ASSUME Faults = {}  PROVE Spec => []NoFsError
<1>1. Exact => NoFsError
  BY DEF Exact, NoFsError
<1> QED BY <1>1, ExactCorrect, PTL

(* The walk that maps a new block ends at the cluster that was linked: both *)
(* are the last of the chain.                                               *)
THEOREM MapsTheNewCluster == ASSUME Faults = {}  PROVE Spec => MapsWhatItTook
<1>1. ASSUME Exact, [Next]_vars, NEW i \in Inodes,
             pc[i] = "walk_map", pc'[i] = "block", cluster[i] # 0
      PROVE  loc[i].dclus = cluster[i]
  <2>0. /\ TypeOK /\ OwnInv /\ ExactOK(i) /\ BackedOK(i) /\ WalkOK(i)
        /\ loc[i].fclus \in Nat /\ loc[i].target \in Nat
    BY <1>1 DEF Exact, Sound, TypeInv, ExactInv, BackedInv, WalkInv, TypeOK, LocType
  <2>1. WalkDone(i)
    <3>1. Request(i) \/ Step(i)
      <4>1. ASSUME NEW k \in Inodes, Request(k) \/ Step(k), k # i  PROVE FALSE
        BY <1>1, <2>0, <4>1, Frame
      <4> QED BY <1>1, <4>1 DEF Next, CountFree, vars
    <3> QED BY <1>1, <2>0, <3>1 DEF Request, WriteBegin, DirGrow, Shrink, Step, GetBlock,
          WriteEnd, AllocLock, AllocTake, AllocSkip, AllocFull, AllocReadFails, AllocUnlock,
          AllocMirror, ChainAdd, ChainLink, ChainSync, ChainEnd, WalkStep, WalkFails, WalkEof,
          Leave, Cleanup, Goto, Truncate, Cut, CutSync, FreeLock, FreeStep, FreeFails,
          FreeUnlock, TypeOK
  <2>2. loc[i].fclus = loc[i].target /\ loc[i].target + 1 = Length(i) /\ goal[i] > 0
    BY <1>1, <2>0, <2>1 DEF WalkDone, BackedOK, ExactOK
  <2>3. /\ loc[i].dclus \in Chain(i)
        /\ loc[i].fclus + Cardinality(From(fat, loc[i].dclus)) = Length(i)
    BY <1>1, <2>0, ChainIs DEF WalkOK, ExactOK, Walks
  <2>4. fat[loc[i].dclus] \notin Clusters
    BY <2>0, <2>2, <2>3, FromSize, LastOne
  <2>5. cluster[i] \in Chain(i) /\ fat[cluster[i]] \notin Clusters
    BY <1>1, <2>0, <2>2 DEF ExactOK
  <2> QED BY <2>3, <2>4, <2>5, ChainsAre, FromEnd
<1>2. Exact /\ [Next]_vars =>
        [\A i \in Inodes : pc[i] = "walk_map" /\ pc'[i] = "block" /\ cluster[i] # 0 =>
           loc[i].dclus = cluster[i]]_vars
  BY <1>1
<1> QED BY <1>2, ExactCorrect, PTL DEF MapsWhatItTook, Spec
=============================================================================
