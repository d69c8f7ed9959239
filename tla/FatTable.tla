------------------------------ MODULE FatTable ------------------------------
(***************************************************************************)
(* The cluster chains of the FAT driver (kernel_camp/                      *)
(* fat_log_module_practice): fat_alloc_clusters, fat_free_clusters and     *)
(* fat_count_free_clusters of fatent.c, fat_chain_add of misc.c, fat_free  *)
(* and fat_truncate_blocks of file.c, fat_get_cluster of cache.c and the   *)
(* write path of inode.c, step by step, with one thread per inode: every   *)
(* caller holds the inode's i_mutex, so an inode has at most one of these  *)
(* operations under way, and threads meet only in the table, the free      *)
(* counters and sbi->fat_lock.                                             *)
(*                                                                         *)
(* The extent cache only saves reads of the table and has its own module;  *)
(* the walks here read the table entry by entry.                           *)
(***************************************************************************)
EXTENDS Integers, FiniteSets

CONSTANTS
    Inodes,       \* the inodes of the volume
    Dirs,         \* those of them that are directories
    MaxCluster,   \* sbi->max_cluster
    SecPerClus,   \* sbi->sec_per_clus
    MaxBlocks,    \* bound: the largest size of an inode, in blocks
    BadClusters,  \* clusters the formatter marked bad
    InitCounts,   \* values of free_clusters FSINFO may hold at mount
    Faults,       \* the calls that may fail: see AllFaults
    ErrorsRo,     \* the mount option errors=remount-ro
    NoOne         \* fat_lock is free

FREE == 0                        \* FAT_ENT_FREE
EOF  == MaxCluster               \* FAT_ENT_EOF: what every mark >= BAD reads as
Clusters == 2..(MaxCluster - 1)  \* FAT_START_ENT up to max_cluster
Unknown == -1                    \* free_clusters: "-1 if undefined"

(* "read": a block of the table cannot be read; "alloc_io": the sync or the *)
(* mirroring after an allocation, or the filling of the new directory      *)
(* blocks, fails; "chain_io": the same for the entry fat_chain_add wrote;   *)
(* "cut_io": for the end mark fat_free wrote; "free_io": for the entries    *)
(* fat_free_clusters freed; "inode_sync": fat_sync_inode fails.             *)
AllFaults == {"read", "alloc_io", "chain_io", "cut_io", "free_io", "inode_sync"}

ASSUME ClusterAssumption == MaxCluster \in Nat /\ MaxCluster > 2 /\ BadClusters \subseteq Clusters
ASSUME SizeAssumption == SecPerClus \in Nat \ {0} /\ MaxBlocks \in Nat
ASSUME InodeAssumption == Dirs \subseteq Inodes /\ NoOne \notin Inodes
ASSUME CountAssumption == InitCounts \subseteq Nat \cup {Unknown}
ASSUME FaultAssumption == Faults \subseteq AllFaults /\ ErrorsRo \in BOOLEAN

VARIABLES
    fat,            \* the table: what ops->ent_get returns for each cluster
    freeClusters, freeClusValid, prevFree,   \* the counters of msdos_sb_info
    fatLock,        \* the holder of sbi->fat_lock
    iStart,         \* i_start; 0 when the inode has no cluster
    iBlocks,        \* i_blocks, in clusters
    mmuPrivate,     \* mmu_private, in blocks
    iSize,          \* i_size, in blocks
    fsError,        \* fat_fs_error has been called
    pc,             \* where the thread of the inode is
    cluster,        \* its local "cluster": the one it is about to link or free
    goal,           \* the size a write wants to reach; 0 when none is under way
    loc             \* its other locals

counters == <<freeClusters, freeClusValid, prevFree>>
inode    == <<iStart, iBlocks, mmuPrivate, iSize>>
locals   == <<cluster, goal, loc>>
vars     == <<fat, counters, fatLock, inode, fsError, pc, locals>>

Walks == {"walk_end", "walk_cut", "walk_map"}
Locked == {"a_scan", "a_unlock", "f_step", "f_unlock"}
PCs == Walks \cup Locked \cup
       {"idle", "block", "trunc", "a_lock", "a_mirror", "chain", "link",
        "link_sync", "chain_end", "cut", "cut_sync", "f_lock"}

(* req, got, prev, entry, count: nr_cluster, idx_clus, prev_ent, fatent and *)
(* count of fat_alloc_clusters; fclus, dclus, target: those of              *)
(* fat_get_cluster and its argument.                                        *)
Blank == [req |-> 0, got |-> 0, prev |-> 0, entry |-> 0, count |-> 0,
          fclus |-> 0, dclus |-> 0, target |-> 0]

LocType == [req : Nat, got : Nat, prev : Clusters \cup {0},
            entry : Clusters \cup {0, MaxCluster}, count : Nat,
            fclus : Nat, dclus : Clusters \cup {0}, target : Nat]

FreeSet == {c \in Clusters : fat[c] = FREE}

(* The clusters that hold so many blocks.                                   *)
CeilPlus(blocks) == blocks \div SecPerClus + 1              \* mutant
Ceil(blocks) == (blocks + SecPerClus - 1) \div SecPerClus

First(a, b) == a                                            \* mutant
Lesser(a, b) == IF a < b THEN a ELSE b

(* free_clusters after a change: an unknown number stays unknown.           *)
CountedBlind(delta) == freeClusters + delta                 \* mutant
Counted(delta) == IF freeClusters = Unknown THEN Unknown ELSE freeClusters + delta

LockIgnored == TRUE                                         \* mutant
LockFree == fatLock = NoOne

Init ==
    /\ fat = [c \in Clusters |-> IF c \in BadClusters THEN EOF ELSE FREE]
    /\ \/ freeClusters \in InitCounts /\ freeClusValid = FALSE
       \/ freeClusters = Cardinality(Clusters \ BadClusters) /\ freeClusValid = TRUE
    /\ prevFree \in Clusters
    /\ fatLock = NoOne
    /\ iStart = [i \in Inodes |-> 0]
    /\ iBlocks = [i \in Inodes |-> 0]
    /\ mmuPrivate = [i \in Inodes |-> 0]
    /\ iSize = [i \in Inodes |-> 0]
    /\ fsError = FALSE
    /\ pc = [i \in Inodes |-> "idle"]
    /\ cluster = [i \in Inodes |-> 0]
    /\ goal = [i \in Inodes |-> 0]
    /\ loc = [i \in Inodes |-> Blank]

-----------------------------------------------------------------------------
Goto(i, label) == pc' = [pc EXCEPT ![i] = label]

(* The operation returns to its caller with an error, or a truncation is    *)
(* over.  fat_write_begin answers an error by fat_write_failed, which cuts  *)
(* the file back to i_size; nobody else does anything.                      *)
LeaveUntrimmed(i) ==                                        \* mutant
    /\ Goto(i, "idle")
    /\ goal' = [goal EXCEPT ![i] = 0]
    /\ loc' = [loc EXCEPT ![i] = Blank]
    /\ cluster' = [cluster EXCEPT ![i] = 0]
Leave(i) ==
    /\ Goto(i, IF goal[i] > 0 THEN "trunc" ELSE "idle")
    /\ goal' = [goal EXCEPT ![i] = 0]
    /\ loc' = [loc EXCEPT ![i] = Blank]
    /\ cluster' = [cluster EXCEPT ![i] = 0]

(* Enter fat_get_cluster for the target-th cluster of the inode.            *)
Walk(i, label, target) ==
    /\ Goto(i, label)
    /\ loc' = [loc EXCEPT ![i].fclus = 0, ![i].dclus = iStart[i], ![i].target = target]

(* Enter fat_free_clusters with the local cluster.                          *)
Cleanup(i) == Goto(i, "f_lock")

ReadFails == "read" \in Faults
Writable == ~(ErrorsRo /\ fsError)

-----------------------------------------------------------------------------
(* The operations and how they begin.                                       *)

(* A write that extends the file: cont_write_begin maps the blocks up to    *)
(* the end of the write one after the other.                                *)
WriteBegin(i) ==
    /\ pc[i] = "idle" /\ i \notin Dirs /\ Writable
    /\ \E size \in (iSize[i] + 1)..MaxBlocks : goal' = [goal EXCEPT ![i] = size]
    /\ Goto(i, "block")
    /\ UNCHANGED <<fat, counters, fatLock, inode, fsError, cluster, loc>>

(* __fat_get_block for the block at mmu_private.                            *)
GetBlock(i) ==
    /\ pc[i] = "block" /\ mmuPrivate[i] < goal[i]
    /\ IF mmuPrivate[i] % SecPerClus = 0
       THEN /\ Goto(i, "a_lock")
            /\ loc' = [loc EXCEPT ![i].req = 1]
            /\ UNCHANGED mmuPrivate
       ELSE /\ mmuPrivate' = [mmuPrivate EXCEPT ![i] = @ + 1]
            /\ Walk(i, "walk_map", mmuPrivate[i] \div SecPerClus)
    /\ UNCHANGED <<fat, counters, fatLock, iStart, iBlocks, iSize, fsError, cluster, goal>>

(* fat_write_end: i_size moves up to what was copied; a short copy is cut   *)
(* back by fat_write_failed.                                                *)
WriteEnd(i) ==
    /\ pc[i] = "block" /\ mmuPrivate[i] >= goal[i]
    /\ \E size \in iSize[i]..goal[i] :
         /\ iSize' = [iSize EXCEPT ![i] = size]
         /\ Goto(i, IF size < goal[i] THEN "trunc" ELSE "idle")
    /\ goal' = [goal EXCEPT ![i] = 0]
    /\ loc' = [loc EXCEPT ![i] = Blank]
    /\ cluster' = [cluster EXCEPT ![i] = 0]
    /\ UNCHANGED <<fat, counters, fatLock, iStart, iBlocks, mmuPrivate, fsError>>

(* A directory takes new slots: its first cluster by fat_alloc_new_dir, the *)
(* others, one or two at a time, by fat_add_new_entries.                    *)
DirGrow(i) ==
    /\ pc[i] = "idle" /\ i \in Dirs /\ Writable
    /\ \E n \in IF iStart[i] = 0 THEN {1} ELSE {1, 2} :
         /\ iSize[i] + n * SecPerClus <= MaxBlocks
         /\ loc' = [loc EXCEPT ![i].req = n]
    /\ Goto(i, "a_lock")
    /\ UNCHANGED <<fat, counters, fatLock, inode, fsError, cluster, goal>>

(* fat_setattr sets a smaller size, or fat_evict_inode the size 0.          *)
Shrink(i) ==
    /\ pc[i] = "idle"
    /\ \E size \in IF i \in Dirs \/ ~Writable THEN {0} ELSE 0..iSize[i] :
         iSize' = [iSize EXCEPT ![i] = size]
    /\ Goto(i, "trunc")
    /\ UNCHANGED <<fat, counters, fatLock, iStart, iBlocks, mmuPrivate, fsError, locals>>

-----------------------------------------------------------------------------
(* fat_alloc_clusters *)

AllocLock(i) ==
    /\ pc[i] = "a_lock" /\ LockFree
    /\ IF freeClusters # Unknown /\ freeClusValid /\ freeClusters < loc[i].req
       THEN Leave(i) /\ UNCHANGED fatLock                       \* -ENOSPC
       ELSE /\ fatLock' = i
            /\ Goto(i, "a_scan")
            /\ loc' = [loc EXCEPT ![i].entry = prevFree + 1, ![i].count = 2,
                                  ![i].got = 0, ![i].prev = 0]
            /\ cluster' = [cluster EXCEPT ![i] = 0]
            /\ UNCHANGED goal
    /\ UNCHANGED <<fat, counters, inode, fsError>>

(* The entry the scan looks at: it wraps at the end of the table.           *)
Scanned(i) == IF loc[i].entry >= MaxCluster THEN 2 ELSE loc[i].entry

ScanLeftShort(i) == loc[i].count < MaxCluster - 1           \* mutant
ScanLeft(i) == loc[i].count < MaxCluster

(* The end mark in the new entry, and the link from the one taken before.   *)
Unlinked(i, e) == [fat EXCEPT ![e] = EOF]                   \* mutant
Linked(i, e) == IF loc[i].got > 0 THEN [fat EXCEPT ![e] = EOF, ![loc[i].prev] = e]
                                  ELSE [fat EXCEPT ![e] = EOF]

AllocTake(i) ==
    /\ pc[i] = "a_scan" /\ ScanLeft(i)
    /\ LET e == Scanned(i) IN
       /\ fat[e] = FREE
       /\ fat' = Linked(i, e)
       /\ prevFree' = e
       /\ freeClusters' = Counted(-1)
       /\ cluster' = IF loc[i].got > 0 THEN cluster ELSE [cluster EXCEPT ![i] = e]
       /\ IF loc[i].got + 1 = loc[i].req
          THEN /\ Goto(i, "a_unlock")
               /\ loc' = [loc EXCEPT ![i].got = @ + 1, ![i].prev = e]
          ELSE /\ loc' = [loc EXCEPT ![i].got = @ + 1, ![i].prev = e,
                                     ![i].count = @ + 1, ![i].entry = e + 1]
               /\ UNCHANGED pc
    /\ UNCHANGED <<freeClusValid, fatLock, inode, fsError, goal>>

AllocSkip(i) ==
    /\ pc[i] = "a_scan" /\ ScanLeft(i)
    /\ fat[Scanned(i)] # FREE
    /\ loc' = [loc EXCEPT ![i].count = @ + 1, ![i].entry = Scanned(i) + 1]
    /\ UNCHANGED <<fat, counters, fatLock, inode, fsError, pc, cluster, goal>>

(* Every entry has been seen: -ENOSPC.                                      *)
AllocFull(i) ==
    /\ pc[i] = "a_scan" /\ ~ScanLeft(i)
    /\ freeClusters' = 0
    /\ freeClusValid' = TRUE
    /\ Goto(i, "a_unlock")
    /\ UNCHANGED <<fat, prevFree, fatLock, inode, fsError, locals>>

AllocReadFails(i) ==
    /\ pc[i] = "a_scan" /\ ScanLeft(i) /\ ReadFails
    /\ Goto(i, "a_unlock")
    /\ UNCHANGED <<fat, counters, fatLock, inode, fsError, locals>>

SomeGot(i) == loc[i].got > 0                                \* mutant
AllGot(i) == loc[i].got = loc[i].req

AllocUnlock(i) ==
    /\ pc[i] = "a_unlock"
    /\ fatLock' = NoOne
    /\ \/ /\ AllGot(i)
          /\ Goto(i, "a_mirror")
          /\ UNCHANGED locals
       \/ /\ ~AllGot(i) /\ loc[i].got > 0   \* give back what was taken
          /\ Cleanup(i)
          /\ UNCHANGED locals
       \/ /\ ~AllGot(i) /\ loc[i].got = 0
          /\ Leave(i)
    /\ UNCHANGED <<fat, counters, inode, fsError>>

(* The sync and the mirroring, outside the lock; for a directory also the   *)
(* filling of the new blocks, before anything refers to the cluster.  A     *)
(* directory's first cluster is then published with its new inode, unless   *)
(* vfat_mkdir cannot add the name and frees the cluster.                    *)
AllocMirror(i) ==
    /\ pc[i] = "a_mirror"
    /\ \/ /\ i \in Dirs /\ iStart[i] = 0
          /\ iStart' = [iStart EXCEPT ![i] = cluster[i]]
          /\ iBlocks' = [iBlocks EXCEPT ![i] = 1]
          /\ iSize' = [iSize EXCEPT ![i] = SecPerClus]
          /\ mmuPrivate' = [mmuPrivate EXCEPT ![i] = SecPerClus]
          /\ Leave(i)
       \/ /\ i \notin Dirs \/ iStart[i] # 0
          /\ Goto(i, "chain")
          /\ UNCHANGED <<inode, locals>>
       \/ /\ "alloc_io" \in Faults \/ (i \in Dirs /\ iStart[i] = 0)
          /\ Cleanup(i)
          /\ UNCHANGED <<inode, locals>>
    /\ UNCHANGED <<fat, counters, fatLock, fsError>>

-----------------------------------------------------------------------------
(* fat_chain_add *)

(* Without a cluster the new one becomes i_start; otherwise the last one is *)
(* looked for first, by asking for the FAT_ENT_EOF-th.                      *)
ChainAdd(i) ==
    /\ pc[i] = "chain"
    /\ IF iStart[i] = 0
       THEN /\ iStart' = [iStart EXCEPT ![i] = cluster[i]]
            /\ Goto(i, "chain_end")
            /\ loc' = [loc EXCEPT ![i].fclus = 0]
       ELSE Walk(i, "walk_end", EOF) /\ UNCHANGED iStart
    /\ UNCHANGED <<fat, counters, fatLock, iBlocks, mmuPrivate, iSize, fsError, cluster, goal>>

ChainLink(i) ==
    /\ pc[i] = "link"
    /\ \/ /\ loc[i].dclus \in Clusters
          /\ fat' = [fat EXCEPT ![loc[i].dclus] = cluster[i]]
          /\ Goto(i, "link_sync")
       \/ ReadFails /\ Cleanup(i) /\ UNCHANGED fat
    /\ UNCHANGED <<counters, fatLock, inode, fsError, locals>>

(* The new link is synced and mirrored; if that fails the callers of        *)
(* fat_chain_add free the cluster, and the link stays.                      *)
ChainSync(i) ==
    /\ pc[i] = "link_sync"
    /\ \/ Goto(i, "chain_end") /\ loc' = [loc EXCEPT ![i].fclus = @ + 1]
       \/ "chain_io" \in Faults /\ Cleanup(i) /\ UNCHANGED loc
    /\ UNCHANGED <<fat, counters, fatLock, inode, fsError, cluster, goal>>

(* i_blocks, then the updates of the callers: a file goes on to map the     *)
(* block it wanted, a directory has grown.                                  *)
Grown(i) ==
    /\ iBlocks' = [iBlocks EXCEPT ![i] = @ + loc[i].req]
    /\ IF i \in Dirs
       THEN /\ iSize' = [iSize EXCEPT ![i] = @ + loc[i].req * SecPerClus]
            /\ mmuPrivate' = [mmuPrivate EXCEPT ![i] = @ + loc[i].req * SecPerClus]
            /\ Leave(i)
       ELSE /\ mmuPrivate' = [mmuPrivate EXCEPT ![i] = @ + 1]
            /\ Walk(i, "walk_map", mmuPrivate[i] \div SecPerClus)
            /\ UNCHANGED <<iSize, cluster, goal>>
    /\ UNCHANGED iStart

(* The check of i_blocks only reports ("clusters badly computed").          *)
ChainEndBails(i) ==                                         \* mutant
    /\ pc[i] = "chain_end"
    /\ fsError' = (fsError \/ loc[i].fclus # iBlocks[i])
    /\ IF loc[i].fclus = iBlocks[i] THEN Grown(i)
                                    ELSE Cleanup(i) /\ UNCHANGED <<inode, locals>>
    /\ UNCHANGED <<fat, counters, fatLock>>
ChainEnd(i) ==
    /\ pc[i] = "chain_end"
    /\ fsError' = (fsError \/ loc[i].fclus # iBlocks[i])
    /\ Grown(i)
    /\ UNCHANGED <<fat, counters, fatLock>>

-----------------------------------------------------------------------------
(* fat_get_cluster *)

Walking(i) == pc[i] \in Walks /\ loc[i].fclus < loc[i].target
Limit == MaxCluster          \* bound: s_maxbytes >> cluster_bits

WalkStep(i) ==
    /\ Walking(i) /\ loc[i].fclus <= Limit
    /\ loc[i].dclus \in Clusters /\ fat[loc[i].dclus] \in Clusters
    /\ loc' = [loc EXCEPT ![i].fclus = @ + 1, ![i].dclus = fat[loc[i].dclus]]
    /\ UNCHANGED <<fat, counters, fatLock, inode, fsError, pc, cluster, goal>>

(* A loop, a free entry or an unreadable block: the caller gives up.  A     *)
(* file's block beyond the last cluster is an error of fat_bmap_cluster.    *)
WalkFails(i) ==
    /\ Walking(i)
    /\ \/ ReadFails /\ UNCHANGED fsError
       \/ /\ \/ loc[i].fclus > Limit \/ loc[i].dclus \notin Clusters
             \/ loc[i].dclus \in Clusters /\ fat[loc[i].dclus] = FREE
             \/ /\ pc[i] = "walk_map"
                /\ loc[i].dclus \in Clusters /\ fat[loc[i].dclus] = EOF
          /\ fsError' = TRUE
    /\ IF pc[i] = "walk_end" THEN Cleanup(i) /\ UNCHANGED locals ELSE Leave(i)
    /\ UNCHANGED <<fat, counters, fatLock, inode>>

WalkEof(i) ==
    /\ Walking(i) /\ pc[i] # "walk_map"
    /\ loc[i].dclus \in Clusters /\ fat[loc[i].dclus] = EOF
    /\ IF pc[i] = "walk_end" THEN Goto(i, "link") /\ UNCHANGED locals
                             ELSE Leave(i)
    /\ UNCHANGED <<fat, counters, fatLock, inode, fsError>>

WalkDone(i) ==
    /\ pc[i] \in Walks /\ loc[i].fclus >= loc[i].target
    /\ Goto(i, CASE pc[i] = "walk_cut" -> "cut"
                 [] pc[i] = "walk_map" -> "block"
                 [] OTHER -> "link")
    /\ UNCHANGED <<fat, counters, fatLock, inode, fsError, locals>>

-----------------------------------------------------------------------------
(* fat_truncate_blocks and fat_free *)

(* The inode gives up its first cluster before anything is freed.           *)
StartKept(i) == UNCHANGED iStart                            \* mutant
StartCleared(i) == iStart' = [iStart EXCEPT ![i] = 0]

Truncate(i) ==
    /\ pc[i] = "trunc"
    /\ mmuPrivate' = [mmuPrivate EXCEPT ![i] = Lesser(@, iSize[i])]
    /\ LET skip == Ceil(iSize[i]) IN
       \/ /\ iStart[i] = 0
          /\ Leave(i)
          /\ UNCHANGED <<iStart, iBlocks>>
       \/ /\ iStart[i] # 0 /\ "inode_sync" \in Faults     \* i_start is put back
          /\ Leave(i)
          /\ UNCHANGED <<iStart, iBlocks>>
       \/ /\ iStart[i] # 0 /\ skip = 0
          /\ cluster' = [cluster EXCEPT ![i] = iStart[i]]
          /\ StartCleared(i)
          /\ iBlocks' = [iBlocks EXCEPT ![i] = 0]
          /\ Cleanup(i)
          /\ UNCHANGED <<goal, loc>>
       \/ /\ iStart[i] # 0 /\ skip > 0
          /\ Walk(i, "walk_cut", skip - 1)
          /\ UNCHANGED <<iStart, iBlocks, cluster, goal>>
    /\ UNCHANGED <<fat, counters, fatLock, iSize, fsError>>

(* The new end of the file: its entry is read, then overwritten.            *)
Cut(i) ==
    /\ pc[i] = "cut"
    /\ LET last == loc[i].dclus IN
       \/ /\ last \in Clusters /\ fat[last] \in Clusters
          /\ cluster' = [cluster EXCEPT ![i] = fat[last]]
          /\ fat' = [fat EXCEPT ![last] = EOF]
          /\ Goto(i, "cut_sync")
          /\ UNCHANGED <<goal, loc, fsError>>
       \/ /\ last \in Clusters /\ fat[last] = EOF
          /\ Leave(i)
          /\ UNCHANGED <<fat, fsError>>
       \/ /\ last \notin Clusters \/ (last \in Clusters /\ fat[last] = FREE)
          /\ fsError' = TRUE
          /\ Leave(i)
          /\ UNCHANGED fat
       \/ ReadFails /\ Leave(i) /\ UNCHANGED <<fat, fsError>>
    /\ UNCHANGED <<counters, fatLock, inode>>

CutSync(i) ==
    /\ pc[i] = "cut_sync"
    /\ \/ /\ iBlocks' = [iBlocks EXCEPT ![i] = Ceil(iSize[i])]
          /\ Cleanup(i)
          /\ UNCHANGED locals
       \/ "cut_io" \in Faults /\ Leave(i) /\ UNCHANGED iBlocks
    /\ UNCHANGED <<fat, counters, fatLock, iStart, mmuPrivate, iSize, fsError>>

-----------------------------------------------------------------------------
(* fat_free_clusters *)

FreeLock(i) ==
    /\ pc[i] = "f_lock" /\ LockFree
    /\ fatLock' = i
    /\ Goto(i, "f_step")
    /\ UNCHANGED <<fat, counters, inode, fsError, locals>>

FreeStep(i) ==
    /\ pc[i] = "f_step" /\ cluster[i] \in Clusters /\ fat[cluster[i]] # FREE
    /\ fat' = [fat EXCEPT ![cluster[i]] = FREE]
    /\ freeClusters' = Counted(1)
    /\ cluster' = [cluster EXCEPT ![i] = fat[cluster[i]]]
    /\ \/ fat[cluster[i]] # EOF /\ UNCHANGED pc
       \/ /\ fat[cluster[i]] = EOF \/ "free_io" \in Faults
          /\ Goto(i, "f_unlock")
    /\ UNCHANGED <<freeClusValid, prevFree, fatLock, inode, fsError, goal, loc>>

(* An unreadable entry, or one that is free already, ends the walk.         *)
FreeFailsLocked(i) ==                                       \* mutant
    /\ pc[i] = "f_step"
    /\ ReadFails \/ cluster[i] \notin Clusters
    /\ Leave(i)
    /\ UNCHANGED <<fat, counters, fatLock, inode, fsError>>
FreeFails(i) ==
    /\ pc[i] = "f_step"
    /\ \/ ReadFails /\ UNCHANGED fsError
       \/ /\ cluster[i] \notin Clusters \/ (cluster[i] \in Clusters /\ fat[cluster[i]] = FREE)
          /\ fsError' = TRUE
    /\ Goto(i, "f_unlock")
    /\ UNCHANGED <<fat, counters, fatLock, inode, locals>>

FreeUnlock(i) ==
    /\ pc[i] = "f_unlock"
    /\ fatLock' = NoOne
    /\ Leave(i)
    /\ UNCHANGED <<fat, counters, inode, fsError>>

-----------------------------------------------------------------------------
(* fat_count_free_clusters, called by fat_statfs while the number is not    *)
(* known or not valid; the lock is held from the first entry to the last.   *)
CountFree ==
    /\ LockFree
    /\ freeClusters = Unknown \/ ~freeClusValid
    /\ freeClusters' = Cardinality(FreeSet)
    /\ freeClusValid' = TRUE
    /\ UNCHANGED <<fat, prevFree, fatLock, inode, fsError, pc, locals>>

Request(i) == WriteBegin(i) \/ DirGrow(i) \/ Shrink(i)

Step(i) ==
    \/ GetBlock(i) \/ WriteEnd(i)
    \/ AllocLock(i) \/ AllocTake(i) \/ AllocSkip(i) \/ AllocFull(i)
    \/ AllocReadFails(i) \/ AllocUnlock(i) \/ AllocMirror(i)
    \/ ChainAdd(i) \/ ChainLink(i) \/ ChainSync(i) \/ ChainEnd(i)
    \/ WalkStep(i) \/ WalkFails(i) \/ WalkEof(i) \/ WalkDone(i)
    \/ Truncate(i) \/ Cut(i) \/ CutSync(i)
    \/ FreeLock(i) \/ FreeStep(i) \/ FreeFails(i) \/ FreeUnlock(i)

Next == CountFree \/ \E i \in Inodes : Request(i) \/ Step(i)

Spec == Init /\ [][Next]_vars

(* A thread that has begun runs on, and the mutex does not pass over a      *)
(* waiter for ever; nobody is obliged to make a request or to call statfs.  *)
Fairness ==
    \A i \in Inodes : /\ WF_vars(Step(i))
                      /\ SF_vars(AllocLock(i)) /\ SF_vars(FreeLock(i))
FairSpec == Spec /\ Fairness
-----------------------------------------------------------------------------
(* What must be true of the table.                                          *)

(* Every variable has its type.                                             *)
TypeOK ==
    /\ fat \in [Clusters -> Clusters \cup {FREE, EOF}]
    /\ freeClusters \in Nat \cup {Unknown} /\ freeClusValid \in BOOLEAN
    /\ prevFree \in Clusters
    /\ fatLock \in Inodes \cup {NoOne}
    /\ iStart \in [Inodes -> Clusters \cup {0}]
    /\ iBlocks \in [Inodes -> Nat] /\ mmuPrivate \in [Inodes -> Nat]
    /\ iSize \in [Inodes -> Nat] /\ goal \in [Inodes -> Nat]
    /\ fsError \in BOOLEAN
    /\ pc \in [Inodes -> PCs]
    /\ cluster \in [Inodes -> Clusters \cup {0, EOF}]
    /\ loc \in [Inodes -> LocType]

(* The places a cluster number is kept: the table, i_start, and the local   *)
(* of a thread between the allocation and the link, or between the cut and  *)
(* the last fat_ent_put of fat_free_clusters.                               *)
Holding == {"a_scan", "a_unlock", "a_mirror", "chain", "walk_end", "link",
            "cut_sync", "f_lock", "f_step"}
Held(i) == IF pc[i] \in Holding THEN cluster[i] ELSE 0

(* No cluster is reached from two places: two chains never run into one     *)
(* cluster, and what a thread is freeing no chain still refers to.          *)
NoSharedCluster ==
    /\ \A c, d \in Clusters : fat[c] \in Clusters /\ fat[c] = fat[d] => c = d
    /\ \A i, j \in Inodes :
         /\ (iStart[i] \in Clusters /\ iStart[i] = iStart[j]) => i = j
         /\ (Held(i) \in Clusters /\ Held(i) = Held(j)) => i = j
         /\ iStart[i] \in Clusters => iStart[i] # Held(j)
    /\ \A c \in Clusters, i \in Inodes :
         fat[c] \in Clusters => fat[c] # iStart[i] /\ fat[c] # Held(i)

(* A cluster that something refers to is not free, so fat_alloc_clusters    *)
(* cannot hand it out again ("invalid cluster chain" in fat_get_cluster).   *)
NoFreeInUse ==
    \A c \in FreeSet : /\ \A d \in Clusters : fat[d] # c
                       /\ \A i \in Inodes : iStart[i] # c /\ Held(i) # c

(* The free counter, once it is known and valid, is the number of free      *)
(* entries: the increments and decrements of all threads add up.            *)
FreeCountExact ==
    freeClusValid /\ freeClusters # Unknown => freeClusters = Cardinality(FreeSet)

(* -ENOSPC is the truth: the early return of fat_alloc_clusters leaves      *)
(* fewer free clusters than were asked for, and the wrapped scan leaves     *)
(* none.                                                                    *)
EnospcIsTrue ==
    [][\A i \in Inodes :
         /\ pc[i] = "a_lock" /\ pc'[i] \in {"idle", "trunc"} =>
              Cardinality(FreeSet) < loc[i].req
         /\ AllocFull(i) => FreeSet = {}]_vars

(* No fat_fs_error is reported on a volume whose I/O succeeds: chains end,  *)
(* i_blocks agrees with the chain ("clusters badly computed"), no free      *)
(* entry is freed ("deleting FAT entry beyond EOF").                        *)
NoFsError == ~fsError

(* What a thread has begun it finishes, whoever else uses the table.        *)
Finishes == \A i \in Inodes : pc[i] # "idle" ~> pc[i] = "idle"
=============================================================================
