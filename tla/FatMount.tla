------------------------------ MODULE FatMount ------------------------------
(***************************************************************************)
(* Mounting, remounting and unmounting a volume (inode.c, misc.c and       *)
(* mark_fsinfo_dirty of fatent.c in kernel_camp/fat_log_module_practice),  *)
(* with crashes.  On the disk are the table, the dirty flag of the boot    *)
(* sector and the count of free clusters in the FSINFO sector; in memory   *)
(* the buffers of the table and of FSINFO, free_clusters, and the inode    *)
(* whose write-back puts free_clusters into the FSINFO buffer.             *)
(*                                                                         *)
(* Of the table only which entries are free is kept.  The VFS is external: *)
(* it keeps writers out of a volume that is read-only or being made so,    *)
(* syncs before it unmounts, and writes buffers back when it likes.        *)
(***************************************************************************)
EXTENDS Integers, FiniteSets

CONSTANTS
    Clusters,     \* the usable clusters
    Threads,      \* threads that change files
    Crashes,      \* the machine may crash
    IoFails       \* boot sector and FSINFO may not be readable or writable

Unknown == -1

ASSUME ClusterAssumption == IsFiniteSet(Clusters)
ASSUME SwitchAssumption == Crashes \in BOOLEAN /\ IoFails \in BOOLEAN

VARIABLES
    kind,         \* FSINFO: "good", "bad" (no signature), "none" (FAT12/16)
    diskFree, diskDirty, diskCount,         \* what is on the disk
    fat, fsinfo,                            \* what the buffers hold
    super,        \* "none", "live", "remount", "put" or "gone"
    rdonly,       \* s_flags & MS_RDONLY
    sbDirty, usefree, freeClusters, freeClusValid,  \* struct msdos_sb_info
    inodeDirty,   \* I_DIRTY of fsinfo_inode
    orphans,      \* clusters of files that are unlinked and still open
    pc,           \* what each thread does
    torn,         \* history: a crash lost part of what had been done
    failed,       \* history: I/O failed and nobody was told
    missed        \* history: a change of free_clusters was not marked

disk  == <<diskFree, diskDirty, diskCount>>
cache == <<fat, fsinfo>>
sbi   == <<sbDirty, usefree, freeClusters, freeClusValid>>
live  == <<super, rdonly, inodeDirty, orphans, pc>>
past  == <<torn, failed, missed>>
vars  == <<kind, disk, cache, sbi, live, past>>

Counts == -1..(Cardinality(Clusters) + 1)

(* A volume as it was formatted, or as some other system or an earlier      *)
(* crash left it, which it tells by its flag.                               *)
Init ==
    /\ kind \in {"good", "bad", "none"}
    /\ diskFree \in SUBSET Clusters
    /\ diskDirty \in {FALSE, Crashes}
    /\ diskCount \in Counts
    /\ ~diskDirty => diskCount \in {Unknown, Cardinality(diskFree)}
    /\ kind # "good" => diskCount = Unknown
    /\ fat = diskFree /\ fsinfo = diskCount
    /\ super = "none" /\ rdonly = FALSE /\ inodeDirty = FALSE
    /\ sbDirty = FALSE /\ usefree = FALSE /\ freeClusters = Unknown /\ freeClusValid = FALSE
    /\ orphans = {} /\ pc = [t \in Threads |-> "idle"]
    /\ torn = FALSE /\ failed = FALSE /\ missed = FALSE

Quiet == orphans = {} /\ \A t \in Threads : pc[t] = "idle"

(* sync_dirty_buffer or sb_bread returns an error that is dropped.          *)
Fail == IoFails /\ failed' = TRUE

-----------------------------------------------------------------------------
(* fat_set_state; keeps is whether its early returns apply.                 *)
KeepsReadOnly(ro, force, dirty) == ro /\ ~force             \* mutant
KeepsUnforced(ro, force, dirty) == ro \/ dirty              \* mutant
Keeps(ro, force, dirty) == (ro /\ ~force) \/ dirty

SetState(ro, set, force, dirty) ==
    \/ /\ diskDirty' = IF Keeps(ro, force, dirty) THEN diskDirty ELSE set
       /\ UNCHANGED failed
    \/ Fail /\ UNCHANGED diskDirty

(* free_clusters as fat_fill_super takes it from FSINFO.                    *)
Trusted(use) == kind = "good"                               \* mutant
Believed(use) == kind = "good" /\ use
Read == IF kind = "good" /\ diskCount <= Cardinality(Clusters) THEN diskCount ELSE Unknown

Mount(ro, use) ==
    /\ super = "none"
    /\ super' = "live" /\ rdonly' = ro
    /\ sbDirty' = diskDirty /\ usefree' = use
    /\ freeClusters' = Read /\ freeClusValid' = Believed(use)
    /\ SetState(ro, TRUE, FALSE, diskDirty)
    /\ UNCHANGED <<kind, diskFree, diskCount, cache, inodeDirty, orphans, pc, torn, missed>>

(* fat_remount between read-write and read-only: sync_filesystem while the  *)
(* VFS keeps writers out, then the flag.  An error that has made the volume *)
(* read-only in between leaves nothing to change.                           *)
Flushed == IF inodeDirty /\ kind = "good" /\ freeClusters # Unknown THEN freeClusters ELSE fsinfo

Sync ==
    /\ diskFree' = fat
    /\ inodeDirty' = FALSE
    /\ \/ fsinfo' = Flushed /\ UNCHANGED failed
       \/ Fail /\ inodeDirty /\ UNCHANGED fsinfo
    /\ diskCount' = fsinfo'

RemountSync ==
    /\ super = "live" /\ ~rdonly /\ Quiet
    /\ super' = "remount"
    /\ Sync
    /\ UNCHANGED <<kind, diskDirty, fat, sbi, rdonly, orphans, pc, torn, missed>>

RemountReadOnly ==
    /\ super = "remount"
    /\ super' = "live" /\ rdonly' = TRUE
    /\ SetState(rdonly, FALSE, FALSE, sbDirty)
    /\ UNCHANGED <<kind, diskFree, diskCount, cache, sbi, inodeDirty, orphans, pc, torn, missed>>

RemountWrite ==
    /\ super = "live" /\ rdonly
    /\ rdonly' = FALSE
    /\ SetState(rdonly, TRUE, TRUE, sbDirty)
    /\ UNCHANGED <<kind, diskFree, diskCount, cache, sbi, super, inodeDirty, orphans, pc,
                   torn, missed>>

(* Unmounting: the VFS syncs what is not read-only, fat_put_super sets the  *)
(* flag and puts fsinfo_inode, which writes it back if it is dirty, and the *)
(* VFS writes the buffers.                                                  *)
Unmount ==
    /\ super = "live" /\ Quiet
    /\ super' = "put"
    /\ IF rdonly THEN UNCHANGED <<diskFree, diskCount, fsinfo, inodeDirty, failed>> ELSE Sync
    /\ UNCHANGED <<kind, diskDirty, fat, sbi, rdonly, orphans, pc, torn, missed>>

PutSuper ==
    /\ super = "put"
    /\ super' = "gone"
    /\ SetState(rdonly, FALSE, FALSE, sbDirty)
    /\ fsinfo' = Flushed /\ inodeDirty' = FALSE
    /\ UNCHANGED <<kind, diskFree, diskCount, fat, sbi, rdonly, orphans, pc, torn, missed>>

Forget ==
    /\ super' = "none" /\ rdonly' = FALSE /\ inodeDirty' = FALSE
    /\ sbDirty' = FALSE /\ usefree' = FALSE /\ freeClusters' = Unknown /\ freeClusValid' = FALSE
    /\ orphans' = {} /\ pc' = [t \in Threads |-> "idle"]

KillSuper ==
    /\ super = "gone"
    /\ diskFree' = fat /\ diskCount' = fsinfo
    /\ Forget
    /\ UNCHANGED <<kind, diskDirty, cache, past>>

(* A crash, or errors=panic: what was only in memory is gone, and so are    *)
(* the clusters of unlinked files to anybody who could free them.           *)
Crash ==
    /\ Crashes /\ super # "none"
    /\ Forget
    /\ fat' = diskFree /\ fsinfo' = diskCount
    /\ torn' = (torn \/ diskFree # fat \/ orphans # {})
    /\ UNCHANGED <<kind, disk, failed, missed>>

-----------------------------------------------------------------------------
(* Write-back: fat_write_inode of fsinfo_inode with fat_clusters_flush, the *)
(* block of FSINFO, and blocks of the table.                                *)
WriteInode ==
    /\ super \in {"live", "remount"} /\ inodeDirty
    /\ inodeDirty' = FALSE
    /\ \/ fsinfo' = Flushed /\ UNCHANGED failed
       \/ Fail /\ UNCHANGED fsinfo
    /\ UNCHANGED <<kind, disk, fat, sbi, super, rdonly, orphans, pc, torn, missed>>

WriteBuffer ==
    /\ super # "none"
    /\ \/ diskCount' = fsinfo /\ UNCHANGED diskFree
       \/ \E c \in Clusters : /\ diskFree' = IF c \in fat THEN diskFree \cup {c} ELSE diskFree \ {c}
                              /\ UNCHANGED diskCount
    /\ UNCHANGED <<kind, diskDirty, cache, sbi, live, past>>

-----------------------------------------------------------------------------
(* Threads that change files.  The VFS lets an operation begin on a volume  *)
(* that can be written; one that has begun goes on when an error makes the  *)
(* volume read-only.                                                        *)
Goto(t, label) == pc' = [pc EXCEPT ![t] = label]

Begin(t) ==
    /\ super = "live" /\ ~rdonly /\ pc[t] = "idle"
    /\ Goto(t, "op")
    /\ UNCHANGED <<kind, disk, cache, sbi, super, rdonly, inodeDirty, orphans, past>>

End(t) ==
    /\ pc[t] = "op"
    /\ Goto(t, "idle")
    /\ UNCHANGED <<kind, disk, cache, sbi, super, rdonly, inodeDirty, orphans, past>>

CountedBlind(delta) == freeClusters + delta                 \* mutant
Counted(delta) == IF freeClusters = Unknown THEN Unknown ELSE freeClusters + delta

(* fat_alloc_clusters finds an entry, or none.                              *)
Alloc(t) ==
    /\ pc[t] = "op"
    /\ \/ \E c \in fat : /\ fat' = fat \ {c}
                         /\ freeClusters' = Counted(-1)
                         /\ UNCHANGED freeClusValid
       \/ /\ fat = {} /\ UNCHANGED fat
          /\ freeClusters' = 0 /\ freeClusValid' = TRUE
    /\ Goto(t, "mark")
    /\ UNCHANGED <<kind, disk, fsinfo, sbDirty, usefree, super, rdonly, inodeDirty, orphans, past>>

(* fat_free_clusters in an operation, or in the eviction of an unlinked     *)
(* inode, which may begin at any time.                                      *)
Free(t, c) ==
    /\ c \notin fat
    /\ \/ pc[t] = "op" /\ c \notin orphans
          /\ Goto(t, IF freeClusters = Unknown THEN "op" ELSE "mark")
       \/ pc[t] = "idle" /\ c \in orphans
          /\ Goto(t, IF freeClusters = Unknown THEN "idle" ELSE "evict")
    /\ fat' = fat \cup {c}
    /\ orphans' = orphans \ {c}
    /\ freeClusters' = Counted(1)
    /\ UNCHANGED <<kind, disk, fsinfo, sbDirty, usefree, freeClusValid, super, rdonly,
                   inodeDirty, past>>

Unlink(t, c) ==
    /\ pc[t] = "op" /\ c \notin fat
    /\ orphans' = orphans \cup {c}
    /\ UNCHANGED <<kind, disk, cache, sbi, super, rdonly, inodeDirty, pc, past>>

(* mark_fsinfo_dirty, after fat_lock has been given back.                   *)
MarksValid == ~rdonly /\ kind # "none" /\ freeClusValid     \* mutant
Marks == ~rdonly /\ kind # "none"
Mark(t) ==
    /\ pc[t] \in {"mark", "evict"}
    /\ Goto(t, IF pc[t] = "mark" THEN "op" ELSE "idle")
    /\ inodeDirty' = (inodeDirty \/ Marks)
    /\ missed' = (missed \/ rdonly)
    /\ UNCHANGED <<kind, disk, cache, sbi, super, rdonly, orphans, torn, failed>>

(* fat_statfs with fat_count_free_clusters.                                 *)
Statfs ==
    /\ super \in {"live", "remount"}
    /\ freeClusters = Unknown \/ ~freeClusValid
    /\ freeClusters' = Cardinality(fat) /\ freeClusValid' = TRUE
    /\ inodeDirty' = (inodeDirty \/ Marks)
    /\ UNCHANGED <<kind, disk, cache, sbDirty, usefree, super, rdonly, orphans, pc, past>>

(* __fat_fs_error with errors=remount-ro.                                   *)
FsError ==
    /\ super \in {"live", "remount"} /\ ~rdonly
    /\ rdonly' = TRUE
    /\ UNCHANGED <<kind, disk, cache, sbi, super, inodeDirty, orphans, pc, past>>

Next ==
    \/ \E ro, use \in BOOLEAN : Mount(ro, use)
    \/ RemountSync \/ RemountReadOnly \/ RemountWrite
    \/ Unmount \/ PutSuper \/ KillSuper \/ Crash
    \/ WriteInode \/ WriteBuffer \/ Statfs \/ FsError
    \/ \E t \in Threads : Begin(t) \/ End(t) \/ Alloc(t) \/ Mark(t)
    \/ \E t \in Threads, c \in Clusters : Free(t, c) \/ Unlink(t, c)

Spec == Init /\ [][Next]_vars

-----------------------------------------------------------------------------
(* Every variable has its type; free_clusters does not leave the numbers.   *)
TypeOK ==
    /\ kind \in {"good", "bad", "none"}
    /\ diskFree \subseteq Clusters /\ fat \subseteq Clusters /\ orphans \subseteq Clusters
    /\ diskCount \in Nat \cup {Unknown} /\ fsinfo \in Nat \cup {Unknown}
    /\ super \in {"none", "live", "remount", "put", "gone"}
    /\ {diskDirty, rdonly, sbDirty, usefree, freeClusValid, inodeDirty,
        torn, failed, missed} \subseteq BOOLEAN
    /\ freeClusters \in Nat \cup {Unknown}
    /\ pc \in [Threads -> {"idle", "op", "mark", "evict"}]

(* A volume whose flag is clear has nothing to lose: if the machine crashed *)
(* now, the disk would hold all that was done.                              *)
CleanIsWhole == ~diskDirty /\ ~failed => diskFree = fat /\ Quiet

(* A crash that tore something is remembered through every later mount.     *)
CrashRemembered == torn /\ ~failed => diskDirty

(* The count on a volume whose flag is clear can be believed: it is unknown *)
(* or right, unless a change was not marked because of MS_RDONLY.           *)
CleanCountRight ==
    ~diskDirty /\ ~failed /\ ~missed => diskCount \in {Unknown, Cardinality(diskFree)}

(* A valid free_clusters is the number of free entries, if usefree has not  *)
(* believed the FSINFO of a volume that was dirty or missed a change.       *)
ValidCountRight ==
    freeClusValid /\ freeClusters # Unknown /\ ~failed /\ ~missed /\ (usefree => ~sbDirty)
      => freeClusters = Cardinality(fat)

(* "is free_clusters valid?": when it says so, and the volume was clean,    *)
(* it is.                                                                   *)
ValidMeansValid ==
    freeClusValid /\ freeClusters # Unknown /\ ~sbDirty => freeClusters = Cardinality(fat)
=============================================================================
