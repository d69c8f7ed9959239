--------------------------- MODULE FatMountProofs ---------------------------
(***************************************************************************)
(* Theorems about FatMount: what the dirty flag and the count of free      *)
(* clusters on the disk can be believed to say, through mounts, remounts,  *)
(* errors and crashes.                                                     *)
(***************************************************************************)
EXTENDS FatMount, FiniteSetTheorems, TLAPS

-----------------------------------------------------------------------------
(* Counting.                                                                *)

LEMMA Finite ==
  ASSUME NEW S, S \subseteq Clusters
  PROVE  IsFiniteSet(S) /\ Cardinality(S) \in Nat /\ Cardinality(S) <= Cardinality(Clusters)
<1>1. IsFiniteSet(S) /\ Cardinality(S) <= Cardinality(Clusters)
  BY ClusterAssumption, FS_Subset
<1> QED BY <1>1, FS_CardinalityType

LEMMA OneLess ==
  ASSUME NEW S, S \subseteq Clusters, NEW c \in S
  PROVE  Cardinality(S \ {c}) = Cardinality(S) - 1 /\ Cardinality(S) >= 1
<1>1. Cardinality(S \ {c}) = Cardinality(S) - 1
  BY Finite, FS_RemoveElement
<1>2. Cardinality(S \ {c}) \in Nat /\ Cardinality(S) \in Nat
  BY Finite
<1> QED BY <1>1, <1>2

LEMMA OneMore ==
  ASSUME NEW S, S \subseteq Clusters, NEW c \in Clusters, c \notin S
  PROVE  Cardinality(S \cup {c}) = Cardinality(S) + 1
  BY Finite, FS_AddElement

-----------------------------------------------------------------------------
(* Types.                                                                   *)

LEMMA InitType == Init => TypeOK
<1> SUFFICES ASSUME Init  PROVE TypeOK
  OBVIOUS
<1>1. Cardinality(Clusters) \in Nat
  BY Finite
<1>2. diskCount \in Nat \cup {Unknown}
  BY <1>1 DEF Init, Counts, Unknown
<1> QED BY <1>2, SwitchAssumption DEF Init, TypeOK, Unknown

LEMMA CountedType ==
  ASSUME TypeOK, NEW delta \in {-1, 1}
  PROVE  Counted(delta) \in Nat \cup {Unknown}
  BY DEF TypeOK, Counted, Unknown

LEMMA NextType == TypeOK /\ [Next]_vars => TypeOK'
<1> SUFFICES ASSUME TypeOK, [Next]_vars  PROVE TypeOK'
  OBVIOUS
<1> USE DEF TypeOK, disk, cache, sbi, live, past
<1>a. Cardinality(fat) \in Nat
  BY Finite
<1>b. Flushed \in Nat \cup {Unknown}
  BY DEF Flushed
<1>1. ASSUME NEW ro \in BOOLEAN, NEW use \in BOOLEAN, Mount(ro, use)
      PROVE  TypeOK'
  BY <1>1 DEF Mount, SetState, Fail, Read, Believed, Unknown
<1>2. CASE RemountSync \/ Unmount
  BY <1>2, <1>b DEF RemountSync, Unmount, Sync, Fail
<1>3. CASE RemountReadOnly \/ RemountWrite
  BY <1>3 DEF RemountReadOnly, RemountWrite, SetState, Fail
<1>4. CASE PutSuper
  BY <1>4, <1>b DEF PutSuper, SetState, Fail
<1>5. CASE KillSuper \/ Crash
  BY <1>5 DEF KillSuper, Crash, Forget, Unknown
<1>6. CASE WriteInode
  BY <1>6, <1>b DEF WriteInode, Fail
<1>7. CASE WriteBuffer
  BY <1>7 DEF WriteBuffer
<1>8. CASE Statfs \/ FsError
  BY <1>8, <1>a DEF Statfs, FsError
<1>9. ASSUME NEW t \in Threads, Begin(t) \/ End(t) \/ Alloc(t) \/ Mark(t)
      PROVE  TypeOK'
  <2>1. CASE Begin(t) \/ End(t)
    BY <2>1 DEF Begin, End, Goto
  <2>2. CASE Alloc(t)
    <3>1. Counted(-1) \in Nat \cup {Unknown}
      BY CountedType
    <3>2. freeClusters' \in Nat \cup {Unknown} /\ fat' \subseteq Clusters
      BY <2>2, <3>1 DEF Alloc
    <3>3. freeClusValid' \in BOOLEAN
      BY <2>2 DEF Alloc
    <3>4. pc' \in [Threads -> {"idle", "op", "mark", "evict"}]
      BY <2>2 DEF Alloc, Goto
    <3> QED BY <2>2, <3>2, <3>3, <3>4 DEF Alloc
  <2>3. CASE Mark(t)
    <3>1. (inodeDirty \/ Marks) \in BOOLEAN /\ (missed \/ rdonly) \in BOOLEAN
      BY DEF Marks
    <3>2. pc' \in [Threads -> {"idle", "op", "mark", "evict"}]
      BY <2>3 DEF Mark, Goto
    <3>3. {inodeDirty', missed'} \subseteq BOOLEAN
      BY <2>3, <3>1 DEF Mark
    <3> QED BY <2>3, <3>2, <3>3 DEF Mark
  <2> QED BY <1>9, <2>1, <2>2, <2>3
<1>10. ASSUME NEW t \in Threads, NEW c \in Clusters, Free(t, c) \/ Unlink(t, c)
       PROVE  TypeOK'
  BY <1>10, CountedType DEF Free, Unlink, Goto
<1>11. CASE UNCHANGED vars
  BY <1>11 DEF vars
<1> QED BY <1>1, <1>2, <1>3, <1>4, <1>5, <1>6, <1>7, <1>8, <1>9, <1>10, <1>11 DEF Next

(* Every variable keeps its type; in particular free_clusters is never      *)
(* counted below its value for an unknown number.                           *)
THEOREM TypeCorrect == Spec => []TypeOK
  BY InitType, NextType, PTL DEF Spec

-----------------------------------------------------------------------------
(* The flag.  While the volume is mounted and can be written, it is set;    *)
(* while it is taken down nobody is at work and the table is on the disk.   *)
FlagInv ==
    /\ super = "none" => fat = diskFree /\ fsinfo = diskCount /\ Quiet
    /\ super # "none" /\ sbDirty => diskDirty
    /\ ~failed /\ super \in {"live", "remount", "put"} /\ ~rdonly => diskDirty
    /\ super \in {"remount", "put", "gone"} => Quiet
    /\ super = "remount" => diskFree = fat
    /\ super \in {"put", "gone"} /\ ~rdonly => diskFree = fat
    /\ CleanIsWhole
    /\ torn /\ ~failed => diskDirty /\ (super # "none" => sbDirty)

(* A thread at work, or a file that is unlinked and open, means a volume    *)
(* that is mounted and marked.                                              *)
LEMMA AtWork ==
  ASSUME TypeOK, FlagInv, ~Quiet
  PROVE  super = "live" /\ (diskDirty \/ failed)
  BY DEF TypeOK, FlagInv, CleanIsWhole

LEMMA InitFlag == Init => FlagInv
  BY DEF Init, FlagInv, CleanIsWhole, Quiet

LEMMA NextFlag == TypeOK /\ FlagInv /\ [Next]_vars => FlagInv'
<1> SUFFICES ASSUME TypeOK, FlagInv, [Next]_vars  PROVE FlagInv'
  OBVIOUS
<1> USE DEF disk, cache, sbi, live, past
<1>1. ASSUME NEW ro \in BOOLEAN, NEW use \in BOOLEAN, Mount(ro, use)
      PROVE  FlagInv'
  BY <1>1 DEF Mount, SetState, Keeps, Fail, FlagInv, TypeOK, CleanIsWhole, Quiet
<1>2. CASE RemountSync
  BY <1>2 DEF RemountSync, Sync, Fail, FlagInv, TypeOK, CleanIsWhole, Quiet
<1>3. CASE RemountReadOnly
  BY <1>3 DEF RemountReadOnly, SetState, Keeps, Fail, FlagInv, TypeOK, CleanIsWhole, Quiet
<1>4. CASE RemountWrite
  <2>1. super = "live" /\ UNCHANGED <<super, sbDirty, fat, diskFree, torn>> /\ (Quiet <=> Quiet')
    BY <1>4 DEF RemountWrite, Quiet
  <2>2. failed => failed'
    BY <1>4 DEF RemountWrite, SetState, Fail
  <2>3. ~failed' => diskDirty'
    <3>1. sbDirty => diskDirty
      BY <2>1 DEF FlagInv
    <3>2. failed' \/ diskDirty' = IF Keeps(rdonly, TRUE, sbDirty) THEN diskDirty ELSE TRUE
      BY <1>4 DEF RemountWrite, SetState, Fail
    <3>3. Keeps(rdonly, TRUE, sbDirty) <=> sbDirty
      BY DEF Keeps
    <3> QED BY <3>1, <3>2, <3>3
  <2>4. sbDirty => diskDirty'
    <3>1. sbDirty => diskDirty
      BY <2>1 DEF FlagInv
    <3>2. diskDirty' = diskDirty \/ diskDirty' = IF Keeps(rdonly, TRUE, sbDirty)
                                              THEN diskDirty ELSE TRUE
      BY <1>4 DEF RemountWrite, SetState, Fail
    <3> QED BY <3>1, <3>2
  <2>5. torn => failed \/ sbDirty
    BY <2>1 DEF FlagInv
  <2> QED BY <2>1, <2>2, <2>3, <2>4, <2>5 DEF FlagInv, CleanIsWhole
<1>5. CASE Unmount
  BY <1>5 DEF Unmount, Sync, Fail, FlagInv, TypeOK, CleanIsWhole, Quiet
<1>6. CASE PutSuper
  BY <1>6 DEF PutSuper, SetState, Keeps, Fail, FlagInv, TypeOK, CleanIsWhole, Quiet
<1>7. CASE KillSuper
  BY <1>7 DEF KillSuper, Forget, FlagInv, TypeOK, CleanIsWhole, Quiet
<1>8. CASE Crash
  BY <1>8 DEF Crash, Forget, FlagInv, TypeOK, CleanIsWhole, Quiet
<1>9. CASE WriteInode
  BY <1>9 DEF WriteInode, Fail, FlagInv, TypeOK, CleanIsWhole, Quiet
<1>10. CASE WriteBuffer
  <2>1. diskFree = fat => diskFree' = fat
    BY <1>10 DEF WriteBuffer
  <2> QED BY <1>10, <2>1 DEF WriteBuffer, FlagInv, TypeOK, CleanIsWhole, Quiet
<1>11. CASE Statfs \/ FsError
  BY <1>11 DEF Statfs, FsError, FlagInv, TypeOK, CleanIsWhole, Quiet
<1>12. ASSUME NEW t \in Threads, Begin(t)
       PROVE  FlagInv'
  BY <1>12 DEF Begin, Goto, FlagInv, TypeOK, CleanIsWhole, Quiet
<1>13. ASSUME NEW t \in Threads,
              \/ End(t) \/ Alloc(t) \/ Mark(t)
              \/ \E c \in Clusters : Free(t, c) \/ Unlink(t, c)
       PROVE  FlagInv'
  <2>1. ~Quiet
    BY <1>13 DEF End, Alloc, Mark, Free, Unlink, Quiet
  <2>2. super = "live" /\ (diskDirty \/ failed)
    BY <2>1, AtWork
  <2>3. UNCHANGED <<super, rdonly, diskDirty, failed, sbDirty, torn>>
    BY <1>13 DEF End, Alloc, Mark, Free, Unlink
  <2> QED BY <2>2, <2>3 DEF FlagInv, CleanIsWhole
<1>14. CASE UNCHANGED vars
  BY <1>14 DEF vars, FlagInv, CleanIsWhole, Quiet
<1> QED BY <1>1, <1>2, <1>3, <1>4, <1>5, <1>6, <1>7, <1>8, <1>9, <1>10, <1>11, <1>12, <1>13, <1>14
        DEF Next

LEMMA FlagAlways == Spec => [](TypeOK /\ FlagInv)
<1>1. Init => TypeOK /\ FlagInv
  BY InitType, InitFlag
<1>2. TypeOK /\ FlagInv /\ [Next]_vars => (TypeOK /\ FlagInv)'
  BY NextType, NextFlag
<1> QED BY <1>1, <1>2, PTL DEF Spec

(* Unless I/O failed unnoticed, a crash of a volume whose flag is clear     *)
(* loses nothing.                                                           *)
THEOREM CleanLosesNothing == Spec => []CleanIsWhole
<1>1. FlagInv => CleanIsWhole
  BY DEF FlagInv
<1> QED BY <1>1, FlagAlways, PTL

(* A crash that tore the volume stays on record, through any number of      *)
(* later mounts, remounts and unmounts.                                     *)
THEOREM CrashOnRecord == Spec => []CrashRemembered
<1>1. FlagInv => CrashRemembered
  BY DEF FlagInv, CrashRemembered
<1> QED BY <1>1, FlagAlways, PTL
-----------------------------------------------------------------------------
(* The counts.  Each of the four copies of the number of free entries is    *)
(* right or unknown for as long as the copies it is taken from are: those   *)
(* on the disk only at the moments when everything has been written.        *)
Near(n) == n \in {Unknown, Cardinality(fat)}
Trust == ~failed /\ ~missed /\ ~sbDirty
Mounted == super # "none"
Marked == \A t \in Threads : pc[t] \notin {"mark", "evict"}
Settled == super = "remount" \/ (super \in {"put", "gone"} /\ ~rdonly) \/ ~diskDirty

Blank == super = "none" => ~sbDirty /\ ~freeClusValid
NoFsinfo == kind # "good" => diskCount = Unknown /\ fsinfo = Unknown
ValidRight == freeClusValid /\ ~usefree => freeClusters = Cardinality(fat)
MemoryRight ==
    Trust /\ Mounted => Near(freeClusters) /\ (freeClusters = Unknown => fsinfo = Unknown)
BufferRight == Trust /\ Mounted /\ ~inodeDirty /\ Marked => Near(fsinfo)
DiskRight == Trust /\ Settled => Near(fsinfo) /\ Near(diskCount)

CountInv == Blank /\ NoFsinfo /\ ValidRight /\ MemoryRight /\ BufferRight /\ DiskRight

(* What fat_clusters_flush leaves in the FSINFO buffer.                     *)
LEMMA FlushedRight ==
  ASSUME CountInv, Trust, Mounted, inodeDirty \/ Marked
  PROVE  Near(Flushed) /\ (freeClusters = Unknown => Flushed = Unknown)
  BY DEF CountInv, NoFsinfo, MemoryRight, BufferRight, Near, Flushed

LEMMA FlushedBlank == ASSUME CountInv  PROVE kind # "good" => Flushed = Unknown
  BY DEF CountInv, NoFsinfo, Flushed

LEMMA QuietMarked == Quiet => Marked
  BY DEF Quiet, Marked

(* Where a thread is at work nothing is settled.                            *)
LEMMA BusyUnsettled ==
  ASSUME TypeOK, FlagInv, ~Quiet, Trust
  PROVE  ~Settled
  BY AtWork DEF Trust, Settled

LEMMA InitCount == Init => CountInv
  BY DEF Init, CountInv, Blank, NoFsinfo, ValidRight, MemoryRight, BufferRight, DiskRight,
         Near, Trust, Mounted, Settled

LEMMA NextCount == TypeOK /\ FlagInv /\ CountInv /\ [Next]_vars => CountInv'
<1> SUFFICES ASSUME TypeOK, FlagInv, CountInv, [Next]_vars  PROVE CountInv'
  OBVIOUS
<1> USE DEF disk, cache, sbi, live, past
<1>a. Cardinality(fat) \in Nat /\ Cardinality(fat) <= Cardinality(Clusters)
  BY Finite, ClusterAssumption, FS_Subset DEF TypeOK
<1>1. ASSUME NEW ro \in BOOLEAN, NEW use \in BOOLEAN, Mount(ro, use)
      PROVE  CountInv'
  <2>1. fat' = fat /\ fsinfo' = fsinfo /\ diskCount' = diskCount /\ fsinfo = diskCount
    BY <1>1 DEF Mount, FlagInv
  <2>2. ~sbDirty /\ ~freeClusValid /\ sbDirty' = diskDirty
    BY <1>1 DEF Mount, CountInv, Blank
  <2>3. Trust' => Trust /\ ~diskDirty
    <3>1. SetState(ro, TRUE, FALSE, diskDirty) /\ missed' = missed
      BY <1>1 DEF Mount
    <3>2. failed => failed'
      BY <3>1 DEF SetState, Fail
    <3> QED BY <2>2, <3>1, <3>2 DEF Trust
  <2>4. Trust' => Near(diskCount)
    BY <2>3 DEF CountInv, DiskRight, Settled
  <2>5. Trust' => Near(Read) /\ (Read = Unknown => diskCount = Unknown)
    BY <1>a, <2>1, <2>4 DEF Near, Read, CountInv, NoFsinfo, Unknown
  <2>6. Blank' /\ NoFsinfo'
    BY <1>1, <2>1 DEF Mount, CountInv, Blank, NoFsinfo
  <2>7. ValidRight'
    BY <1>1 DEF Mount, Believed, ValidRight
  <2>8. MemoryRight' /\ BufferRight' /\ DiskRight'
    BY <1>1, <2>1, <2>4, <2>5 DEF Mount, MemoryRight, BufferRight, DiskRight, Near
  <2> QED BY <2>6, <2>7, <2>8 DEF CountInv
<1>2. CASE RemountSync \/ Unmount
  <2>1. Marked /\ Mounted /\ super' # "none"
    BY <1>2, QuietMarked DEF RemountSync, Unmount, Mounted
  <2>2. fat' = fat /\ pc' = pc /\ UNCHANGED <<sbi, kind, rdonly, diskDirty, missed>>
    BY <1>2 DEF RemountSync, Unmount
  <2>3. \/ Sync
        \/ rdonly /\ super' = "put" /\ UNCHANGED <<diskCount, fsinfo, inodeDirty, failed>>
    BY <1>2 DEF RemountSync, Unmount
  <2>4. Trust' => Trust
    BY <2>2, <2>3 DEF Sync, Fail, Trust
  <2>5. CASE Sync
    <3>1. Trust' => fsinfo' = Flushed /\ diskCount' = Flushed
      BY <2>5 DEF Sync, Fail, Trust
    <3>2. Trust' => Near(fsinfo') /\ diskCount' = fsinfo'
                    /\ (freeClusters = Unknown => fsinfo' = Unknown)
      BY <3>1, <2>1, <2>4, FlushedRight
    <3>3. NoFsinfo'
      BY <2>2, <2>5, FlushedBlank DEF Sync, CountInv, NoFsinfo
    <3> QED BY <2>1, <2>2, <2>4, <3>2, <3>3
            DEF CountInv, Blank, ValidRight, MemoryRight, BufferRight, DiskRight, Near, Mounted
  <2>6. CASE rdonly /\ super' = "put" /\ UNCHANGED <<diskCount, fsinfo, inodeDirty, failed>>
    <3>1. Settled' => Settled
      BY <2>2, <2>6 DEF Settled
    <3> QED BY <2>1, <2>2, <2>4, <2>6, <3>1
            DEF CountInv, Blank, NoFsinfo, ValidRight, MemoryRight, BufferRight, DiskRight, Near,
                Mounted, Marked, Trust
  <2> QED BY <2>3, <2>5, <2>6
<1>3. CASE RemountReadOnly \/ RemountWrite
  <2>1. UNCHANGED <<kind, diskCount, cache, sbi, inodeDirty, pc, missed>>
    BY <1>3 DEF RemountReadOnly, RemountWrite
  <2>2. Mounted /\ super' = "live"
    BY <1>3 DEF RemountReadOnly, RemountWrite, Mounted
  <2>3. Trust' => Trust
    BY <1>3, <2>1 DEF RemountReadOnly, RemountWrite, SetState, Fail, Trust
  <2>4. Trust' /\ ~diskDirty' => Settled
    BY <1>3 DEF RemountReadOnly, RemountWrite, SetState, Keeps, Fail, Trust, Settled
  <2> QED BY <2>1, <2>2, <2>3, <2>4
          DEF CountInv, Blank, NoFsinfo, ValidRight, MemoryRight, BufferRight, DiskRight, Near,
              Mounted, Marked, Trust, Settled
<1>4. CASE PutSuper
  <2>1. Marked /\ Mounted /\ super' = "gone"
    BY <1>4, QuietMarked DEF PutSuper, Mounted, FlagInv
  <2>2. UNCHANGED <<kind, diskCount, fat, sbi, rdonly, pc, missed>> /\ fsinfo' = Flushed
    BY <1>4 DEF PutSuper
  <2>3. Trust' => Trust /\ Near(Flushed) /\ (freeClusters = Unknown => Flushed = Unknown)
    <3>1. failed => failed'
      BY <1>4 DEF PutSuper, SetState, Fail
    <3>2. Trust' => Trust
      BY <2>2, <3>1 DEF Trust
    <3> QED BY <2>1, <3>2, FlushedRight
  <2>4. Trust' /\ Settled' => Settled
    BY <1>4 DEF PutSuper, SetState, Keeps, Fail, Trust, Settled
  <2>5. NoFsinfo'
    BY <2>2, FlushedBlank DEF CountInv, NoFsinfo
  <2> QED BY <2>1, <2>2, <2>3, <2>4, <2>5
          DEF CountInv, Blank, ValidRight, MemoryRight, BufferRight, DiskRight, Near
<1>5. CASE KillSuper
  <2>1. super' = "none" /\ ~sbDirty' /\ ~freeClusValid' /\ fat' = fat /\ diskCount' = fsinfo
        /\ UNCHANGED <<kind, diskDirty, fsinfo, failed, missed>>
    BY <1>5 DEF KillSuper, Forget
  <2>2. Trust' /\ Settled' => Trust /\ ~diskDirty
    BY <1>5, <2>1 DEF KillSuper, FlagInv, Trust, Settled
  <2>3. DiskRight'
    BY <2>1, <2>2 DEF CountInv, DiskRight, Settled, Near
  <2> QED BY <2>1, <2>3
          DEF CountInv, Blank, NoFsinfo, ValidRight, MemoryRight, BufferRight, Mounted
<1>6. CASE Crash
  <2>1. super' = "none" /\ ~sbDirty' /\ ~freeClusValid' /\ fat' = diskFree /\ fsinfo' = diskCount
        /\ UNCHANGED <<kind, diskCount, diskDirty, failed, missed>>
    BY <1>6 DEF Crash, Forget
  <2>2. Trust' /\ Settled' => Trust /\ ~diskDirty /\ diskFree = fat
    BY <1>6, <2>1 DEF Crash, FlagInv, CleanIsWhole, Trust, Settled
  <2>3. DiskRight'
    BY <2>1, <2>2 DEF CountInv, DiskRight, Settled, Near
  <2> QED BY <2>1, <2>3
          DEF CountInv, Blank, NoFsinfo, ValidRight, MemoryRight, BufferRight, Mounted
<1>7. CASE WriteInode
  <2>1. Mounted /\ UNCHANGED <<kind, disk, fat, sbi, super, rdonly, pc, missed>> /\ inodeDirty
    BY <1>7 DEF WriteInode, Mounted
  <2>2. Trust' => fsinfo' = Flushed /\ Trust
    BY <1>7, <2>1 DEF WriteInode, Fail, Trust
  <2>3. Trust' => Near(fsinfo') /\ (freeClusters = Unknown => fsinfo' = Unknown)
    BY <2>1, <2>2, FlushedRight
  <2>4. NoFsinfo'
    BY <1>7, <2>1, FlushedBlank DEF WriteInode, CountInv, NoFsinfo
  <2> QED BY <2>1, <2>2, <2>3, <2>4
          DEF CountInv, Blank, ValidRight, MemoryRight, BufferRight, DiskRight, Near,
              Mounted, Settled
<1>8. CASE WriteBuffer
  <2>1. UNCHANGED <<kind, diskDirty, cache, sbi, live, past>>
        /\ (diskCount' = diskCount \/ diskCount' = fsinfo)
    BY <1>8 DEF WriteBuffer
  <2> QED BY <2>1
          DEF CountInv, Blank, NoFsinfo, ValidRight, MemoryRight, BufferRight, DiskRight, Near,
              Mounted, Marked, Trust, Settled
<1>9. CASE Statfs
  <2>1. UNCHANGED <<kind, disk, cache, sbDirty, usefree, super, rdonly, pc, failed, missed>>
        /\ Mounted /\ super \in {"live", "remount"}
        /\ freeClusters' = Cardinality(fat) /\ (~inodeDirty' => ~inodeDirty)
    BY <1>9 DEF Statfs, Mounted
  <2>2. freeClusters' # Unknown
    BY <1>a, <2>1 DEF Unknown
  <2> QED BY <2>1, <2>2
          DEF CountInv, Blank, NoFsinfo, ValidRight, MemoryRight, BufferRight, DiskRight, Near,
              Mounted, Marked, Trust, Settled
<1>10. CASE FsError
  <2>1. UNCHANGED <<kind, disk, cache, sbi, super, inodeDirty, pc, failed, missed>>
        /\ super \in {"live", "remount"}
    BY <1>10 DEF FsError
  <2> QED BY <2>1
          DEF CountInv, Blank, NoFsinfo, ValidRight, MemoryRight, BufferRight, DiskRight, Near,
              Mounted, Marked, Trust, Settled
<1>11. ASSUME NEW t \in Threads, Begin(t) \/ End(t)
       PROVE  CountInv'
  <2>1. UNCHANGED <<kind, disk, cache, sbi, super, rdonly, inodeDirty, failed, missed>>
    BY <1>11 DEF Begin, End
  <2>2. Marked' => Marked
    BY <1>11 DEF Begin, End, Goto, Marked, TypeOK
  <2> QED BY <2>1, <2>2
          DEF CountInv, Blank, NoFsinfo, ValidRight, MemoryRight, BufferRight, DiskRight, Near,
              Mounted, Trust, Settled
<1>12. ASSUME NEW t \in Threads, Alloc(t)
       PROVE  CountInv'
  <2>1. UNCHANGED <<kind, disk, fsinfo, sbDirty, usefree, super, rdonly, inodeDirty,
                    failed, missed>>
    BY <1>12 DEF Alloc
  <2>2. super = "live" /\ (Trust => ~Settled)
    BY <1>12, AtWork, BusyUnsettled DEF Alloc, Quiet
  <2>3. ~Marked'
    BY <1>12 DEF Alloc, Goto, Marked, TypeOK
  <2>4. CASE fat = {} /\ fat' = fat /\ freeClusters' = 0
    <3>1. Cardinality(fat) = 0
      BY <2>4, FS_EmptySet
    <3> QED BY <2>1, <2>2, <2>3, <2>4, <3>1
            DEF CountInv, Blank, NoFsinfo, ValidRight, MemoryRight, BufferRight, DiskRight, Near,
                Mounted, Trust, Settled, Unknown
  <2>5. ASSUME NEW c \in fat, fat' = fat \ {c}, freeClusters' = Counted(-1),
               freeClusValid' = freeClusValid
        PROVE  CountInv'
    <3>1. Cardinality(fat') = Cardinality(fat) - 1 /\ Cardinality(fat) >= 1
      BY <2>5, OneLess DEF TypeOK
    <3>2. freeClusters = Cardinality(fat) => freeClusters' = Cardinality(fat')
      BY <1>a, <2>5, <3>1 DEF Counted, Unknown
    <3>3. freeClusters = Cardinality(fat) => freeClusters' # Unknown
      BY <1>a, <3>1, <3>2 DEF Unknown
    <3>4. freeClusters = Unknown => freeClusters' = Unknown
      BY <2>5 DEF Counted
    <3> QED BY <2>1, <2>2, <2>3, <2>5, <3>2, <3>3, <3>4
            DEF CountInv, Blank, NoFsinfo, ValidRight, MemoryRight, BufferRight, DiskRight, Near,
                Mounted, Trust, Settled
  <2> QED BY <1>12, <2>4, <2>5 DEF Alloc
<1>13. ASSUME NEW t \in Threads, NEW c \in Clusters, Free(t, c)
       PROVE  CountInv'
  <2>1. UNCHANGED <<kind, disk, fsinfo, sbDirty, usefree, freeClusValid, super, rdonly,
                    inodeDirty, failed, missed>>
        /\ fat' = fat \cup {c} /\ freeClusters' = Counted(1) /\ c \notin fat
    BY <1>13 DEF Free
  <2>2. super = "live" /\ (Trust => ~Settled)
    BY <1>13, AtWork, BusyUnsettled DEF Free, Quiet
  <2>3. Cardinality(fat') = Cardinality(fat) + 1
    BY <2>1, OneMore DEF TypeOK
  <2>4. freeClusters = Cardinality(fat)
          => freeClusters' = Cardinality(fat') /\ freeClusters' # Unknown
    BY <1>a, <2>1, <2>3 DEF Counted, Unknown
  <2>5. freeClusters = Unknown => freeClusters' = Unknown
    BY <2>1 DEF Counted
  <2>6. freeClusters # Unknown => ~Marked'
    BY <1>13 DEF Free, Goto, Marked, TypeOK
  <2> QED BY <2>1, <2>2, <2>4, <2>5, <2>6
          DEF CountInv, Blank, NoFsinfo, ValidRight, MemoryRight, BufferRight, DiskRight, Near,
              Mounted, Trust, Settled
<1>14. ASSUME NEW t \in Threads, Mark(t)
       PROVE  CountInv'
  <2>1. UNCHANGED <<kind, disk, cache, sbi, super, rdonly, failed>>
    BY <1>14 DEF Mark
  <2>2. super = "live" /\ (Trust => ~Settled)
    BY <1>14, AtWork, BusyUnsettled DEF Mark, Quiet
  <2>3. Trust' => Trust /\ ~rdonly
    BY <1>14, <2>1 DEF Mark, Trust, TypeOK
  <2>4. Trust' /\ ~inodeDirty' => kind = "none"
    BY <1>14, <2>3 DEF Mark, Marks
  <2> QED BY <2>1, <2>2, <2>3, <2>4
          DEF CountInv, Blank, NoFsinfo, ValidRight, MemoryRight, BufferRight, DiskRight, Near,
              Mounted, Settled
<1>15. ASSUME NEW t \in Threads, NEW c \in Clusters, Unlink(t, c)
       PROVE  CountInv'
  BY <1>15 DEF Unlink, CountInv, Blank, NoFsinfo, ValidRight, MemoryRight, BufferRight, DiskRight,
               Near, Mounted, Marked, Trust, Settled
<1>16. CASE UNCHANGED vars
  BY <1>16 DEF vars, CountInv, Blank, NoFsinfo, ValidRight, MemoryRight, BufferRight, DiskRight,
               Near, Mounted, Marked, Trust, Settled
<1> QED BY <1>1, <1>2, <1>3, <1>4, <1>5, <1>6, <1>7, <1>8, <1>9, <1>10, <1>11, <1>12, <1>13, <1>14,
           <1>15, <1>16 DEF Next

LEMMA CountAlways == Spec => [](TypeOK /\ FlagInv /\ CountInv)
<1>1. Init => TypeOK /\ FlagInv /\ CountInv
  BY InitType, InitFlag, InitCount
<1>2. TypeOK /\ FlagInv /\ CountInv /\ [Next]_vars => (TypeOK /\ FlagInv /\ CountInv)'
  BY NextType, NextFlag, NextCount
<1> QED BY <1>1, <1>2, PTL DEF Spec

(* The FSINFO count of a volume whose flag is clear is right or unknown,    *)
(* unless I/O failed unnoticed or a change was not marked.                  *)
THEOREM CleanCount == Spec => []CleanCountRight
<1>1. FlagInv /\ CountInv => CleanCountRight
  <2> SUFFICES ASSUME FlagInv, CountInv, ~diskDirty, ~failed, ~missed
               PROVE  diskCount \in {Unknown, Cardinality(diskFree)}
    BY DEF CleanCountRight
  <2>1. ~sbDirty /\ diskFree = fat
    BY DEF FlagInv, CountInv, Blank, CleanIsWhole
  <2> QED BY <2>1 DEF CountInv, DiskRight, Trust, Settled, Near
<1> QED BY <1>1, CountAlways, PTL

(* A valid free_clusters is right under the same conditions, unless usefree *)
(* has made it believe the FSINFO of a dirty volume.                        *)
THEOREM ValidCount == Spec => []ValidCountRight
<1>1. CountInv => ValidCountRight
  BY DEF CountInv, Blank, ValidRight, MemoryRight, ValidCountRight, Trust, Mounted, Near
<1> QED BY <1>1, CountAlways, PTL
=============================================================================
