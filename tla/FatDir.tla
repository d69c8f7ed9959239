------------------------------- MODULE FatDir -------------------------------
(***************************************************************************)
(* The directories of a mounted FAT32 volume: create, mkdir, unlink, rmdir *)
(* and rename of namei_vfat.c over the slots that dir.c fills and empties  *)
(* (kernel_camp/fat_log_module_practice), negative dentries and readdir.   *)
(*                                                                         *)
(* s_lock admits one operation at a time.  An operation is cut where it    *)
(* waits for a write, so that the disk is seen between any two of them:    *)
(* with dirsync the code waits for every block it changes, without it the  *)
(* disk is written at unmount.  A directory is known by its first cluster. *)
(* An object is an inode; the inode of a name stays in memory.             *)
(***************************************************************************)
EXTENDS DirSlots

CONSTANTS
    Clusters, Root, Inodes,
    Spb, Bpc,       \* slots in a block, blocks in a cluster
    MaxSlots,       \* FAT_MAX_DIR_SIZE, in slots
    Setups          \* what is done to a volume, see SetupAssumption

Calls == {"create", "mkdir", "unlink", "rmdir", "rename", "write", "miss", "read", "recover"}

ASSUME RootAssumption == Root \in Clusters /\ None \notin Clusters \cup Inodes \cup Names
ASSUME TableAssumption == IsFiniteSet(Clusters) /\ IsFiniteSet(Inodes) /\ {"free", "eof"} \cap Clusters = {}
ASSUME SizeAssumption == Spb \in Nat \ {0} /\ Bpc \in Nat \ {0} /\ MaxSlots \in Nat
ASSUME SetupAssumption ==
    \A s \in Setups : /\ s.ops \subseteq Calls /\ s.names \subseteq Names
                      /\ s.dirsync \in BOOLEAN /\ s.faults \in BOOLEAN
                      /\ s.label \in BOOLEAN      \* the root has a volume label
                      /\ s.files \in 0..Cardinality(Inodes)    \* the most inodes in use
                      /\ s.calls \in Nat \cup {None}

Spc == Spb * Bpc
ASSUME ClusterAssumption ==             \* "." and ".." and any name fit in one
    Spc >= 2 /\ \A n \in Names : Form[n].longs < Spc

Places == Clusters \X (1..Spc)
Blocks == Clusters \X (0..Bpc - 1)
BlocksOf(c) == {c} \X (0..Bpc - 1)
BlockOf(p) == <<p[1], (p[2] - 1) \div Spb>>

VARIABLES
    setup,      \* chosen once
    left,       \* a bound: the operations still to be asked for, None if any number
    fat,        \* the table: "free", "eof" or the next cluster
    buf, disk,  \* the slots, in the buffers and on the disk
    ino,        \* the inodes in use
    links,      \* i_nlink of the directory at each cluster
    neg,        \* the negative dentries that vfat_revalidate accepts
    reader,     \* a readdir in progress
    op,         \* the operation under way
    listed,     \* history: what is listed, as of the last operation
    result,     \* how the last operation ended
    broken,     \* history: a write to undo or complete an operation failed
    miscount    \* history: vfat_rename left a link count wrong
volume == <<fat, buf, disk>>
notes == <<listed, broken, miscount>>
marks == <<broken, miscount>>
vars == <<setup, left, volume, ino, links, neg, reader, op, notes, result>>

Inode == [pos : Places \cup {None}, start : Clusters \cup {None},
          dir : BOOLEAN, dirty : BOOLEAN, linked : BOOLEAN]
ASSUME InodeAssumption == None \notin Inode \cup Places \cup {"refused", "removed"}

(* old and new are the fat_slot_info of an operation, cut the one that is   *)
(* being removed: a directory, the position of the short slot, and how many *)
(* long slots it has.                                                       *)
NoInfo == [d |-> None, at |-> 0, longs |-> 0]
Resting == [pc |-> "idle", call |-> None, d |-> None, n |-> None, i |-> None, over |-> None,
            start |-> None, slots |-> <<>>, first |-> 0, old |-> NoInfo, new |-> NoInfo,
            cut |-> NoInfo, from |-> 0, to |-> 0, after |-> None, undoing |-> FALSE,
            grown |-> None, sync |-> {}, ok |-> None, bad |-> None]
Closed == [d |-> None, at |-> 0, stay |-> {}, seen |-> {}, twice |-> FALSE, missed |-> FALSE]

-----------------------------------------------------------------------------
Chain(c) ==
    LET walk[n \in 1..Cardinality(Clusters)] ==
            IF n = 1 THEN <<c>>
            ELSE LET s == walk[n - 1]
                 IN IF fat[s[Len(s)]] \in Clusters THEN Append(s, fat[s[Len(s)]]) ELSE s
    IN walk[Cardinality(Clusters)]
Free == {c \in Clusters : fat[c] = "free"}

(* Free clusters are alike, and unused inodes: any of them stands for all.  *)
FreeCluster == IF Free = {} THEN {} ELSE {CHOOSE c \in Free : TRUE}
Unused == {i \in Inodes : ino[i] = None}
NewInode == CHOOSE i \in Unused : TRUE
MayAdd == Cardinality(Inodes \ Unused) < setup.files

(* fat_get_entry: the k-th slot of a directory; View is all of them.        *)
Place(d, k) == <<Chain(d)[(k - 1) \div Spc + 1], ((k - 1) % Spc) + 1>>
View(dev, d) ==
    LET c == Chain(d)
    IN [k \in 1..Len(c) * Spc |-> dev[<<c[(k - 1) \div Spc + 1], ((k - 1) % Spc) + 1>>]]

Linked == {i \in Inodes : ino[i] # None /\ ino[i].linked}
Dirs == {Root} \cup {ino[i].start : i \in {j \in Linked : ino[j].dir}}
LogStart(d) == IF d = Root THEN None ELSE d             \* i_logstart: 0 in the root
At(p) == {i \in Inodes : ino[i] # None /\ ino[i].pos = p}         \* fat_iget
ObjectAt(p) == IF At(p) = {} THEN None ELSE CHOOSE i \in At(p) : TRUE

(* What readdir lists, with the objects the entries are for.                *)
Entry(d, v, r) == [dir |-> d, name |-> NameOf(v, r), obj |-> ObjectAt(Place(d, r.at))]
ListedIn(d) ==
    LET v == View(buf, d)
    IN {Entry(d, v, r) : r \in {q \in Records(v) : ~IsDots(v[q.at])}}
Listed == UNION {ListedIn(d) : d \in Dirs}

(* mkfs.vfat.                                                               *)
EmptyTable == [c \in Clusters |-> IF c = Root THEN "eof" ELSE "free"]
EmptyRoot == [p \in Places |-> IF setup.label /\ p = <<Root, 1>>
                               THEN [Zero EXCEPT !.text = <<86, 79, 76>>, !.attr = "label"] ELSE Zero]
RootLinks == [c \in Clusters |-> IF c = Root THEN 2 ELSE 0]

(* A bound: the link counts are not followed once one of them is wrong.     *)
Counted(wrong, counts) == links' = IF wrong THEN [c \in Clusters |-> 0] ELSE counts

Init ==
    /\ setup \in Setups /\ left = setup.calls
    /\ fat = EmptyTable /\ buf = EmptyRoot /\ disk = EmptyRoot
    /\ ino = [i \in Inodes |-> None] /\ links = RootLinks
    /\ neg = {} /\ reader = Closed
    /\ op = Resting /\ result = "ok"
    /\ listed = {} /\ broken = FALSE /\ miscount = FALSE

-----------------------------------------------------------------------------
Idle(call) == op.pc = "idle" /\ ~broken /\ call \in setup.ops
Ask(r) ==
    /\ left # 0 /\ left' = IF left = None THEN None ELSE left - 1
    /\ op' = r /\ UNCHANGED <<setup, neg, reader, notes, result>>
Chained(c) == {Chain(c)[k] : k \in DOMAIN Chain(c)}
SetSlots(part) == buf' = [p \in Places |-> IF p \in DOMAIN part THEN part[p] ELSE buf[p]]

(* What is in a free cluster is not read again.                             *)
Forgotten(cs) ==
    /\ buf' = [p \in Places |-> IF p[1] \in cs THEN Zero ELSE buf[p]]
    /\ disk' = [p \in Places |-> IF p[1] \in cs THEN Zero ELSE disk[p]]

Goto(label) == op' = [op EXCEPT !.pc = label]

(* mark_buffer_dirty, and with dirsync sync_dirty_buffer or fat_sync_bhs.   *)
Syncing(r, blocks, ok, bad) ==
    IF setup.dirsync /\ blocks # {}
    THEN [r EXCEPT !.pc = "sync", !.sync = blocks, !.ok = ok, !.bad = bad]
    ELSE [r EXCEPT !.pc = ok]
Sync(r, blocks, ok, bad) == op' = Syncing(r, blocks, ok, bad)
Done(res) == Goto(res) /\ UNCHANGED <<reader, listed, result>>
Return ==
    /\ op.pc \in {"ok", "error"}
    /\ op' = Resting /\ result' = op.pc /\ listed' = Listed
    /\ reader' = [reader EXCEPT !.stay = @ \cap listed', !.seen = @ \cap listed']
    /\ UNCHANGED <<setup, left, volume, ino, links, neg, marks>>

From(dev, other, blocks) == [p \in Places |-> IF BlockOf(p) \in blocks THEN dev[p] ELSE other[p]]

SyncForgotten ==                                                 \* mutant
    /\ op.pc = "sync"
    /\ Goto(op.ok)
    /\ disk' = From(buf, disk, op.sync)
    /\ UNCHANGED <<setup, left, fat, buf, ino, links, neg, reader, notes, result>>
SyncOk ==
    /\ op.pc = "sync"
    /\ op' = [op EXCEPT !.pc = op.ok, !.sync = {}]
    /\ disk' = From(buf, disk, op.sync)
    /\ UNCHANGED <<setup, left, fat, buf, ino, links, neg, reader, notes, result>>

(* A block whose write fails is not uptodate any more: it is read again.    *)
SyncFail ==
    /\ op.pc = "sync" /\ setup.faults
    /\ \E lost \in (SUBSET op.sync) \ {{}} :
          /\ disk' = From(buf, disk, op.sync \ lost)
          /\ buf' = From(disk, buf, lost)
    /\ op' = [op EXCEPT !.pc = op.bad, !.sync = {}]
    /\ broken' = (broken \/ op.undoing \/ op.after # None)
    /\ UNCHANGED <<setup, left, fat, ino, links, neg, reader, listed, miscount, result>>

(* The blocks are written in any order, by write-back or because the        *)
(* operation waits for them; SyncOk is the last of these writes.            *)
Flush ==
    /\ op.pc = "sync"
    /\ \E b \in op.sync : /\ op.sync # {b}
                         /\ disk' = From(buf, disk, {b})
                         /\ op' = [op EXCEPT !.sync = @ \ {b}]
    /\ UNCHANGED <<setup, left, fat, buf, ino, links, neg, reader, notes, result>>

-----------------------------------------------------------------------------
(* A dentry, as the VFS hands it to an operation: a directory and a name,   *)
(* and what vfat_find knows of it.  It is negative if the VFS holds it as   *)
(* such, or else if a search finds nothing.                                 *)
Dentry(d, v, records, n) ==
    LET all == {r \in records : Answers(v, r, n)}
        r == FirstOf(all)
    IN IF <<d, n>> \in neg \/ all = {} THEN [d |-> d, n |-> n, info |-> NoInfo, obj |-> None]
       ELSE [d |-> d, n |-> n, info |-> [d |-> d, at |-> r.at, longs |-> r.longs],
             obj |-> ObjectAt(Place(d, r.at))]
Dentries ==
    UNION {LET v == View(buf, d)  records == Records(v)
           IN {Dentry(d, v, records, n) : n \in setup.names} : d \in Dirs}
InfoPlace(x) == Place(x.d, x.at)

NoVersion(d) == neg' = neg                                       \* mutant
Forget(d) == neg' = {e \in neg : e[1] # d}                     \* d->i_version++

LookupMiss(e) ==
    /\ Idle("miss") /\ e.obj = None
    /\ neg' = neg \cup {<<e.d, e.n>>}
    /\ UNCHANGED <<setup, left, volume, ino, links, reader, op, notes, result>>

Create(e) ==
    /\ Idle("create") /\ e.obj = None /\ MayAdd
    /\ Ask([Resting EXCEPT !.pc = "build", !.call = "create", !.d = e.d, !.n = e.n])
    /\ UNCHANGED <<volume, ino, links>>

(* fat_alloc_new_dir, then vfat_add_entry.                                  *)
ZeroedCluster(c) == [p \in {c} \X (1..Spc) |-> Zero]
NewDir(c, d) == [ZeroedCluster(c) EXCEPT ![<<c, 1>>] = Short(Dot, "dir", c),
                                         ![<<c, 2>>] = Short(DotDot, "dir", LogStart(d))]
Mkdir(e) ==
    /\ Idle("mkdir") /\ e.obj = None /\ MayAdd
    /\ LET r == [Resting EXCEPT !.call = "mkdir", !.d = e.d, !.n = e.n]
       IN \/ /\ Free = {} /\ Ask([r EXCEPT !.pc = "refused"])
             /\ UNCHANGED <<fat, buf>>
          \/ \E c \in FreeCluster :
                /\ fat' = [fat EXCEPT ![c] = "eof"]
                /\ SetSlots(NewDir(c, e.d))
                /\ Ask(Syncing([r EXCEPT !.start = c], BlocksOf(c), "build", "refused"))
    /\ UNCHANGED <<disk, ino, links>>

Unlink(e) ==
    /\ Idle("unlink") /\ e.obj # None /\ ~ino[e.obj].dir
    /\ Ask([Resting EXCEPT !.pc = "rm", !.call = "unlink", !.d = e.d, !.n = e.n, !.i = e.obj,
                           !.cut = e.info])
    /\ UNCHANGED <<volume, ino, links>>

EmptyDir(i) == DirEmpty(View(buf, ino[i].start))
Rmdir(e) ==
    /\ Idle("rmdir") /\ e.obj # None /\ ino[e.obj].dir
    /\ Ask([Resting EXCEPT !.pc = IF EmptyDir(e.obj) THEN "rm" ELSE "refused",
                           !.call = "rmdir", !.d = e.d, !.n = e.n, !.i = e.obj, !.cut = e.info])
    /\ UNCHANGED <<volume, ino, links>>

(* The VFS keeps a directory out of its own subtree, replaces files by      *)
(* files and directories by directories, and has nothing to do for two      *)
(* names of one object.                                                     *)
Named(c) == {e \in listed : e.obj # None /\ ino[e.obj].start = c}
Parent(c) == IF c = Root THEN Root ELSE (CHOOSE e \in Named(c) : TRUE).dir
Inside(d, c) == d = c \/ Parent(d) = c \/ Parent(Parent(d)) = c

Rename(o, e) ==
    /\ Idle("rename") /\ o.obj # None /\ e.obj # o.obj
    /\ ino[o.obj].dir /\ e.d # Root => ~Inside(e.d, ino[o.obj].start)
    /\ e.obj # None => ino[e.obj].dir = ino[o.obj].dir
    /\ Ask([Resting EXCEPT !.pc = IF e.obj = None THEN "build"
                                  ELSE IF ino[o.obj].dir /\ ~EmptyDir(e.obj) THEN "refused"
                                  ELSE "move",
                           !.call = "rename", !.d = e.d, !.n = e.n, !.i = o.obj, !.over = e.obj,
                           !.old = o.info, !.new = e.info])
    /\ UNCHANGED <<volume, ino, links>>

-----------------------------------------------------------------------------
(* fat_add_entries.                                                         *)
Attr == IF op.call = "mkdir" \/ (op.call = "rename" /\ ino[op.i].dir) THEN "dir" ELSE "file"
Build ==
    /\ op.pc = "build"
    /\ LET v == View(buf, op.d)
           alias == CreateShortname(op.n, v)
           first == FreeRun(v, Form[op.n].longs + 1, MaxSlots)
       IN IF None \in {alias, first} THEN Goto("refused")
          ELSE op' = [op EXCEPT !.pc = "fill", !.first = first,
                                !.slots = BuildSlots(op.n, alias, Attr, op.start)]
    /\ UNCHANGED <<setup, left, volume, ino, links, neg, reader, notes, result>>

(* How many of the slots are there already, and the block of the last one.  *)
Room == LET rest == Len(View(buf, op.d)) - op.first + 1
        IN IF rest < Len(op.slots) THEN rest ELSE Len(op.slots)
Fits == Room = Len(op.slots)
NewPlace(j) == Place(op.d, op.first + j - 1)
InLast(j) == Fits /\ BlockOf(NewPlace(j)) = BlockOf(NewPlace(Room))
Put(part) == SetSlots([p \in {NewPlace(j) : j \in part} |->
                          op.slots[CHOOSE j \in part : NewPlace(j) = p]])

AllAtOnce == 1..Room                                             \* mutant
LongPart == {j \in 1..Room : ~InLast(j)}
ShortPart == {j \in 1..Room : InLast(j)}
FillLong ==
    /\ op.pc = "fill"
    /\ Put(LongPart)
    /\ Sync(op, {BlockOf(NewPlace(j)) : j \in LongPart}, IF Fits THEN "short" ELSE "grow", "undo")
    /\ UNCHANGED <<setup, left, fat, disk, ino, links, neg, reader, notes, result>>

FillShort ==
    /\ op.pc = "short"
    /\ Put(ShortPart)
    /\ Sync(op, {BlockOf(NewPlace(Room))}, "added", "undo")
    /\ UNCHANGED <<setup, left, fat, disk, ino, links, neg, reader, notes, result>>

(* fat_add_new_entries; the names here need one cluster at most.            *)
NewEntries(c) ==
    [p \in DOMAIN ZeroedCluster(c) |->
        IF p[2] <= Len(op.slots) - Room THEN op.slots[Room + p[2]] ELSE ZeroedCluster(c)[p]]
Grow ==
    /\ op.pc = "grow"
    /\ \/ \E c \in FreeCluster :
             /\ fat' = [fat EXCEPT ![c] = "eof"]
             /\ SetSlots(NewEntries(c))
             /\ Sync([op EXCEPT !.grown = c], BlocksOf(c), "link", "undo")
       \/ Free = {} /\ Goto("undo") /\ UNCHANGED <<fat, buf>>
    /\ UNCHANGED <<setup, left, disk, ino, links, neg, reader, notes, result>>

(* fat_chain_add, which may fail; the cluster is then free again.           *)
Link ==
    /\ op.pc = "link" /\ Goto("added")
    /\ fat' = [fat EXCEPT ![Chain(op.d)[Len(Chain(op.d))]] = op.grown]
    /\ UNCHANGED <<setup, left, buf, disk, ino, links, neg, reader, notes, result>>

Clearing(d, from, to, after) ==
    [op EXCEPT !.pc = "clear", !.cut.d = d, !.from = from, !.to = to, !.after = after]
LinkFails == op.pc = "link" /\ setup.dirsync /\ setup.faults
Undo ==
    /\ op.pc = "undo" \/ LinkFails
    /\ fat' = IF op.grown = None THEN fat ELSE [fat EXCEPT ![op.grown] = "free"]
    /\ Forgotten({op.grown})
    /\ op' = Clearing(op.d, op.first, op.first + Room - 1, "refused")
    /\ UNCHANGED <<setup, left, ino, links, neg, reader, notes, result>>

(* __fat_remove_entries, block by block; it stops at an error.  What stays  *)
(* in a deleted slot is for the recovery tool; all else takes it for free.  *)
SameBlock(d, k, m) == BlockOf(Place(d, k)) = BlockOf(Place(d, m))
Remains(s) == IF "recover" \in setup.ops THEN s ELSE Zero
DeleteSlots(ks, Delete(_)) ==
    SetSlots([p \in {Place(op.cut.d, k) : k \in ks} |-> Remains(Delete(buf[p]))])
Clear ==
    /\ op.pc = "clear"
    /\ IF op.from > op.to THEN Goto(op.after) /\ UNCHANGED buf
       ELSE LET part == {k \in op.from..op.to : SameBlock(op.cut.d, k, op.from)}
            IN /\ DeleteSlots(part, Deleted)
               /\ Sync([op EXCEPT !.from = @ + Cardinality(part)],
                       {BlockOf(Place(op.cut.d, op.from))}, "clear", op.after)
    /\ UNCHANGED <<setup, left, fat, disk, ino, links, neg, reader, notes, result>>

-----------------------------------------------------------------------------
(* fat_remove_entries.                                                      *)
CutSlots == op.cut.at - op.cut.longs..op.cut.at
CutFirst == {k \in CutSlots : SameBlock(op.cut.d, k, op.cut.at)}
RemoveShort ==
    /\ op.pc = "rm"
    /\ DeleteSlots(CutFirst, DeletedFirst)
    /\ Sync(op, {BlockOf(InfoPlace(op.cut))}, "cleared", IF op.undoing THEN "refused" ELSE "kept")
    /\ UNCHANGED <<setup, left, fat, disk, ino, links, neg, reader, notes, result>>
FirstLongLeft ==                                                 \* mutant
    /\ op.pc = "cleared" /\ Forget(op.cut.d)
    /\ op' = Clearing(op.cut.d, op.cut.at - op.cut.longs + 1, op.cut.at - Cardinality(CutFirst),
                      IF op.undoing THEN "refused" ELSE "removed")
    /\ UNCHANGED <<setup, left, volume, ino, links, reader, notes, result>>
RemoveLongs ==
    /\ op.pc = "cleared" /\ Forget(op.cut.d)
    /\ op' = Clearing(op.cut.d, op.cut.at - op.cut.longs, op.cut.at - Cardinality(CutFirst),
                      IF op.undoing THEN "refused" ELSE "removed")
    /\ UNCHANGED <<setup, left, volume, ino, links, reader, notes, result>>

(* The entry is still there: unlink and rmdir give up, rename goes back.    *)
Kept ==
    /\ op.pc = "kept"
    /\ IF op.call = "rename" THEN Goto("undo_dotdot") ELSE Goto("refused")
    /\ UNCHANGED <<setup, left, volume, ino, links, neg, reader, notes, result>>

-----------------------------------------------------------------------------
(* The ends of the operations.                                              *)
ShortCounted ==                                                  \* mutant
    [d |-> op.d, at |-> op.first + Len(op.slots) - 1, longs |-> Len(op.slots)]
NewInfo == [d |-> op.d, at |-> op.first + Len(op.slots) - 1, longs |-> Len(op.slots) - 1]

Added ==
    /\ op.pc = "added" /\ op.call \in {"create", "mkdir"}
    /\ Forget(op.d)
    /\ ino' = [ino EXCEPT ![NewInode] =
                  [pos |-> InfoPlace(NewInfo), start |-> op.start,
                   dir |-> op.call = "mkdir", dirty |-> FALSE, linked |-> TRUE]]
    /\ Counted(miscount, IF op.call = "mkdir" THEN [links EXCEPT ![op.d] = @ + 1, ![op.start] = 2]
                         ELSE links)
    /\ UNCHANGED <<setup, left, volume, marks>>
    /\ Done("ok")

(* The dentry of the name stays, negative, with the version of now.         *)
Removed ==
    /\ op.pc = "removed" /\ op.call \in {"unlink", "rmdir"}
    /\ ino' = [ino EXCEPT ![op.i].pos = None, ![op.i].linked = FALSE]
    /\ Counted(miscount, IF op.call = "rmdir"
                         THEN [links EXCEPT ![op.d] = @ - 1, ![ino[op.i].start] = 0] ELSE links)
    /\ neg' = neg \cup (IF "miss" \in setup.ops THEN {<<op.d, op.n>>} ELSE {})
    /\ UNCHANGED <<setup, left, volume, marks>>
    /\ Done("ok")

Refused ==
    /\ op.pc = "refused"
    /\ fat' = IF op.call = "mkdir" /\ op.start # None THEN [fat EXCEPT ![op.start] = "free"] ELSE fat
    /\ Forgotten(IF op.call = "mkdir" THEN {op.start} ELSE {})
    /\ UNCHANGED <<setup, left, ino, links, neg, marks>>
    /\ Done("error")

-----------------------------------------------------------------------------
(* vfat_rename, after the new entry was added or found.                     *)
(* __fat_write_inode.                                                       *)
WriteEntry(i, p) == [buf EXCEPT ![p].start = ino[i].start]

Move ==
    /\ op.pc = "move" \/ (op.pc = "added" /\ op.call = "rename")
    /\ Forget(op.d)
    /\ LET r == IF op.over = None THEN [op EXCEPT !.new = NewInfo] ELSE op
           p == InfoPlace(r.new)
           off == [j \in Inodes |-> IF j = op.over THEN [ino[j] EXCEPT !.pos = None] ELSE ino[j]]
       IN /\ ino' = [off EXCEPT ![op.i].pos = p, ![op.i].dirty = @ \/ ~setup.dirsync]
          /\ buf' = IF setup.dirsync THEN WriteEntry(op.i, p) ELSE buf
          /\ Sync(r, {BlockOf(p)}, "dotdot", "undo_move")
    /\ UNCHANGED <<setup, left, fat, disk, links, reader, notes, result>>

UpdateDotDot == ino[op.i].dir /\ op.old.d # op.d
DotDotPlace == LET c == ino[op.i].start IN Place(c, DotDotEntry(View(buf, c)))
SetDotDot ==
    /\ op.pc = "dotdot"
    /\ IF UpdateDotDot
       THEN /\ buf' = [buf EXCEPT ![DotDotPlace].start = LogStart(op.d)]
            /\ Sync(op, {BlockOf(DotDotPlace)}, "count", "undo_dotdot")
       ELSE buf' = buf /\ op' = [op EXCEPT !.pc = "rm", !.cut = op.old]
    /\ UNCHANGED <<setup, left, fat, disk, ino, links, neg, reader, notes, result>>

CountAlways ==                                                   \* mutant
    /\ op.pc = "count"
    /\ Counted(miscount, [links EXCEPT ![op.old.d] = @ - 1, ![op.d] = @ + 1])
    /\ op' = [op EXCEPT !.pc = "rm", !.cut = op.old]
    /\ UNCHANGED <<setup, left, volume, ino, neg, reader, notes, result>>

Count ==
    /\ op.pc = "count"
    /\ Counted(miscount, IF op.over = None THEN [links EXCEPT ![op.old.d] = @ - 1, ![op.d] = @ + 1]
                         ELSE [links EXCEPT ![op.old.d] = @ - 1])
    /\ op' = [op EXCEPT !.pc = "rm", !.cut = op.old]
    /\ UNCHANGED <<setup, left, volume, ino, neg, reader, notes, result>>

(* A directory that was replaced in its own directory is not counted out.   *)
Renamed ==
    /\ op.pc = "removed" /\ op.call = "rename"
    /\ ino' = IF op.over = None THEN ino ELSE [ino EXCEPT ![op.over].linked = FALSE]
    /\ miscount' = (miscount \/ (op.over # None /\ ino[op.i].dir /\ op.old.d = op.d))
    /\ Counted(miscount', IF op.over # None /\ ino[op.over].dir
                          THEN [links EXCEPT ![ino[op.over].start] = 0] ELSE links)
    /\ UNCHANGED <<setup, left, volume, neg, broken>>
    /\ Done("ok")

(* error_dotdot: ".." goes back; counts that have moved do not.             *)
UndoDotDot ==
    /\ op.pc = "undo_dotdot"
    /\ miscount' = (miscount \/ (UpdateDotDot /\ op.cut = op.old))
    /\ Counted(miscount', links)
    /\ IF UpdateDotDot
       THEN /\ buf' = [buf EXCEPT ![DotDotPlace].start = LogStart(op.old.d)]
            /\ Sync([op EXCEPT !.undoing = TRUE], {BlockOf(DotDotPlace)}, "undo_move", "undo_move")
       ELSE buf' = buf /\ op' = [op EXCEPT !.undoing = TRUE, !.pc = "undo_move"]
    /\ UNCHANGED <<setup, left, fat, disk, ino, neg, reader, listed, broken, result>>

(* error_inode: the inodes go back; the target is written again if the new  *)
(* entry was, or the new entry is removed.  If that fails too the code      *)
(* reports a corrupted volume, or leaves an entry without clusters.         *)
UndoMove ==
    /\ op.pc = "undo_move"
    /\ LET p == InfoPlace(op.new)
           back == [ino EXCEPT ![op.i].pos = InfoPlace(op.old)]
       IN IF op.over # None
          THEN /\ ino' = [back EXCEPT ![op.over].pos = p]
               /\ buf' = IF op.undoing THEN WriteEntry(op.over, p) ELSE buf
               /\ Sync(op, IF op.undoing THEN {BlockOf(p)} ELSE {}, "refused", "refused")
          ELSE /\ ino' = back /\ buf' = buf
               /\ op' = [op EXCEPT !.pc = "rm", !.cut = op.new, !.undoing = TRUE]
    /\ UNCHANGED <<setup, left, fat, disk, links, neg, reader, notes, result>>

-----------------------------------------------------------------------------
(* Between operations: write-back and the first cluster of a file, eviction *)
(* of what has no name, and readdir, one entry or a full buffer at a time.  *)
WriteInode(i) ==
    /\ op.pc = "idle" /\ ~broken /\ i \in Linked /\ ino[i].dirty
    /\ buf' = WriteEntry(i, ino[i].pos)
    /\ ino' = [ino EXCEPT ![i].dirty = FALSE]
    /\ UNCHANGED <<setup, left, fat, disk, links, neg, reader, op, notes, result>>

(* The block of an entry is written: __fat_write_inode waits for it, if it  *)
(* is asked to, or else write-back has its turn.  It may fail, as any write.*)
WriteBuffer(b) ==
    /\ op.pc = "idle" /\ ~broken /\ setup.dirsync
    /\ \E p \in Places : BlockOf(p) = b /\ buf[p] # disk[p]
    /\ \/ disk' = From(buf, disk, {b}) /\ buf' = buf
       \/ setup.faults /\ buf' = From(disk, buf, {b}) /\ disk' = disk
    /\ UNCHANGED <<setup, left, fat, ino, links, neg, reader, op, notes, result>>

(* fat_chain_add waits for the entry of a directory only: that of a file is *)
(* written later, with dirsync too.                                         *)
Write(i) ==
    /\ Idle("write") /\ i \in Linked /\ ~ino[i].dir /\ ino[i].start = None
    /\ \E c \in FreeCluster :
          /\ fat' = [fat EXCEPT ![c] = "eof"]
          /\ ino' = [ino EXCEPT ![i].start = c, ![i].dirty = TRUE]
    /\ UNCHANGED <<setup, left, buf, disk, links, neg, reader, op, notes, result>>

Evict(i) ==
    /\ op.pc = "idle" /\ ~broken /\ ino[i] # None /\ ~ino[i].linked
    /\ LET cs == IF ino[i].start = None THEN {} ELSE Chained(ino[i].start)
       IN fat' = [c \in Clusters |-> IF c \in cs THEN "free" ELSE fat[c]] /\ Forgotten(cs)
    /\ ino' = [ino EXCEPT ![i] = None]
    /\ neg' = {e \in neg : e[1] # ino[i].start}
    /\ UNCHANGED <<setup, left, links, reader, op, notes, result>>

ReadOpen(d) ==
    /\ Idle("read") /\ reader.d = None
    /\ reader' = [Closed EXCEPT !.d = d, !.stay = ListedIn(d)]
    /\ UNCHANGED <<setup, left, volume, ino, links, neg, op, notes, result>>

NextRecords == LET v == View(buf, reader.d)
               IN IF reader.at >= Len(v) THEN {} ELSE RecordsFrom(v)[reader.at + 1]
NextRecord == CHOOSE r \in NextRecords : \A q \in NextRecords : r.at <= q.at
Reading == Idle("read") /\ reader.d \in Dirs

ReadEntry ==
    /\ Reading /\ NextRecords # {}
    /\ LET e == Entry(reader.d, View(buf, reader.d), NextRecord)
       IN reader' = [reader EXCEPT !.at = NextRecord.at, !.seen = @ \cup ({e} \cap reader.stay),
                                   !.twice = @ \/ e \in reader.seen]
    /\ UNCHANGED <<setup, left, volume, ino, links, neg, op, notes, result>>

(* The buffer of the caller is full: the position is that of the record.    *)
AfterLongs(r) == r.at - 1                                        \* mutant
StartOf(r) == r.at - r.longs - 1
ReadFull ==
    /\ Reading /\ NextRecords # {}
    /\ reader' = [reader EXCEPT !.at = StartOf(NextRecord)]
    /\ reader' # reader
    /\ UNCHANGED <<setup, left, volume, ino, links, neg, op, notes, result>>

ReadEnd ==
    /\ Reading /\ NextRecords = {}
    /\ reader' = [Closed EXCEPT !.missed = reader.stay # reader.seen, !.twice = reader.twice]
    /\ UNCHANGED <<setup, left, volume, ino, links, neg, op, notes, result>>

-----------------------------------------------------------------------------
Step ==
    \/ SyncOk \/ SyncFail \/ Flush
    \/ Build \/ FillLong \/ FillShort \/ Grow \/ Link \/ Undo \/ Clear
    \/ RemoveShort \/ RemoveLongs \/ Kept \/ Added \/ Removed \/ Refused
    \/ Move \/ SetDotDot \/ Count \/ Renamed \/ UndoDotDot \/ UndoMove \/ Return

Request ==
    /\ op.pc = "idle"
    /\ \/ \E dentries \in {Dentries} : \E e \in dentries :
             \/ LookupMiss(e) \/ Create(e) \/ Mkdir(e) \/ Unlink(e) \/ Rmdir(e)
             \/ \E o \in dentries : Rename(o, e)
       \/ \E i \in Inodes : WriteInode(i) \/ Write(i)
       \/ \E b \in Blocks : WriteBuffer(b)
       \/ \E d \in Dirs : ReadOpen(d)
       \/ ReadEntry \/ ReadFull \/ ReadEnd

-----------------------------------------------------------------------------
TypeOK ==
    /\ setup \in Setups /\ left \in Nat \cup {None}
    /\ fat \in [Clusters -> Clusters \cup {"free", "eof"}]
    /\ DOMAIN buf = Places /\ DOMAIN disk = Places
    /\ ino \in [Inodes -> Inode \cup {None}]
    /\ links \in [Clusters -> 0..Cardinality(Clusters) + 2]
    /\ neg \subseteq Clusters \X Names
    /\ op.sync \subseteq Blocks /\ (op.sync # {} => op.pc = "sync")
    /\ result \in {"ok", "error"} /\ {broken, miscount} \subseteq BOOLEAN

(* What the directories promise (DirTree): in spite of failed writes, as    *)
(* long as none of them was to undo or to complete an operation.            *)
AtRest == op.pc = "idle"
Asked == IF AtRest THEN None
         ELSE [call |-> op.call, dir |-> op.d, name |-> op.n, obj |-> op.i, over |-> op.over]
(* No request is confused with there being none. *)
ASSUME RequestAssumption ==
    None \notin [call : Calls, dir : Clusters, name : Names,
                 obj : Inodes \cup {None}, over : Inodes \cup {None}]
Tree == INSTANCE DirTree WITH
            Objects <- Inodes, Nothing <- None, sound <- ~broken, names <- listed,
            asked <- Asked
KeepsTree == Tree!Spec

(* Between operations nothing changes what is listed, and no two entries of *)
(* a directory answer to one name, be it a long name, a short one or an     *)
(* alias that was made up (vfat_create_shortname).                          *)
OneAnswer ==
    AtRest /\ ~broken =>
        /\ listed = Listed
        /\ \A d \in Dirs :
            LET v == View(buf, d)  all == Records(v)
            IN \A q, r \in all :
                  q # r => ~\E n \in setup.names : Answers(v, q, n) /\ Answers(v, r, n)

(* No long-name slot stays behind when an addition fails half-way or a name *)
(* is removed, where it could become part of a later name; and the disk,    *)
(* whenever the power fails, has nothing that is read as half a name.       *)
NoStrays ==
    ~broken => \A d \in Dirs : /\ AtRest => Whole(View(buf, d))
                              /\ setup.dirsync => Tidy(View(disk, d))

(* A negative dentry that vfat_revalidate accepts tells the truth, although *)
(* the alias of a new name was never looked up.                             *)
NegativeTrue ==
    AtRest /\ ~broken =>
        \A e \in neg : e[1] \in Dirs => SearchLong(View(buf, e[1]), e[2]) = {}

(* With dirsync, whenever the power fails: every directory is named by an   *)
(* entry on the disk that has its cluster, every file has its entry there,  *)
(* no entry has lost a part of its long name, and none has a cluster that   *)
(* was given away.  What an operation has done is there when it returns,    *)
(* all but the cluster of a file that has just got its first.               *)
Leaving == IF op.call \in {"unlink", "rmdir"} THEN {op.i} ELSE {op.over}
OnDisk ==
    UNION {LET v == View(disk, d)
           IN {[name |-> NameOf(v, r), start |-> v[r.at].start] :
                  r \in {q \in Records(v) : ~IsDots(v[q.at])}} : d \in Dirs}
Behind(s, b) == s = b \/ (b.attr = "file" /\ s = [b EXCEPT !.start = None])
DoneOnDisk ==
    \A d \in Dirs : LET v == View(buf, d)  w == View(disk, d)
                    IN \A k \in DOMAIN v : Behind(w[k], v[k])
AlwaysNamed ==
    setup.dirsync /\ ~broken =>
        LET there == OnDisk
            used == {ino[i].start : i \in Inodes \ Unused} \cup {op.start, None}
        IN /\ \A i \in Linked \ Leaving :
                 /\ IsShort(disk[ino[i].pos])
                 /\ ino[i].dir => ino[i].start \in {e.start : e \in there}
           /\ \A e \in there : e.name \in Names /\ e.start \in used
           /\ AtRest => DoneOnDisk

(* "." and ".." of every directory are right, its link count is what would  *)
(* be counted, and the parent that NFS finds for it (fat_get_parent, or     *)
(* fat_rebuild_parent with the grandparent) is its parent.  Rebuilding is   *)
(* for inodes that were dropped from memory, and so were written before.    *)
Dget(start) == IF start = None THEN Root ELSE start
ParentStart(d) == View(buf, d)[DotDotEntry(View(buf, d))].start
RebuiltParent(p) ==
    LET v == View(buf, p)
        gp == Dget(v[2].start)
    IN {Place(gp, k) : k \in ScanLogstart(View(buf, gp), v[1].start)}
TreeRight ==
    AtRest /\ ~broken =>
        \A d \in Dirs :
            LET v == View(buf, d)
                i == CHOOSE j \in Linked : ino[j].start = d
            IN /\ ~miscount => links[d] = Subdirs(v) + (IF d = Root THEN 2 ELSE 0)
               /\ d # Root =>
                     /\ v[1].text = Dot /\ v[1].start = d
                     /\ Dget(ParentStart(d)) = Parent(d)
                     /\ (\A j \in Linked : ~ino[j].dirty) => RebuiltParent(d) = {ino[i].pos}

(* A readdir in several calls, with changes between them, lists what stays  *)
(* there all the time once, under its name.                                 *)
ListedOnce == ~reader.twice /\ ~reader.missed
=============================================================================
