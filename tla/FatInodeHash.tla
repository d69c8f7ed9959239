---------------------------- MODULE FatInodeHash ----------------------------
(***************************************************************************)
(* The hash of inodes by the place of their directory entry, and what uses *)
(* it: lookup, create, unlink and rename (namei_vfat.c), the write-back of *)
(* inodes and their eviction (inode.c), and lookups by NFS handles (nfs.c) *)
(* of kernel_camp/fat_log_module_practice.                                 *)
(*                                                                         *)
(* An entry holds a name, and of the file what __fat_write_inode writes:   *)
(* which file it is (the start cluster) and in which version (its size and *)
(* times).  Directories are flat, so ".." and the contents of directories  *)
(* are not here.  The VFS is external: it keeps a dentry for a name, pins  *)
(* inodes that are in use, starts write-back of an inode once at a time,   *)
(* and evicts inodes that nobody uses when they are clean or unlinked.     *)
(***************************************************************************)
EXTENDS Naturals

CONSTANTS Names, Slots, Inodes, Files, Threads, MaxVer, None

ASSUME NoneAssumption == None \notin Names \cup Slots \cup Inodes \cup Files \cup Threads
ASSUME SlotAssumption == Slots \cap {"off", "read"} = {}
ASSUME VerAssumption == MaxVer \in Nat

VARIABLES
    mode,       \* "rw", "dirsync" or "nostale" (nfs=nostale_ro, read-only)
    entry,      \* the slots of the directory, in the buffers
    pos,        \* i_pos of the inodes that are in the hash, else None
    ino,        \* the inodes in memory
    wb,         \* write-back of each inode: "off", "read", or the slot it has read
    dentry,     \* the dentry of each name: its inode, or None
    open,       \* inodes with an open file
    sLock,      \* s_lock: who holds it
    buildLock,  \* nfs_build_inode_lock
    th,         \* the threads
    failed      \* history: I/O failed and the code went on
locks == <<sLock, buildLock>>
vars == <<mode, entry, pos, ino, wb, dentry, open, locks, th, failed>>

Entry == [name : Names, file : Files \cup {None}, ver : 0..MaxVer]
ASSUME EntryAssumption == None \notin Entry \cup [file : Files \cup {None}, ver : 0..MaxVer]

Unused == [state |-> "none", file |-> None, ver |-> 0, dirty |-> FALSE, linked |-> FALSE]
Resting == [pc |-> "idle", name |-> None, to |-> None, old |-> None, slot |-> None,
            inode |-> None, target |-> None]

Find(n) == {p \in Slots : entry[p] # None /\ entry[p].name = n}    \* vfat_find
Attached(p) == {i \in Inodes : pos[i] = p /\ ino[i].state = "live"}

Init ==
    /\ mode \in {"rw", "dirsync", "nostale"}
    /\ entry \in [Slots -> [name : Names, file : Files, ver : {0}] \cup {None}]
    /\ \A p, q \in Slots : p # q /\ entry[p] # None /\ entry[q] # None
                             => entry[p].name # entry[q].name /\ entry[p].file # entry[q].file
    /\ pos = [i \in Inodes |-> None] /\ ino = [i \in Inodes |-> Unused]
    /\ wb = [i \in Inodes |-> "off"]
    /\ dentry = [n \in Names |-> None] /\ open = {}
    /\ sLock = None /\ buildLock = None
    /\ th = [t \in Threads |-> Resting] /\ failed = FALSE

-----------------------------------------------------------------------------
At(t, label) == th[t].pc = label
Goto(t, label) == th' = [th EXCEPT ![t].pc = label]
GotoWith(t, label, i) == th' = [th EXCEPT ![t] = [@ EXCEPT !.pc = label, !.inode = i]]
Become(t, r) == th' = [th EXCEPT ![t] = r]

(* Changes are followed up to the first failed I/O, and through its undo.   *)
Writable == mode # "nostale" /\ ~failed

Lock(t) == sLock = None /\ sLock' = t
Return(t) == Become(t, Resting) /\ sLock' = None

(* fat_attach and fat_detach.                                               *)
Attach(i, p) == pos' = [pos EXCEPT ![i] = p]
DetachNot(i) == pos' = pos                                       \* mutant
Detach(i) == pos' = [pos EXCEPT ![i] = None]

(* What __fat_write_inode puts into an entry.                               *)
Written(p, i) ==
    IF entry[p] = None THEN entry
    ELSE [entry EXCEPT ![p] = [@ EXCEPT !.file = ino[i].file, !.ver = ino[i].ver]]

-----------------------------------------------------------------------------
(* fat_build_inode, for the entry at th[t].slot: from a name, under s_lock, *)
(* or from an NFS handle, without it.                                       *)
Lookup(t, n) ==
    /\ At(t, "idle") /\ sLock = None
    /\ dentry[n] = None
    /\ \/ \E p \in Find(n) :
            /\ Become(t, [Resting EXCEPT !.pc = "lock", !.name = n, !.slot = p])
            /\ sLock' = t
       \/ Find(n) = {} /\ UNCHANGED <<th, sLock>>
    /\ UNCHANGED <<mode, entry, pos, ino, wb, dentry, open, buildLock, failed>>

NfsGet(t, p) ==
    /\ At(t, "idle") /\ mode = "nostale"
    /\ Attached(p) = {} /\ entry[p] # None
    /\ Become(t, [Resting EXCEPT !.pc = "lock", !.slot = p])
    /\ UNCHANGED <<mode, entry, pos, ino, wb, dentry, open, locks, failed>>

BuildLockNone(t) == At(t, "lock") /\ UNCHANGED buildLock         \* mutant
BuildLock(t) ==
    /\ At(t, "lock")
    /\ IF mode = "nostale" THEN buildLock = None /\ buildLock' = t ELSE UNCHANGED buildLock

LockBuild(t) ==
    /\ BuildLock(t)
    /\ Goto(t, "get")
    /\ UNCHANGED <<mode, entry, pos, ino, wb, dentry, open, sLock, failed>>

(* fat_iget; igrab fails for an inode that is being freed.                  *)
IgetFound(t) ==
    /\ At(t, "get")
    /\ \E i \in Attached(th[t].slot) : GotoWith(t, "unlock", i)
    /\ UNCHANGED <<mode, entry, pos, ino, wb, dentry, open, locks, failed>>

IgetNew(t) ==
    /\ At(t, "get")
    /\ Attached(th[t].slot) = {}
    /\ \/ \E i \in Inodes : /\ ino[i].state = "none"
                            /\ ino' = [ino EXCEPT ![i] = [Unused EXCEPT !.state = "new"]]
                            /\ GotoWith(t, "fill", i)
       \/ Goto(t, "unlock") /\ UNCHANGED ino
    /\ UNCHANGED <<mode, entry, pos, wb, dentry, open, locks, failed>>

(* fat_fill_inode; or it fails, and iput frees the inode.                   *)
Fill(t) ==
    /\ At(t, "fill")
    /\ LET i == th[t].inode  e == entry[th[t].slot]
       IN \/ /\ ino' = [ino EXCEPT ![i] =
                         [@ EXCEPT !.file = e.file, !.ver = e.ver, !.linked = TRUE]]
             /\ Goto(t, "attach")
          \/ /\ ino' = [ino EXCEPT ![i] = Unused]
             /\ GotoWith(t, "unlock", None)
    /\ UNCHANGED <<mode, entry, pos, wb, dentry, open, locks, failed>>

AttachNew(t) ==
    /\ At(t, "attach")
    /\ Attach(th[t].inode, th[t].slot)
    /\ ino' = [ino EXCEPT ![th[t].inode].state = "live"]
    /\ Goto(t, "unlock")
    /\ UNCHANGED <<mode, entry, wb, dentry, open, locks, failed>>

UnlockBuild(t) ==
    /\ At(t, "unlock")
    /\ dentry' = IF th[t].name = None THEN dentry ELSE [dentry EXCEPT ![th[t].name] = th[t].inode]
    /\ buildLock' = IF mode = "nostale" THEN None ELSE buildLock
    /\ Become(t, Resting)
    /\ sLock' = IF th[t].name = None THEN sLock ELSE None
    /\ UNCHANGED <<mode, entry, pos, ino, wb, open, failed>>

-----------------------------------------------------------------------------
(* Changes of names, under s_lock from beginning to end.  The VFS holds     *)
(* i_mutex of the directory and has looked the names up.                    *)
Absent(n) == dentry[n] = None /\ Find(n) = {}
Used == {entry[p].file : p \in {q \in Slots : entry[q] # None}} \cup {ino[i].file : i \in Inodes}

Create(t, n) ==
    /\ At(t, "idle") /\ Writable /\ Absent(n) /\ Lock(t)
    /\ \E p \in Slots, f \in Files \ Used :
         /\ entry[p] = None
         /\ entry' = [entry EXCEPT ![p] = [name |-> n, file |-> f, ver |-> 0]]
         /\ Become(t, [Resting EXCEPT !.pc = "lock", !.name = n, !.slot = p])
    /\ UNCHANGED <<mode, pos, ino, wb, dentry, open, buildLock, failed>>

(* fat_remove_entries frees the slot in the buffer, then the sync may fail. *)
SyncFails == mode = "dirsync" /\ failed' = TRUE
Emptied(p) == [entry EXCEPT ![p] = None]

Unlink(t, n) ==
    /\ At(t, "idle") /\ Writable /\ dentry[n] # None /\ Lock(t)
    /\ \E p \in Find(n) :
         /\ entry' = Emptied(p)
         /\ Become(t, [Resting EXCEPT !.pc = "unhash", !.name = n, !.inode = dentry[n]])
    /\ UNCHANGED <<mode, pos, ino, wb, dentry, open, buildLock, failed>>

Unhash(t) ==
    /\ At(t, "unhash")
    /\ LET i == th[t].inode
       IN \/ /\ Detach(i)
             /\ ino' = [ino EXCEPT ![i].linked = FALSE]
             /\ dentry' = [dentry EXCEPT ![th[t].name] = None]
             /\ UNCHANGED failed
          \/ SyncFails /\ UNCHANGED <<pos, ino, dentry>>
    /\ Return(t)
    /\ UNCHANGED <<mode, entry, wb, open, buildLock>>

(* vfat_rename, up to the detachment of the inode that is replaced or the   *)
(* new entry, which has no start cluster yet.                               *)
Rename(t, m, n) ==
    /\ At(t, "idle") /\ Writable /\ m # n /\ dentry[m] # None /\ Lock(t)
    /\ LET begin(p) == \E q \in Find(m) : Become(t,
             [pc |-> "move", name |-> m, to |-> n, old |-> q, slot |-> p,
              inode |-> dentry[m], target |-> dentry[n]])
       IN \/ /\ dentry[n] # None /\ dentry[n] # dentry[m]
             /\ Detach(dentry[n])
             /\ begin(pos[dentry[n]])
             /\ UNCHANGED entry
          \/ /\ Absent(n)
             /\ \E p \in Slots :
                  /\ entry[p] = None
                  /\ entry' = [entry EXCEPT ![p] = [name |-> n, file |-> None, ver |-> 0]]
                  /\ begin(p)
             /\ UNCHANGED pos
    /\ UNCHANGED <<mode, ino, wb, dentry, open, buildLock, failed>>

Move(t) ==
    /\ At(t, "move")
    /\ Detach(th[t].inode)
    /\ Goto(t, "place")
    /\ UNCHANGED <<mode, entry, ino, wb, dentry, open, locks, failed>>

Place(t) ==
    /\ At(t, "place")
    /\ Attach(th[t].inode, th[t].slot)
    /\ Goto(t, "save")
    /\ UNCHANGED <<mode, entry, ino, wb, dentry, open, locks, failed>>

(* fat_sync_inode with dirsync, which may fail before or after the entry is *)
(* written; else mark_inode_dirty.                                          *)
SaveNone(t) == UNCHANGED ino                                     \* mutant
MarkDirty(t) == ino' = [ino EXCEPT ![th[t].inode].dirty = TRUE]

Save(t) ==
    /\ At(t, "save")
    /\ \/ /\ mode # "dirsync" /\ MarkDirty(t) /\ UNCHANGED <<entry, failed>>
          /\ Goto(t, "remove")
       \/ /\ mode = "dirsync" /\ UNCHANGED ino
          /\ entry' = Written(th[t].slot, th[t].inode)
          /\ \/ Goto(t, "remove") /\ UNCHANGED failed
             \/ Goto(t, "undo") /\ SyncFails
       \/ /\ UNCHANGED <<ino, entry>>
          /\ Goto(t, "undo") /\ SyncFails
    /\ UNCHANGED <<mode, pos, wb, dentry, open, locks>>

(* The removal of the old entry, and the dentries after it; or it fails.    *)
Remove(t) ==
    /\ At(t, "remove")
    /\ entry' = Emptied(th[t].old)
    /\ \/ /\ dentry' = [dentry EXCEPT ![th[t].name] = None, ![th[t].to] = th[t].inode]
          /\ ino' = IF th[t].target = None THEN ino
                    ELSE [ino EXCEPT ![th[t].target].linked = FALSE]
          /\ Return(t)
          /\ UNCHANGED failed
       \/ SyncFails /\ Goto(t, "undo") /\ UNCHANGED <<dentry, ino, sLock>>
    /\ UNCHANGED <<mode, pos, wb, open, buildLock>>

(* The undo of vfat_rename.  The inode that was to be replaced is written   *)
(* back only when the old entry is lost already.                            *)
Undo(t) ==
    /\ At(t, "undo")
    /\ Detach(th[t].inode)
    /\ Goto(t, "restore")
    /\ UNCHANGED <<mode, entry, ino, wb, dentry, open, locks, failed>>

Restore(t) ==
    /\ At(t, "restore")
    /\ LET new == th[t].slot  old == th[t].old  i == th[t].inode  j == th[t].target
       IN IF j = None
          THEN /\ pos' = [pos EXCEPT ![i] = old]
               /\ entry' = Emptied(new)
          ELSE /\ pos' = [pos EXCEPT ![i] = old, ![j] = new]
               /\ \/ entry[old] = None /\ entry' = Written(new, j)
                  \/ UNCHANGED entry
    /\ Return(t)
    /\ UNCHANGED <<mode, ino, wb, dentry, open, buildLock, failed>>

-----------------------------------------------------------------------------
(* __fat_write_inode, started by the VFS for a dirty inode, once at a time. *)
WbStart(i) ==
    /\ ino[i].state = "live" /\ ino[i].dirty /\ wb[i] = "off"
    /\ ino' = [ino EXCEPT ![i].dirty = FALSE]
    /\ wb' = [wb EXCEPT ![i] = "read"]
    /\ UNCHANGED <<mode, entry, pos, dentry, open, locks, th, failed>>

PlaceUnchecked(i) == pos[i]                                      \* mutant
PlaceToWrite(i) == IF pos[i] = None THEN "off" ELSE pos[i]

WbRead(i) ==
    /\ wb[i] = "read"
    /\ \/ wb' = [wb EXCEPT ![i] = PlaceToWrite(i)]
          /\ UNCHANGED failed
       \/ /\ pos[i] # None
          /\ wb' = [wb EXCEPT ![i] = "off"]
          /\ failed' = TRUE
    /\ UNCHANGED <<mode, entry, pos, ino, dentry, open, locks, th>>

SamePlaceAlways(i) == TRUE                                       \* mutant
SamePlace(i) == pos[i] = wb[i]

WbWrite(i) ==
    /\ wb[i] \in Slots
    /\ IF SamePlace(i)
       THEN entry' = Written(wb[i], i) /\ wb' = [wb EXCEPT ![i] = "off"]
       ELSE UNCHANGED entry /\ wb' = [wb EXCEPT ![i] = "read"]
    /\ UNCHANGED <<mode, pos, ino, dentry, open, locks, th, failed>>

-----------------------------------------------------------------------------
(* The VFS: files, dentries and eviction.                                   *)
Held(i) ==
    \/ i \in open
    \/ \E n \in Names : dentry[n] = i
    \/ \E t \in Threads : i \in {th[t].inode, th[t].target}

Open(n) ==
    /\ dentry[n] # None
    /\ open' = open \cup {dentry[n]}
    /\ UNCHANGED <<mode, entry, pos, ino, wb, dentry, locks, th, failed>>

Close(i) ==
    /\ i \in open
    /\ open' = open \ {i}
    /\ UNCHANGED <<mode, entry, pos, ino, wb, dentry, locks, th, failed>>

Change(i) ==
    /\ Writable /\ i \in open /\ ino[i].ver < MaxVer
    /\ ino' = [ino EXCEPT ![i] = [@ EXCEPT !.ver = ino[i].ver + 1, !.dirty = TRUE]]
    /\ UNCHANGED <<mode, entry, pos, wb, dentry, open, locks, th, failed>>

Forget(n) ==
    /\ dentry[n] # None
    /\ \A t \in Threads : n \notin {th[t].name, th[t].to}
    /\ dentry' = [dentry EXCEPT ![n] = None]
    /\ UNCHANGED <<mode, entry, pos, ino, wb, open, locks, th, failed>>

(* I_FREEING, then fat_evict_inode, which waits for write-back to end.      *)
EvictBegin(i) ==
    /\ ino[i].state = "live" /\ ~Held(i)
    /\ ~ino[i].linked \/ (~ino[i].dirty /\ wb[i] = "off")
    /\ ino' = [ino EXCEPT ![i].state = "freeing"]
    /\ UNCHANGED <<mode, entry, pos, wb, dentry, open, locks, th, failed>>

EvictEnd(i) ==
    /\ ino[i].state = "freeing" /\ wb[i] = "off"
    /\ Detach(i)
    /\ ino' = [ino EXCEPT ![i] = Unused]
    /\ UNCHANGED <<mode, entry, wb, dentry, open, locks, th, failed>>

Next ==
    \/ \E t \in Threads : \/ LockBuild(t) \/ IgetFound(t) \/ IgetNew(t) \/ Fill(t) \/ AttachNew(t)
                         \/ UnlockBuild(t) \/ Unhash(t)
                         \/ Move(t) \/ Place(t) \/ Save(t) \/ Remove(t) \/ Undo(t) \/ Restore(t)
    \/ \E t \in Threads, n \in Names : Lookup(t, n) \/ Create(t, n) \/ Unlink(t, n)
    \/ \E t \in Threads, m, n \in Names : Rename(t, m, n)
    \/ \E t \in Threads, p \in Slots : NfsGet(t, p)
    \/ \E i \in Inodes : \/ WbStart(i) \/ WbRead(i) \/ WbWrite(i)
                        \/ Close(i) \/ Change(i) \/ EvictBegin(i) \/ EvictEnd(i)
    \/ \E n \in Names : Open(n) \/ Forget(n)

Spec == Init /\ [][Next]_vars

-----------------------------------------------------------------------------
Labels == {"idle", "lock", "get", "fill", "attach", "unlock", "unhash", "move", "place", "save",
           "remove", "undo", "restore"}
Thread == [pc : Labels, name : Names \cup {None}, to : Names \cup {None},
           old : Slots \cup {None}, slot : Slots \cup {None},
           inode : Inodes \cup {None}, target : Inodes \cup {None}]
Inode == [state : {"none", "new", "live", "freeing"}, file : Files \cup {None},
          ver : 0..MaxVer, dirty : BOOLEAN, linked : BOOLEAN]

(* Every variable has its type.                                             *)
TypeOK ==
    /\ mode \in {"rw", "dirsync", "nostale"}
    /\ entry \in [Slots -> Entry \cup {None}]
    /\ pos \in [Inodes -> Slots \cup {None}]
    /\ ino \in [Inodes -> Inode]
    /\ wb \in [Inodes -> {"off", "read"} \cup Slots]
    /\ dentry \in [Names -> Inodes \cup {None}] /\ open \subseteq Inodes
    /\ sLock \in Threads \cup {None} /\ buildLock \in Threads \cup {None}
    /\ th \in [Threads -> Thread]
    /\ failed \in BOOLEAN

(* One inode for an entry: two that can be found never have the same place. *)
OneInode == \A p \in Slots : \A i, j \in Attached(p) : i = j

(* A slot that is free has no inode, once unlink and rename are through     *)
(* with it: a file made there later gets an inode of its own.               *)
FreeUnhashed ==
    ~failed /\ sLock = None => \A p \in Slots : entry[p] = None => Attached(p) = {}

(* What is in the buffers is lost to nobody: an inode that has nothing to   *)
(* be written agrees with its entry, so it may be evicted and read again.   *)
CleanAgrees ==
    \A p \in Slots : \A i \in Attached(p) :
      ~failed /\ sLock = None /\ ~ino[i].dirty /\ wb[i] = "off"
        => entry[p] # None /\ entry[p].file = ino[i].file /\ entry[p].ver = ino[i].ver

(* What a name means: the inode at its entry if there is one that can be    *)
(* found, else the entry; and, while a rename is under way, what it meant.  *)
Renaming(t) == th[t].pc \in {"move", "place", "save", "remove", "undo", "restore"}
VersionOf(i) == [file |-> ino[i].file, ver |-> ino[i].ver]
Meaning(n) ==
    IF \E t \in Threads : Renaming(t) /\ n \in {th[t].name, th[t].to}
    THEN LET t == CHOOSE t \in Threads : Renaming(t)
             i == IF n = th[t].name THEN th[t].inode ELSE th[t].target
         IN IF i = None THEN None ELSE VersionOf(i)
    ELSE IF Find(n) = {} THEN None
    ELSE LET p == CHOOSE p \in Find(n) : TRUE
         IN IF Attached(p) # {} THEN VersionOf(CHOOSE i \in Attached(p) : TRUE)
            ELSE [file |-> entry[p].file, ver |-> entry[p].ver]

(* The whole keeps what a directory promises: no change of a file is lost,  *)
(* comes back or goes to another file, whatever write-back, eviction and    *)
(* lookups do between.                                                      *)
Space == INSTANCE NameSpace WITH
           sound <- ~failed,
           means <- [n \in Names |-> IF failed THEN None ELSE Meaning(n)]
KeepsNames == Space!Spec
=============================================================================
