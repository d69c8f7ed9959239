--------------------------- MODULE FatInodeProofs ---------------------------
(***************************************************************************)
(* What TLAPS proves of FatInodeHash, for any names, slots, inodes and     *)
(* threads: types, one inode for an entry, no inode for a free slot, that  *)
(* evicting a clean inode loses nothing, and that FatInodeHash implements  *)
(* NameSpace.                                                              *)
(***************************************************************************)
EXTENDS FatInodeHash, TLAPS

Building == {"get", "fill", "attach", "unlock"}
Looking == {"lock"} \cup Building
Moving == {"move", "place", "save", "remove", "undo", "restore"}

(* Who is where, and with which lock.                                       *)
LockInv ==
    \A t \in Threads :
      /\ th[t].pc = "idle" => /\ th[t].name = None /\ th[t].to = None
                              /\ th[t].inode = None /\ th[t].target = None
      /\ sLock = t <=> th[t].pc # "idle" /\ th[t].name # None
      /\ th[t].pc \notin {"idle"} \cup Looking => mode # "nostale"
      /\ th[t].pc # "idle" /\ th[t].name = None => mode = "nostale"
      /\ mode = "nostale" => (buildLock = t <=> th[t].pc \in Building)

(* A thread that looks an entry up.                                         *)
LookInv ==
    \A t \in Threads :
      LET r == th[t]
      IN /\ r.pc \in Looking => /\ r.slot # None /\ entry[r.slot] # None /\ r.target = None
                                /\ r.name # None => /\ dentry[r.name] = None
                                                    /\ entry[r.slot].name = r.name
         /\ r.pc \in {"lock", "get"} => r.inode = None
         /\ r.pc \in {"fill", "attach"} => /\ r.inode # None /\ ino[r.inode].state = "new"
                                           /\ Attached(r.slot) = {}
         /\ r.pc = "attach" => /\ ino[r.inode].linked
                               /\ ino[r.inode].file = entry[r.slot].file
                               /\ ino[r.inode].ver = entry[r.slot].ver
         /\ r.pc = "unlock" /\ r.inode # None => /\ ino[r.inode].state = "live"
                                                 /\ ino[r.inode].linked
                                                 /\ pos[r.inode] = r.slot

(* A thread that takes a name away, or moves it.                            *)
MoveInv ==
    \A t \in Threads :
      LET r == th[t]
      IN /\ r.pc \in {"unhash"} \cup Moving =>
              /\ r.inode # None /\ ino[r.inode].state = "live" /\ ino[r.inode].linked
              /\ r.name # None /\ dentry[r.name] = r.inode
         /\ r.pc = "unhash" => /\ r.target = None
                               /\ \A p \in Slots : pos[r.inode] = p => entry[p] = None
         /\ r.pc \in Moving =>
              /\ r.to # None /\ r.to # r.name /\ dentry[r.to] = r.target /\ r.target # r.inode
              /\ r.old # None /\ r.slot # None /\ r.old # r.slot
              /\ r.target # None => /\ ino[r.target].state = "live" /\ ino[r.target].linked
                                    /\ pos[r.target] = None
         /\ r.pc \in {"undo", "restore"} => failed
         /\ r.pc \in {"move", "place", "save", "remove"} =>
              /\ entry[r.old] # None /\ entry[r.old].name = r.name
              /\ entry[r.slot] # None /\ entry[r.slot].name = r.to
         /\ r.pc \in Moving \ {"move"} => Attached(r.old) = {}
         /\ r.pc \in {"move", "place", "restore"} => Attached(r.slot) = {}
         /\ r.pc = "move" => pos[r.inode] = r.old
         /\ r.pc \in {"place", "restore"} => pos[r.inode] = None
         /\ r.pc \in {"save", "remove", "undo"} => pos[r.inode] = r.slot

(* Inodes from new_inode to eviction.                                       *)
InodeInv ==
    \A i \in Inodes :
      /\ ino[i].state \in {"none", "new"} => pos[i] = None /\ wb[i] = "off" /\ ~ino[i].dirty
      /\ ino[i].state \in {"live", "freeing"} /\ ~ino[i].linked => pos[i] = None
      /\ ino[i].state = "freeing" /\ ino[i].linked => wb[i] = "off" /\ ~ino[i].dirty
      /\ i \in open => ino[i].state = "live"
      /\ ino[i].state = "freeing" => \A t \in Threads : i \notin {th[t].inode, th[t].target}
DentryInv ==
    \A n \in Names :
      dentry[n] # None =>
        /\ ino[dentry[n]].state = "live"
        /\ ~failed =>
             /\ ino[dentry[n]].linked
             /\ \/ \E p \in Slots : pos[dentry[n]] = p /\ entry[p] # None /\ entry[p].name = n
                \/ \E t \in Threads : \/ th[t].pc = "unhash" /\ th[t].name = n
                                      \/ th[t].pc \in Moving /\ n \in {th[t].name, th[t].to}

(* Entries.                                                                 *)
NameInv ==
    ~failed => \A p, q \in Slots :
      entry[p] # None /\ entry[q] # None /\ entry[p].name = entry[q].name => p = q
Leaving(i) == \E t \in Threads : th[t].pc = "unhash" /\ th[t].inode = i
FreeInv ==
    ~failed => \A p \in Slots : \A i \in Attached(p) : entry[p] # None \/ Leaving(i)
Saving(i) == \E t \in Threads : th[t].pc = "save" /\ th[t].inode = i
Agrees(p, i) ==
    entry[p] # None /\ entry[p].file = ino[i].file /\ entry[p].ver = ino[i].ver
CleanInv ==
    ~failed => \A p \in Slots : \A i \in Attached(p) :
      ~ino[i].dirty /\ wb[i] = "off" => Agrees(p, i) \/ Leaving(i) \/ Saving(i)

HashInv == LockInv /\ LookInv /\ MoveInv /\ InodeInv /\ DentryInv /\ OneInode
           /\ NameInv /\ FreeInv /\ CleanInv

-----------------------------------------------------------------------------
(* Types, and what the steps of a thread do to it.                          *)
ThreadType == th \in [Threads -> Thread]
InoType == ino \in [Inodes -> Inode]
EntryType == entry \in [Slots -> Entry \cup {None}]

LEMMA ZeroVer == 0 \in 0..MaxVer
  BY VerAssumption

LEMMA GotoEffect ==
  ASSUME ThreadType, NEW t \in Threads, NEW l \in Labels, Goto(t, l)
  PROVE  /\ ThreadType' /\ th'[t] = [th[t] EXCEPT !.pc = l]
         /\ \A u \in Threads : u # t => th'[u] = th[u]
  BY DEF Goto, Thread, ThreadType

LEMMA GotoWithEffect ==
  ASSUME ThreadType, NEW t \in Threads, NEW l \in Labels, NEW i \in Inodes \cup {None},
         GotoWith(t, l, i)
  PROVE  /\ ThreadType' /\ th'[t] = [th[t] EXCEPT !.pc = l, !.inode = i]
         /\ \A u \in Threads : u # t => th'[u] = th[u]
  BY ZenonT(40) DEF GotoWith, Thread, ThreadType

LEMMA BecomeEffect ==
  ASSUME ThreadType, NEW t \in Threads, NEW r \in Thread, Become(t, r)
  PROVE  ThreadType' /\ th'[t] = r /\ \A u \in Threads : u # t => th'[u] = th[u]
  BY DEF Become, ThreadType

LEMMA RestType == Resting \in Thread
  BY DEF Resting, Thread, Labels

LEMMA LockType ==
  ASSUME NEW n \in Names \cup {None}, NEW p \in Slots
  PROVE  [Resting EXCEPT !.pc = "lock", !.name = n, !.slot = p] \in Thread
  BY Zenon DEF Resting, Thread, Labels

LEMMA WrittenType ==
  ASSUME EntryType, InoType, NEW p \in Slots, NEW i \in Inodes
  PROVE  Written(p, i) \in [Slots -> Entry \cup {None}]
  BY ZenonT(40) DEF EntryType, InoType, Written, Entry, Inode

LEMMA EmptiedType ==
  ASSUME EntryType, NEW p
  PROVE  Emptied(p) \in [Slots -> Entry \cup {None}]
  BY Zenon DEF EntryType, Emptied

LEMMA InoEffect ==
  ASSUME InoType, NEW i \in Inodes, NEW r \in Inode, ino' = [ino EXCEPT ![i] = r]
  PROVE  InoType' /\ ino'[i] = r /\ \A j \in Inodes : j # i => ino'[j] = ino[j]
  BY DEF InoType

LEMMA FieldType ==
  ASSUME InoType, NEW i
  PROVE  /\ [ino EXCEPT ![i].linked = FALSE] \in [Inodes -> Inode]
         /\ [ino EXCEPT ![i].dirty = TRUE] \in [Inodes -> Inode]
         /\ [ino EXCEPT ![i].dirty = FALSE] \in [Inodes -> Inode]
         /\ [ino EXCEPT ![i].state = "live"] \in [Inodes -> Inode]
         /\ [ino EXCEPT ![i].state = "freeing"] \in [Inodes -> Inode]
  BY ZenonT(40) DEF InoType, Inode

LEMMA FilledType ==
  ASSUME NEW r \in Inode, NEW e \in Entry
  PROVE  [r EXCEPT !.file = e.file, !.ver = e.ver, !.linked = TRUE] \in Inode
  BY Zenon DEF Inode, Entry

LEMMA ChangedType ==
  ASSUME NEW r \in Inode, r.ver < MaxVer
  PROVE  [r EXCEPT !.ver = r.ver + 1, !.dirty = TRUE] \in Inode
<1>1. r.ver + 1 \in 0..MaxVer
  BY VerAssumption DEF Inode
<1> QED BY Zenon, <1>1 DEF Inode

LEMMA UnusedType == Unused \in Inode
  BY ZeroVer DEF Unused, Inode

LEMMA InitType == Init => TypeOK
<1> SUFFICES ASSUME Init  PROVE TypeOK
  OBVIOUS
<1>1. EntryType
  BY ZeroVer DEF Init, EntryType, Entry
<1>2. th \in [Threads -> Thread] /\ ino \in [Inodes -> Inode]
  BY RestType, UnusedType DEF Init
<1> QED BY Zenon, <1>1, <1>2 DEF Init, TypeOK, EntryType

LEMMA NextType == TypeOK /\ HashInv /\ [Next]_vars => TypeOK'
<1> SUFFICES ASSUME TypeOK, HashInv, [Next]_vars  PROVE TypeOK'
  OBVIOUS
<1> USE DEF TypeOK, locks
<1>t. ThreadType /\ InoType /\ EntryType
  BY DEF ThreadType, InoType, EntryType
<1>1. ASSUME NEW t \in Threads, NEW n \in Names, Lookup(t, n)  PROVE TypeOK'
  <2>1. ASSUME NEW p \in Slots, Become(t, [Resting EXCEPT !.pc = "lock", !.name = n, !.slot = p])
        PROVE  ThreadType'
    BY Zenon, <1>t, <2>1, LockType, BecomeEffect
  <2> QED BY Zenon, <1>1, <2>1 DEF Lookup, Find, ThreadType
<1>2. ASSUME NEW t \in Threads, NEW p \in Slots, NfsGet(t, p)  PROVE TypeOK'
  <2>1. [Resting EXCEPT !.pc = "lock", !.slot = p] \in Thread
    BY Zenon DEF Resting, Thread, Labels
  <2>2. ThreadType'
    BY <1>t, <1>2, <2>1, BecomeEffect DEF NfsGet
  <2> QED BY <1>2, <2>2 DEF NfsGet, ThreadType
<1>3. ASSUME NEW t \in Threads, LockBuild(t) \/ Move(t) \/ Place(t) \/ Undo(t)  PROVE TypeOK'
  <2>1. ThreadType'
    BY Zenon, <1>t, <1>3, GotoEffect DEF LockBuild, Move, Place, Undo, Labels
  <2>2. th[t].slot \in Slots \cup {None}
    BY DEF Thread
  <2> QED BY <1>3, <2>1, <2>2
          DEF LockBuild, BuildLock, Move, Place, Undo, Attach, Detach, ThreadType
<1>4. ASSUME NEW t \in Threads, IgetFound(t)  PROVE TypeOK'
  <2>1. ThreadType'
    BY Zenon, <1>t, <1>4, GotoWithEffect DEF IgetFound, Attached, Labels
  <2> QED BY <1>4, <2>1 DEF IgetFound, ThreadType
<1>5. ASSUME NEW t \in Threads, IgetNew(t)  PROVE TypeOK'
  <2>1. ThreadType'
    BY Zenon, <1>t, <1>5, GotoEffect, GotoWithEffect DEF IgetNew, Labels
  <2>2. [Unused EXCEPT !.state = "new"] \in Inode
    BY Zenon, ZeroVer DEF Unused, Inode
  <2> QED BY <1>5, <2>1, <2>2 DEF IgetNew, ThreadType
<1>6. ASSUME NEW t \in Threads, Fill(t)  PROVE TypeOK'
  <2>1. ThreadType'
    BY Zenon, <1>t, <1>6, GotoEffect, GotoWithEffect DEF Fill, Labels
  <2>2. th[t].inode \in Inodes /\ entry[th[t].slot] \in Entry
    BY <1>6, NoneAssumption DEF HashInv, LookInv, Looking, Building, Fill, At, Thread
  <2>3. [ino[th[t].inode] EXCEPT !.file = entry[th[t].slot].file, !.ver = entry[th[t].slot].ver,
                                 !.linked = TRUE] \in Inode
    BY Zenon, <2>2, FilledType
  <2>4. ino' \in [Inodes -> Inode]
    BY <1>t, <1>6, <2>2, <2>3, UnusedType DEF Fill
  <2> QED BY <1>6, <2>1, <2>4 DEF Fill, ThreadType
<1>7. ASSUME NEW t \in Threads, AttachNew(t)  PROVE TypeOK'
  <2>1. ThreadType'
    BY Zenon, <1>t, <1>7, GotoEffect DEF AttachNew, Labels
  <2>2. InoType'
    BY Zenon, <1>t, <1>7, FieldType DEF AttachNew, InoType
  <2>3. th[t].slot \in Slots \cup {None}
    BY DEF Thread
  <2> QED BY <1>7, <2>1, <2>2, <2>3 DEF AttachNew, Attach, ThreadType, InoType
<1>8. ASSUME NEW t \in Threads, UnlockBuild(t)  PROVE TypeOK'
  <2>1. ThreadType'
    BY <1>t, <1>8, BecomeEffect, RestType DEF UnlockBuild
  <2>2. th[t].inode \in Inodes \cup {None}
    BY DEF Thread
  <2> QED BY Zenon, <1>8, <2>1, <2>2 DEF UnlockBuild, ThreadType
<1>9. ASSUME NEW t \in Threads, NEW n \in Names, Create(t, n)  PROVE TypeOK'
  <2>1. PICK p \in Slots, f \in Files :
          /\ entry' = [entry EXCEPT ![p] = [name |-> n, file |-> f, ver |-> 0]]
          /\ Become(t, [Resting EXCEPT !.pc = "lock", !.name = n, !.slot = p])
    BY Zenon, <1>9 DEF Create
  <2>2. ThreadType'
    BY Zenon, <1>t, <2>1, LockType, BecomeEffect
  <2>3. [name |-> n, file |-> f, ver |-> 0] \in Entry
    BY ZeroVer DEF Entry
  <2> QED BY <1>9, <2>1, <2>2, <2>3 DEF Create, Lock, ThreadType
<1>10. ASSUME NEW t \in Threads, NEW n \in Names, Unlink(t, n)  PROVE TypeOK'
  <2>1. [Resting EXCEPT !.pc = "unhash", !.name = n, !.inode = dentry[n]] \in Thread
    BY Zenon DEF Resting, Thread, Labels
  <2>2. ThreadType'
    BY <1>t, <1>10, <2>1, BecomeEffect DEF Unlink
  <2> QED BY <1>10, <2>2, <1>t, EmptiedType DEF Unlink, Lock, Find, ThreadType
<1>11. ASSUME NEW t \in Threads, Unhash(t)  PROVE TypeOK'
  <2>1. ThreadType'
    BY <1>t, <1>11, BecomeEffect, RestType DEF Unhash, Return
  <2>2. InoType'
    <3>1. [ino EXCEPT ![th[t].inode].linked = FALSE] \in [Inodes -> Inode]
      BY Zenon, <1>t, FieldType
    <3> QED BY <1>11, <3>1 DEF Unhash, InoType
  <2> QED BY Zenon, <1>11, <2>1, <2>2 DEF Unhash, Return, Detach, SyncFails, ThreadType, InoType
<1>12. ASSUME NEW t \in Threads, NEW m \in Names, NEW n \in Names, Rename(t, m, n)  PROVE TypeOK'
  <2>1. ASSUME NEW p \in Slots \cup {None}, NEW q \in Slots
        PROVE  [pc |-> "move", name |-> m, to |-> n, old |-> q, slot |-> p,
                inode |-> dentry[m], target |-> dentry[n]] \in Thread
    BY DEF Thread, Labels
  <2>2. ThreadType'
    BY Zenon, <1>t, <1>12, <2>1, BecomeEffect DEF Rename, Find
  <2>3. \A f \in Files \cup {None} : [name |-> n, file |-> f, ver |-> 0] \in Entry
    BY ZeroVer DEF Entry
  <2> QED BY <1>12, <2>2, <2>3 DEF Rename, Lock, Detach, ThreadType
<1>13. ASSUME NEW t \in Threads, Save(t)  PROVE TypeOK'
  <2>1. ThreadType'
    BY Zenon, <1>t, <1>13, GotoEffect DEF Save, Labels
  <2>2. InoType'
    <3>1. [ino EXCEPT ![th[t].inode].dirty = TRUE] \in [Inodes -> Inode]
      BY Zenon, <1>t, FieldType
    <3> QED BY <1>13, <3>1 DEF Save, MarkDirty, InoType
  <2>3. th[t].slot \in Slots /\ th[t].inode \in Inodes
    BY <1>13, NoneAssumption DEF HashInv, MoveInv, Moving, Save, At, Thread
  <2>4. EntryType'
    BY <1>t, <1>13, <2>3, WrittenType DEF Save, EntryType
  <2> QED BY Zenon, <1>13, <2>1, <2>2, <2>4 DEF Save, SyncFails, ThreadType, InoType, EntryType
<1>14. ASSUME NEW t \in Threads, Remove(t)  PROVE TypeOK'
  <2>1. ThreadType'
    BY Zenon, <1>t, <1>14, GotoEffect, BecomeEffect, RestType DEF Remove, Return, Labels
  <2>2. InoType'
    <3>1. [ino EXCEPT ![th[t].target].linked = FALSE] \in [Inodes -> Inode]
      BY Zenon, <1>t, FieldType
    <3> QED BY <1>14, <3>1 DEF Remove, InoType
  <2>3. th[t].inode \in Inodes \cup {None}
    BY DEF Thread
  <2>4. EntryType'
    BY <1>t, <1>14, EmptiedType DEF Remove, EntryType
  <2> QED BY Zenon, <1>14, <2>1, <2>2, <2>3, <2>4
          DEF Remove, Return, SyncFails, ThreadType, InoType, EntryType
<1>15. ASSUME NEW t \in Threads, Restore(t)  PROVE TypeOK'
  <2>1. ThreadType'
    BY <1>t, <1>15, BecomeEffect, RestType DEF Restore, Return
  <2>2. th[t].slot \in Slots /\ th[t].old \in Slots /\ th[t].target \in Inodes \cup {None}
    BY <1>15, NoneAssumption DEF HashInv, MoveInv, Moving, Restore, At, Thread
  <2>3. EntryType'
    BY <1>t, <1>15, <2>2, EmptiedType, WrittenType DEF Restore, EntryType
  <2> QED BY <1>15, <2>1, <2>2, <2>3 DEF Restore, Return, ThreadType, EntryType
<1>16. ASSUME NEW i \in Inodes, WbStart(i) \/ Change(i) \/ EvictBegin(i) \/ EvictEnd(i)
       PROVE  TypeOK'
  <2>2. InoType'
    <3>1. CASE Change(i)
      <4>1. [ino[i] EXCEPT !.ver = ino[i].ver + 1, !.dirty = TRUE] \in Inode
        BY Zenon, <3>1, ChangedType DEF Change
      <4>2. ino' = [ino EXCEPT ![i] = [ino[i] EXCEPT !.ver = ino[i].ver + 1, !.dirty = TRUE]]
        BY <3>1 DEF Change
      <4> QED BY <4>1, <4>2 DEF InoType
    <3>2. CASE WbStart(i) \/ EvictBegin(i)
      <4>1. /\ [ino EXCEPT ![i].dirty = FALSE] \in [Inodes -> Inode]
            /\ [ino EXCEPT ![i].state = "freeing"] \in [Inodes -> Inode]
        BY Zenon, <1>t, FieldType
      <4> QED BY Zenon, <3>2, <4>1 DEF WbStart, EvictBegin, InoType
    <3>3. CASE EvictEnd(i)
      BY <3>3, UnusedType DEF EvictEnd, InoType
    <3> QED BY <1>16, <3>1, <3>2, <3>3
  <2> QED BY <1>16, <2>2 DEF WbStart, Change, EvictBegin, EvictEnd, Detach, InoType
<1>17. ASSUME NEW i \in Inodes, WbRead(i) \/ WbWrite(i) \/ Close(i)  PROVE TypeOK'
  <2>1. EntryType'
    BY <1>t, <1>17, WrittenType DEF WbRead, WbWrite, Close, EntryType
  <2>2. wb' \in [Inodes -> {"off", "read"} \cup Slots]
    BY <1>17 DEF WbRead, WbWrite, Close, PlaceToWrite
  <2> QED BY Zenon, <1>17, <2>1, <2>2 DEF WbRead, WbWrite, Close, EntryType
<1>18. ASSUME NEW n \in Names, Open(n) \/ Forget(n)  PROVE TypeOK'
  BY <1>18 DEF Open, Forget
<1>19. CASE UNCHANGED vars
  BY <1>19 DEF vars
<1> QED BY <1>1, <1>2, <1>3, <1>4, <1>5, <1>6, <1>7, <1>8, <1>9, <1>10, <1>11, <1>12, <1>13,
           <1>14, <1>15, <1>16, <1>17, <1>18, <1>19 DEF Next

-----------------------------------------------------------------------------
(* What the parts of an action do, field by field.                          *)
SameBut(r, s) ==
    /\ r.name = s.name /\ r.to = s.to /\ r.target = s.target
    /\ r.old = s.old /\ r.slot = s.slot
OthersStay(t) == \A u \in Threads : u # t => th'[u] = th[u]

LEMMA GotoFields ==
  ASSUME TypeOK, NEW t \in Threads, NEW l \in Labels, Goto(t, l)
  PROVE  /\ th'[t].pc = l /\ th'[t].inode = th[t].inode /\ SameBut(th'[t], th[t])
         /\ OthersStay(t)
  BY DEF Goto, Thread, TypeOK, SameBut, OthersStay

LEMMA GotoWithFields ==
  ASSUME TypeOK, NEW t \in Threads, NEW l \in Labels, NEW i \in Inodes \cup {None},
         GotoWith(t, l, i)
  PROVE  /\ th'[t].pc = l /\ th'[t].inode = i /\ SameBut(th'[t], th[t])
         /\ OthersStay(t)
  BY DEF GotoWith, Thread, TypeOK, SameBut, OthersStay

LEMMA RestFields ==
  ASSUME TypeOK, NEW t \in Threads, Become(t, Resting)
  PROVE  /\ th'[t].pc = "idle" /\ th'[t].name = None /\ th'[t].to = None
         /\ th'[t].inode = None /\ th'[t].target = None
         /\ OthersStay(t)
  BY DEF Become, Resting, TypeOK, OthersStay

LEMMA LockFields ==
  ASSUME TypeOK, NEW t \in Threads, NEW n \in Names \cup {None}, NEW p \in Slots,
         Become(t, [Resting EXCEPT !.pc = "lock", !.name = n, !.slot = p])
  PROVE  /\ th'[t].pc = "lock" /\ th'[t].name = n /\ th'[t].slot = p
         /\ th'[t].to = None /\ th'[t].inode = None /\ th'[t].target = None
         /\ OthersStay(t)
  BY DEF Become, Resting, TypeOK, OthersStay

LEMMA WrittenFields ==
  ASSUME TypeOK, NEW p \in Slots, NEW i \in Inodes, entry' = Written(p, i)
  PROVE  /\ \A q \in Slots : /\ entry'[q] = None <=> entry[q] = None
                             /\ entry[q] # None => entry'[q].name = entry[q].name
                             /\ q # p => entry'[q] = entry[q]
         /\ entry[p] # None => entry'[p].file = ino[i].file /\ entry'[p].ver = ino[i].ver
<1> SUFFICES ASSUME entry[p] # None PROVE
            /\ \A q \in Slots : q # p => entry'[q] = entry[q]
            /\ entry'[p] # None
            /\ entry'[p].name = entry[p].name
            /\ entry'[p].file = ino[i].file /\ entry'[p].ver = ino[i].ver
  BY Zenon DEF Written
<1>1. entry[p] \in Entry
  BY DEF TypeOK
<1>2. entry' = [entry EXCEPT ![p] = [entry[p] EXCEPT !.file = ino[i].file, !.ver = ino[i].ver]]
  BY DEF Written
<1>3. [entry[p] EXCEPT !.file = ino[i].file, !.ver = ino[i].ver] \in Entry
  BY Zenon, <1>1 DEF TypeOK, Entry, Inode
<1>4. None \notin Entry
  BY EntryAssumption
<1>5. entry'[p] = [entry[p] EXCEPT !.file = ino[i].file, !.ver = ino[i].ver]
      /\ \A q \in Slots : q # p => entry'[q] = entry[q]
  BY <1>2 DEF TypeOK
<1>6. /\ entry'[p].name = entry[p].name
      /\ entry'[p].file = ino[i].file /\ entry'[p].ver = ino[i].ver
  BY <1>1, <1>5 DEF Entry
<1> QED BY <1>3, <1>4, <1>5, <1>6

-----------------------------------------------------------------------------
(* Every action keeps HashInv: one lemma for each.                          *)
LEMMA KeepsLockBuild ==
  ASSUME TypeOK, TypeOK', HashInv, NEW t \in Threads,
         LockBuild(t)
  PROVE  HashInv'
<1> USE NoneAssumption, SlotAssumption DEF TypeOK, locks, At, HashInv
<1>e. /\ th'[t].pc = "get" /\ th'[t].inode = th[t].inode /\ SameBut(th'[t], th[t])
     /\ OthersStay(t)
  BY GotoFields DEF LockBuild, Labels, Return
<1> QED BY SMTT(20), <1>e
           DEF LockBuild, BuildLock, LockInv, LookInv, MoveInv, InodeInv, DentryInv, OneInode,
               NameInv, FreeInv, CleanInv, Looking, Building, SameBut, OthersStay, Attached,
               Moving, Leaving, Saving, Agrees

LEMMA KeepsAttachNew ==
  ASSUME TypeOK, TypeOK', HashInv, NEW t \in Threads,
         AttachNew(t)
  PROVE  HashInv'
<1> USE NoneAssumption, SlotAssumption DEF TypeOK, locks, At, HashInv
<1>e. /\ th'[t].pc = "unlock" /\ th'[t].inode = th[t].inode /\ SameBut(th'[t], th[t])
     /\ OthersStay(t)
  BY GotoFields DEF AttachNew, Labels, Return
<1>1. LockInv' /\ NameInv'
  BY <1>e DEF AttachNew, Attach, LockInv, NameInv, Looking, Building, SameBut, OthersStay
<1>2. LookInv'
  BY <1>e DEF AttachNew, Attach, LockInv, LookInv, Looking, Building, Attached, SameBut, OthersStay
<1>3. MoveInv'
  BY <1>e
     DEF AttachNew, Attach, LockInv, MoveInv, Moving, Attached, Looking, Building, SameBut,
         OthersStay
<1>4. InodeInv'
  BY <1>e
     DEF AttachNew, Attach, LookInv, InodeInv, Looking, Building, Attached, SameBut, OthersStay
<1>5. DentryInv'
  BY SMTT(30), <1>e
     DEF AttachNew, Attach, LookInv, DentryInv, Moving, Looking, Building, Attached, SameBut,
         OthersStay
<1>6. OneInode'
  BY <1>e
     DEF AttachNew, Attach, LookInv, OneInode, Attached, Looking, Building, SameBut, OthersStay
<1>7. FreeInv'
  BY <1>e
     DEF AttachNew, Attach, LookInv, FreeInv, Attached, Leaving, Looking, Building, SameBut,
         OthersStay
<1>8. CleanInv'
  BY SMTT(30), <1>e
     DEF AttachNew, Attach, LookInv, CleanInv, Attached, Leaving, Saving, Agrees, Looking,
         Building, SameBut, OthersStay
<1> QED BY <1>1, <1>2, <1>3, <1>4, <1>5, <1>6, <1>7, <1>8

LEMMA KeepsUnlockBuild ==
  ASSUME TypeOK, TypeOK', HashInv, NEW t \in Threads,
         UnlockBuild(t)
  PROVE  HashInv'
<1> USE NoneAssumption, SlotAssumption DEF TypeOK, locks, At, HashInv
<1>e. /\ th'[t].pc = "idle" /\ th'[t].name = None /\ th'[t].to = None
     /\ th'[t].inode = None /\ th'[t].target = None
     /\ OthersStay(t)
  BY RestFields DEF UnlockBuild, Labels, Return
<1>1. LockInv' /\ InodeInv' /\ OneInode' /\ NameInv' /\ FreeInv' /\ CleanInv'
  BY <1>e
     DEF UnlockBuild, LockInv, InodeInv, OneInode, NameInv, FreeInv, CleanInv, Looking, Building,
         SameBut, OthersStay, Attached, Leaving, Saving, Agrees
<1>2. LookInv'
  BY <1>e DEF UnlockBuild, LockInv, LookInv, Looking, Building, Attached, SameBut, OthersStay
<1>3. MoveInv'
  BY <1>e
     DEF UnlockBuild, LockInv, MoveInv, Moving, Attached, Looking, Building, SameBut, OthersStay
<1>4. DentryInv'
  BY <1>e
     DEF UnlockBuild, LookInv, DentryInv, Moving, Looking, Building, Attached, SameBut, OthersStay
<1> QED BY <1>1, <1>2, <1>3, <1>4

LEMMA KeepsMove ==
  ASSUME TypeOK, TypeOK', HashInv, NEW t \in Threads,
         Move(t)
  PROVE  HashInv'
<1> USE NoneAssumption, SlotAssumption DEF TypeOK, locks, At, HashInv
<1>e. /\ th'[t].pc = "place" /\ th'[t].inode = th[t].inode /\ SameBut(th'[t], th[t])
     /\ OthersStay(t)
  BY GotoFields DEF Move, Labels, Return
<1>1. LockInv' /\ InodeInv' /\ OneInode' /\ NameInv' /\ FreeInv' /\ CleanInv'
  BY SMTT(30), <1>e
     DEF Move, Detach, LockInv, InodeInv, OneInode, NameInv, FreeInv, CleanInv, Looking, Building,
         SameBut, OthersStay, Attached, Leaving, Saving, Agrees
<1>2. LookInv'
  BY <1>e DEF Move, Detach, LockInv, LookInv, Looking, Building, Attached, SameBut, OthersStay
<1>3. MoveInv'
  BY <1>e
     DEF Move, Detach, LockInv, MoveInv, OneInode, Moving, Attached, Looking, Building, SameBut,
         OthersStay
<1>4. DentryInv'
  BY <1>e DEF Move, Detach, MoveInv, DentryInv, Moving, Attached, SameBut, OthersStay
<1> QED BY <1>1, <1>2, <1>3, <1>4

LEMMA KeepsPlace ==
  ASSUME TypeOK, TypeOK', HashInv, NEW t \in Threads,
         Place(t)
  PROVE  HashInv'
<1> USE NoneAssumption, SlotAssumption DEF TypeOK, locks, At, HashInv
<1>e. /\ th'[t].pc = "save" /\ th'[t].inode = th[t].inode /\ SameBut(th'[t], th[t])
     /\ OthersStay(t)
  BY GotoFields DEF Place, Labels, Return
<1>1. LockInv' /\ NameInv' /\ CleanInv'
  BY SMTT(20), <1>e
     DEF Place, Attach, LockInv, NameInv, CleanInv, Looking, Building, SameBut, OthersStay,
         Attached, Leaving, Saving, Agrees
<1>2. LookInv'
  BY <1>e DEF Place, Attach, LockInv, LookInv, Looking, Building, Attached, SameBut, OthersStay
<1>3. MoveInv'
  BY <1>e
     DEF Place, Attach, LockInv, MoveInv, Moving, Attached, Looking, Building, SameBut, OthersStay
<1>4. InodeInv'
  BY <1>e DEF Place, Attach, MoveInv, InodeInv, Moving, Attached, SameBut, OthersStay
<1>5. DentryInv'
  BY SMTT(20), <1>e DEF Place, Attach, MoveInv, DentryInv, Moving, Attached, SameBut, OthersStay
<1>6. OneInode'
  BY <1>e DEF Place, Attach, MoveInv, OneInode, Attached, Moving, SameBut, OthersStay
<1>7. FreeInv'
  BY <1>e DEF Place, Attach, MoveInv, FreeInv, Attached, Leaving, Moving, SameBut, OthersStay
<1> QED BY <1>1, <1>2, <1>3, <1>4, <1>5, <1>6, <1>7

LEMMA KeepsUndo ==
  ASSUME TypeOK, TypeOK', HashInv, NEW t \in Threads,
         Undo(t)
  PROVE  HashInv'
<1> USE NoneAssumption, SlotAssumption DEF TypeOK, locks, At, HashInv
<1>e. /\ th'[t].pc = "restore" /\ th'[t].inode = th[t].inode /\ SameBut(th'[t], th[t])
     /\ OthersStay(t)
  BY GotoFields DEF Undo, Labels, Return
<1>1. LockInv' /\ InodeInv' /\ OneInode' /\ NameInv' /\ FreeInv' /\ CleanInv'
  BY SMTT(20), <1>e
     DEF Undo, Detach, LockInv, InodeInv, OneInode, NameInv, FreeInv, CleanInv, Looking, Building,
         SameBut, OthersStay, Attached, Leaving, Saving, Agrees
<1>2. LookInv'
  BY <1>e DEF Undo, Detach, LockInv, LookInv, Looking, Building, Attached, SameBut, OthersStay
<1>3. MoveInv'
  BY <1>e
     DEF Undo, Detach, LockInv, MoveInv, OneInode, Moving, Attached, Looking, Building, SameBut,
         OthersStay
<1>4. DentryInv'
  BY <1>e DEF Undo, Detach, MoveInv, DentryInv, Moving, Attached, SameBut, OthersStay
<1> QED BY <1>1, <1>2, <1>3, <1>4

LEMMA KeepsWbStart ==
  ASSUME TypeOK, TypeOK', HashInv, NEW i \in Inodes,
         WbStart(i)
  PROVE  HashInv'
<1> USE NoneAssumption, SlotAssumption DEF TypeOK, locks, At, HashInv
<1> QED BY SMTT(20) DEF WbStart, LockInv, LookInv, MoveInv, InodeInv, DentryInv, OneInode, NameInv,
               FreeInv, CleanInv, Looking, Building, Attached, Moving, Leaving, Saving, Agrees

LEMMA KeepsWbRead ==
  ASSUME TypeOK, TypeOK', HashInv, NEW i \in Inodes,
         WbRead(i)
  PROVE  HashInv'
<1> USE NoneAssumption, SlotAssumption DEF TypeOK, locks, At, HashInv
<1> QED BY DEF WbRead, PlaceToWrite, LockInv, LookInv, MoveInv, InodeInv, DentryInv, OneInode,
               NameInv, FreeInv, CleanInv, Looking, Building, Attached, Moving, Leaving, Saving,
               Agrees

LEMMA KeepsOpen ==
  ASSUME TypeOK, TypeOK', HashInv, NEW n \in Names,
         Open(n)
  PROVE  HashInv'
<1> USE NoneAssumption, SlotAssumption DEF TypeOK, locks, At, HashInv
<1>1. LockInv' /\ LookInv' /\ MoveInv' /\ DentryInv' /\ OneInode' /\ NameInv' /\
      FreeInv' /\ CleanInv'
  BY DEF Open, LockInv, LookInv, MoveInv, DentryInv, OneInode, NameInv, FreeInv, CleanInv,
               Looking, Building, Attached, Moving, Leaving, Saving, Agrees
<1>2. InodeInv'
  BY DEF Open, InodeInv, DentryInv, Moving
<1> QED BY <1>1, <1>2

LEMMA KeepsClose ==
  ASSUME TypeOK, TypeOK', HashInv, NEW i \in Inodes,
         Close(i)
  PROVE  HashInv'
<1> USE NoneAssumption, SlotAssumption DEF TypeOK, locks, At, HashInv
<1> QED BY DEF Close, LockInv, LookInv, MoveInv, InodeInv, DentryInv, OneInode, NameInv, FreeInv,
               CleanInv, Looking, Building, Attached, Moving, Leaving, Saving, Agrees

LEMMA KeepsChange ==
  ASSUME TypeOK, TypeOK', HashInv, NEW i \in Inodes,
         Change(i)
  PROVE  HashInv'
<1> USE NoneAssumption, SlotAssumption DEF TypeOK, locks, At, HashInv
<1>1. LockInv' /\ MoveInv' /\ InodeInv' /\ DentryInv' /\ OneInode' /\ NameInv' /\
      FreeInv' /\ CleanInv'
  BY DEF Change, Writable, LockInv, MoveInv, InodeInv, DentryInv, OneInode, NameInv, FreeInv,
               CleanInv, Looking, Building, Moving, Attached, Leaving, Saving, Agrees
<1>2. LookInv'
  BY DEF Change, Writable, LookInv, InodeInv, Looking, Building, Attached
<1> QED BY <1>1, <1>2

LEMMA KeepsForget ==
  ASSUME TypeOK, TypeOK', HashInv, NEW n \in Names,
         Forget(n)
  PROVE  HashInv'
<1> USE NoneAssumption, SlotAssumption DEF TypeOK, locks, At, HashInv
<1> QED BY SMTT(20) DEF Forget, LockInv, LookInv, MoveInv, InodeInv, DentryInv, OneInode, NameInv, FreeInv,
               CleanInv, Looking, Building, Attached, Moving, Leaving, Saving, Agrees

LEMMA KeepsEvictBegin ==
  ASSUME TypeOK, TypeOK', HashInv, NEW i \in Inodes,
         EvictBegin(i)
  PROVE  HashInv'
<1> USE NoneAssumption, SlotAssumption DEF TypeOK, locks, At, HashInv
<1> QED BY SMTT(20) DEF EvictBegin, Held, LockInv, LookInv, MoveInv, InodeInv, DentryInv, OneInode,
               NameInv, FreeInv, CleanInv, Looking, Building, Attached, Moving, Leaving, Saving,
               Agrees

LEMMA KeepsEvictEnd ==
  ASSUME TypeOK, TypeOK', HashInv, NEW i \in Inodes,
         EvictEnd(i)
  PROVE  HashInv'
<1> USE NoneAssumption, SlotAssumption DEF TypeOK, locks, At, HashInv
<1> QED BY SMTT(20) DEF EvictEnd, Detach, Unused, LockInv, LookInv, MoveInv, InodeInv, DentryInv, OneInode,
               NameInv, FreeInv, CleanInv, Looking, Building, Attached, Moving, Leaving, Saving,
               Agrees

LEMMA KeepsIgetFound ==
  ASSUME TypeOK, TypeOK', HashInv, NEW t \in Threads,
         IgetFound(t)
  PROVE  HashInv'
<1> USE NoneAssumption, SlotAssumption DEF TypeOK, locks, At, HashInv
<1>e. \E i \in Attached(th[t].slot) : /\ th'[t].pc = "unlock" /\ th'[t].inode = i
       /\ SameBut(th'[t], th[t]) /\ OthersStay(t)
  BY GotoWithFields DEF IgetFound, Labels, Attached
<1>1. LockInv' /\ MoveInv' /\ DentryInv' /\ OneInode' /\ NameInv' /\ FreeInv' /\
      CleanInv'
  BY SMTT(30), <1>e
     DEF IgetFound, LockInv, MoveInv, DentryInv, OneInode, NameInv, FreeInv, CleanInv, Looking,
         Building, SameBut, OthersStay, Moving, Attached, Leaving, Saving, Agrees
<1>2. LookInv'
  BY <1>e DEF IgetFound, LookInv, InodeInv, Looking, Building, Attached, SameBut, OthersStay
<1>3. InodeInv'
  BY <1>e DEF IgetFound, MoveInv, InodeInv, Moving, Attached, SameBut, OthersStay
<1> QED BY <1>1, <1>2, <1>3

LEMMA KeepsIgetNew ==
  ASSUME TypeOK, TypeOK', HashInv, NEW t \in Threads,
         IgetNew(t)
  PROVE  HashInv'
<1> USE NoneAssumption, SlotAssumption DEF TypeOK, locks, At, HashInv
<1>a. CASE Goto(t, "unlock") /\ UNCHANGED ino
  <2>e. /\ th'[t].pc = "unlock" /\ th'[t].inode = th[t].inode
        /\ SameBut(th'[t], th[t]) /\ OthersStay(t)
    BY <1>a, GotoFields DEF Labels
  <2> QED BY SMTT(20), <1>a, <2>e
             DEF IgetNew, LockInv, LookInv, MoveInv, InodeInv, DentryInv, OneInode, NameInv,
                 FreeInv, CleanInv, Looking, Building, SameBut, OthersStay, Attached, Moving,
                 Leaving, Saving, Agrees
<1>b. ASSUME NEW i \in Inodes, ino[i].state = "none",
       ino' = [ino EXCEPT ![i] = [Unused EXCEPT !.state = "new"]], GotoWith(t, "fill", i)
       PROVE HashInv'
  <2>e. th'[t].pc = "fill" /\ th'[t].inode = i /\ SameBut(th'[t], th[t]) /\ OthersStay(t)
    BY <1>b, GotoWithFields DEF Labels
  <2>i. /\ ino'[i].state = "new" /\ ino'[i].dirty = FALSE
        /\ \A j \in Inodes : j # i => ino'[j] = ino[j]
    BY SMTT(20), <1>b DEF Unused
  <2>1. LockInv' /\ LookInv' /\ MoveInv' /\ InodeInv' /\ DentryInv'
    BY SMTT(20), <1>b, <2>e, <2>i
       DEF IgetNew, LockInv, LookInv, MoveInv, InodeInv, DentryInv, Looking, Building, SameBut,
           OthersStay, Attached, Moving
  <2>2. OneInode' /\ NameInv' /\ FreeInv' /\ CleanInv'
    BY <1>b, <2>e, <2>i
       DEF IgetNew, OneInode, NameInv, FreeInv, CleanInv, Attached, SameBut, OthersStay, Leaving,
           Saving, Agrees
  <2> QED BY <2>1, <2>2
<1> QED BY <1>a, <1>b DEF IgetNew

LEMMA KeepsFill ==
  ASSUME TypeOK, TypeOK', HashInv, NEW t \in Threads,
         Fill(t)
  PROVE  HashInv'
<1> USE NoneAssumption, SlotAssumption DEF TypeOK, locks, At, HashInv
<1>a. ASSUME ino' = [ino EXCEPT ![th[t].inode] = Unused], GotoWith(t, "unlock", None)
      PROVE HashInv'
  <2>e. th'[t].pc = "unlock" /\ th'[t].inode = None /\ SameBut(th'[t], th[t]) /\ OthersStay(t)
    BY <1>a, GotoWithFields DEF Labels
  <2>t. th[t].inode \in Inodes /\ ino[th[t].inode].state = "new" /\ th[t].pc = "fill"
    BY DEF Fill, LookInv, Thread
  <2>i. /\ ino'[th[t].inode].state = "none" /\ ino'[th[t].inode].dirty = FALSE
        /\ \A j \in Inodes : j # th[t].inode => ino'[j] = ino[j]
    BY SMTT(20), <1>a, <2>t DEF Unused
  <2>1. LockInv' /\ MoveInv' /\ InodeInv' /\ DentryInv' /\ OneInode' /\ NameInv' /\
        FreeInv' /\ CleanInv'
    BY SMTT(60), <1>a, <2>e, <2>t, <2>i
       DEF Fill, LockInv, MoveInv, InodeInv, DentryInv, OneInode, NameInv, FreeInv, CleanInv,
           Looking, Building, SameBut, OthersStay, Moving, Attached, Leaving, Saving, Agrees
  <2>2. LookInv'
    BY <1>a, <2>e, <2>t, <2>i
       DEF Fill, LockInv, LookInv, Looking, Building, Attached, SameBut, OthersStay
  <2> QED BY <2>1, <2>2
<1>b. ASSUME ino' = [ino EXCEPT ![th[t].inode] =
                       [@ EXCEPT !.file = entry[th[t].slot].file,
                                 !.ver = entry[th[t].slot].ver, !.linked = TRUE]],
             Goto(t, "attach")
       PROVE HashInv'
  <2>e. th'[t].pc = "attach" /\ th'[t].inode = th[t].inode
     /\ SameBut(th'[t], th[t]) /\ OthersStay(t)
    BY <1>b, GotoFields DEF Labels
  <2>t. th[t].inode \in Inodes /\ ino[th[t].inode].state = "new" /\ th[t].pc = "fill"
    BY DEF Fill, LookInv, Thread
  <2>i. /\ ino'[th[t].inode].state = "new" /\ ino'[th[t].inode].dirty = ino[th[t].inode].dirty
        /\ ino'[th[t].inode].file = entry[th[t].slot].file
        /\ ino'[th[t].inode].ver = entry[th[t].slot].ver
        /\ ino'[th[t].inode].linked
        /\ \A j \in Inodes : j # th[t].inode => ino'[j] = ino[j]
    BY <1>b, <2>t DEF Inode
  <2>1. LockInv'
    BY <1>b, <2>e, <2>t, <2>i DEF Fill, LockInv, Looking, Building, SameBut, OthersStay
  <2>2. MoveInv'
    BY SMTT(20), <1>b, <2>e, <2>t, <2>i DEF Fill, MoveInv, Moving, Attached, SameBut, OthersStay
  <2>3. InodeInv'
    BY <1>b, <2>e, <2>t, <2>i DEF Fill, InodeInv, SameBut, OthersStay
  <2>4. DentryInv'
    BY <1>b, <2>e, <2>t, <2>i DEF Fill, DentryInv, Moving, SameBut, OthersStay
  <2>5. OneInode'
    BY <1>b, <2>e, <2>t, <2>i DEF Fill, OneInode, Attached, SameBut, OthersStay
  <2>6. NameInv'
    BY <1>b, <2>e, <2>t, <2>i DEF Fill, NameInv, SameBut, OthersStay
  <2>7. FreeInv'
    BY <1>b, <2>e, <2>t, <2>i DEF Fill, FreeInv, Attached, Leaving, SameBut, OthersStay
  <2>8. CleanInv'
    BY SMTT(30), <1>b, <2>e, <2>t, <2>i
       DEF Fill, CleanInv, Attached, Leaving, Saving, Agrees, SameBut, OthersStay
  <2>9. LookInv'
    BY SMTT(20), <1>b, <2>e, <2>t, <2>i
       DEF Fill, LockInv, LookInv, Looking, Building, Attached, SameBut, OthersStay
  <2> QED BY <2>1, <2>2, <2>3, <2>4, <2>5, <2>6, <2>7, <2>8, <2>9
<1> QED BY <1>a, <1>b DEF Fill

LEMMA KeepsLookup ==
  ASSUME TypeOK, TypeOK', HashInv, NEW t \in Threads, NEW n \in Names,
         Lookup(t, n)
  PROVE  HashInv'
<1> USE NoneAssumption, SlotAssumption DEF TypeOK, locks, At, HashInv
<1>g. /\ th[t].pc = "idle" /\ sLock = None /\ dentry[n] = None
      /\ UNCHANGED <<mode, entry, pos, ino, wb, dentry, open, buildLock, failed>>
  BY Zenon DEF Lookup
<1>a. CASE UNCHANGED <<th, sLock>>
  <2> QED BY <1>a, <1>g
             DEF LockInv, LookInv, MoveInv, InodeInv, DentryInv, OneInode, NameInv, FreeInv,
                 CleanInv, Looking, Building, SameBut, OthersStay, Attached, Moving, Leaving,
                 Saving, Agrees
<1>b. ASSUME NEW p \in Find(n), sLock' = t,
             Become(t, [Resting EXCEPT !.pc = "lock", !.name = n, !.slot = p])
       PROVE HashInv'
  <2>p. p \in Slots /\ entry[p] # None /\ entry[p].name = n
    BY <1>b DEF Find
  <2>e. /\ th'[t].pc = "lock" /\ th'[t].name = n /\ th'[t].slot = p
        /\ th'[t].to = None /\ th'[t].inode = None /\ th'[t].target = None
        /\ OthersStay(t)
    BY Zenon, <1>b, <2>p, LockFields
  <2> QED BY SMTT(60), <1>b, <1>g, <2>p, <2>e
             DEF LockInv, LookInv, MoveInv, InodeInv, DentryInv, OneInode, NameInv, FreeInv,
                 CleanInv, Looking, Building, SameBut, OthersStay, Attached, Moving, Leaving,
                 Saving, Agrees
<1> QED BY Zenon, <1>a, <1>b DEF Lookup

LEMMA KeepsNfsGet ==
  ASSUME TypeOK, TypeOK', HashInv, NEW t \in Threads, NEW p \in Slots,
         NfsGet(t, p)
  PROVE  HashInv'
<1> USE NoneAssumption, SlotAssumption DEF TypeOK, locks, At, HashInv
<1>e. /\ th'[t].pc = "lock" /\ th'[t].name = None /\ th'[t].slot = p
      /\ th'[t].to = None /\ th'[t].inode = None /\ th'[t].target = None
      /\ OthersStay(t)
  BY DEF NfsGet, Become, Resting, OthersStay
<1> QED BY SMTT(60), <1>e
           DEF NfsGet, LockInv, LookInv, MoveInv, InodeInv, DentryInv, OneInode, NameInv, FreeInv,
               CleanInv, Looking, Building, SameBut, OthersStay, Attached, Moving, Leaving,
               Saving, Agrees

LEMMA KeepsWbWrite ==
  ASSUME TypeOK, TypeOK', HashInv, NEW i \in Inodes,
         WbWrite(i)
  PROVE  HashInv'
<1> USE NoneAssumption, SlotAssumption DEF TypeOK, locks, At, HashInv
<1>g. /\ wb[i] \in Slots
      /\ UNCHANGED <<mode, pos, ino, dentry, open, sLock, buildLock, th, failed>>
      /\ \A j \in Inodes : j # i => wb'[j] = wb[j]
  BY DEF WbWrite
<1>r. \A u \in Threads : th[u].slot \in Slots \cup {None} /\ th[u].old \in Slots \cup {None}
  BY DEF Thread
<1>a. CASE SamePlace(i)
  <2>w. entry' = Written(wb[i], i) /\ wb'[i] = "off" /\ pos[i] = wb[i]
    BY <1>a DEF WbWrite, SamePlace
  <2>l. ino[i].state = "live" /\ pos[i] = wb[i] /\ wb'[i] = "off"
    BY <1>g, <2>w DEF InodeInv, Inode
  <2>e. /\ \A q \in Slots : /\ entry[q] = None => entry'[q] = None
                            /\ entry[q] # None => entry'[q] # None /\ entry'[q].name = entry[q].name
                            /\ q # wb[i] => entry'[q] = entry[q]
        /\ entry[wb[i]] # None => entry'[wb[i]].file = ino[i].file /\ entry'[wb[i]].ver = ino[i].ver
    BY <1>g, <2>w, WrittenFields
  <2>1. LockInv' /\ LookInv' /\ MoveInv' /\ InodeInv' /\ DentryInv' /\ OneInode' /\
        NameInv' /\ FreeInv'
    BY <1>g, <1>r, <2>e, <2>l
       DEF LockInv, LookInv, MoveInv, InodeInv, DentryInv, OneInode, NameInv, FreeInv, Looking,
           Building, SameBut, OthersStay, Attached, Moving, Leaving
  <2>2. CleanInv'
    BY <1>g, <1>r, <2>e, <2>l
       DEF OneInode, FreeInv, CleanInv, Attached, Leaving, Saving, Agrees, SameBut, OthersStay
  <2> QED BY <2>1, <2>2
<1>b. CASE ~SamePlace(i)
  <2>w. entry' = entry /\ wb'[i] = "read"
    BY <1>b, <1>g DEF WbWrite
  <2> QED BY <1>g, <2>w
             DEF LockInv, LookInv, MoveInv, InodeInv, DentryInv, OneInode, NameInv, FreeInv,
                 CleanInv, Looking, Building, SameBut, OthersStay, Attached, Moving, Leaving,
                 Saving, Agrees
<1> QED BY <1>a, <1>b

LEMMA KeepsUnhash ==
  ASSUME TypeOK, TypeOK', HashInv, NEW t \in Threads,
         Unhash(t)
  PROVE  HashInv'
<1> USE NoneAssumption, SlotAssumption DEF TypeOK, locks, At, HashInv
<1>e. /\ th'[t].pc = "idle" /\ th'[t].name = None /\ th'[t].to = None
     /\ th'[t].inode = None /\ th'[t].target = None
     /\ OthersStay(t) /\ sLock' = None
  BY RestFields DEF Unhash, Return
<1>t. /\ th[t].inode \in Inodes /\ th[t].name \in Names /\ th[t].pc = "unhash"
      /\ UNCHANGED <<mode, entry, wb, open, buildLock>>
  BY DEF Unhash, MoveInv, Thread
<1>a. ASSUME Detach(th[t].inode), ino' = [ino EXCEPT ![th[t].inode].linked = FALSE],
             dentry' = [dentry EXCEPT ![th[t].name] = None], UNCHANGED failed
      PROVE  HashInv'
  <2>i. /\ ino'[th[t].inode].state = ino[th[t].inode].state
        /\ ino'[th[t].inode].dirty = ino[th[t].inode].dirty
        /\ \A j \in Inodes : j # th[t].inode => ino'[j] = ino[j]
    BY <1>a, <1>t DEF Inode
  <2>1. LockInv' /\ InodeInv' /\ OneInode' /\ NameInv' /\ FreeInv' /\ CleanInv'
    BY <1>a, <1>e, <1>t, <2>i
       DEF Detach, LockInv, InodeInv, OneInode, NameInv, FreeInv, CleanInv, Looking, Building,
           SameBut, OthersStay, Attached, Leaving, Saving, Agrees
  <2>2. LookInv'
    BY <1>a, <1>e, <1>t, <2>i
       DEF Detach, LockInv, LookInv, Looking, Building, Attached, SameBut, OthersStay
  <2>3. MoveInv'
    BY <1>a, <1>e, <1>t, <2>i
       DEF Detach, LockInv, MoveInv, Moving, Attached, Looking, Building, SameBut, OthersStay
  <2>4. DentryInv'
    BY <1>a, <1>e, <1>t, <2>i
       DEF Detach, LockInv, MoveInv, DentryInv, Moving, Looking, Building, Attached, SameBut,
           OthersStay
  <2> QED BY <2>1, <2>2, <2>3, <2>4
<1>b. ASSUME failed' = TRUE, UNCHANGED <<pos, ino, dentry>>
      PROVE  HashInv'
  <2> QED BY <1>b, <1>e, <1>t
             DEF LockInv, LookInv, MoveInv, InodeInv, DentryInv, OneInode, NameInv, FreeInv,
                 CleanInv, Looking, Building, SameBut, OthersStay, Attached, Moving, Leaving,
                 Saving, Agrees
<1> QED BY Zenon, <1>a, <1>b DEF Unhash, SyncFails

LEMMA KeepsRestore ==
  ASSUME TypeOK, TypeOK', HashInv, NEW t \in Threads,
         Restore(t)
  PROVE  HashInv'
<1> USE NoneAssumption, SlotAssumption DEF TypeOK, locks, At, HashInv
<1>e. /\ th'[t].pc = "idle" /\ th'[t].name = None /\ th'[t].to = None
     /\ th'[t].inode = None /\ th'[t].target = None
     /\ OthersStay(t) /\ sLock' = None
  BY RestFields DEF Restore, Return
<1>1. LockInv'
  BY <1>e DEF Restore, Written, Emptied, LockInv, Looking, Building, SameBut, OthersStay
<1>2. LookInv'
  BY <1>e
     DEF Restore, Written, Emptied, LockInv, LookInv, Looking, Building, Attached, SameBut,
         OthersStay
<1>3. MoveInv'
  BY <1>e
     DEF Restore, Written, Emptied, LockInv, MoveInv, Moving, Attached, Looking, Building,
         SameBut, OthersStay
<1>4. InodeInv'
  BY <1>e DEF Restore, Written, Emptied, MoveInv, InodeInv, Moving, Attached, SameBut, OthersStay
<1>5. DentryInv'
  BY <1>e DEF Restore, Written, Emptied, MoveInv, DentryInv, Moving, Attached, SameBut, OthersStay
<1>6. OneInode'
  BY <1>e DEF Restore, Written, Emptied, MoveInv, OneInode, Attached, Moving, SameBut, OthersStay
<1>7. NameInv'
  BY <1>e DEF Restore, Written, Emptied, MoveInv, NameInv, Moving, Attached, SameBut, OthersStay
<1>8. FreeInv'
  BY <1>e
     DEF Restore, Written, Emptied, MoveInv, FreeInv, Attached, Leaving, Moving, SameBut,
         OthersStay
<1>9. CleanInv'
  BY <1>e
     DEF Restore, Written, Emptied, MoveInv, CleanInv, Attached, Leaving, Saving, Agrees, Moving,
         SameBut, OthersStay
<1> QED BY <1>1, <1>2, <1>3, <1>4, <1>5, <1>6, <1>7, <1>8, <1>9

LEMMA KeepsCreate ==
  ASSUME TypeOK, TypeOK', HashInv, NEW t \in Threads, NEW n \in Names,
         Create(t, n)
  PROVE  HashInv'
<1> USE NoneAssumption, SlotAssumption DEF TypeOK, locks, At, HashInv
<1>g. /\ th[t].pc = "idle" /\ sLock = None /\ sLock' = t /\ mode # "nostale" /\ ~failed
      /\ dentry[n] = None
      /\ \A p \in Slots : entry[p] # None => entry[p].name # n
      /\ UNCHANGED <<mode, pos, ino, wb, dentry, open, buildLock, failed>>
  BY DEF Create, Writable, Absent, Lock, Find
<1>p. PICK p \in Slots, f \in Files :
        /\ entry[p] = None
        /\ entry' = [entry EXCEPT ![p] = [name |-> n, file |-> f, ver |-> 0]]
        /\ Become(t, [Resting EXCEPT !.pc = "lock", !.name = n, !.slot = p])
  BY Zenon DEF Create
<1>e. /\ th'[t].pc = "lock" /\ th'[t].name = n /\ th'[t].slot = p
      /\ th'[t].to = None /\ th'[t].inode = None /\ th'[t].target = None
      /\ OthersStay(t)
  BY Zenon, <1>p, LockFields
<1>w. /\ entry'[p] # None /\ entry'[p].name = n
      /\ \A q \in Slots : q # p => entry'[q] = entry[q]
  <2>1. [name |-> n, file |-> f, ver |-> 0] \in Entry
    BY ZeroVer DEF Entry
  <2> QED BY <1>p, <2>1, EntryAssumption
<1>q. entry[p] = None
  BY <1>p
<1>1. LockInv' /\ InodeInv' /\ DentryInv' /\ OneInode' /\ NameInv' /\ FreeInv' /\
      CleanInv'
  BY SMTT(30), <1>g, <1>e, <1>w, <1>q
     DEF LockInv, InodeInv, DentryInv, OneInode, NameInv, FreeInv, CleanInv, Looking, Building,
         SameBut, OthersStay, Moving, Attached, Leaving, Saving, Agrees
<1>2. LookInv'
  BY <1>g, <1>e, <1>w, <1>q DEF LockInv, LookInv, Looking, Building, Attached, SameBut, OthersStay
<1>3. MoveInv'
  BY <1>g, <1>e, <1>w, <1>q
     DEF LockInv, MoveInv, Moving, Attached, Looking, Building, SameBut, OthersStay
<1> QED BY <1>1, <1>2, <1>3

LEMMA KeepsUnlink ==
  ASSUME TypeOK, TypeOK', HashInv, NEW t \in Threads, NEW n \in Names,
         Unlink(t, n)
  PROVE  HashInv'
<1> USE NoneAssumption, SlotAssumption DEF TypeOK, locks, At, HashInv
<1>g. /\ th[t].pc = "idle" /\ sLock = None /\ sLock' = t /\ mode # "nostale" /\ ~failed
      /\ dentry[n] \in Inodes /\ dentry[n] # None
      /\ UNCHANGED <<mode, pos, ino, wb, dentry, open, buildLock, failed>>
  BY DEF Unlink, Writable, Lock
<1>p. PICK p \in Slots : /\ entry[p] # None /\ entry[p].name = n /\ entry' = Emptied(p)
        /\ Become(t, [Resting EXCEPT !.pc = "unhash", !.name = n, !.inode = dentry[n]])
  BY DEF Unlink, Find
<1>e. /\ th'[t].pc = "unhash" /\ th'[t].name = n /\ th'[t].inode = dentry[n]
      /\ th'[t].to = None /\ th'[t].target = None
      /\ OthersStay(t)
  BY <1>p DEF Become, Resting, OthersStay
<1>w. /\ entry'[p] = None /\ entry[p] # None /\ entry[p].name = n
      /\ \A q \in Slots : q # p => entry'[q] = entry[q]
  BY <1>p DEF Emptied
<1>1. LockInv' /\ DentryInv' /\ OneInode' /\ NameInv'
  BY <1>g, <1>e, <1>w
     DEF LockInv, DentryInv, OneInode, NameInv, Looking, Building, SameBut, OthersStay, Moving,
         Attached
<1>2. LookInv'
  BY <1>g, <1>e, <1>w DEF LockInv, LookInv, Looking, Building, Attached, SameBut, OthersStay
<1>3. MoveInv'
  BY <1>g, <1>e, <1>w
     DEF LockInv, MoveInv, DentryInv, NameInv, Moving, Attached, Looking, Building, SameBut,
         OthersStay
<1>4. InodeInv'
  BY <1>g, <1>e, <1>w DEF InodeInv, DentryInv, Moving, SameBut, OthersStay
<1>5. FreeInv'
  BY <1>g, <1>e, <1>w
     DEF LockInv, DentryInv, OneInode, NameInv, FreeInv, Attached, Leaving, Looking, Building,
         Moving, SameBut, OthersStay
<1>6. CleanInv'
  BY <1>g, <1>e, <1>w
     DEF LockInv, DentryInv, OneInode, NameInv, CleanInv, Attached, Leaving, Saving, Agrees,
         Looking, Building, Moving, SameBut, OthersStay
<1> QED BY <1>1, <1>2, <1>3, <1>4, <1>5, <1>6

LEMMA KeepsRename ==
  ASSUME TypeOK, TypeOK', HashInv, NEW t \in Threads, NEW m \in Names, NEW n \in Names,
         Rename(t, m, n)
  PROVE  HashInv'
<1> USE NoneAssumption, SlotAssumption DEF TypeOK, locks, At, HashInv
<1>g. /\ th[t].pc = "idle" /\ sLock = None /\ sLock' = t /\ mode # "nostale" /\ ~failed
      /\ m # n /\ dentry[m] \in Inodes /\ dentry[m] # None
      /\ UNCHANGED <<mode, ino, wb, dentry, open, buildLock, failed>>
  BY DEF Rename, Writable, Lock
<1> DEFINE Moves(q, p) ==
      /\ th'[t].pc = "move" /\ th'[t].name = m /\ th'[t].to = n
      /\ th'[t].old = q /\ th'[t].slot = p
      /\ th'[t].inode = dentry[m] /\ th'[t].target = dentry[n]
      /\ OthersStay(t)
<1>e. ASSUME NEW p, NEW q \in Find(m),
             Become(t, [pc |-> "move", name |-> m, to |-> n, old |-> q, slot |-> p,
                        inode |-> dentry[m], target |-> dentry[n]])
      PROVE  q \in Slots /\ entry[q] # None /\ entry[q].name = m /\ Moves(q, p)
  BY <1>e DEF Become, OthersStay, Find
<1>a. ASSUME dentry[n] # None, dentry[n] # dentry[m], Detach(dentry[n]), entry' = entry,
             NEW q \in Slots, entry[q] # None, entry[q].name = m, Moves(q, pos[dentry[n]])
      PROVE  HashInv'
  <2>1. LockInv' /\ OneInode' /\ NameInv' /\ FreeInv' /\ CleanInv'
    BY <1>a, <1>g
       DEF Detach, LockInv, OneInode, NameInv, FreeInv, CleanInv, Looking, Building, SameBut,
           OthersStay, Attached, Leaving, Saving, Agrees
  <2>2. LookInv'
    BY <1>a, <1>g DEF Detach, LockInv, LookInv, Looking, Building, Attached, SameBut, OthersStay
  <2>3. MoveInv'
    BY <1>a, <1>g
       DEF Detach, LockInv, MoveInv, DentryInv, OneInode, NameInv, Moving, Attached, Looking,
           Building, SameBut, OthersStay
  <2>4. InodeInv'
    BY <1>a, <1>g DEF Detach, InodeInv, DentryInv, Moving, SameBut, OthersStay
  <2>5. DentryInv'
    BY <1>a, <1>g DEF Detach, LockInv, DentryInv, Moving, Looking, Building, SameBut, OthersStay
  <2> QED BY <2>1, <2>2, <2>3, <2>4, <2>5
<1>b. ASSUME dentry[n] = None, NEW p \in Slots, entry[p] = None,
             \A r \in Slots : entry[r] # None => entry[r].name # n,
             pos' = pos,
             entry' = [entry EXCEPT ![p] = [name |-> n, file |-> None, ver |-> 0]],
             NEW q \in Slots, entry[q] # None, entry[q].name = m, Moves(q, p)
      PROVE  HashInv'
  <2>w. /\ entry'[p] # None /\ entry'[p].name = n /\ entry[p] = None
        /\ \A r \in Slots : r # p => entry'[r] = entry[r]
    <3>1. [name |-> n, file |-> None, ver |-> 0] \in Entry
      BY ZeroVer DEF Entry
    <3> QED BY <1>b, <3>1, EntryAssumption
  <2>b. /\ dentry[n] = None /\ \A r \in Slots : entry[r] # None => entry[r].name # n
        /\ pos' = pos /\ entry[q] # None /\ entry[q].name = m /\ Moves(q, p)
    BY <1>b
  <2>c. Attached(p) = {} /\ pos[dentry[m]] = q /\ Attached(q) = {dentry[m]}
    BY <2>b, <2>w, <1>g DEF LockInv, DentryInv, OneInode, NameInv, FreeInv, Leaving, Attached
  <2>1. LockInv' /\ DentryInv'
    BY <2>b, <2>c, <2>w, <1>g
       DEF LockInv, DentryInv, Looking, Building, SameBut, OthersStay, Moving
  <2>2. OneInode' /\ NameInv' /\ FreeInv' /\ CleanInv'
    BY SMTT(30), <2>b, <2>c, <2>w, <1>g
       DEF OneInode, NameInv, FreeInv, CleanInv, Attached, SameBut, OthersStay, Leaving, Saving,
           Agrees
  <2>3. LookInv'
    BY <2>b, <2>c, <2>w, <1>g
       DEF LockInv, LookInv, Looking, Building, Attached, SameBut, OthersStay
  <2>4. MoveInv'
    BY <2>b, <2>c, <2>w, <1>g
       DEF LockInv, MoveInv, DentryInv, Moving, Attached, Looking, Building, SameBut, OthersStay
  <2>5. InodeInv'
    BY <2>b, <2>c, <2>w, <1>g DEF MoveInv, InodeInv, Moving, Attached, SameBut, OthersStay
  <2> QED BY <2>1, <2>2, <2>3, <2>4, <2>5
<1> HIDE DEF Moves
<1>1. CASE dentry[n] # None
  <2>1. PICK q \in Find(m) :
          Become(t, [pc |-> "move", name |-> m, to |-> n, old |-> q, slot |-> pos[dentry[n]],
                     inode |-> dentry[m], target |-> dentry[n]])
    BY <1>1 DEF Rename, Absent
  <2>2. dentry[n] # dentry[m] /\ Detach(dentry[n]) /\ entry' = entry
    BY <1>1 DEF Rename, Absent
  <2>3. q \in Slots /\ entry[q] # None /\ entry[q].name = m /\ Moves(q, pos[dentry[n]])
    BY <2>1, <1>e
  <2> QED BY <1>1, <2>2, <2>3, <1>a
<1>2. CASE dentry[n] = None
  <2>1. PICK p \in Slots, q \in Find(m) :
          /\ entry[p] = None
          /\ entry' = [entry EXCEPT ![p] = [name |-> n, file |-> None, ver |-> 0]]
          /\ Become(t, [pc |-> "move", name |-> m, to |-> n, old |-> q, slot |-> p,
                        inode |-> dentry[m], target |-> dentry[n]])
    BY <1>2 DEF Rename, Absent
  <2>2. pos' = pos /\ \A r \in Slots : entry[r] # None => entry[r].name # n
    BY <1>2 DEF Rename, Absent, Find
  <2>3. q \in Slots /\ entry[q] # None /\ entry[q].name = m /\ Moves(q, p)
    BY <2>1, <1>e
  <2> QED BY Zenon, <1>2, <2>1, <2>2, <2>3, <1>b
<1> QED BY <1>1, <1>2

LEMMA KeepsSave ==
  ASSUME TypeOK, TypeOK', HashInv, NEW t \in Threads,
         Save(t)
  PROVE  HashInv'
<1> USE NoneAssumption, SlotAssumption DEF TypeOK, locks, At, HashInv
<1>t. /\ th[t].inode \in Inodes /\ th[t].slot \in Slots /\ th[t].pc = "save"
      /\ UNCHANGED <<mode, pos, wb, dentry, open, sLock, buildLock>>
  BY DEF Save, MoveInv, Moving, Thread
<1> DEFINE Goes(l) == /\ th'[t].pc = l /\ th'[t].inode = th[t].inode
                      /\ SameBut(th'[t], th[t]) /\ OthersStay(t)
<1>e. ASSUME NEW l \in {"remove", "undo"}, Goto(t, l)  PROVE Goes(l)
  BY <1>e, GotoFields DEF Labels
<1>i. LET i == th[t].inode IN ino[i].state = "live" /\ Attached(th[t].slot) = {i}
  BY <1>t DEF MoveInv, Attached, OneInode, Moving
<1>a. ASSUME ino' = [ino EXCEPT ![th[t].inode].dirty = TRUE],
             UNCHANGED <<entry, failed>>, Goes("remove")
      PROVE HashInv'
  <2>i. /\ ino'[th[t].inode].state = ino[th[t].inode].state
        /\ ino'[th[t].inode].linked = ino[th[t].inode].linked
        /\ ino'[th[t].inode].dirty = TRUE
        /\ \A j \in Inodes : j # th[t].inode => ino'[j] = ino[j]
    BY <1>a, <1>t DEF Inode
  <2>1. LockInv'
    BY <1>a, <1>t, <1>i, <2>i DEF LockInv, Looking, Building, SameBut, OthersStay
  <2>2. LookInv'
    BY <1>a, <1>t, <1>i, <2>i DEF LookInv, Looking, Building, Attached, SameBut, OthersStay
  <2>3. MoveInv'
    BY <1>a, <1>t, <1>i, <2>i DEF MoveInv, Moving, Attached, SameBut, OthersStay
  <2>4. InodeInv'
    BY <1>a, <1>t, <1>i, <2>i DEF InodeInv, SameBut, OthersStay
  <2>5. DentryInv'
    BY <1>a, <1>t, <1>i, <2>i DEF DentryInv, Moving, SameBut, OthersStay
  <2>6. OneInode'
    BY <1>a, <1>t, <1>i, <2>i DEF OneInode, Attached, SameBut, OthersStay
  <2>7. NameInv'
    BY <1>a, <1>t, <1>i, <2>i DEF NameInv, SameBut, OthersStay
  <2>8. FreeInv'
    BY <1>a, <1>t, <1>i, <2>i DEF FreeInv, Attached, Leaving, SameBut, OthersStay
  <2>9. CleanInv'
    BY <1>a, <1>t, <1>i, <2>i DEF CleanInv, Attached, Leaving, Saving, Agrees, SameBut, OthersStay
  <2> QED BY <2>1, <2>2, <2>3, <2>4, <2>5, <2>6, <2>7, <2>8, <2>9
<1>b. ASSUME NEW l \in {"remove", "undo"}, UNCHANGED ino,
             entry' = Written(th[t].slot, th[t].inode), Goes(l),
             l = "undo" => failed' = TRUE, l = "remove" => failed' = failed
      PROVE  HashInv'
  <2>r. \A u \in Threads : /\ th[u].slot \in Slots \cup {None} /\ th[u].old \in Slots \cup {None}
    BY DEF Thread
  <2>i. /\ UNCHANGED ino /\ (failed => failed') /\ (l = "undo" => failed')
        /\ Goes(l) /\ l \in {"remove", "undo"}
    BY <1>b
  <2>e. /\ \A q \in Slots : /\ entry[q] = None => entry'[q] = None
                            /\ entry[q] # None => entry'[q] # None /\ entry'[q].name = entry[q].name
                            /\ q # th[t].slot => entry'[q] = entry[q]
        /\ entry[th[t].slot] # None => entry'[th[t].slot].file = ino[th[t].inode].file
                                       /\ entry'[th[t].slot].ver = ino[th[t].inode].ver
    BY <1>t, <1>b, WrittenFields
  <2>1. LockInv' /\ LookInv' /\ MoveInv' /\ InodeInv' /\ DentryInv' /\ OneInode' /\
        NameInv' /\ FreeInv'
    BY SMTT(60), <1>t, <1>i, <2>r, <2>i, <2>e
       DEF LockInv, LookInv, MoveInv, InodeInv, DentryInv, OneInode, NameInv, FreeInv, Looking,
           Building, SameBut, OthersStay, Attached, Moving, Leaving
  <2>2. CleanInv'
    BY <1>t, <1>i, <2>r, <2>i, <2>e
       DEF LockInv, MoveInv, CleanInv, Attached, Leaving, Saving, Agrees, Looking, Building,
           Moving, SameBut, OthersStay
  <2> QED BY <2>1, <2>2
<1>c. ASSUME UNCHANGED <<entry, ino>>, failed', Goes("undo")
      PROVE  HashInv'
  <2> QED BY SMTT(20), <1>c, <1>t, <1>i
             DEF LockInv, LookInv, MoveInv, InodeInv, DentryInv, OneInode, NameInv, FreeInv,
                 CleanInv, Looking, Building, SameBut, OthersStay, Attached, Moving, Leaving,
                 Saving, Agrees
<1> HIDE DEF Goes
<1>1. CASE mode # "dirsync" /\ MarkDirty(t) /\ UNCHANGED <<entry, failed>> /\ Goto(t, "remove")
  BY <1>1, <1>a, <1>e DEF MarkDirty
<1>2. CASE /\ UNCHANGED ino
           /\ entry' = Written(th[t].slot, th[t].inode)
           /\ Goto(t, "remove") /\ UNCHANGED failed
  BY <1>2, <1>b, <1>e
<1>3. CASE /\ UNCHANGED ino
           /\ entry' = Written(th[t].slot, th[t].inode)
           /\ Goto(t, "undo") /\ SyncFails
  BY <1>3, <1>b, <1>e DEF SyncFails
<1>4. CASE UNCHANGED <<entry, ino>> /\ Goto(t, "undo") /\ SyncFails
  BY <1>4, <1>c, <1>e DEF SyncFails
<1> QED BY <1>1, <1>2, <1>3, <1>4 DEF Save

LEMMA KeepsRemove ==
  ASSUME TypeOK, TypeOK', HashInv, NEW t \in Threads,
         Remove(t)
  PROVE  HashInv'
<1> USE NoneAssumption, SlotAssumption DEF TypeOK, locks, At, HashInv
<1>t. /\ th[t].inode \in Inodes /\ th[t].slot \in Slots /\ th[t].old \in Slots
      /\ th[t].pc = "remove"
      /\ th[t].name \in Names /\ th[t].to \in Names /\ th[t].target \in Inodes \cup {None}
      /\ th[t].old # th[t].slot /\ entry'[th[t].old] = None
      /\ \A q \in Slots : q # th[t].old => entry'[q] = entry[q]
      /\ UNCHANGED <<mode, pos, wb, open, buildLock>>
  BY DEF Remove, Emptied, MoveInv, Moving, Thread
<1>a. ASSUME Become(t, Resting), sLock' = None,
             dentry' = [dentry EXCEPT ![th[t].name] = None, ![th[t].to] = th[t].inode],
             ino' = IF th[t].target = None THEN ino
                    ELSE [ino EXCEPT ![th[t].target].linked = FALSE],
             UNCHANGED failed
      PROVE  HashInv'
  <2>e. /\ th'[t].pc = "idle" /\ th'[t].name = None /\ th'[t].to = None
       /\ th'[t].inode = None /\ th'[t].target = None
       /\ OthersStay(t) /\ sLock' = None
    BY <1>a, RestFields
  <2>i. /\ \A j \in Inodes : ino'[j].state = ino[j].state /\ ino'[j].dirty = ino[j].dirty
                             /\ ino'[j].file = ino[j].file /\ ino'[j].ver = ino[j].ver
        /\ \A j \in Inodes : j # th[t].target => ino'[j] = ino[j]
    BY <1>a, <1>t DEF Inode
  <2>d. /\ th[t].name # th[t].to
        /\ dentry'[th[t].name] = None /\ dentry'[th[t].to] = th[t].inode
        /\ \A n \in Names : n \notin {th[t].name, th[t].to} => dentry'[n] = dentry[n]
        /\ failed' = failed
    BY <1>a, <1>t DEF MoveInv, Moving
  <2>n. \A n \in Names : n \notin {th[t].name, th[t].to} /\ dentry[n] # None /\ ~failed =>
          /\ dentry[n] # th[t].target /\ ino[dentry[n]].linked
          /\ \E p \in Slots : /\ pos[dentry[n]] = p /\ p # th[t].old
                            /\ entry[p] # None /\ entry[p].name = n
    BY <1>t DEF DentryInv, LockInv, MoveInv, Moving, Looking, Building
  <2>1. LockInv'
    BY <1>t, <2>e, <2>i, <2>d, <2>n DEF LockInv, Looking, Building, SameBut, OthersStay
  <2>2. OneInode' /\ NameInv'
    BY SMTT(20), <1>t, <2>e, <2>i, <2>d, <2>n DEF OneInode, NameInv, Attached, SameBut, OthersStay
  <2>3. LookInv'
    BY <1>t, <2>e, <2>i, <2>d, <2>n
       DEF LockInv, LookInv, Looking, Building, Attached, SameBut, OthersStay
  <2>4. MoveInv'
    BY <1>t, <2>e, <2>i, <2>d, <2>n
       DEF LockInv, MoveInv, Moving, Attached, Looking, Building, SameBut, OthersStay
  <2>5. InodeInv'
    BY <1>t, <2>e, <2>i, <2>d, <2>n DEF MoveInv, InodeInv, Moving, Attached, SameBut, OthersStay
  <2>6. DentryInv'
    BY <1>t, <2>e, <2>i, <2>d, <2>n DEF MoveInv, DentryInv, Moving, Attached, SameBut, OthersStay
  <2>7. FreeInv'
    BY <1>t, <2>e, <2>i, <2>d, <2>n
       DEF LockInv, MoveInv, FreeInv, Attached, Leaving, Looking, Building, Moving, SameBut,
           OthersStay
  <2>8. CleanInv'
    BY <1>t, <2>e, <2>i, <2>d, <2>n
       DEF LockInv, MoveInv, CleanInv, Attached, Leaving, Saving, Agrees, Looking, Building,
           Moving, SameBut, OthersStay
  <2> QED BY <2>1, <2>2, <2>3, <2>4, <2>5, <2>6, <2>7, <2>8
<1>b. ASSUME failed', UNCHANGED <<dentry, ino, sLock>>, Goto(t, "undo")
      PROVE  HashInv'
  <2>e. th'[t].pc = "undo" /\ th'[t].inode = th[t].inode
     /\ SameBut(th'[t], th[t]) /\ OthersStay(t)
    BY <1>b, GotoFields DEF Labels
  <2>b. failed' /\ UNCHANGED <<dentry, ino, sLock>>
    BY <1>b
  <2>1. LockInv' /\ InodeInv' /\ DentryInv' /\ OneInode' /\ NameInv' /\ FreeInv' /\
        CleanInv'
    BY <1>t, <2>e, <2>b
       DEF LockInv, InodeInv, DentryInv, OneInode, NameInv, FreeInv, CleanInv, Looking, Building,
           SameBut, OthersStay, Moving, Attached, Leaving, Saving, Agrees
  <2>2. LookInv'
    BY <1>t, <2>e, <2>b DEF LockInv, LookInv, Looking, Building, Attached, SameBut, OthersStay
  <2>3. MoveInv'
    BY <1>t, <2>e, <2>b
       DEF LockInv, MoveInv, Moving, Attached, Looking, Building, SameBut, OthersStay
  <2> QED BY <2>1, <2>2, <2>3
<1> QED BY <1>a, <1>b DEF Remove, Return, SyncFails

LEMMA InitHash == Init => HashInv
<1> SUFFICES ASSUME Init  PROVE HashInv
  OBVIOUS
<1> USE NoneAssumption DEF Init, Resting, Unused, Attached
<1>1. LockInv /\ LookInv /\ MoveInv
  BY DEF LockInv, LookInv, MoveInv, Looking, Building, Moving
<1>2. InodeInv /\ DentryInv /\ OneInode
  BY DEF InodeInv, DentryInv, OneInode
<1>3. NameInv /\ FreeInv /\ CleanInv
  BY DEF NameInv, FreeInv, CleanInv
<1> QED BY <1>1, <1>2, <1>3 DEF HashInv

LEMMA NextHash == TypeOK /\ HashInv /\ [Next]_vars => HashInv'
<1> SUFFICES ASSUME TypeOK, HashInv, [Next]_vars  PROVE HashInv'
  OBVIOUS
<1>0. TypeOK'
  BY NextType
<1>1. ASSUME NEW t \in Threads, NEW n \in Names,
             Lookup(t, n) \/ Create(t, n) \/ Unlink(t, n)
      PROVE  HashInv'
  BY <1>0, <1>1, KeepsLookup, KeepsCreate, KeepsUnlink
<1>2. ASSUME NEW t \in Threads, NEW p \in Slots,
             NfsGet(t, p)
      PROVE  HashInv'
  BY <1>0, <1>2, KeepsNfsGet
<1>3. ASSUME NEW t \in Threads,
             LockBuild(t) \/ IgetFound(t) \/ IgetNew(t) \/ Fill(t) \/ AttachNew(t) \/
             UnlockBuild(t) \/ Unhash(t)
      PROVE  HashInv'
  BY <1>0, <1>3, KeepsLockBuild, KeepsIgetFound, KeepsIgetNew, KeepsFill, KeepsAttachNew,
     KeepsUnlockBuild, KeepsUnhash
<1>4. ASSUME NEW t \in Threads,
             Move(t) \/ Place(t) \/ Save(t) \/ Remove(t) \/ Undo(t) \/ Restore(t)
      PROVE  HashInv'
  BY <1>0, <1>4, KeepsMove, KeepsPlace, KeepsSave, KeepsRemove, KeepsUndo, KeepsRestore
<1>5. ASSUME NEW t \in Threads, NEW m \in Names, NEW n \in Names,
             Rename(t, m, n)
      PROVE  HashInv'
  BY <1>0, <1>5, KeepsRename
<1>6. ASSUME NEW i \in Inodes,
             WbStart(i) \/ WbRead(i) \/ WbWrite(i) \/ Close(i) \/ Change(i) \/ EvictBegin(i) \/
             EvictEnd(i)
      PROVE  HashInv'
  BY <1>0, <1>6, KeepsWbStart, KeepsWbRead, KeepsWbWrite, KeepsClose, KeepsChange,
     KeepsEvictBegin, KeepsEvictEnd
<1>7. ASSUME NEW n \in Names,
             Open(n) \/ Forget(n)
      PROVE  HashInv'
  BY <1>0, <1>7, KeepsOpen, KeepsForget
<1>8. CASE UNCHANGED vars
  BY <1>8 DEF vars, locks, HashInv, LockInv, LookInv, MoveInv, InodeInv, DentryInv, OneInode,
            NameInv, FreeInv, CleanInv, Attached, Leaving, Saving, Agrees
<1> QED BY <1>1, <1>2, <1>3, <1>4, <1>5, <1>6, <1>7, <1>8 DEF Next

-----------------------------------------------------------------------------
LEMMA HashAlways == Spec => [](TypeOK /\ HashInv)
<1>1. Init => TypeOK /\ HashInv
  BY InitType, InitHash
<1>2. TypeOK /\ HashInv /\ [Next]_vars => (TypeOK /\ HashInv)'
  BY NextType, NextHash
<1> QED BY <1>1, <1>2, PTL DEF Spec

(* Every variable has its type.                                             *)
THEOREM TypeCorrect == Spec => []TypeOK
  BY HashAlways, PTL

(* Two inodes that can be found never have the same place: fat_build_inode  *)
(* finds the inode of an entry, or makes the only one, even when NFS        *)
(* handles and names are looked up at the same time.                        *)
THEOREM OneInodeAlways == Spec => []OneInode
<1>1. HashInv => OneInode
  BY DEF HashInv
<1> QED BY <1>1, HashAlways, PTL

LEMMA NobodyIn ==
  ASSUME HashInv, sLock = None, NEW i
  PROVE  ~Leaving(i) /\ ~Saving(i)
  BY NoneAssumption DEF HashInv, LockInv, Leaving, Saving, Looking, Building

(* A slot that unlink or rename has freed has no inode in the hash, so a    *)
(* file that is made there later is not taken for the old one.              *)
THEOREM FreedIsUnhashed == Spec => []FreeUnhashed
<1>1. HashInv => FreeUnhashed
  BY NobodyIn DEF HashInv, FreeInv, FreeUnhashed
<1> QED BY <1>1, HashAlways, PTL

(* An inode with nothing to be written agrees with its entry, so the VFS    *)
(* may evict it: write-back that read a place and finds that the inode has  *)
(* moved tries again, and rename marks the inode it has moved dirty.        *)
THEOREM CleanLosesNothing == Spec => []CleanAgrees
<1>1. HashInv => CleanAgrees
  BY NobodyIn DEF HashInv, CleanInv, CleanAgrees, Agrees
<1> QED BY <1>1, HashAlways, PTL

-----------------------------------------------------------------------------
(* The refinement.  What an entry stands for, and what a name means, without *)
(* the choices that Meaning makes: OneInode and NameInv leave it only one.  *)
Denoted(p) == [file |-> entry[p].file, ver |-> entry[p].ver]
Value(p) == IF Attached(p) # {} THEN VersionOf(CHOOSE i \in Attached(p) : TRUE) ELSE Denoted(p)
Renamed(n) == \E t \in Threads : Renaming(t) /\ n \in {th[t].name, th[t].to}

ValueInv ==
    \A p \in Slots : /\ Attached(p) = {} => Value(p) = Denoted(p)
                     /\ \A i \in Attached(p) : Value(p) = VersionOf(i)
MeaningInv ==
    ~failed => \A n \in Names :
      /\ \A t \in Threads : Renaming(t) =>
           /\ n = th[t].name => Meaning(n) = VersionOf(th[t].inode)
           /\ n = th[t].to => Meaning(n) = IF th[t].target = None THEN None
                                           ELSE VersionOf(th[t].target)
      /\ ~Renamed(n) => /\ Find(n) = {} => Meaning(n) = None
                        /\ \A p \in Find(n) : Meaning(n) = Value(p)
SpaceInv == TypeOK /\ HashInv /\ ValueInv /\ MeaningInv

LEMMA OneRenamer ==
  ASSUME LockInv, MoveInv, NEW t \in Threads, Renaming(t)
  PROVE  /\ sLock = t /\ \A u \in Threads : Renaming(u) => u = t
         /\ th[t].name # th[t].to /\ th[t].inode # None
  BY DEF LockInv, MoveInv, Renaming, Moving, Looking, Building

LEMMA MeaningIs == TypeOK /\ HashInv => ValueInv /\ MeaningInv
<1> SUFFICES ASSUME TypeOK, HashInv  PROVE ValueInv /\ MeaningInv
  OBVIOUS
<1>1. ValueInv
  BY DEF HashInv, OneInode, ValueInv, Value
<1>2. ASSUME ~failed, NEW n \in Names, NEW t \in Threads, Renaming(t)
      PROVE  /\ n = th[t].name => Meaning(n) = VersionOf(th[t].inode)
             /\ n = th[t].to => Meaning(n) = IF th[t].target = None THEN None
                                             ELSE VersionOf(th[t].target)
  <2>1. (CHOOSE u \in Threads : Renaming(u)) = t
    BY <1>2, OneRenamer DEF HashInv
  <2>2. th[t].name # th[t].to /\ th[t].inode # None
    BY <1>2, OneRenamer DEF HashInv
  <2> QED BY Zenon, <1>2, <2>1, <2>2 DEF Meaning
<1>3. ASSUME ~failed, NEW n \in Names, ~Renamed(n)
      PROVE  /\ Find(n) = {} => Meaning(n) = None
             /\ \A p \in Find(n) : Meaning(n) = Value(p)
  <2>1. Meaning(n) = IF Find(n) = {} THEN None ELSE Value(CHOOSE p \in Find(n) : TRUE)
    BY Zenon, <1>3 DEF Meaning, Renamed, Value, Denoted
  <2>2. \A p \in Find(n) : (CHOOSE q \in Find(n) : TRUE) = p
    BY <1>3 DEF HashInv, NameInv, Find
  <2> QED BY <2>1, <2>2
<1> QED BY <1>1, <1>2, <1>3 DEF MeaningInv

(* A step that leaves alone what names mean: the renames under way, the     *)
(* versions that are theirs, and what the entries of other names stand for. *)
ThreadsKeep ==
    \A t \in Threads : /\ Renaming(t)' <=> Renaming(t)
                       /\ Renaming(t) => /\ th'[t].name = th[t].name /\ th'[t].to = th[t].to
                                         /\ th'[t].inode = th[t].inode
                                         /\ th'[t].target = th[t].target
VersionsKeep ==
    \A t \in Threads : Renaming(t) =>
      \A i \in {th[t].inode, th[t].target} \ {None} : VersionOf(i)' = VersionOf(i)
EntriesKeep ==
    \A n \in Names : ~Renamed(n) => /\ Find(n)' = Find(n)
                                    /\ \A p \in Find(n) : Value(p)' = Value(p)
MeaningsKeep == \A n \in Names : Meaning(n)' = Meaning(n)

LEMMA KeepsMeanings ==
  ASSUME ~failed, ~failed', SpaceInv, SpaceInv', ThreadsKeep, VersionsKeep, EntriesKeep
  PROVE  MeaningsKeep
<1> SUFFICES ASSUME NEW n \in Names  PROVE Meaning(n)' = Meaning(n)
  BY DEF MeaningsKeep
<1>1. Renamed(n)' <=> Renamed(n)
  BY DEF Renamed, ThreadsKeep
<1>2. CASE Renamed(n)
  <2>1. PICK t \in Threads : Renaming(t) /\ n \in {th[t].name, th[t].to}
    BY <1>2 DEF Renamed
  <2>2. th[t].inode # None
    BY <2>1, OneRenamer DEF SpaceInv, HashInv
  <2>3. CASE n = th[t].name
    BY <2>1, <2>2, <2>3 DEF SpaceInv, MeaningInv, ThreadsKeep, VersionsKeep
  <2>4. CASE n = th[t].to
    BY <2>1, <2>4 DEF SpaceInv, MeaningInv, ThreadsKeep, VersionsKeep
  <2> QED BY <2>1, <2>3, <2>4
<1>3. CASE ~Renamed(n)
  BY <1>1, <1>3 DEF SpaceInv, MeaningInv, EntriesKeep
<1> QED BY <1>2, <1>3

LEMMA QuietThread ==
  ASSUME NEW t \in Threads, OthersStay(t), ~Renaming(t), th'[t].pc \notin Moving
  PROVE  ThreadsKeep
  BY DEF ThreadsKeep, OthersStay, Renaming, Moving

LEMMA KeepsValue ==
  ASSUME ValueInv, ValueInv', NEW p \in Slots, Attached(p)' = Attached(p),
         Attached(p) = {} => Denoted(p)' = Denoted(p),
         \A i \in Attached(p) : VersionOf(i)' = VersionOf(i)
  PROVE  Value(p)' = Value(p)
  BY DEF ValueInv

(* Steps of lookups, of NFS, of files and dentries: entries, places and     *)
(* versions stay.                                                           *)
LEMMA QuietStep ==
  ASSUME ~failed, ~failed', SpaceInv, SpaceInv', ThreadsKeep,
         entry' = entry, pos' = pos,
         \A i \in Inodes : /\ ino'[i].file = ino[i].file /\ ino'[i].ver = ino[i].ver
                           /\ ino'[i].state = ino[i].state
  PROVE  MeaningsKeep
<1>1. \A i \in Inodes : VersionOf(i)' = VersionOf(i)
  BY DEF VersionOf
<1>2. \A p \in Slots : Attached(p)' = Attached(p) /\ Denoted(p)' = Denoted(p)
  BY DEF Attached, Denoted
<1>3. \A p \in Slots : Value(p)' = Value(p)
  BY <1>1, <1>2, KeepsValue DEF SpaceInv, Attached
<1>4. \A n \in Names : Find(n)' = Find(n)
  BY DEF Find
<1>5. VersionsKeep
  BY <1>1 DEF VersionsKeep, SpaceInv, TypeOK, Thread
<1>6. EntriesKeep
  BY <1>3, <1>4 DEF EntriesKeep, Find
<1> QED BY <1>5, <1>6, KeepsMeanings

LEMMA QuietLookups ==
  ASSUME ~failed, ~failed', SpaceInv, SpaceInv', NEW t \in Threads,
         \/ LockBuild(t) \/ IgetFound(t) \/ UnlockBuild(t)
         \/ \E n \in Names : Lookup(t, n)
         \/ \E p \in Slots : NfsGet(t, p)
  PROVE  MeaningsKeep
<1> USE DEF SpaceInv, At, Labels, Moving, Renaming
<1>1. ThreadsKeep
  <2>1. CASE LockBuild(t)
    BY <2>1, GotoFields, QuietThread DEF LockBuild, BuildLock
  <2>2. CASE IgetFound(t)
    BY <2>2, GotoWithFields, QuietThread DEF IgetFound, Attached
  <2>3. CASE UnlockBuild(t)
    BY <2>3, RestFields, QuietThread DEF UnlockBuild
  <2>4. ASSUME NEW n \in Names, Lookup(t, n)  PROVE ThreadsKeep
    <3>1. CASE UNCHANGED th
      BY <3>1 DEF ThreadsKeep
    <3>2. CASE ~UNCHANGED th
      <4>1. PICK p \in Slots :
              Become(t, [Resting EXCEPT !.pc = "lock", !.name = n, !.slot = p])
        BY <2>4, <3>2 DEF Lookup, Find
      <4> QED BY <2>4, <4>1, LockFields, QuietThread DEF Lookup
    <3> QED BY <3>1, <3>2
  <2>5. ASSUME NEW p \in Slots, NfsGet(t, p)  PROVE ThreadsKeep
    <3>1. th'[t].pc = "lock" /\ OthersStay(t)
      BY <2>5 DEF NfsGet, Become, Resting, OthersStay, TypeOK
    <3> QED BY <2>5, <3>1, QuietThread DEF NfsGet
  <2> QED BY <2>1, <2>2, <2>3, <2>4, <2>5
<1>2. UNCHANGED <<entry, pos, ino>>
  BY DEF LockBuild, IgetFound, UnlockBuild, Lookup, NfsGet
<1> QED BY <1>1, <1>2, QuietStep

LEMMA QuietFiles ==
  ASSUME ~failed, ~failed', SpaceInv, SpaceInv',
         \/ \E n \in Names : Open(n) \/ Forget(n)
         \/ \E i \in Inodes : Close(i) \/ WbStart(i) \/ WbRead(i)
         \/ UNCHANGED vars
  PROVE  MeaningsKeep
<1>1. ThreadsKeep
  BY DEF Open, Forget, Close, WbStart, WbRead, vars, ThreadsKeep, Renaming
<1>2. UNCHANGED <<entry, pos>>
  BY DEF Open, Forget, Close, WbStart, WbRead, vars
<1>3. \A i \in Inodes : /\ ino'[i].file = ino[i].file /\ ino'[i].ver = ino[i].ver
                        /\ ino'[i].state = ino[i].state
  <2>1. ASSUME NEW j \in Inodes, WbStart(j)
        PROVE  \A i \in Inodes : /\ ino'[i].file = ino[i].file /\ ino'[i].ver = ino[i].ver
                                 /\ ino'[i].state = ino[i].state
    BY <2>1 DEF WbStart, SpaceInv, TypeOK, Inode
  <2> QED BY <2>1 DEF Open, Forget, Close, WbRead, vars
<1> QED BY <1>1, <1>2, <1>3, QuietStep

(* A new inode is not in the hash until it has what its entry has.          *)
LEMMA QuietBuild ==
  ASSUME ~failed, ~failed', SpaceInv, SpaceInv', NEW t \in Threads,
         IgetNew(t) \/ Fill(t) \/ AttachNew(t)
  PROVE  MeaningsKeep
<1> USE DEF SpaceInv, At, Labels, Moving, Renaming
<1>1. ThreadsKeep
  <2>1. CASE IgetNew(t)
    BY <2>1, GotoFields, GotoWithFields, QuietThread DEF IgetNew
  <2>2. CASE Fill(t)
    BY <2>2, GotoFields, GotoWithFields, QuietThread DEF Fill
  <2>3. CASE AttachNew(t)
    BY <2>3, GotoFields, QuietThread DEF AttachNew
  <2> QED BY <2>1, <2>2, <2>3
<1>c. CASE IgetNew(t) /\ UNCHANGED ino
  BY <1>1, <1>c, QuietStep DEF IgetNew
<1> SUFFICES ASSUME ~(IgetNew(t) /\ UNCHANGED ino)  PROVE MeaningsKeep
  BY <1>c
<1>2. PICK k \in Inodes :
        /\ ino[k].state \in {"none", "new"} /\ pos[k] = None
        /\ \A i \in Inodes : i # k => ino'[i] = ino[i] /\ pos'[i] = pos[i]
        /\ \/ pos' = pos /\ ino'[k].state \in {"none", "new"}
           \/ AttachNew(t) /\ k = th[t].inode
  <2>1. CASE AttachNew(t)
    <3>1. th[t].inode \in Inodes /\ ino[th[t].inode].state = "new"
      BY <2>1 DEF HashInv, LookInv, AttachNew, TypeOK, Thread
    <3> QED BY <2>1, <3>1 DEF AttachNew, Attach, HashInv, InodeInv, TypeOK
  <2>2. CASE Fill(t)
    <3>1. th[t].inode \in Inodes /\ ino[th[t].inode].state = "new"
      BY <2>2 DEF HashInv, LookInv, Fill, TypeOK, Thread
    <3>2. /\ ino'[th[t].inode].state \in {"none", "new"}
          /\ \A i \in Inodes : i # th[t].inode => ino'[i] = ino[i]
      <4> DEFINE e == entry[th[t].slot]
                 r == [ino[th[t].inode] EXCEPT !.file = e.file, !.ver = e.ver, !.linked = TRUE]
      <4>1. r.state = ino[th[t].inode].state /\ Unused.state = "none"
        BY <3>1 DEF TypeOK, Inode, Unused
      <4>2. ino' = [ino EXCEPT ![th[t].inode] = r] \/ ino' = [ino EXCEPT ![th[t].inode] = Unused]
        BY <2>2 DEF Fill
      <4> HIDE DEF r
      <4> QED BY <3>1, <4>1, <4>2 DEF TypeOK
    <3> QED BY <2>2, <3>1, <3>2 DEF Fill, HashInv, InodeInv, TypeOK
  <2>3. CASE IgetNew(t)
    <3>1. PICK i \in Inodes : /\ ino[i].state = "none"
                              /\ ino' = [ino EXCEPT ![i] = [Unused EXCEPT !.state = "new"]]
      BY <2>3 DEF IgetNew
    <3> QED BY <2>3, <3>1 DEF IgetNew, HashInv, InodeInv, TypeOK, Unused
  <2> QED BY <2>1, <2>2, <2>3
<1>3. entry' = entry
  BY DEF IgetNew, Fill, AttachNew
<1>4. \A i \in Inodes : i # k => VersionOf(i)' = VersionOf(i)
  BY <1>2 DEF VersionOf
<1>5. ASSUME NEW p \in Slots  PROVE Value(p)' = Value(p)
  <2>1. k \notin Attached(p)
    BY <1>2 DEF Attached
  <2>2. CASE k \notin Attached(p)'
    <3>1. Attached(p)' = Attached(p)
      BY <1>2, <2>1, <2>2 DEF Attached
    <3>2. Denoted(p)' = Denoted(p)
      BY <1>3 DEF Denoted
    <3> QED BY <1>4, <2>1, <3>1, <3>2, KeepsValue DEF Attached
  <2>3. CASE k \in Attached(p)'
    <3>1. AttachNew(t) /\ k = th[t].inode /\ p = th[t].slot
      BY <1>2, <2>3, NoneAssumption DEF Attached, AttachNew, Attach, TypeOK
    <3>2. /\ Attached(p) = {} /\ ino[k].file = entry[p].file /\ ino[k].ver = entry[p].ver
      BY <3>1 DEF HashInv, LookInv, AttachNew
    <3>3. ino'[k].file = ino[k].file /\ ino'[k].ver = ino[k].ver
      BY <3>1 DEF AttachNew, TypeOK, Inode
    <3>4. Value(p) = Denoted(p) /\ Value(p)' = VersionOf(k)'
      BY <2>3, <3>2 DEF ValueInv
    <3> QED BY <3>2, <3>3, <3>4 DEF Denoted, VersionOf
  <2> QED BY <2>2, <2>3
<1>6. EntriesKeep
  BY <1>3, <1>5 DEF EntriesKeep, Find
<1>7. VersionsKeep
  <2>1. ASSUME NEW u \in Threads, Renaming(u), NEW i \in {th[u].inode, th[u].target} \ {None}
        PROVE  i \in Inodes /\ ino[i].state = "live"
    BY <2>1 DEF HashInv, MoveInv, TypeOK, Thread
  <2> QED BY <1>2, <1>4, <2>1 DEF VersionsKeep
<1> QED BY <1>1, <1>6, <1>7, KeepsMeanings

(* fat_detach of an unlinked inode: its entry is gone already.              *)
LEMMA QuietUnhash ==
  ASSUME ~failed, ~failed', SpaceInv, SpaceInv', NEW t \in Threads, Unhash(t)
  PROVE  MeaningsKeep
<1> USE DEF SpaceInv, At
<1> DEFINE k == th[t].inode
<1>1. ThreadsKeep
  <2>1. Become(t, Resting) /\ th[t].pc = "unhash"
    BY DEF Unhash, Return
  <2> QED BY <2>1, RestFields, QuietThread DEF Renaming, Moving
<1>2. /\ k \in Inodes /\ entry' = entry
      /\ pos' = [pos EXCEPT ![k] = None] /\ ino' = [ino EXCEPT ![k].linked = FALSE]
      /\ \A p \in Slots : pos[k] = p => entry[p] = None
  BY DEF Unhash, Detach, SyncFails, HashInv, MoveInv, TypeOK, Thread
<1>3. \A i \in Inodes : VersionOf(i)' = VersionOf(i) /\ ino'[i].state = ino[i].state
  BY <1>2 DEF VersionOf, TypeOK, Inode
<1>4. ASSUME NEW p \in Slots, entry[p] # None  PROVE Value(p)' = Value(p)
  <2>1. Attached(p)' = Attached(p)
    BY <1>2, <1>3, <1>4, NoneAssumption DEF Attached, TypeOK
  <2>2. Denoted(p)' = Denoted(p)
    BY <1>2 DEF Denoted
  <2> QED BY <1>3, <2>1, <2>2, KeepsValue DEF Attached
<1>5. EntriesKeep
  BY <1>2, <1>4 DEF EntriesKeep, Find
<1>6. VersionsKeep
  BY <1>3 DEF VersionsKeep, TypeOK, Thread
<1> QED BY <1>1, <1>5, <1>6, KeepsMeanings

(* The places and the new entry of a rename under way concern its two names *)
(* only, and these mean what they meant.                                    *)
LEMMA RenamerIs ==
  ASSUME HashInv, TypeOK, NEW t \in Threads, Renaming(t), ~failed
  PROVE  /\ th[t].pc \in {"move", "place", "save", "remove"}
         /\ th[t].inode \in Inodes /\ th[t].slot \in Slots /\ th[t].old \in Slots
         /\ th[t].name \in Names /\ th[t].to \in Names /\ th[t].target \in Inodes \cup {None}
         /\ th[t].old # th[t].slot /\ th[t].name # th[t].to
         /\ entry[th[t].old] # None /\ entry[th[t].old].name = th[t].name
         /\ entry[th[t].slot] # None /\ entry[th[t].slot].name = th[t].to
         /\ ino[th[t].inode].state = "live"
         /\ \A n \in Names : ~Renamed(n) => n # th[t].name /\ n # th[t].to
  BY NoneAssumption DEF HashInv, MoveInv, Renaming, Moving, TypeOK, Thread, Renamed

LEMMA QuietMoves ==
  ASSUME ~failed, ~failed', SpaceInv, SpaceInv', NEW t \in Threads,
         Move(t) \/ Place(t) \/ Save(t)
  PROVE  MeaningsKeep
<1> USE DEF SpaceInv, At
<1>0. Renaming(t)
  BY DEF Move, Place, Save, Renaming
<1> DEFINE k == th[t].inode
           own == {th[t].old, th[t].slot}
<1>1. ThreadsKeep
  <2>1. th'[t].pc \in Moving /\ th'[t].inode = k /\ SameBut(th'[t], th[t]) /\ OthersStay(t)
    BY GotoFields DEF Move, Place, Save, SyncFails, Labels, Moving
  <2> QED BY <1>0, <2>1 DEF ThreadsKeep, SameBut, OthersStay, Renaming, Moving
<1>2. /\ \A p \in Slots \ own : entry'[p] = entry[p]
      /\ \A p \in Slots : /\ entry'[p] = None <=> entry[p] = None
                          /\ entry[p] # None => entry'[p].name = entry[p].name
  <2>1. CASE UNCHANGED entry
    BY <2>1
  <2>2. CASE entry' = Written(th[t].slot, k)
    BY <1>0, <2>2, RenamerIs, WrittenFields
  <2> QED BY <2>1, <2>2 DEF Move, Place, Save
<1>3. /\ \A i \in Inodes \ {k} : pos'[i] = pos[i]
      /\ \A p \in Slots \ own : pos[k] # p /\ pos'[k] # p
  <2>1. CASE Move(t)
    BY <1>0, <2>1, RenamerIs, NoneAssumption DEF Move, Detach, HashInv, MoveInv, Moving, TypeOK
  <2>2. CASE Place(t)
    BY <1>0, <2>2, RenamerIs, NoneAssumption DEF Place, Attach, HashInv, MoveInv, Moving, TypeOK
  <2>3. CASE Save(t)
    BY <1>0, <2>3, RenamerIs DEF Save, HashInv, MoveInv, Moving
  <2> QED BY <2>1, <2>2, <2>3
<1>4. \A i \in Inodes : VersionOf(i)' = VersionOf(i) /\ ino'[i].state = ino[i].state
  <2>1. CASE UNCHANGED ino
    BY <2>1 DEF VersionOf
  <2>2. CASE MarkDirty(t)
    BY <2>2 DEF MarkDirty, VersionOf, TypeOK, Inode
  <2> QED BY <2>1, <2>2 DEF Move, Place, Save
<1>5. ASSUME NEW p \in Slots \ own  PROVE Value(p)' = Value(p)
  <2>1. Attached(p)' = Attached(p)
    BY <1>3, <1>4 DEF Attached
  <2>2. Denoted(p)' = Denoted(p)
    BY <1>2 DEF Denoted
  <2> QED BY <1>4, <2>1, <2>2, KeepsValue DEF Attached
<1>6. EntriesKeep
  <2> SUFFICES ASSUME NEW n \in Names, ~Renamed(n)
               PROVE  Find(n)' = Find(n) /\ \A p \in Find(n) : p \in Slots \ own
    BY <1>5 DEF EntriesKeep
  <2>1. Find(n)' = Find(n)
    BY <1>2 DEF Find
  <2>2. \A p \in Find(n) : p \in Slots \ own
    BY <1>0, RenamerIs DEF Find
  <2> QED BY <2>1, <2>2
<1>7. VersionsKeep
  BY <1>4 DEF VersionsKeep, TypeOK, Thread
<1> QED BY <1>1, <1>6, <1>7, KeepsMeanings

(* Write-back writes to the entry of an inode that can be found there.      *)
LEMMA QuietWbWrite ==
  ASSUME ~failed, ~failed', SpaceInv, SpaceInv', NEW j \in Inodes, WbWrite(j)
  PROVE  MeaningsKeep
<1> USE DEF SpaceInv
<1>1. ThreadsKeep /\ UNCHANGED <<pos, ino>>
  BY DEF WbWrite, ThreadsKeep, Renaming
<1>2. \A i \in Inodes : VersionOf(i)' = VersionOf(i)
  BY <1>1 DEF VersionOf
<1>3. \A p \in Slots : Attached(p)' = Attached(p)
  BY <1>1 DEF Attached
<1>c. CASE entry' = entry
  BY <1>1, <1>c, QuietStep
<1> SUFFICES ASSUME entry' # entry  PROVE MeaningsKeep
  BY <1>c
<1>4. entry' = Written(wb[j], j) /\ pos[j] = wb[j] /\ wb[j] \in Slots
  BY DEF WbWrite, SamePlace
<1>5. j \in Attached(wb[j])
  BY <1>4, NoneAssumption, SlotAssumption DEF Attached, HashInv, InodeInv, TypeOK, Inode
<1>6. \A p \in Slots : /\ entry'[p] = None <=> entry[p] = None
                       /\ entry[p] # None => entry'[p].name = entry[p].name
                       /\ p # wb[j] => entry'[p] = entry[p]
  BY <1>4, WrittenFields
<1>7. ASSUME NEW p \in Slots  PROVE Value(p)' = Value(p)
  <2>1. Attached(p) = {} => Denoted(p)' = Denoted(p)
    BY <1>5, <1>6 DEF Denoted
  <2> QED BY <1>2, <1>3, <2>1, KeepsValue DEF Attached
<1>8. EntriesKeep
  BY <1>6, <1>7 DEF EntriesKeep, Find
<1>9. VersionsKeep
  BY <1>2 DEF VersionsKeep, TypeOK, Thread
<1> QED BY <1>1, <1>8, <1>9, KeepsMeanings

(* What is evicted is clean, or has no entry.                               *)
LEMMA QuietEvict ==
  ASSUME ~failed, ~failed', SpaceInv, SpaceInv', NEW j \in Inodes,
         EvictBegin(j) \/ EvictEnd(j)
  PROVE  MeaningsKeep
<1> USE DEF SpaceInv
<1>1. ThreadsKeep /\ UNCHANGED entry
  BY DEF EvictBegin, EvictEnd, ThreadsKeep, Renaming
<1>2. /\ \A i \in Inodes \ {j} : /\ VersionOf(i)' = VersionOf(i) /\ pos'[i] = pos[i]
                                 /\ ino'[i].state = ino[i].state
      /\ ino'[j].state # "live"
  BY DEF EvictBegin, EvictEnd, VersionOf, TypeOK, Inode, Unused, Detach
<1>3. \A p \in Slots : Attached(p)' = Attached(p) \ {j}
  BY <1>2 DEF Attached
<1>4. \A p \in Slots : Denoted(p)' = Denoted(p)
  BY <1>1 DEF Denoted
<1>5. ASSUME NEW p \in Slots  PROVE Value(p)' = Value(p)
  <2>1. CASE j \notin Attached(p)
    BY <1>2, <1>3, <1>4, <2>1, KeepsValue DEF Attached
  <2>2. CASE j \in Attached(p)
    <3>1. EvictBegin(j) /\ ino[j].linked /\ ~ino[j].dirty /\ wb[j] = "off" /\ ~Held(j)
      BY <2>2, NoneAssumption DEF EvictBegin, EvictEnd, Attached, HashInv, InodeInv
    <3>2. Agrees(p, j)
      BY <2>2, <3>1 DEF HashInv, CleanInv, Leaving, Saving, Held
    <3>3. Attached(p)' = {}
      BY <1>3, <2>2 DEF HashInv, OneInode
    <3>4. Value(p) = VersionOf(j) /\ Value(p)' = Denoted(p)'
      BY <2>2, <3>3 DEF ValueInv
    <3> QED BY <1>4, <3>2, <3>4 DEF Agrees, VersionOf, Denoted
  <2> QED BY <2>1, <2>2
<1>6. EntriesKeep
  BY <1>1, <1>5 DEF EntriesKeep, Find
<1>7. VersionsKeep
  <2>1. \A u \in Threads : Renaming(u) => j \notin {th[u].inode, th[u].target}
    BY DEF EvictBegin, EvictEnd, Held, HashInv, InodeInv
  <2> QED BY <1>2, <2>1 DEF VersionsKeep, TypeOK, Thread
<1> QED BY <1>1, <1>6, <1>7, KeepsMeanings

(* A rename begins with the inodes of its dentries, which stand at the      *)
(* entries of the names.                                                    *)
LEMMA IdleMeaning ==
  ASSUME ~failed, SpaceInv, sLock = None, NEW n \in Names
  PROVE  /\ ~Renamed(n)
         /\ dentry[n] # None =>
              /\ dentry[n] \in Inodes /\ Meaning(n) = VersionOf(dentry[n])
              /\ \E p \in Find(n) : pos[dentry[n]] = p /\ dentry[n] \in Attached(p)
<1> USE DEF SpaceInv, HashInv
<1>1. ~Renamed(n)
  BY OneRenamer, NoneAssumption DEF Renamed
<1>2. ASSUME dentry[n] # None
      PROVE  /\ dentry[n] \in Inodes /\ Meaning(n) = VersionOf(dentry[n])
             /\ \E p \in Find(n) : pos[dentry[n]] = p /\ dentry[n] \in Attached(p)
  <2>1. dentry[n] \in Inodes /\ ino[dentry[n]].state = "live"
    BY <1>2 DEF DentryInv, TypeOK
  <2>2. \A t \in Threads : th[t].pc # "unhash" /\ th[t].pc \notin Moving
    BY NoneAssumption DEF LockInv, MoveInv, Moving, Looking, Building
  <2>3. PICK p \in Slots : pos[dentry[n]] = p /\ entry[p] # None /\ entry[p].name = n
    BY <1>2, <2>2 DEF DentryInv
  <2>4. p \in Find(n) /\ dentry[n] \in Attached(p)
    BY <2>1, <2>3 DEF Find, Attached
  <2>5. Meaning(n) = VersionOf(dentry[n])
    BY <1>1, <2>4 DEF MeaningInv, ValueInv, Find
  <2> QED BY <2>1, <2>3, <2>4, <2>5
<1> QED BY <1>1, <1>2

LEMMA QuietRename ==
  ASSUME ~failed, ~failed', SpaceInv, SpaceInv', NEW t \in Threads,
         NEW m \in Names, NEW n \in Names, Rename(t, m, n)
  PROVE  MeaningsKeep
<1> USE DEF SpaceInv, At
<1>1. /\ th[t].pc = "idle" /\ sLock = None /\ m # n /\ dentry[m] # None /\ ino' = ino
      /\ \A i \in Inodes : VersionOf(i)' = VersionOf(i)
  BY DEF Rename, Lock, VersionOf
<1>2. /\ th'[t].pc = "move" /\ th'[t].name = m /\ th'[t].to = n
      /\ th'[t].inode = dentry[m] /\ th'[t].target = dentry[n]
  <2>1. PICK q, p : Become(t, [pc |-> "move", name |-> m, to |-> n, old |-> q, slot |-> p,
                               inode |-> dentry[m], target |-> dentry[n]])
    BY DEF Rename
  <2> QED BY <2>1 DEF Become, TypeOK
<1>3. Renaming(t)' /\ \A u \in Threads : Renaming(u)' => u = t
  <2>1. Renaming(t)'
    BY <1>2 DEF Renaming
  <2>2. LockInv' /\ MoveInv'
    BY DEF HashInv
  <2>3. \A u \in Threads : Renaming(u)' => sLock' = u
    BY <2>2 DEF LockInv, MoveInv, Renaming, Moving, Looking, Building
  <2> QED BY <2>1, <2>3
<1>4. Meaning(m)' = Meaning(m)
  BY <1>1, <1>2, <1>3, IdleMeaning DEF MeaningInv
<1>5. Meaning(n)' = Meaning(n)
  <2>1. CASE dentry[n] # None
    BY <1>1, <1>2, <1>3, <2>1, IdleMeaning DEF MeaningInv
  <2>2. CASE dentry[n] = None
    <3>1. Find(n) = {}
      BY <2>2 DEF Rename, Absent
    <3>2. Meaning(n) = None
      BY <1>1, <3>1, IdleMeaning DEF MeaningInv
    <3> QED BY <1>2, <1>3, <2>2, <3>2 DEF MeaningInv
  <2> QED BY <2>1, <2>2
<1>6. ASSUME NEW k \in Names, k # m, k # n  PROVE Meaning(k)' = Meaning(k)
  <2>1. ~Renamed(k) /\ ~Renamed(k)'
    BY <1>1, <1>2, <1>3, <1>6, IdleMeaning DEF Renamed
  <2>2. /\ Find(k)' = Find(k)
        /\ \A p \in Find(k) : Attached(p)' = Attached(p) /\ Denoted(p)' = Denoted(p)
    <3>1. CASE Absent(n) /\ UNCHANGED pos
      <4>1. PICK p \in Slots : entry[p] = None /\ entry' = [entry EXCEPT ![p] =
                                 [name |-> n, file |-> None, ver |-> 0]]
        BY <1>1, <3>1 DEF Rename, Absent
      <4>2. entry'[p].name = n /\ \A q \in Slots : q # p => entry'[q] = entry[q]
        BY <4>1 DEF TypeOK
      <4> QED BY <1>1, <1>6, <3>1, <4>1, <4>2 DEF Find, Attached, Denoted
    <3>2. CASE dentry[n] # None /\ Detach(dentry[n]) /\ UNCHANGED entry
      <4>1. PICK p \in Find(n) : pos[dentry[n]] = p
        BY <1>1, <3>2, IdleMeaning
      <4>2. \A q \in Slots : q # p => Attached(q)' = Attached(q)
        BY <1>1, <3>2, <4>1, NoneAssumption DEF Attached, Detach, TypeOK
      <4> QED BY <1>6, <3>2, <4>1, <4>2 DEF Find, Denoted
    <3> QED BY <3>1, <3>2 DEF Rename
  <2>3. \A p \in Find(k) : Value(p)' = Value(p)
    BY <1>1, <2>2, KeepsValue DEF Find, Attached
  <2> QED BY <2>1, <2>2, <2>3 DEF MeaningInv
<1> QED BY <1>4, <1>5, <1>6 DEF MeaningsKeep

-----------------------------------------------------------------------------
(* The steps that change what a name means.                                 *)
LEMMA VersionIsNotNone ==
  ASSUME TypeOK
  PROVE  /\ \A i \in Inodes : VersionOf(i) # None /\ VersionOf(i).file = ino[i].file
         /\ \A p \in Slots : entry[p] # None =>
              Denoted(p) # None /\ Denoted(p).file = entry[p].file
<1>1. \A i \in Inodes : VersionOf(i) \in [file : Files \cup {None}, ver : 0..MaxVer]
  BY DEF TypeOK, Inode, VersionOf
<1>2. \A p \in Slots : entry[p] # None => Denoted(p) \in [file : Files \cup {None}, ver : 0..MaxVer]
  BY DEF TypeOK, Entry, Denoted
<1> QED BY <1>1, <1>2, EntryAssumption DEF VersionOf, Denoted

(* What a name means is in use.                                             *)
LEMMA MeantIsUsed ==
  ASSUME ~failed, SpaceInv, NEW n \in Names, Meaning(n) # None
  PROVE  Meaning(n).file \in Used
<1> USE DEF SpaceInv
<1>1. \A i \in Inodes : VersionOf(i).file \in Used
  BY VersionIsNotNone DEF Used
<1>2. CASE Renamed(n)
  <2>1. PICK t \in Threads : Renaming(t) /\ n \in {th[t].name, th[t].to}
    BY <1>2 DEF Renamed
  <2> QED BY <1>1, <2>1, RenamerIs DEF MeaningInv
<1>3. CASE ~Renamed(n)
  <2>1. PICK p \in Find(n) : Meaning(n) = Value(p)
    BY <1>3 DEF MeaningInv
  <2>2. Value(p) = Denoted(p) \/ \E i \in Inodes : Value(p) = VersionOf(i)
    BY <2>1 DEF ValueInv, Find, Attached
  <2>3. p \in Slots /\ entry[p] # None
    BY <2>1 DEF Find
  <2>4. Denoted(p).file \in Used
    BY <2>3, VersionIsNotNone DEF Used
  <2> QED BY <1>1, <2>1, <2>2, <2>4
<1> QED BY <1>2, <1>3

LEMMA Creates ==
  ASSUME ~failed, ~failed', SpaceInv, SpaceInv', NEW t \in Threads, NEW n \in Names, Create(t, n)
  PROVE  /\ Meaning(n) = None
         /\ \E f \in Files \ Used : Meaning(n)' = [file |-> f, ver |-> 0]
         /\ \A k \in Names : k # n => Meaning(k)' = Meaning(k)
<1> USE DEF SpaceInv, At
<1>1. PICK p \in Slots, f \in Files \ Used :
        /\ entry[p] = None /\ entry' = [entry EXCEPT ![p] = [name |-> n, file |-> f, ver |-> 0]]
        /\ Become(t, [Resting EXCEPT !.pc = "lock", !.name = n, !.slot = p])
  BY DEF Create
<1>2. sLock = None /\ Find(n) = {} /\ UNCHANGED <<pos, ino>>
  BY DEF Create, Lock, Absent
<1>3. /\ entry'[p] = [name |-> n, file |-> f, ver |-> 0]
      /\ \A q \in Slots : q # p => entry'[q] = entry[q]
  BY <1>1 DEF TypeOK
<1>4. \A k \in Names : ~Renamed(k) /\ ~Renamed(k)'
  <2>1. ThreadsKeep
    <3>1. th'[t].pc = "lock" /\ OthersStay(t)
      BY <1>1, LockFields
    <3>2. th[t].pc = "idle"
      BY DEF Create
    <3> QED BY <3>1, <3>2, QuietThread DEF Renaming, Moving
  <2> QED BY <1>2, <2>1, IdleMeaning DEF ThreadsKeep, Renamed
<1>5. \A q \in Slots : Attached(q)' = Attached(q)
  BY <1>2 DEF Attached
<1>6. Attached(p) = {}
  <2>1. \A i \in Inodes : ~Leaving(i)
    BY <1>2, NobodyIn
  <2> QED BY <1>1, <2>1 DEF HashInv, FreeInv, Attached
<1>7. Meaning(n) = None
  BY <1>2, <1>4 DEF MeaningInv
<1>8. Meaning(n)' = [file |-> f, ver |-> 0]
  <2>1. p \in Find(n)'
    BY <1>3, <1>1, ZeroVer, EntryAssumption DEF Find, Entry
  <2>2. Meaning(n)' = Value(p)'
    BY <1>4, <2>1 DEF MeaningInv
  <2>3. Value(p)' = Denoted(p)'
    BY <1>5, <1>6 DEF ValueInv
  <2> QED BY <1>3, <2>2, <2>3 DEF Denoted
<1>9. ASSUME NEW k \in Names, k # n  PROVE Meaning(k)' = Meaning(k)
  <2>1. Find(k)' = Find(k) /\ p \notin Find(k)
    BY <1>1, <1>3, <1>9 DEF Find
  <2>2. \A q \in Find(k) : Value(q)' = Value(q)
    <3> SUFFICES ASSUME NEW q \in Find(k)  PROVE Value(q)' = Value(q)
      OBVIOUS
    <3>1. q \in Slots /\ Denoted(q)' = Denoted(q)
      BY <1>3, <2>1 DEF Denoted, Find
    <3>2. \A i \in Inodes : VersionOf(i)' = VersionOf(i)
      BY <1>2 DEF VersionOf
    <3> QED BY <1>5, <3>1, <3>2, KeepsValue DEF Attached
  <2> QED BY <1>4, <2>1, <2>2 DEF MeaningInv
<1> QED BY <1>1, <1>7, <1>8, <1>9

LEMMA Removes ==
  ASSUME ~failed, ~failed', SpaceInv, SpaceInv', NEW t \in Threads, NEW n \in Names, Unlink(t, n)
  PROVE  /\ Meaning(n) # None /\ Meaning(n)' = None
         /\ \A k \in Names : k # n => Meaning(k)' = Meaning(k)
<1> USE DEF SpaceInv, At
<1>1. PICK p \in Find(n) :
        /\ entry' = Emptied(p)
        /\ Become(t, [Resting EXCEPT !.pc = "unhash", !.name = n, !.inode = dentry[n]])
  BY DEF Unlink
<1>2. sLock = None /\ dentry[n] # None /\ UNCHANGED <<pos, ino>>
  BY DEF Unlink, Lock
<1>3. /\ p \in Slots /\ entry[p] # None /\ entry[p].name = n
      /\ entry'[p] = None /\ \A q \in Slots : q # p => entry'[q] = entry[q]
  BY <1>1 DEF Emptied, TypeOK, Find
<1>4. \A k \in Names : ~Renamed(k) /\ ~Renamed(k)'
  <2>1. ThreadsKeep
    <3>1. th'[t].pc = "unhash" /\ OthersStay(t)
      BY <1>1 DEF Become, Resting, OthersStay, TypeOK
    <3>2. th[t].pc = "idle"
      BY DEF Unlink
    <3> QED BY <3>1, <3>2, QuietThread DEF Renaming, Moving
  <2> QED BY <1>2, <2>1, IdleMeaning DEF ThreadsKeep, Renamed
<1>5. Meaning(n) # None
  BY <1>2, IdleMeaning, VersionIsNotNone
<1>6. Meaning(n)' = None
  <2>1. Find(n)' = {}
    BY <1>3 DEF Find, HashInv, NameInv
  <2> QED BY <1>4, <2>1 DEF MeaningInv
<1>7. ASSUME NEW k \in Names, k # n  PROVE Meaning(k)' = Meaning(k)
  <2>1. Find(k)' = Find(k) /\ p \notin Find(k)
    BY <1>3, <1>7 DEF Find
  <2>2. ASSUME NEW q \in Find(k)  PROVE Value(q)' = Value(q)
    <3>1. q \in Slots /\ Denoted(q)' = Denoted(q)
      BY <1>3, <2>1 DEF Denoted, Find
    <3>2. \A i \in Inodes : VersionOf(i)' = VersionOf(i)
      BY <1>2 DEF VersionOf
    <3>3. Attached(q)' = Attached(q)
      BY <1>2 DEF Attached
    <3> QED BY <3>1, <3>2, <3>3, KeepsValue DEF Attached
  <2> QED BY <1>4, <2>1, <2>2 DEF MeaningInv
<1> QED BY <1>5, <1>6, <1>7

(* The rename shows when the old entry is removed.                          *)
LEMMA Renames ==
  ASSUME ~failed, ~failed', SpaceInv, SpaceInv', NEW t \in Threads, Remove(t)
  PROVE  \E m, n \in Names :
           /\ m # n
           /\ Meaning(m) # None /\ Meaning(m)' = None /\ Meaning(n)' = Meaning(m)
           /\ \A k \in Names : k # n /\ k # m => Meaning(k)' = Meaning(k)
<1> USE DEF SpaceInv, At
<1>0. /\ Renaming(t) /\ th[t].pc = "remove" /\ th[t].name \in Names /\ th[t].to \in Names
      /\ th[t].inode \in Inodes /\ th[t].old \in Slots /\ th[t].slot \in Slots
  <2>1. Renaming(t) /\ th[t].pc = "remove"
    BY DEF Remove, Renaming
  <2> QED BY <2>1, RenamerIs
<1>a. PICK m \in Names, n \in Names, i \in Inodes, old \in Slots, new \in Slots :
        /\ m = th[t].name /\ n = th[t].to /\ i = th[t].inode
        /\ old = th[t].old /\ new = th[t].slot
  BY Zenon, <1>0
<1>1. /\ old # new /\ m # n /\ entry[old] # None /\ entry[old].name = m
      /\ entry[new] # None /\ entry[new].name = n /\ i \in Attached(new)
  <2>1. pos[i] = new
    BY <1>0, <1>a DEF HashInv, MoveInv
  <2> QED BY <1>0, <1>a, <2>1, RenamerIs DEF Attached
<1>2. /\ Return(t) /\ UNCHANGED pos /\ entry' = Emptied(old)
      /\ ino' = IF th[t].target = None THEN ino ELSE [ino EXCEPT ![th[t].target].linked = FALSE]
  BY <1>a DEF Remove, SyncFails
<1>3. \A j \in Inodes : VersionOf(j)' = VersionOf(j) /\ ino'[j].state = ino[j].state
  BY <1>2 DEF VersionOf, TypeOK, Inode
<1>4. entry'[old] = None /\ \A q \in Slots : q # old => entry'[q] = entry[q]
  BY <1>1, <1>2 DEF Emptied, TypeOK
<1>5. \A k \in Names : ~Renamed(k)'
  <2>1. \A u \in Threads : ~Renaming(u)'
    <3>1. LockInv' /\ MoveInv' /\ sLock' = None
      BY <1>2 DEF HashInv, Return
    <3> QED BY <3>1, NoneAssumption DEF LockInv, MoveInv, Renaming, Moving, Looking, Building
  <2> QED BY <2>1 DEF Renamed
<1>6. \A q \in Slots : Attached(q)' = Attached(q)
  BY <1>2, <1>3 DEF Attached
<1>7. Meaning(m) = VersionOf(i) /\ VersionOf(i) # None
  BY <1>0, <1>a, VersionIsNotNone DEF MeaningInv
<1>8. Meaning(m)' = None
  <2>1. Find(m)' = {}
    BY <1>1, <1>4 DEF Find, HashInv, NameInv
  <2> QED BY <1>1, <1>5, <2>1 DEF MeaningInv
<1>9. Meaning(n)' = VersionOf(i)
  <2>1. new \in Find(n)'
    BY <1>1, <1>4 DEF Find
  <2>2. Meaning(n)' = Value(new)'
    BY <1>1, <1>5, <2>1 DEF MeaningInv
  <2>3. Value(new)' = VersionOf(i)'
    BY <1>1, <1>6 DEF ValueInv
  <2> QED BY <1>1, <1>3, <2>2, <2>3
<1>10. ASSUME NEW k \in Names, k # m, k # n  PROVE Meaning(k)' = Meaning(k)
  <2>1. ~Renamed(k)
    BY <1>0, <1>a, <1>10, OneRenamer DEF Renamed, HashInv
  <2>2. Find(k)' = Find(k) /\ old \notin Find(k)
    BY <1>1, <1>4, <1>10 DEF Find
  <2>3. ASSUME NEW q \in Find(k)  PROVE Value(q)' = Value(q)
    <3>1. q \in Slots /\ Denoted(q)' = Denoted(q)
      BY <1>4, <2>2 DEF Denoted, Find
    <3> QED BY <1>3, <1>6, <3>1, KeepsValue DEF Attached
  <2> QED BY <1>5, <2>1, <2>2, <2>3 DEF MeaningInv
<1> QED BY <1>1, <1>7, <1>8, <1>9, <1>10

(* An inode is behind one name at most, so a change of it is a change of    *)
(* one name, or of none when it is open and unlinked.                       *)
Behind(n, i) ==
    IF Renamed(n) THEN \E t \in Threads : Renaming(t) /\ \/ n = th[t].name /\ i = th[t].inode
                                                         \/ n = th[t].to /\ i = th[t].target
                  ELSE \E p \in Find(n) : i \in Attached(p)

LEMMA BehindOne ==
  ASSUME ~failed, SpaceInv, NEW i \in Inodes, NEW m \in Names, NEW n \in Names,
         Behind(m, i), Behind(n, i)
  PROVE  m = n
<1> USE DEF SpaceInv, HashInv
<1>1. CASE ~Renamed(m) /\ ~Renamed(n)
  BY <1>1 DEF Behind, Attached, Find
<1>2. CASE Renamed(m) /\ Renamed(n)
  <2>1. PICK t \in Threads : Renaming(t) /\ \/ m = th[t].name /\ i = th[t].inode
                                            \/ m = th[t].to /\ i = th[t].target
    BY <1>2 DEF Behind
  <2>2. \/ n = th[t].name /\ i = th[t].inode
        \/ n = th[t].to /\ i = th[t].target
    BY <1>2, <2>1, OneRenamer DEF Behind
  <2>3. th[t].inode # th[t].target
    BY <2>1 DEF MoveInv, Renaming, Moving
  <2> QED BY <2>1, <2>2, <2>3
<1>3. ASSUME NEW j \in Names, NEW k \in Names, Renamed(j), ~Renamed(k), Behind(j, i), Behind(k, i)
      PROVE  FALSE
  <2>1. PICK t \in Threads : Renaming(t) /\ i \in {th[t].inode, th[t].target}
    BY <1>3 DEF Behind
  <2>2. PICK p \in Find(k) : pos[i] = p
    BY <1>3 DEF Behind, Attached
  <2>3. pos[i] \in {th[t].old, th[t].slot, None}
    BY <2>1, NoneAssumption DEF MoveInv, Renaming, Moving
  <2>4. p \in {th[t].old, th[t].slot}
    BY <2>2, <2>3, NoneAssumption DEF Find
  <2> QED BY <1>3, <2>1, <2>2, <2>4, RenamerIs DEF Find
<1> QED BY <1>1, <1>2, <1>3

LEMMA Changes ==
  ASSUME ~failed, ~failed', SpaceInv, SpaceInv', NEW i \in Inodes, Change(i)
  PROVE  \A n \in Names :
           Meaning(n)' = IF Behind(n, i) THEN [Meaning(n) EXCEPT !.ver = Meaning(n).ver + 1]
                         ELSE Meaning(n)
<1> USE DEF SpaceInv
<1>1. /\ UNCHANGED <<entry, pos, th>>
      /\ \A j \in Inodes : ino'[j].state = ino[j].state /\ (j # i => VersionOf(j)' = VersionOf(j))
      /\ VersionOf(i)' = [VersionOf(i) EXCEPT !.ver = VersionOf(i).ver + 1]
  BY DEF Change, VersionOf, TypeOK, Inode
<1>2. \A n \in Names : Renamed(n)' <=> Renamed(n)
  BY <1>1 DEF Renamed, Renaming
<1> SUFFICES ASSUME NEW n \in Names
             PROVE  Meaning(n)' = IF Behind(n, i)
                                  THEN [Meaning(n) EXCEPT !.ver = Meaning(n).ver + 1]
                                  ELSE Meaning(n)
  OBVIOUS
<1>3. CASE Renamed(n)
  <2>1. PICK t \in Threads : Renaming(t) /\ n \in {th[t].name, th[t].to}
    BY <1>3 DEF Renamed
  <2>2. Renaming(t)' /\ th'[t] = th[t]
    BY <1>1, <2>1 DEF Renaming
  <2>3. /\ th[t].inode \in Inodes /\ th[t].target \in Inodes \cup {None}
        /\ th[t].name # th[t].to
    BY <2>1, RenamerIs
  <2>4. CASE n = th[t].name
    <3>1. Meaning(n) = VersionOf(th[t].inode) /\ Meaning(n)' = VersionOf(th[t].inode)'
      BY <2>1, <2>2, <2>4 DEF MeaningInv
    <3>2. Behind(n, i) <=> i = th[t].inode
      BY <1>3, <2>1, <2>3, <2>4, OneRenamer DEF Behind, HashInv
    <3> QED BY <1>1, <2>2, <2>3, <3>1, <3>2
  <2>5. CASE n = th[t].to
    <3>1. /\ Meaning(n) = IF th[t].target = None THEN None ELSE VersionOf(th[t].target)
          /\ Meaning(n)' = IF th[t].target = None THEN None ELSE VersionOf(th[t].target)'
      BY <2>1, <2>2, <2>5 DEF MeaningInv
    <3>2. Behind(n, i) <=> i = th[t].target
      BY <1>3, <2>1, <2>3, <2>5, OneRenamer DEF Behind, HashInv
    <3> QED BY <1>1, <2>2, <2>3, <3>1, <3>2, NoneAssumption
  <2> QED BY <2>1, <2>4, <2>5
<1>4. CASE ~Renamed(n)
  <2>1. Find(n)' = Find(n) /\ \A p \in Slots : Attached(p)' = Attached(p) /\ Denoted(p)' = Denoted(p)
    BY <1>1 DEF Find, Attached, Denoted
  <2>2. CASE Find(n) = {}
    BY <1>2, <1>4, <2>1, <2>2 DEF MeaningInv, Behind
  <2>3. ASSUME NEW p \in Find(n)
        PROVE  Meaning(n)' = IF Behind(n, i)
                             THEN [Meaning(n) EXCEPT !.ver = Meaning(n).ver + 1]
                             ELSE Meaning(n)
    <3>1. p \in Slots /\ Meaning(n) = Value(p) /\ Meaning(n)' = Value(p)'
      BY <1>2, <1>4, <2>1 DEF MeaningInv, Find
    <3>2. Behind(n, i) <=> i \in Attached(p)
      BY <1>4 DEF Behind, HashInv, NameInv, Find
    <3>3. CASE i \in Attached(p)
      BY <1>1, <2>1, <3>1, <3>2, <3>3 DEF ValueInv
    <3>4. CASE i \notin Attached(p)
      BY <1>1, <2>1, <3>1, <3>2, <3>4, KeepsValue DEF Attached
    <3> QED BY <3>3, <3>4
  <2> QED BY <2>2, <2>3
<1> QED BY <1>3, <1>4

-----------------------------------------------------------------------------
Means == [n \in Names |-> IF failed THEN None ELSE Meaning(n)]

LEMMA SpaceBegins == Init /\ SpaceInv => Space!Init
<1> SUFFICES ASSUME Init, SpaceInv  PROVE Space!Init
  OBVIOUS
<1>1. ~failed /\ \A n \in Names : ~Renamed(n)
  BY DEF Init, Resting, Renamed, Renaming
<1>2. \A p \in Slots : Attached(p) = {}
  BY NoneAssumption DEF Init, Attached
<1>3. ASSUME NEW n \in Names
      PROVE  \/ Meaning(n) = None
             \/ \E p \in Slots : entry[p] # None /\ entry[p].name = n /\ Meaning(n) = Denoted(p)
  BY <1>1, <1>2 DEF SpaceInv, MeaningInv, ValueInv, Find
<1>4. ASSUME NEW p \in Slots, entry[p] # None
      PROVE  Denoted(p) \in [file : Files, ver : 0..MaxVer] /\ Denoted(p).file = entry[p].file
  <2>1. entry[p].file \in Files /\ entry[p].ver \in 0..MaxVer
    BY <1>4, ZeroVer DEF Init
  <2> QED BY <2>1 DEF Denoted
<1>5. Means \in [Names -> Space!Version \cup {None}]
  BY <1>1, <1>3, <1>4 DEF Means, Space!Version
<1>6. \A m, n \in Names : m # n /\ Means[m] # None /\ Means[n] # None
                          => Means[m].file # Means[n].file
  <2> SUFFICES ASSUME NEW m \in Names, NEW n \in Names, m # n, Means[m] # None, Means[n] # None
               PROVE  Means[m].file # Means[n].file
    OBVIOUS
  <2>1. PICK p \in Slots : entry[p] # None /\ entry[p].name = m /\ Means[m] = Denoted(p)
    BY <1>1, <1>3 DEF Means
  <2>2. PICK q \in Slots : entry[q] # None /\ entry[q].name = n /\ Means[n] = Denoted(q)
    BY <1>1, <1>3 DEF Means
  <2>3. p # q
    BY <2>1, <2>2
  <2>4. \A r, s \in Slots : r # s /\ entry[r] # None /\ entry[s] # None
                             => entry[r].name # entry[s].name /\ entry[r].file # entry[s].file
    BY DEF Init
  <2>5. entry[p].file # entry[q].file
    BY ZenonT(30), <2>1, <2>2, <2>3, <2>4
  <2> QED BY <1>4, <2>1, <2>2, <2>5
<1> QED BY <1>1, <1>5, <1>6 DEF Space!Init, Means

LEMMA FailedStays == [Next]_vars /\ ~failed' => ~failed
  BY DEF Next, vars, LockBuild, IgetFound, IgetNew, Fill, AttachNew, UnlockBuild, Unhash, Move,
         Place, Save, Remove, Undo, Restore, Lookup, Create, Unlink, Rename, NfsGet, WbStart,
         WbRead, WbWrite, Close, Change, EvictBegin, EvictEnd, Open, Forget, SyncFails

LEMMA SpaceSteps == SpaceInv /\ SpaceInv' /\ [Next]_vars => [Space!Next]_(Space!vars)
<1> SUFFICES ASSUME SpaceInv, SpaceInv', [Next]_vars
             PROVE  Space!Next \/ UNCHANGED <<failed, Means>>
  BY DEF Space!vars, Means
<1>1. CASE failed'
  <2>1. Means' \in [Names -> Space!Version \cup {None}]
    BY <1>1 DEF Means
  <2> QED BY <1>1, <2>1 DEF Space!Next, Space!Fail, Means
<1>2. CASE ~failed'
  <2>0. ~failed
    BY <1>2, FailedStays
  <2>m. Means = [n \in Names |-> Meaning(n)] /\ Means' = [n \in Names |-> Meaning(n)']
    BY <1>2, <2>0 DEF Means
  <2>1. MeaningsKeep => UNCHANGED <<failed, Means>>
    BY <1>2, <2>0, <2>m DEF MeaningsKeep, SpaceInv, TypeOK
  <2>2. ASSUME NEW t \in Threads, NEW n \in Names, Create(t, n)  PROVE Space!Next
    <3>1. PICK f \in Files \ Used : Meaning(n)' = [file |-> f, ver |-> 0]
      BY <1>2, <2>0, <2>2, Creates
    <3>2. \A k \in Names : Means[k] # None => Means[k].file # f
      BY <2>0, <2>m, MeantIsUsed
    <3>3. Means' = [Means EXCEPT ![n] = [file |-> f, ver |-> 0]] /\ Means[n] = None
      BY <1>2, <2>0, <2>2, <2>m, <3>1, Creates
    <3> QED BY <1>2, <2>0, <3>2, <3>3 DEF Space!Next, Space!Create, Space!Fresh, Means
  <2>3. ASSUME NEW t \in Threads, NEW n \in Names, Unlink(t, n)  PROVE Space!Next
    <3>1. Means' = [Means EXCEPT ![n] = None] /\ Means[n] # None
      BY <1>2, <2>0, <2>3, <2>m, Removes
    <3> QED BY <1>2, <2>0, <3>1 DEF Space!Next, Space!Remove, Means
  <2>4. ASSUME NEW t \in Threads, Remove(t)  PROVE Space!Next
    <3>1. PICK m \in Names, n \in Names :
            /\ m # n
            /\ Meaning(m) # None /\ Meaning(m)' = None /\ Meaning(n)' = Meaning(m)
            /\ \A k \in Names : k # n /\ k # m => Meaning(k)' = Meaning(k)
      BY <1>2, <2>0, <2>4, Renames
    <3>2. /\ Means' = [Means EXCEPT ![m] = None, ![n] = Means[m]]
          /\ Means[m] # None
      BY <2>m, <3>1
    <3> QED BY <1>2, <2>0, <3>1, <3>2 DEF Space!Next, Space!Rename, Means
  <2>5. ASSUME NEW i \in Inodes, Change(i)  PROVE Space!Next \/ UNCHANGED <<failed, Means>>
    <3>1. \A n \in Names :
            Meaning(n)' = IF Behind(n, i) THEN [Meaning(n) EXCEPT !.ver = Meaning(n).ver + 1]
                          ELSE Meaning(n)
      BY <1>2, <2>0, <2>5, Changes
    <3>2. CASE \A n \in Names : ~Behind(n, i)
      BY <2>1, <3>1, <3>2 DEF MeaningsKeep
    <3>3. ASSUME NEW n \in Names, Behind(n, i)  PROVE Space!Next
      <4>1. \A k \in Names : k # n => ~Behind(k, i)
        BY <2>0, <3>3, BehindOne
      <4>2. Means' = [Means EXCEPT ![n] = [Means[n] EXCEPT !.ver = Means[n].ver + 1]]
        BY <2>m, <3>1, <3>3, <4>1
      <4>3. Meaning(n) # None
        <5>1. Meaning(n) = VersionOf(i)
          BY <2>0, <3>3, OneRenamer, NoneAssumption
             DEF Behind, SpaceInv, HashInv, MeaningInv, ValueInv, Find
        <5> QED BY <5>1, VersionIsNotNone DEF SpaceInv
      <4> QED BY <1>2, <2>0, <2>m, <4>2, <4>3 DEF Space!Next, Space!Change, Means
    <3> QED BY <3>2, <3>3
  <2>6. ASSUME NEW t \in Threads,
               \/ LockBuild(t) \/ IgetFound(t) \/ UnlockBuild(t)
               \/ \E n \in Names : Lookup(t, n)
               \/ \E p \in Slots : NfsGet(t, p)
        PROVE  MeaningsKeep
    BY <1>2, <2>0, <2>6, QuietLookups
  <2>7. ASSUME NEW t \in Threads,
               \/ IgetNew(t) \/ Fill(t) \/ AttachNew(t)
               \/ Unhash(t) \/ Move(t) \/ Place(t) \/ Save(t)
        PROVE  MeaningsKeep
    BY <1>2, <2>0, <2>7, QuietBuild, QuietUnhash, QuietMoves
  <2>8. ASSUME NEW t \in Threads, NEW m \in Names, NEW n \in Names, Rename(t, m, n)
        PROVE  MeaningsKeep
    BY <1>2, <2>0, <2>8, QuietRename
  <2>9. ASSUME \/ \E n \in Names : Open(n) \/ Forget(n)
               \/ \E i \in Inodes : Close(i) \/ WbStart(i) \/ WbRead(i)
               \/ UNCHANGED vars
        PROVE  MeaningsKeep
    BY <1>2, <2>0, <2>9, QuietFiles
  <2>10. ASSUME NEW i \in Inodes, WbWrite(i) \/ EvictBegin(i) \/ EvictEnd(i)
         PROVE  MeaningsKeep
    BY <1>2, <2>0, <2>10, QuietWbWrite, QuietEvict
  <2>11. \A t \in Threads : ~Undo(t) /\ ~Restore(t)
    BY <2>0 DEF Undo, Restore, At, SpaceInv, HashInv, MoveInv
  <2> QED BY Zenon, <2>1, <2>2, <2>3, <2>4, <2>5, <2>6, <2>7, <2>8, <2>9, <2>10, <2>11 DEF Next
<1> QED BY <1>1, <1>2

(* FatInodeHash keeps what a directory promises, for any names, slots,      *)
(* inodes, files and threads: while no I/O fails, what a name means is      *)
(* changed by a create, an unlink, a rename or a write, each as a whole,    *)
(* and never by lookups, NFS handles, write-back, eviction or the steps of  *)
(* a rename between.                                                        *)
THEOREM NamesKept == Spec => KeepsNames
<1>1. Init => SpaceInv
  BY InitType, InitHash, MeaningIs DEF SpaceInv
<1>2. TypeOK /\ HashInv => SpaceInv
  BY MeaningIs DEF SpaceInv
<1> QED BY <1>1, <1>2, HashAlways, SpaceBegins, SpaceSteps, PTL DEF Spec, KeepsNames, Space!Spec
=============================================================================
