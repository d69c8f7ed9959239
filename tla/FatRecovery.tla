---------------------------- MODULE FatRecovery ----------------------------
(***************************************************************************)
(* FatDir with the recovery of a deleted file: the volume is unmounted,    *)
(* fat_recovery_lecture/fat_recovery.c changes the image, and the lab is   *)
(* started again with 2_restart.sh, which formats it.                      *)
(*                                                                         *)
(* The names are short ones: the tool takes any slot with DELETED_FLAG for *)
(* an entry, and only looks at the first cluster of the root.              *)
(***************************************************************************)
EXTENDS FatDir

VARIABLES
    mounted,
    lost        \* history: the files deleted since anything else was done
recoveryVars == <<vars, mounted, lost>>

InitRecovery == Init /\ mounted = TRUE /\ lost = {}

(* What FatDir does; lost keeps the places and slots of what it deletes.    *)
Deletion == [place |-> Place(op'.cut.d, op'.cut.at), slot |-> buf[Place(op'.cut.d, op'.cut.at)]]
Mounted ==
    /\ mounted /\ UNCHANGED mounted
    /\ \/ (Step \/ \E i \in Inodes : Evict(i)) /\ UNCHANGED lost
       \/ /\ Request
          /\ lost' = IF op'.call = "unlink" /\ "recover" \in setup.ops 
                     THEN lost \cup {Deletion} ELSE {}

(* umount: inodes are written, and the buffers.                             *)
Unmount ==
    /\ "recover" \in setup.ops /\ AtRest /\ mounted
    /\ \A i \in Inodes : ino[i] # None => ino[i].linked /\ ~ino[i].dirty
    /\ mounted' = FALSE
    /\ disk' = buf
    /\ UNCHANGED <<setup, left, fat, buf, ino, links, neg, reader, op, notes, result, lost>>

(* The search for "argv[1]" in the names of the deleted slots.              *)
Matches(s, arg) == s.text[1] = DELETED_FLAG /\ SubSeq(s.text, 2, 1 + Len(arg)) = arg
Candidates(arg) == {k \in 1..Spc : Matches(disk[<<Root, k>>], arg)}
FirstMatch(arg) == CHOOSE k \in Candidates(arg) : \A m \in Candidates(arg) : k <= m

(* The name is shifted back and the table entry becomes the end of a chain; *)
(* for an empty file that is entry 0.                                       *)
Recover(arg) ==
    /\ ~mounted /\ Candidates(arg) # {}
    /\ LET p == <<Root, FirstMatch(arg)>>
           c == disk[p].start
           known == {l \in lost : l.place = p}
       IN /\ disk' = [disk EXCEPT ![p] = Restored(@)]
          /\ fat' = IF c = None THEN fat ELSE [fat EXCEPT ![c] = "eof"]
          /\ lost' = IF known = {} THEN {} ELSE lost \ known
    /\ UNCHANGED <<setup, left, buf, ino, links, neg, reader, op, notes, result, mounted>>

(* 2_restart.sh: umount, mkfs, mount.  It ends what is followed of a volume *)
(* that an operation left in disorder, or whose operations are used up, too. *)
Restart ==
    /\ AtRest /\ (~mounted \/ broken \/ left = 0)
    /\ mounted' = TRUE /\ lost' = {} /\ left' = setup.calls
    /\ fat' = EmptyTable /\ buf' = EmptyRoot /\ disk' = EmptyRoot
    /\ ino' = [i \in Inodes |-> None] /\ links' = RootLinks
    /\ neg' = {} /\ reader' = Closed /\ result' = "ok"
    /\ listed' = {} /\ broken' = FALSE /\ miscount' = FALSE
    /\ UNCHANGED <<setup, op>>

Args == {SubSeq(Form[n].alias[1], 1, k) : n \in setup.names, k \in 1..NameLen - 1}
NextRecovery == Mounted \/ Unmount \/ (~mounted /\ \E arg \in Args : Recover(arg)) \/ Restart
SpecRecovery == InitRecovery /\ [][NextRecovery]_recoveryVars

-----------------------------------------------------------------------------
(* The tool gives each of the files that were deleted last its name, its    *)
(* attributes and its cluster again, and shares it with no other file, if   *)
(* the name ends with its last character twice, as a name that is padded    *)
(* does: the shift when it was deleted has dropped that character.          *)
RecoveredRight(l) ==
    /\ l.slot.text[NameLen - 1] = l.slot.text[NameLen] => disk'[l.place] = l.slot
    /\ \A k \in ShortEntries(View(disk, Root)) :
          l.slot.start # None => View(disk, Root)[k].start # l.slot.start
RecoveryExact ==
    [][\A l \in lost : ~mounted' /\ disk[l.place] # disk'[l.place] /\ ~mounted => RecoveredRight(l)]_recoveryVars
====
