------------------------------ MODULE DirTree ------------------------------
(***************************************************************************)
(* What the directories of a volume promise: an operation that succeeds    *)
(* does what it was asked, at once and nothing else; one that fails does   *)
(* nothing.  Once a write that was to undo or complete an operation has    *)
(* failed, they promise nothing.                                           *)
(***************************************************************************)
CONSTANTS
    Objects,    \* what entries are for: files and directories
    Nothing
VARIABLES
    sound,
    names,      \* entries: a directory, a name in it, the object it is for
    asked,      \* the operation under way, or Nothing
    result      \* how the last one ended
vars == <<sound, names, asked, result>>

Of(objects) == {e \in names : e.obj \in objects}
Named(d, n) == {e \in names : e.dir = d /\ e.name = n}

Init ==
    /\ sound = TRUE
    /\ names = {}
    /\ asked = Nothing /\ result = "ok"

Ask ==
    /\ sound /\ UNCHANGED <<sound, names, result>>
    /\ asked = Nothing /\ asked' # Nothing

Refuse ==
    /\ sound /\ UNCHANGED <<sound, names>>
    /\ asked # Nothing /\ asked' = Nothing
    /\ result' = "error"

Answer ==
    /\ sound /\ UNCHANGED sound
    /\ asked # Nothing /\ asked' = Nothing
    /\ result' = "ok"
    /\ \/ /\ asked.call \in {"create", "mkdir"}
          /\ Named(asked.dir, asked.name) = {}
          /\ \E o \in Objects :
                /\ Of({o}) = {}
                /\ names' = names \cup {[dir |-> asked.dir, name |-> asked.name, obj |-> o]}
       \/ /\ asked.call \in {"unlink", "rmdir"}
          /\ names' = names \ Of({asked.obj})
       \/ /\ asked.call = "rename" /\ asked.over = Nothing
          /\ Named(asked.dir, asked.name) = {}
          /\ names' = (names \ Of({asked.obj}))
                          \cup {[dir |-> asked.dir, name |-> asked.name, obj |-> asked.obj]}
       \/ /\ asked.call = "rename" /\ asked.over # Nothing
          /\ names' = (names \ Of({asked.obj, asked.over}))
                          \cup {[dir |-> e.dir, name |-> e.name, obj |-> asked.obj] : e \in Of({asked.over})}

Fail == ~sound'

(* The volume is made anew.                                                 *)
Format ==
    /\ asked = Nothing /\ asked' = Nothing
    /\ names' = {} /\ sound' = TRUE /\ result' = "ok"

Next == Ask \/ Refuse \/ Answer \/ Fail \/ Format
Spec == Init /\ [][Next]_vars

(* What follows from it (NamesDistinct): a name of a directory is listed     *)
(* once, and an object, be it a directory, has one name in the volume.      *)
Distinct ==
    sound => \A e, f \in names : (e.dir = f.dir /\ e.name = f.name) \/ e.obj = f.obj => e = f
=============================================================================
