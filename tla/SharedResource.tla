--------------------------- MODULE SharedResource ---------------------------
(***************************************************************************)
(* What the synchronization labs promise: threads come and go, a writer is *)
(* alone while it is inside, readers share, and every write adds one to    *)
(* what all writes before it left.  Without protection anybody may be      *)
(* inside, and a write may leave any number.                               *)
(***************************************************************************)
EXTENDS Naturals

CONSTANTS Readers, Writers
VARIABLES protected,   \* the threads synchronize
          inside,      \* the threads in the critical section
          value        \* the shared variable
vars == <<protected, inside, value>>

Admits(t) == IF t \in Writers THEN inside = {} ELSE inside \cap Writers = {}

Init == protected \in BOOLEAN /\ inside = {} /\ value = 0

Enter(t) ==
    /\ t \notin inside
    /\ protected => Admits(t)
    /\ inside' = inside \cup {t}
    /\ UNCHANGED <<protected, value>>

Write(t) ==
    /\ t \in inside \cap Writers
    /\ value' \in Nat
    /\ protected => value' = value + 1
    /\ UNCHANGED <<protected, inside>>

Leave(t) ==
    /\ t \in inside
    /\ inside' = inside \ {t}
    /\ UNCHANGED <<protected, value>>

Next == \E t \in Readers \cup Writers : Enter(t) \/ Write(t) \/ Leave(t)
Spec == Init /\ [][Next]_vars
=============================================================================
