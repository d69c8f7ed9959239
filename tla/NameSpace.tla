----------------------------- MODULE NameSpace -----------------------------
(***************************************************************************)
(* What a directory promises: a name means a file, and a file is as it was *)
(* last changed, whatever is cached, written back, evicted or moved.  Once *)
(* I/O has failed and the code has gone on, it promises nothing.           *)
(***************************************************************************)
EXTENDS Naturals

CONSTANTS Names, Files, MaxVer, None
VARIABLES sound,     \* no I/O has failed
          means      \* the file and its version, or None, for each name
vars == <<sound, means>>

Version == [file : Files, ver : 0..MaxVer]
Fresh(f) == \A n \in Names : means[n] # None => means[n].file # f

Init ==
    /\ sound = TRUE
    /\ means \in [Names -> Version \cup {None}]
    /\ \A m, n \in Names : m # n /\ means[m] # None /\ means[n] # None
                             => means[m].file # means[n].file

Create(n) ==
    /\ sound /\ UNCHANGED sound
    /\ means[n] = None
    /\ \E f \in Files : Fresh(f) /\ means' = [means EXCEPT ![n] = [file |-> f, ver |-> 0]]

Remove(n) ==
    /\ sound /\ UNCHANGED sound
    /\ means[n] # None
    /\ means' = [means EXCEPT ![n] = None]

Rename(m, n) ==
    /\ sound /\ UNCHANGED sound
    /\ m # n /\ means[m] # None
    /\ means' = [means EXCEPT ![m] = None, ![n] = means[m]]

Change(n) ==
    /\ sound /\ UNCHANGED sound
    /\ means[n] # None
    /\ means' = [means EXCEPT ![n].ver = @ + 1]

Fail ==
    /\ ~sound'
    /\ means' \in [Names -> Version \cup {None}]

Next ==
    \/ \E n \in Names : Create(n) \/ Remove(n) \/ Change(n)
    \/ \E m, n \in Names : Rename(m, n)
    \/ Fail
Spec == Init /\ [][Next]_vars
=============================================================================
