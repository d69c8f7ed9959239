--------------------------- MODULE FatNameProofs ---------------------------
(***************************************************************************)
(* Theorems about FatDir and FatRecovery, for every volume, every set of   *)
(* names and every setup: an entry is for the inode that is found for it,  *)
(* a name has one answer, names that are remembered as missing are, FatDir *)
(* implements DirTree, and a readdir in several calls lists what stays     *)
(* where it is listed once.                                                *)
(***************************************************************************)
EXTENDS FatDirProofs

-----------------------------------------------------------------------------
(* The short entries of directories: where each is, its text, and the name  *)
(* that the long slot before it is part of.                                 *)
Tie(v, k) == IF k - 1 \in DOMAIN v /\ IsLong(v[k - 1]) THEN <<v[k - 1].name>> ELSE <<>>
Spot(t, dev, d, k) ==
    [dir |-> d, at |-> k, place |-> PlaceOf(t, d, k),
     text |-> ViewOf(t, dev, d)[k].text, tie |-> Tie(ViewOf(t, dev, d), k)]
SpotsIn(t, dev, d) == {Spot(t, dev, d, k) : k \in ShortEntries(ViewOf(t, dev, d))}
Spots(t, dev, ds) == UNION {SpotsIn(t, dev, d) : d \in ds}

Dotted(s) == s.text \in {Dot, DotDot}
IsAt(s, x) == s.dir = x.d /\ s.at = x.at
Called(s, n) == (~Form[n].tail /\ s.text = Form[n].alias[1]) \/ s.tie = <<n>>
ShortName(a) ==
    IF \E n \in Names : Form[n].longs = 0 /\ Form[n].alias[1] = a
    THEN CHOOSE n \in Names : Form[n].longs = 0 /\ Form[n].alias[1] = a ELSE None
NameAs(s) == IF s.tie # <<>> THEN s.tie[1] ELSE ShortName(s.text)
AliasOf(a, n) ==
    /\ \E j \in DOMAIN Form[n].alias : a = Form[n].alias[j]
    /\ ~Form[n].tail => a = Form[n].alias[1]
Sorted(S) ==
    /\ \A r, s \in S : \/ r.place = s.place
                       \/ r.dir = s.dir /\ (r.at = s.at \/ r.text = s.text \/ (r.tie = s.tie /\ r.tie # <<>>))
                       => r = s
    /\ \A s \in S : s.place # None
    /\ \A s \in S : s.tie # <<>> => \E n \in Names : s.tie = <<n>> /\ AliasOf(s.text, n)

(* The entry whose inode is elsewhere: one that was added, or the one that  *)
(* is moved away.                                                           *)
Loose(label, o, s) ==
    \/ label = "added" /\ s.dir = o.d /\ s.at = LastOf(o)
    \/ o.call = "rename" /\ label \in Moves \ {"move"} /\ IsAt(s, o.old)
    \/ o.call = "rename" /\ label = "rm" /\ IsAt(s, o.cut)
Gone(label, o) == label \in {"cleared", "removed"} \/ (label = "clear" /\ o.after = "removed")
Unlinks(o) == o.call \in {"unlink", "rmdir"}
Moved(label, o) == o.call = "rename" /\ (label \in Moves \ {"move"} \/ (label = "rm" /\ ~o.undoing))

(* Entries and inodes belong together, but for L and I.                     *)
Hosted(S, L, in, I) ==
    /\ \A s \in S : Dotted(s) \/ s \in L \/ \E i \in Inodes : in[i] # None /\ in[i].pos = s.place
    /\ \A i \in Inodes : in[i] # None /\ in[i].pos # None =>
          i \in I \/ \E s \in S : ~Dotted(s) /\ s \notin L /\ in[i].pos = s.place
    /\ \A i, j \in Inodes : in[i] # None /\ in[j] # None /\ in[i].pos = in[j].pos
                            /\ in[i].pos # None => i = j
    /\ \A i \in Inodes : in[i] # None /\ ~in[i].linked => in[i].pos = None
LooseOnes(label, o, S) == {s \in S : Loose(label, o, s)}
Posted(label, o, S, in) ==
    Hosted(S, LooseOnes(label, o, S), in, IF Gone(label, o) /\ Unlinks(o) THEN {o.i} ELSE {})

Renames(label, o, S, in) ==
    o.call = "rename" =>
        /\ label \in Adds \cup Moves \cup {"rm"} => o.over # o.i
        /\ label \in Adds \cup {"move"} => \E s \in S : IsAt(s, o.old) /\ in[o.i].pos = s.place
        /\ label = "move" => \E s \in S : IsAt(s, o.new) /\ in[o.over].pos = s.place
        /\ Moved(label, o) =>
              /\ \E s \in S : /\ IsAt(s, o.new) /\ in[o.i].pos = s.place
                              /\ o.over = None => s.dir = o.d /\ NameAs(s) = o.n
              /\ \E s \in S : IsAt(s, o.old) /\ ~Dotted(s)
        /\ Moved(label, o) /\ o.over # None => in[o.over].linked
        /\ Moved(label, o) \/ (Gone(label, o) /\ ~o.undoing) => (o.over # None => in[o.over].pos = None)
        /\ label = "rm" /\ ~o.undoing => o.cut = o.old
        /\ label = "removed" => ~o.undoing

(* What is waited for is not there yet, or is the one entry to go; and what *)
(* goes has nothing in it.                                                  *)
Doomed(o) == IF Unlinks(o) THEN o.i ELSE o.over
Dooms(label, o) == (Unlinks(o) /\ (label = "rm" \/ Gone(label, o)))
                     \/ (o.call = "rename" /\ o.over # None /\ (label = "move" \/ Moved(label, o) \/ (Gone(label, o) /\ ~o.undoing)))
Awaited(label, o, S, P, in) ==
    /\ label \in Adds \ {"added"} => \A s \in S : s.dir = o.d => ~Called(s, o.n)
    /\ label \in Fill \ {"undo"} =>
          LET a == o.slots[Len(o.slots)].text
          IN AliasOf(a, o.n) /\ \A s \in S : s.dir = o.d => s.text # a
    /\ label = "added" => \E s \in S : Loose(label, o, s) /\ NameAs(s) = o.n /\ ~Dotted(s)
    /\ label \in Adds => Sorted(P) /\ \A s \in P : Dotted(s)
    /\ Unlinks(o) /\ label = "rm" =>
          /\ o.cut.d = o.d
          /\ \A s \in S : s.dir = o.d /\ Called(s, o.n) => IsAt(s, o.cut)
          /\ \E s \in S : IsAt(s, o.cut) /\ in[o.i].pos = s.place
    /\ Unlinks(o) /\ Gone(label, o) =>
          \A s \in S : (s.dir = o.d => ~Called(s, o.n)) /\ in[o.i].pos # s.place
    /\ Dooms(label, o) =>
          (in[Doomed(o)].dir => \A s \in S : s.dir = in[Doomed(o)].start => Dotted(s))

Truthful(S, in, ng) ==
    \A e \in ng : /\ e = <<e[1], e[2]>> /\ e[1] \in {Root} \cup StartsOf(in) /\ e[2] \in Names
                  /\ \A s \in S : s.dir = e[1] => ~Called(s, e[2])
Denied(label, o, S, in, ng) ==
    Truthful(IF label = "added" THEN S \ LooseOnes(label, o, S) ELSE S, in, ng)

(* What is listed, and what that has to do with what was when the operation *)
(* was asked for.                                                           *)
HolderOf(in, p) ==
    LET held == {i \in Inodes : in[i] # None /\ in[i].pos = p}
    IN IF held = {} THEN None ELSE CHOOSE i \in held : TRUE
EntryAs(s, i) == [dir |-> s.dir, name |-> NameAs(s), obj |-> i]
Entries(S, in) == {EntryAs(s, HolderOf(in, s.place)) : s \in {r \in S : ~Dotted(r)}}
Former(o, S, in) ==
    {EntryAs(s, IF IsAt(s, o.old) THEN o.i ELSE IF IsAt(s, o.new) THEN o.over ELSE HolderOf(in, s.place)) :
        s \in {r \in S : ~Dotted(r) /\ ~(o.over = None /\ IsAt(r, o.new))}}
OfThem(ls, objects) == {e \in ls : e.obj \in objects}
Meant(o, ls, then) ==
    \/ /\ o.call \in {"create", "mkdir"}
       /\ {e \in ls : e.dir = o.d /\ e.name = o.n} = {}
       /\ \E i \in Inodes : /\ OfThem(ls, {i}) = {}
                            /\ then = ls \cup {[dir |-> o.d, name |-> o.n, obj |-> i]}
    \/ o.call \in {"unlink", "rmdir"} /\ then = ls \ OfThem(ls, {o.i})
    \/ /\ o.call = "rename" /\ o.over = None
       /\ {e \in ls : e.dir = o.d /\ e.name = o.n} = {}
       /\ then = (ls \ OfThem(ls, {o.i})) \cup {[dir |-> o.d, name |-> o.n, obj |-> o.i]}
    \/ /\ o.call = "rename" /\ o.over # None
       /\ then = (ls \ OfThem(ls, {o.i, o.over}))
                     \cup {[dir |-> e.dir, name |-> e.name, obj |-> o.i] : e \in OfThem(ls, {o.over})}
Recorded(label, o, S, in, ls) ==
    IF label = "ok" \/ (Gone(label, o) /\ ~o.undoing) THEN Meant(o, ls, Entries(S, in))
    ELSE IF Moved(label, o) THEN ls = Former(o, S, in)
    ELSE ls = Entries(S \ LooseOnes(label, o, S), in)

Known(label, o, S, P, in, ng, ls) ==
    /\ Sorted(S) /\ Posted(label, o, S, in) /\ Renames(label, o, S, in)
    /\ Awaited(label, o, S, P, in) /\ Denied(label, o, S, in, ng)
    /\ Recorded(label, o, S, in, ls)
KnownOn(label, o, t, dev, in, ng, ls) ==
    Known(label, o, Spots(t, dev, DirsOf(in)), Spots(t, dev, PendingOf(label, o)), in, ng, ls)
Told(o, t, b, k, in, ng, ls) ==
    /\ KnownOn(LabelOf(o), o, t, b, in, ng, ls)
    /\ o.pc = "sync" =>
        \A bs \in (SUBSET o.sync) \ {o.sync} :
            o.undoing \/ o.after # None \/ KnownOn(o.bad, o, t, From(b, k, bs), in, ng, ls)
NamesInv == mounted /\ ~broken => Told(op, fat, buf, disk, ino, neg, listed)

-----------------------------------------------------------------------------
(* The moments of an operation, each without its label.  Nothing is changed *)
(* yet, or any more.                                                        *)
Base(S, in, ng, ls) ==
    Sorted(S) /\ Hosted(S, {}, in, {}) /\ Truthful(S, in, ng) /\ ls = Entries(S, in)
Quiet(label, o) ==
    \/ label \in {"idle", "error", "refused", "undo"}
    \/ label = "clear" /\ o.after = "refused"
    \/ label = "cleared" /\ o.undoing /\ o.call = "rename"
    \/ label = "kept" /\ o.call # "rename"

LEMMA BaseIs ==
    ASSUME NEW label, NEW o, Quiet(label, o), NEW S, NEW P, NEW in, NEW ng, NEW ls
    PROVE  Known(label, o, S, P, in, ng, ls) <=> Base(S, in, ng, ls)
<1>1. /\ label # "added" /\ label # "rm" /\ label # "move" /\ label # "removed" /\ label \notin Adds
      /\ label \notin Fill \ {"undo"}
      /\ (label \in Moves => o.call # "rename") /\ ~Moved(label, o) /\ label # "ok"
      /\ ~(Gone(label, o) /\ ~o.undoing) /\ ~(Gone(label, o) /\ Unlinks(o))
      /\ ~Dooms(label, o)
  BY DEF Quiet, Adds, Fill, Moves, Moved, Gone, Unlinks, Dooms
<1>2. LooseOnes(label, o, S) = {} /\ S \ {} = S
  BY <1>1 DEF Loose, LooseOnes
<1>3. Recorded(label, o, S, in, ls) <=> ls = Entries(S, in)
  BY <1>1, <1>2 DEF Recorded
<1>4. Denied(label, o, S, in, ng) <=> Truthful(S, in, ng)
  BY <1>1 DEF Denied
<1>5. Awaited(label, o, S, P, in)
  BY <1>1 DEF Awaited
<1>6. Renames(label, o, S, in)
  <2>1. o.call = "rename" => label \notin Adds \cup Moves \cup {"rm"} /\ label \notin Adds \cup {"move"}
    BY <1>1
  <2> QED BY <1>1, <2>1 DEF Renames
<1>7. Posted(label, o, S, in) <=> Hosted(S, {}, in, {})
  BY <1>1, <1>2 DEF Posted
<1> QED BY <1>3, <1>4, <1>5, <1>6, <1>7 DEF Known, Base

(* A new entry is on its way.                                               *)
Fresh(o, S) ==
    LET a == o.slots[Len(o.slots)].text
    IN AliasOf(a, o.n) /\ \A s \in S : s.dir = o.d => s.text # a
Ready(o, S, P, in) ==
    /\ \A s \in S : s.dir = o.d => ~Called(s, o.n)
    /\ Sorted(P) /\ \A s \in P : Dotted(s)
    /\ o.call = "rename" => o.over # o.i /\ \E s \in S : IsAt(s, o.old) /\ in[o.i].pos = s.place

LEMMA AddsIs ==
    ASSUME NEW label \in Adds \ {"added"}, NEW o, NEW S, NEW P, NEW in, NEW ng, NEW ls
    PROVE  Known(label, o, S, P, in, ng, ls) <=>
              /\ Base(S, in, ng, ls) /\ Ready(o, S, P, in)
              /\ label # "build" => Fresh(o, S)
<1>1. /\ label # "added" /\ label # "rm" /\ label \notin Moves /\ label # "ok" /\ label # "move" /\ label # "removed"
      /\ ~Moved(label, o) /\ ~Gone(label, o) /\ label \in Adds \cup {"move"}
      /\ (label \in Fill \ {"undo"} <=> label # "build") /\ ~Dooms(label, o)
      /\ label \in Adds \cup Moves \cup {"rm"}
  BY DEF Adds, Fill, Moves, Moved, Gone, Dooms
<1>2. LooseOnes(label, o, S) = {} /\ S \ {} = S
  BY <1>1 DEF Loose, LooseOnes
<1>3. Recorded(label, o, S, in, ls) <=> ls = Entries(S, in)
  BY <1>1, <1>2 DEF Recorded
<1>4. Denied(label, o, S, in, ng) <=> Truthful(S, in, ng)
  BY <1>1 DEF Denied
<1>5. Awaited(label, o, S, P, in) <=>
         /\ \A s \in S : s.dir = o.d => ~Called(s, o.n)
         /\ Sorted(P) /\ \A s \in P : Dotted(s)
         /\ label # "build" => Fresh(o, S)
  BY <1>1 DEF Awaited, Fresh
<1>6. Renames(label, o, S, in) <=>
         (o.call = "rename" => o.over # o.i /\ \E s \in S : IsAt(s, o.old) /\ in[o.i].pos = s.place)
  BY <1>1 DEF Renames
<1>7. Posted(label, o, S, in) <=> Hosted(S, {}, in, {})
  BY <1>1, <1>2 DEF Posted
<1> HIDE DEF Posted, Denied, Recorded, Sorted, Fresh, Renames, Awaited
<1> QED BY <1>3, <1>4, <1>5, <1>6, <1>7 DEF Known, Base, Ready

(* It is there, and its inode is not yet.                                   *)
AddedBase(o, S, P, s, in, ng, ls) ==
    /\ Sorted(S) /\ s \in S /\ Base(S \ {s}, in, ng, ls) /\ Ready(o, S \ {s}, P, in)
    /\ s.dir = o.d /\ s.at = LastOf(o) /\ NameAs(s) = o.n /\ ~Dotted(s)

LEMMA SortedFewer == ASSUME NEW S, Sorted(S), NEW T \in SUBSET S  PROVE Sorted(T)
  BY DEF Sorted
LEMMA OneSpot ==
    ASSUME NEW S, Sorted(S), NEW r \in S, NEW s \in S, NEW x, IsAt(r, x), IsAt(s, x)  PROVE r = s
  BY DEF Sorted, IsAt

(* Entries of a directory have different names.                             *)
LEMMA CalledOnce ==
    ASSUME NEW S, Sorted(S), NEW n \in Names, NEW r \in S, NEW s \in S, r.dir = s.dir,
           Called(r, n), Called(s, n)
    PROVE  r = s
<1>1. \A m \in Names : <<m>>[1] = m /\ <<m>> # <<>>
  OBVIOUS
<1>2. \A x \in S : x.tie = <<n>> /\ ~Form[n].tail => x.text = Form[n].alias[1]
  <2> SUFFICES ASSUME NEW x \in S, x.tie = <<n>>, ~Form[n].tail  PROVE x.text = Form[n].alias[1]
    OBVIOUS
  <2>1. PICK m \in Names : x.tie = <<m>> /\ AliasOf(x.text, m)
    BY <1>1 DEF Sorted
  <2>2. m = n
    BY <1>1, <2>1
  <2> QED BY <2>1, <2>2 DEF AliasOf
<1>3. r.text = s.text \/ (r.tie = s.tie /\ r.tie # <<>>)
  BY <1>1, <1>2 DEF Called
<1> QED BY <1>3 DEF Sorted

LEMMA AliasNoDots == ASSUME NEW n \in Names, NEW a, AliasOf(a, n)  PROVE a \notin {Dot, DotDot}
<1>1. PICK j \in DOMAIN Form[n].alias : a = Form[n].alias[j]
  BY DEF AliasOf
<1>2. Form[n].alias \in Seq(ShortTexts)
  BY FormAssumption
<1>3. a \in ShortTexts
  BY <1>1, <1>2
<1> QED BY <1>3 DEF ShortTexts

LEMMA NamedCalled ==
    ASSUME NEW S, Sorted(S), NEW s \in S, NEW n \in Names, NameAs(s) = n
    PROVE  Called(s, n)
<1>1. CASE s.tie # <<>>
  <2>1. PICK m \in Names : s.tie = <<m>>
    BY <1>1 DEF Sorted
  <2>2. <<m>>[1] = m
    OBVIOUS
  <2> QED BY <1>1, <2>1, <2>2 DEF NameAs, Called
<1>2. CASE s.tie = <<>>
  <2>1. ShortName(s.text) = n /\ n # None
    BY <1>2, RootAssumption DEF NameAs
  <2>2. \E m \in Names : Form[m].longs = 0 /\ Form[m].alias[1] = s.text
    BY <2>1 DEF ShortName
  <2>3. Form[n].longs = 0 /\ Form[n].alias[1] = s.text
    BY <2>1, <2>2 DEF ShortName
  <2> QED BY <2>3, FormAssumption DEF Called
<1> QED BY <1>1, <1>2

LEMMA CalledNoDots ==
    ASSUME NEW S, Sorted(S), NEW s \in S, NEW n \in Names, Called(s, n)  PROVE ~Dotted(s)
<1>1. CASE ~Form[n].tail /\ s.text = Form[n].alias[1]
  <2>1. 1 \in DOMAIN Form[n].alias
    BY FormAssumption
  <2> QED BY <1>1, <2>1, AliasNoDots DEF AliasOf, Dotted
<1>2. CASE s.tie = <<n>>
  <2>1. PICK m \in Names : s.tie = <<m>> /\ AliasOf(s.text, m)
    BY <1>2 DEF Sorted
  <2> QED BY <2>1, AliasNoDots DEF Dotted
<1> QED BY <1>1, <1>2 DEF Called

(* An inode has one entry.                                                  *)
LEMMA HostIs ==
    ASSUME NEW S, Sorted(S), NEW L, NEW in, NEW I, Hosted(S, L, in, I),
           NEW i \in Inodes, in[i] # None, i \notin I, NEW r \in S, in[i].pos = r.place
    PROVE  ~Dotted(r) /\ r \notin L
<1>1. in[i].pos # None
  BY DEF Sorted
<1>2. PICK s \in S : ~Dotted(s) /\ s \notin L /\ in[i].pos = s.place
  BY <1>1 DEF Hosted
<1>3. r = s
  BY <1>2 DEF Sorted
<1> QED BY <1>2, <1>3

LEMMA AddedKnows ==
    ASSUME NEW o, NEW S, NEW P, NEW in, NEW ng, NEW ls, Known("added", o, S, P, in, ng, ls),
           o.n \in Names, o.call = "rename" => o.i \in Inodes /\ in[o.i] # None
    PROVE  \E s : AddedBase(o, S, P, s, in, ng, ls)
<1> DEFINE L == LooseOnes("added", o, S)
<1>1. /\ "added" \in Adds /\ "added" \notin Moves /\ ~Gone("added", o) /\ ~Moved("added", o)
      /\ ~Dooms("added", o)
  BY DEF Adds, Moves, Gone, Moved, Dooms
<1>2. \A r : Loose("added", o, r) <=> r.dir = o.d /\ r.at = LastOf(o)
  BY <1>1 DEF Loose
<1>3. PICK s \in S : Loose("added", o, s) /\ NameAs(s) = o.n /\ ~Dotted(s)
  BY DEF Known, Awaited
<1>4. Sorted(S)
  BY DEF Known
<1>5. L = {s}
  <2>1. \A r \in S : Loose("added", o, r) => r = s
    BY <1>2, <1>3, <1>4 DEF Sorted
  <2> QED BY <1>3, <2>1 DEF LooseOnes
<1> HIDE DEF L
<1>6. Hosted(S, {s}, in, {})
  BY <1>1, <1>5 DEF Known, Posted, L
<1>7. Hosted(S \ {s}, {}, in, {})
  BY <1>6 DEF Hosted
<1>8. Truthful(S \ {s}, in, ng)
  BY <1>5 DEF Known, Denied, L
<1>9. ls = Entries(S \ {s}, in)
  BY <1>1, <1>5 DEF Known, Recorded, L
<1>10. Base(S \ {s}, in, ng, ls)
  BY <1>4, <1>7, <1>8, <1>9, SortedFewer DEF Base
<1>11. \A r \in S \ {s} : r.dir = o.d => ~Called(r, o.n)
  <2>1. Called(s, o.n) /\ s.dir = o.d
    BY <1>2, <1>3, <1>4, NamedCalled
  <2> QED BY <1>4, <2>1, CalledOnce
<1>12. Sorted(P) /\ \A r \in P : Dotted(r)
  BY <1>1 DEF Known, Awaited
<1>13. ASSUME o.call = "rename"
       PROVE  o.over # o.i /\ \E r \in S \ {s} : IsAt(r, o.old) /\ in[o.i].pos = r.place
  <2>1. o.over # o.i /\ \E r \in S : IsAt(r, o.old) /\ in[o.i].pos = r.place
    BY <1>1, <1>13 DEF Known, Renames
  <2>2. PICK r \in S : IsAt(r, o.old) /\ in[o.i].pos = r.place
    BY <2>1
  <2>3. r # s
    BY <1>4, <1>6, <1>13, <2>2, HostIs
  <2> QED BY <2>1, <2>2, <2>3
<1>14. Ready(o, S \ {s}, P, in)
  BY <1>11, <1>12, <1>13 DEF Ready
<1> QED BY <1>2, <1>3, <1>4, <1>10, <1>14 DEF AddedBase

LEMMA AddedKnown ==
    ASSUME NEW o, o.call \in {"create", "mkdir", "rename"},
           NEW S, NEW P, NEW s, NEW in, NEW ng, NEW ls, AddedBase(o, S, P, s, in, ng, ls)
    PROVE  Known("added", o, S, P, in, ng, ls)
<1>1. /\ "added" \in Adds /\ "added" \notin Moves /\ ~Gone("added", o) /\ ~Moved("added", o)
      /\ ~Dooms("added", o) /\ "added" \notin Fill /\ ~Unlinks(o)
  BY DEF Adds, Moves, Gone, Moved, Dooms, Fill, Unlinks
<1>2. \A r : Loose("added", o, r) <=> r.dir = o.d /\ r.at = LastOf(o)
  BY <1>1 DEF Loose
<1>3. s \in S /\ Sorted(S) /\ Loose("added", o, s) /\ NameAs(s) = o.n /\ ~Dotted(s)
  BY <1>2 DEF AddedBase
<1>4. \A r \in S : Loose("added", o, r) => r = s
  BY <1>2, <1>3 DEF Sorted
<1>5. LooseOnes("added", o, S) = {s}
  BY <1>3, <1>4 DEF LooseOnes
<1>6. Hosted(S, {s}, in, {})
  BY <1>3 DEF AddedBase, Base, Hosted
<1>7. Posted("added", o, S, in) /\ Denied("added", o, S, in, ng) /\ Recorded("added", o, S, in, ls)
  BY <1>1, <1>5, <1>6 DEF Posted, Denied, Recorded, AddedBase, Base
<1>8. Renames("added", o, S, in)
  BY <1>1 DEF Renames, AddedBase, Ready
<1>9. Awaited("added", o, S, P, in)
  BY <1>1, <1>3 DEF Awaited, AddedBase, Ready
<1> QED BY <1>3, <1>7, <1>8, <1>9 DEF Known

(* The short slot is written.                                               *)
IsNew(s, o, S) ==
    /\ s.dir = o.d /\ s.at = LastOf(o) /\ s.text = o.slots[Len(o.slots)].text
    /\ s.tie = (IF Form[o.n].longs = 0 THEN <<>> ELSE <<o.n>>)
    /\ s.place # None /\ \A r \in S : r.place # s.place /\ (r.dir = s.dir => r.at # s.at)

LEMMA NewNamed ==
    ASSUME NEW o, o.n \in Names, NEW S, Fresh(o, S), NEW s, IsNew(s, o, S)
    PROVE  NameAs(s) = o.n /\ ~Dotted(s) /\ AliasOf(s.text, o.n)
<1>1. AliasOf(s.text, o.n) /\ s.text \notin {Dot, DotDot}
  BY AliasNoDots DEF Fresh, IsNew
<1>2. CASE Form[o.n].longs # 0
  <2>1. s.tie = <<o.n>> /\ s.tie # <<>> /\ s.tie[1] = o.n
    BY <1>2 DEF IsNew
  <2> QED BY <1>1, <2>1 DEF NameAs, Dotted
<1>3. CASE Form[o.n].longs = 0
  <2>1. s.tie = <<>>
    BY <1>3 DEF IsNew
  <2>2. ~Form[o.n].tail /\ s.text = Form[o.n].alias[1]
    BY <1>1, <1>3, FormAssumption DEF AliasOf
  <2>3. \A m \in Names : Form[m].longs = 0 /\ Form[m].alias[1] = s.text => m = o.n
    BY <1>3, <2>2, FormAssumption
  <2>4. ShortName(s.text) = o.n
    BY <1>3, <2>2, <2>3 DEF ShortName
  <2> QED BY <1>1, <2>1, <2>4 DEF NameAs, Dotted
<1> QED BY <1>2, <1>3

LEMMA NewKnown ==
    ASSUME NEW label \in {"short", "link"}, NEW o, o.n \in Names, o.call \in {"create", "mkdir", "rename"},
           NEW S, NEW P, NEW in, NEW ng, NEW ls, Known(label, o, S, P, in, ng, ls),
           NEW s, IsNew(s, o, S)
    PROVE  Known("added", o, S \cup {s}, P, in, ng, ls)
<1> DEFINE T == S \cup {s}
<1>1. Base(S, in, ng, ls) /\ Ready(o, S, P, in) /\ Fresh(o, S)
  BY AddsIs DEF Adds
<1>2. NameAs(s) = o.n /\ ~Dotted(s) /\ AliasOf(s.text, o.n)
  BY <1>1, NewNamed
<1>3. s \notin S
  BY DEF IsNew
<1>4. T \ {s} = S
  BY <1>3
<1>5. Sorted(T)
  <2>1. ASSUME NEW r \in S, r.dir = s.dir, r.text = s.text \/ (r.tie = s.tie /\ r.tie # <<>>)
        PROVE  FALSE
    <3>1. r.text # s.text
      BY <1>1, <2>1 DEF Fresh, IsNew
    <3>2. r.tie = <<o.n>>
      BY <2>1, <3>1 DEF IsNew
    <3> QED BY <1>1, <2>1, <3>2 DEF Ready, Called, IsNew
  <2>2. s.tie # <<>> => \E n \in Names : s.tie = <<n>> /\ AliasOf(s.text, n)
    BY <1>2 DEF IsNew
  <2>3. Sorted(S)
    BY <1>1 DEF Base
  <2>4. \A r \in S : ~(r.place = s.place) /\ ~(r.dir = s.dir /\ r.at = s.at)
    BY DEF IsNew
  <2>5. s.place # None
    BY DEF IsNew
  <2> QED BY <2>1, <2>2, <2>3, <2>4, <2>5 DEF Sorted
<1> HIDE DEF T
<1>6. AddedBase(o, T, P, s, in, ng, ls)
  BY <1>1, <1>2, <1>4, <1>5 DEF AddedBase, IsNew, T
<1> QED BY <1>6, AddedKnown DEF T

-----------------------------------------------------------------------------
(* A rename between its inodes' move and the removal of the old entry.      *)
MovedBase(o, S, old, new, in, ng, ls) ==
    /\ Sorted(S) /\ Hosted(S, {old}, in, {}) /\ Truthful(S, in, ng) /\ ls = Former(o, S, in)
    /\ old \in S /\ IsAt(old, o.old) /\ ~Dotted(old)
    /\ new \in S /\ IsAt(new, o.new) /\ in[o.i].pos = new.place /\ o.over # o.i
    /\ IF o.over = None THEN new.dir = o.d /\ NameAs(new) = o.n
       ELSE /\ in[o.over].linked /\ in[o.over].pos = None
            /\ in[o.over].dir => \A s \in S : s.dir = in[o.over].start => Dotted(s)

LEMMA MovedKnows ==
    ASSUME NEW label, NEW o, o.call = "rename", Moved(label, o),
           NEW S, NEW P, NEW in, NEW ng, NEW ls, Known(label, o, S, P, in, ng, ls)
    PROVE  \E old, new : MovedBase(o, S, old, new, in, ng, ls)
<1>1. /\ label \in Moves \ {"move"} \/ (label = "rm" /\ ~o.undoing)
      /\ label \in Adds \cup Moves \cup {"rm"} /\ label # "ok" /\ label # "added" /\ ~Gone(label, o)
      /\ Dooms(label, o) <=> o.over # None
      /\ label = "rm" => ~o.undoing
  BY DEF Adds, Moves, Gone, Moved, Dooms, Unlinks
<1>2. o.over # o.i /\ (label = "rm" => o.cut = o.old)
  BY <1>1 DEF Known, Renames
<1>3. \A r : Loose(label, o, r) <=> IsAt(r, o.old)
  BY <1>1, <1>2 DEF Loose, Moves
<1>4. PICK old \in S : IsAt(old, o.old) /\ ~Dotted(old)
  BY DEF Known, Renames
<1>5. PICK new \in S : /\ IsAt(new, o.new) /\ in[o.i].pos = new.place
                       /\ o.over = None => new.dir = o.d /\ NameAs(new) = o.n
  BY DEF Known, Renames
<1>6. Sorted(S)
  BY DEF Known
<1>7. LooseOnes(label, o, S) = {old}
  BY <1>3, <1>4, <1>6, OneSpot DEF LooseOnes
<1>8. Hosted(S, {old}, in, {})
  BY <1>1, <1>7 DEF Known, Posted
<1>9. Truthful(S, in, ng) /\ ls = Former(o, S, in)
  BY <1>1 DEF Known, Denied, Recorded
<1>10. o.over # None => in[o.over].linked /\ in[o.over].pos = None
  BY DEF Known, Renames
<1>11. o.over # None => (in[o.over].dir => \A s \in S : s.dir = in[o.over].start => Dotted(s))
  BY <1>1 DEF Known, Awaited, Doomed, Unlinks
<1> QED BY <1>2, <1>4, <1>5, <1>6, <1>8, <1>9, <1>10, <1>11 DEF MovedBase

LEMMA MovedKnown ==
    ASSUME NEW label, NEW o, o.call = "rename", Moved(label, o), label = "rm" => o.cut = o.old,
           NEW S, NEW P, NEW old, NEW new, NEW in, NEW ng, NEW ls, MovedBase(o, S, old, new, in, ng, ls)
    PROVE  Known(label, o, S, P, in, ng, ls)
<1>1. /\ label \in Moves \ {"move"} \/ (label = "rm" /\ ~o.undoing)
      /\ label \notin Adds /\ label # "ok" /\ label # "added" /\ label # "move" /\ label # "removed" /\ ~Gone(label, o)
      /\ label \notin Fill \ {"undo"}
      /\ Dooms(label, o) <=> o.over # None
      /\ ~Unlinks(o) /\ (label = "rm" => ~o.undoing)
  BY DEF Adds, Moves, Gone, Moved, Dooms, Unlinks, Fill
<1>2. \A r : Loose(label, o, r) <=> IsAt(r, o.old)
  BY <1>1 DEF Loose, Moves
<1>3. Sorted(S) /\ old \in S /\ IsAt(old, o.old) /\ ~Dotted(old)
  BY DEF MovedBase
<1>4. LooseOnes(label, o, S) = {old}
  BY <1>2, <1>3, OneSpot DEF LooseOnes
<1>5. Posted(label, o, S, in) /\ Denied(label, o, S, in, ng) /\ Recorded(label, o, S, in, ls)
  BY <1>1, <1>4 DEF Posted, Denied, Recorded, MovedBase
<1>6. Renames(label, o, S, in)
  BY <1>1, <1>3 DEF Renames, MovedBase
<1>7. Awaited(label, o, S, P, in)
  BY <1>1 DEF Awaited, MovedBase, Doomed
<1> QED BY <1>3, <1>5, <1>6, <1>7 DEF Known

(* The entry that was to go is gone.                                        *)
Takes(o) == Unlinks(o) \/ (o.call = "rename" /\ o.over # None)
GoneBase(o, S, in, ng, ls) ==
    /\ Sorted(S) /\ Hosted(S, {}, in, IF Unlinks(o) THEN {o.i} ELSE {}) /\ Truthful(S, in, ng)
    /\ Meant(o, ls, Entries(S, in))
    /\ o.call = "rename" /\ o.over # None => in[o.over].pos = None
    /\ Unlinks(o) => \A s \in S : (s.dir = o.d => ~Called(s, o.n)) /\ in[o.i].pos # s.place
    /\ Takes(o) => (in[Doomed(o)].dir => \A s \in S : s.dir = in[Doomed(o)].start => Dotted(s))

LEMMA GoneIs ==
    ASSUME NEW label, NEW o, Gone(label, o), ~o.undoing,
           NEW S, NEW P, NEW in, NEW ng, NEW ls
    PROVE  Known(label, o, S, P, in, ng, ls) <=> GoneBase(o, S, in, ng, ls)
<1>1. /\ label \notin Adds \cup Moves \cup {"rm", "ok"} /\ label # "added" /\ label # "move" /\ ~Moved(label, o)
      /\ label \notin Fill \ {"undo"} /\ label \notin Adds \cup {"move"}
      /\ Dooms(label, o) <=> Takes(o)
  BY DEF Adds, Moves, Gone, Moved, Dooms, Takes, Fill
<1>2. LooseOnes(label, o, S) = {}
  BY <1>1 DEF Loose, LooseOnes
<1>3. Posted(label, o, S, in) <=> Hosted(S, {}, in, IF Unlinks(o) THEN {o.i} ELSE {})
  BY <1>2 DEF Posted
<1>4. (Denied(label, o, S, in, ng) <=> Truthful(S, in, ng))
      /\ (Recorded(label, o, S, in, ls) <=> Meant(o, ls, Entries(S, in)))
  BY <1>1 DEF Denied, Recorded
<1>5. Renames(label, o, S, in) <=> (o.call = "rename" /\ o.over # None => in[o.over].pos = None)
  BY <1>1 DEF Renames
<1>6. Awaited(label, o, S, P, in) <=>
        /\ Unlinks(o) => \A s \in S : (s.dir = o.d => ~Called(s, o.n)) /\ in[o.i].pos # s.place
        /\ Takes(o) => (in[Doomed(o)].dir => \A s \in S : s.dir = in[Doomed(o)].start => Dotted(s))
  BY <1>1 DEF Awaited
<1> QED BY <1>3, <1>4, <1>5, <1>6 DEF Known, GoneBase

(* All is done.                                                             *)
OkBase(o, S, in, ng, ls) ==
    Sorted(S) /\ Hosted(S, {}, in, {}) /\ Truthful(S, in, ng) /\ Meant(o, ls, Entries(S, in))
LEMMA OkIs ==
    ASSUME NEW o, NEW S, NEW P, NEW in, NEW ng, NEW ls
    PROVE  Known("ok", o, S, P, in, ng, ls) <=> OkBase(o, S, in, ng, ls)
<1>1. /\ "ok" \notin Adds \cup Moves \cup {"rm"} /\ ~Moved("ok", o) /\ ~Gone("ok", o) /\ ~Dooms("ok", o)
      /\ "ok" \notin Fill \ {"undo"} /\ "ok" \notin Adds \cup {"move"}
  BY DEF Adds, Moves, Gone, Moved, Dooms, Fill
<1>2. LooseOnes("ok", o, S) = {}
  BY <1>1 DEF Loose, LooseOnes
<1>3. Posted("ok", o, S, in) <=> Hosted(S, {}, in, {})
  BY <1>1, <1>2 DEF Posted
<1>4. /\ Denied("ok", o, S, in, ng) <=> Truthful(S, in, ng)
      /\ Recorded("ok", o, S, in, ls) <=> Meant(o, ls, Entries(S, in))
      /\ Renames("ok", o, S, in) /\ Awaited("ok", o, S, P, in)
  BY <1>1 DEF Denied, Recorded, Renames, Awaited
<1> QED BY <1>3, <1>4 DEF Known, OkBase

(* A name that unlink and rmdir remove.                                     *)
CutBase(o, S, cut, in, ng, ls) ==
    /\ Base(S, in, ng, ls) /\ cut \in S /\ IsAt(cut, o.cut) /\ cut.dir = o.d /\ in[o.i].pos = cut.place
    /\ \A s \in S : s.dir = o.d /\ Called(s, o.n) => s = cut
    /\ in[o.i].dir => \A s \in S : s.dir = in[o.i].start => Dotted(s)
LEMMA CutIs ==
    ASSUME NEW o, Unlinks(o), NEW S, NEW P, NEW in, NEW ng, NEW ls
    PROVE  Known("rm", o, S, P, in, ng, ls) <=> \E cut : CutBase(o, S, cut, in, ng, ls)
<1>1. /\ "rm" \notin Adds \cup Moves /\ ~Moved("rm", o) /\ ~Gone("rm", o) /\ Dooms("rm", o)
      /\ "rm" \notin Fill \ {"undo"} /\ "rm" \notin Adds \cup {"move"} /\ o.call # "rename"
      /\ Doomed(o) = o.i
  BY DEF Adds, Moves, Gone, Moved, Dooms, Fill, Unlinks, Doomed
<1>2. LooseOnes("rm", o, S) = {} /\ S \ {} = S
  BY <1>1 DEF Loose, LooseOnes
<1>3. Posted("rm", o, S, in) <=> Hosted(S, {}, in, {})
  BY <1>1, <1>2 DEF Posted
<1>4. /\ Denied("rm", o, S, in, ng) <=> Truthful(S, in, ng)
      /\ Recorded("rm", o, S, in, ls) <=> ls = Entries(S, in)
      /\ Renames("rm", o, S, in)
  BY <1>1, <1>2 DEF Denied, Recorded, Renames
<1>5. Known("rm", o, S, P, in, ng, ls) <=> Base(S, in, ng, ls) /\ Awaited("rm", o, S, P, in)
  BY <1>3, <1>4 DEF Known, Base
<1>6. ASSUME Sorted(S)
      PROVE  Awaited("rm", o, S, P, in) <=>
               /\ \E cut \in S : /\ IsAt(cut, o.cut) /\ cut.dir = o.d /\ in[o.i].pos = cut.place
                                 /\ \A s \in S : s.dir = o.d /\ Called(s, o.n) => s = cut
               /\ in[o.i].dir => \A s \in S : s.dir = in[o.i].start => Dotted(s)
  <2>1. Awaited("rm", o, S, P, in) <=>
          /\ o.cut.d = o.d
          /\ \A s \in S : s.dir = o.d /\ Called(s, o.n) => IsAt(s, o.cut)
          /\ \E s \in S : IsAt(s, o.cut) /\ in[o.i].pos = s.place
          /\ in[o.i].dir => \A s \in S : s.dir = in[o.i].start => Dotted(s)
    BY <1>1 DEF Awaited
  <2>2. \A s \in S : IsAt(s, o.cut) => s.dir = o.cut.d
    BY DEF IsAt
  <2> QED BY <1>6, <2>1, <2>2, OneSpot
<1> QED BY <1>5, <1>6 DEF CutBase, Base

(* The new entry of a rename is taken back.                                 *)
BackBase(o, S, cut, in, ng, ls) ==
    /\ Sorted(S) /\ cut \in S /\ IsAt(cut, o.cut) /\ Hosted(S, {cut}, in, {}) /\ Truthful(S, in, ng)
    /\ ls = Entries(S \ {cut}, in) /\ o.over # o.i
LEMMA BackIs ==
    ASSUME NEW o, o.call = "rename", o.undoing, NEW S, NEW cut \in S, IsAt(cut, o.cut),
           NEW P, NEW in, NEW ng, NEW ls
    PROVE  Known("rm", o, S, P, in, ng, ls) <=> BackBase(o, S, cut, in, ng, ls)
<1>1. /\ "rm" \notin Adds \cup Moves /\ ~Moved("rm", o) /\ ~Gone("rm", o) /\ ~Dooms("rm", o)
      /\ "rm" \notin Fill \ {"undo"} /\ "rm" \notin Adds \cup {"move"} /\ ~Unlinks(o)
  BY DEF Adds, Moves, Gone, Moved, Dooms, Fill, Unlinks
<1>2. \A r : Loose("rm", o, r) <=> IsAt(r, o.cut)
  BY <1>1 DEF Loose
<1>3. Sorted(S) => LooseOnes("rm", o, S) = {cut}
  BY <1>2, OneSpot DEF LooseOnes
<1>4. Sorted(S) => (Posted("rm", o, S, in) <=> Hosted(S, {cut}, in, {}))
  BY <1>1, <1>3 DEF Posted
<1>5. Sorted(S) =>
        /\ Denied("rm", o, S, in, ng) <=> Truthful(S, in, ng)
        /\ Recorded("rm", o, S, in, ls) <=> ls = Entries(S \ {cut}, in)
  BY <1>1, <1>3 DEF Denied, Recorded
<1>6. (Renames("rm", o, S, in) <=> o.over # o.i) /\ Awaited("rm", o, S, P, in)
  BY <1>1 DEF Renames, Awaited
<1> QED BY <1>4, <1>5, <1>6 DEF Known, BackBase

(* A rename that replaces an entry is about to begin.                       *)
MoveBase(o, S, old, new, in, ng, ls) ==
    /\ Base(S, in, ng, ls) /\ o.over # o.i
    /\ old \in S /\ IsAt(old, o.old) /\ in[o.i].pos = old.place
    /\ new \in S /\ IsAt(new, o.new) /\ in[o.over].pos = new.place
    /\ in[o.over].dir => \A s \in S : s.dir = in[o.over].start => Dotted(s)
LEMMA MoveIs ==
    ASSUME NEW o, o.call = "rename", o.over # None, NEW S, NEW P, NEW in, NEW ng, NEW ls
    PROVE  Known("move", o, S, P, in, ng, ls) <=> \E old, new : MoveBase(o, S, old, new, in, ng, ls)
<1>1. /\ "move" \notin Adds /\ ~Moved("move", o) /\ ~Gone("move", o) /\ Dooms("move", o) /\ ~Unlinks(o)
      /\ "move" \notin Fill \ {"undo"} /\ "move" \in Adds \cup {"move"} /\ "move" \in Adds \cup Moves \cup {"rm"}
      /\ Doomed(o) = o.over
  BY DEF Adds, Moves, Gone, Moved, Dooms, Fill, Unlinks, Doomed
<1>2. LooseOnes("move", o, S) = {} /\ S \ {} = S
  BY DEF Loose, LooseOnes
<1>3. Posted("move", o, S, in) <=> Hosted(S, {}, in, {})
  BY <1>1, <1>2 DEF Posted
<1>4. /\ Denied("move", o, S, in, ng) <=> Truthful(S, in, ng)
      /\ Recorded("move", o, S, in, ls) <=> ls = Entries(S, in)
  BY <1>1, <1>2 DEF Denied, Recorded
<1>5. Renames("move", o, S, in) <=>
        /\ o.over # o.i
        /\ \E s \in S : IsAt(s, o.old) /\ in[o.i].pos = s.place
        /\ \E s \in S : IsAt(s, o.new) /\ in[o.over].pos = s.place
  BY <1>1 DEF Renames
<1>6. Awaited("move", o, S, P, in) <=>
        (in[o.over].dir => \A s \in S : s.dir = in[o.over].start => Dotted(s))
  BY <1>1 DEF Awaited
<1> QED BY <1>3, <1>4, <1>5, <1>6 DEF Known, MoveBase, Base

-----------------------------------------------------------------------------
(* What is listed while an operation goes on.                               *)
LEMMA HolderIs ==
    ASSUME NEW S, NEW L, NEW in, NEW I, Hosted(S, L, in, I),
           NEW i \in Inodes, in[i] # None, NEW p, p # None, in[i].pos = p
    PROVE  HolderOf(in, p) = i
<1> DEFINE held == {j \in Inodes : in[j] # None /\ in[j].pos = p}
<1>1. held = {i}
  BY DEF Hosted
<1> HIDE DEF held
<1>2. HolderOf(in, p) = IF held = {} THEN None ELSE CHOOSE j \in held : TRUE
  BY DEF HolderOf, held
<1> QED BY <1>1, <1>2

LEMMA Holds ==
    ASSUME NEW S, Sorted(S), NEW L, NEW in, NEW I, Hosted(S, L, in, I), NEW s \in S, ~Dotted(s), s \notin L
    PROVE  /\ HolderOf(in, s.place) \in Inodes /\ in[HolderOf(in, s.place)] # None
           /\ in[HolderOf(in, s.place)].pos = s.place /\ s.place # None
<1>1. PICK i \in Inodes : in[i] # None /\ in[i].pos = s.place
  BY DEF Hosted
<1>2. s.place # None
  BY DEF Sorted
<1>3. HolderOf(in, s.place) = i
  BY <1>1, <1>2, HolderIs
<1> QED BY <1>1, <1>2, <1>3

LEMMA HolderOne ==
    ASSUME NEW S, Sorted(S), NEW L, NEW in, NEW I, Hosted(S, L, in, I),
           NEW r \in S, ~Dotted(r), r \notin L, NEW s \in S, ~Dotted(s), s \notin L,
           HolderOf(in, r.place) = HolderOf(in, s.place)
    PROVE  r = s
<1>1. r.place = s.place
  BY Holds
<1> QED BY <1>1 DEF Sorted

EntryAt(e, s, i) == e.dir = s.dir /\ e.name = NameAs(s) /\ e.obj = i
LEMMA EntryIs == \A s, i : EntryAt(EntryAs(s, i), s, i)
  BY DEF EntryAt, EntryAs

(* Nobody has the name that is added.                                       *)
LEMMA NoneNamed ==
    ASSUME NEW S, Sorted(S), NEW in, NEW d, NEW n \in Names, \A s \in S : s.dir = d => ~Called(s, n)
    PROVE  {e \in Entries(S, in) : e.dir = d /\ e.name = n} = {}
<1> SUFFICES ASSUME NEW e \in Entries(S, in), e.dir = d, e.name = n  PROVE FALSE
  OBVIOUS
<1>1. PICK s \in S : e = EntryAs(s, HolderOf(in, s.place))
  BY DEF Entries
<1>2. s.dir = d /\ NameAs(s) = n
  BY <1>1, EntryIs DEF EntryAt
<1> QED BY <1>2, NamedCalled

(* An inode is added with its entry; the new directory comes with it.       *)
Posts(in, kin, x, p) ==
    /\ in[x] = None /\ kin[x] # None /\ kin[x].pos = p /\ kin[x].linked
    /\ \A i \in Inodes \ {x} : kin[i] = in[i]
Joined(T, S, Q) == T = S \cup Q
LEMMA AddedOk ==
    ASSUME NEW o, o.call \in {"create", "mkdir"}, o.n \in Names,
           NEW S, NEW P, NEW s, NEW in, NEW ng, NEW ls, AddedBase(o, S, P, s, in, ng, ls),
           NEW x \in Inodes, NEW kin, Posts(in, kin, x, s.place),
           NEW Q \in SUBSET P, NEW T, Joined(T, S, Q), Sorted(T), NEW ngs, Truthful(T, kin, ngs)
    PROVE  OkBase(o, T, kin, ngs, ls)
<1> USE DEF Joined
<1> DEFINE R == S \ {s}
<1>1. /\ Sorted(S) /\ s \in S /\ ~Dotted(s) /\ s.dir = o.d /\ NameAs(s) = o.n
      /\ Sorted(R) /\ Hosted(R, {}, in, {}) /\ ls = Entries(R, in)
      /\ \A r \in R : r.dir = o.d => ~Called(r, o.n)
      /\ \A r \in Q : Dotted(r)
  BY DEF AddedBase, Base, Ready
<1>2. s.place # None /\ \A r \in R : r.place # s.place
  BY <1>1 DEF Sorted
<1>3. \A i \in Inodes : in[i] # None /\ in[i].pos # None => i # x /\ in[i].pos # s.place
  <2> TAKE i \in Inodes
  <2> HAVE in[i] # None /\ in[i].pos # None
  <2>1. PICK r \in R : in[i].pos = r.place
    BY <1>1 DEF Hosted
  <2> QED BY <1>2, <2>1 DEF Posts
<1>4. \A i \in Inodes : kin[i] # None /\ i # x => in[i] # None /\ kin[i] = in[i]
  BY DEF Posts
<1> HIDE DEF R
<1>5. Hosted(T, {}, kin, {})
  <2>1. \A r \in T : Dotted(r) \/ r \in {} \/ \E i \in Inodes : kin[i] # None /\ kin[i].pos = r.place
    <3> TAKE r \in T
    <3>1. CASE r = s
      BY <3>1 DEF Posts
    <3>2. CASE r \in R
      <4>1. Dotted(r) \/ \E i \in Inodes : in[i] # None /\ in[i].pos = r.place
        BY <1>1, <3>2 DEF Hosted
      <4>2. \A i \in Inodes : in[i] # None => i # x /\ kin[i] = in[i]
        BY DEF Posts
      <4> QED BY <4>1, <4>2
    <3> QED BY <1>1, <3>1, <3>2 DEF R
  <2>2. \A i \in Inodes : kin[i] # None /\ kin[i].pos # None =>
            \E r \in T : ~Dotted(r) /\ r \notin {} /\ kin[i].pos = r.place
    <3> TAKE i \in Inodes
    <3> HAVE kin[i] # None /\ kin[i].pos # None
    <3>1. CASE i = x
      BY <1>1, <3>1 DEF Posts
    <3>2. CASE i # x
      <4>1. \E r \in R : ~Dotted(r) /\ in[i].pos = r.place
        BY <1>1, <1>4, <3>2 DEF Hosted
      <4> QED BY <1>4, <3>2, <4>1 DEF R
    <3> QED BY <3>1, <3>2
  <2>3. ASSUME NEW i \in Inodes, NEW j \in Inodes, kin[i] # None, kin[j] # None,
               kin[i].pos = kin[j].pos, kin[i].pos # None
        PROVE  i = j
    <3>1. CASE i # x /\ j # x
      BY <1>1, <1>4, <2>3, <3>1 DEF Hosted
    <3>2. CASE i = x /\ j # x
      BY <1>3, <1>4, <2>3, <3>2 DEF Posts
    <3>3. CASE i # x /\ j = x
      BY <1>3, <1>4, <2>3, <3>3 DEF Posts
    <3> QED BY <3>1, <3>2, <3>3
  <2>4. \A i \in Inodes : kin[i] # None /\ ~kin[i].linked => kin[i].pos = None
    BY <1>1, <1>4 DEF Hosted, Posts
  <2> QED BY <2>1, <2>2, <2>3, <2>4 DEF Hosted
<1>6. HolderOf(kin, s.place) = x
  BY <1>2, <1>5, HolderIs DEF Posts
<1>7. ASSUME NEW r \in R, ~Dotted(r)
      PROVE  HolderOf(kin, r.place) = HolderOf(in, r.place) /\ HolderOf(in, r.place) # x
  <2> DEFINE i == HolderOf(in, r.place)
  <2>1. i \in Inodes /\ in[i] # None /\ in[i].pos = r.place /\ r.place # None
    BY <1>1, <1>7, Holds
  <2> HIDE DEF i
  <2>2. i # x /\ kin[i] = in[i]
    BY <2>1 DEF Posts
  <2>3. HolderOf(kin, r.place) = i
    BY <1>5, <2>1, <2>2, HolderIs
  <2> QED BY <2>2, <2>3 DEF i
<1>8. Entries(T, kin) = Entries(R, in) \cup {[dir |-> o.d, name |-> o.n, obj |-> x]}
  <2>1. {r \in T : ~Dotted(r)} = {r \in R : ~Dotted(r)} \cup {s}
    BY <1>1 DEF R
  <2>2. EntryAs(s, HolderOf(kin, s.place)) = [dir |-> o.d, name |-> o.n, obj |-> x]
    BY <1>1, <1>6 DEF EntryAs
  <2>3. \A r \in {q \in R : ~Dotted(q)} : EntryAs(r, HolderOf(kin, r.place)) = EntryAs(r, HolderOf(in, r.place))
    BY <1>7
  <2>4. Entries(T, kin) = {EntryAs(r, HolderOf(kin, r.place)) : r \in {q \in R : ~Dotted(q)} \cup {s}}
    BY <2>1 DEF Entries
  <2>5. Entries(R, in) = {EntryAs(r, HolderOf(in, r.place)) : r \in {q \in R : ~Dotted(q)}}
    BY DEF Entries
  <2> QED BY <2>2, <2>3, <2>4, <2>5
<1>9. OfThem(ls, {x}) = {}
  <2> SUFFICES ASSUME NEW e \in ls, e.obj = x  PROVE FALSE
    BY DEF OfThem
  <2>1. PICK r \in R : ~Dotted(r) /\ e = EntryAs(r, HolderOf(in, r.place))
    BY <1>1 DEF Entries
  <2> QED BY <1>7, <2>1, EntryIs DEF EntryAt
<1>10. Meant(o, ls, Entries(T, kin))
  <2>1. {e \in ls : e.dir = o.d /\ e.name = o.n} = {}
    BY <1>1, NoneNamed
  <2> QED BY <1>1, <1>8, <1>9, <2>1 DEF Meant
<1> QED BY <1>5, <1>10 DEF OkBase

(* Entries with other inodes, where no holder changes.                      *)
LEMMA EntriesSame ==
    ASSUME NEW S, Sorted(S), NEW L, NEW in, NEW I, Hosted(S, L, in, I),
           NEW T \in SUBSET S, \A s \in T : ~Dotted(s) => s \notin L,
           NEW R, {s \in R : ~Dotted(s)} = {s \in T : ~Dotted(s)},
           NEW kin, NEW M, NEW J, Hosted(R, M, kin, J),
           \A i \in Inodes : in[i] # None /\ (\E s \in T : in[i].pos = s.place)
                => kin[i] # None /\ kin[i].pos = in[i].pos
    PROVE  Entries(R, kin) = Entries(T, in)
<1>1. ASSUME NEW s \in T, ~Dotted(s)  PROVE HolderOf(kin, s.place) = HolderOf(in, s.place)
  <2> DEFINE i == HolderOf(in, s.place)
  <2>1. i \in Inodes /\ in[i] # None /\ in[i].pos = s.place /\ s.place # None
    BY <1>1, Holds
  <2> HIDE DEF i
  <2>2. kin[i] # None /\ kin[i].pos = s.place
    BY <1>1, <2>1
  <2>3. HolderOf(kin, s.place) = i
    BY <2>1, <2>2, HolderIs
  <2> QED BY <2>3 DEF i
<1> DEFINE N == {s \in T : ~Dotted(s)}
<1>2. Entries(R, kin) = {EntryAs(s, HolderOf(kin, s.place)) : s \in N}
  BY DEF Entries
<1>3. Entries(T, in) = {EntryAs(s, HolderOf(in, s.place)) : s \in N}
  BY DEF Entries
<1>4. \A s \in N : HolderOf(kin, s.place) = HolderOf(in, s.place)
  BY <1>1
<1> HIDE DEF N
<1> QED BY <1>2, <1>3, <1>4

(* unlink and rmdir: the entry goes, then its inode.                        *)
LEMMA CutGone ==
    ASSUME NEW o, Unlinks(o), o.i \in Inodes, o.n \in Names,
           NEW S, NEW cut, NEW in, in[o.i] # None, NEW ng, NEW ls, CutBase(o, S, cut, in, ng, ls)
    PROVE  GoneBase(o, S \ {cut}, in, ng, ls)
<1> DEFINE T == S \ {cut}
<1>1. /\ Sorted(S) /\ Hosted(S, {}, in, {}) /\ Truthful(S, in, ng) /\ ls = Entries(S, in)
      /\ cut \in S /\ cut.dir = o.d /\ in[o.i].pos = cut.place
      /\ \A s \in S : s.dir = o.d /\ Called(s, o.n) => s = cut
      /\ in[o.i].dir => \A s \in S : s.dir = in[o.i].start => Dotted(s)
  BY DEF CutBase, Base
<1>2. Sorted(T)
  BY <1>1, SortedFewer
<1>3. ~Dotted(cut)
  BY <1>1, HostIs
<1>4. \A s \in T : s.place # cut.place
  BY <1>1 DEF Sorted
<1>5. cut.place # None
  BY <1>1 DEF Sorted
<1>6. Hosted(T, {}, in, {o.i})
  <2>1. \A s \in T : Dotted(s) \/ s \in {} \/ \E i \in Inodes : in[i] # None /\ in[i].pos = s.place
    BY <1>1 DEF Hosted
  <2>2. \A i \in Inodes : in[i] # None /\ in[i].pos # None =>
            i \in {o.i} \/ \E s \in T : ~Dotted(s) /\ s \notin {} /\ in[i].pos = s.place
    <3> TAKE i \in Inodes
    <3> HAVE in[i] # None /\ in[i].pos # None
    <3>1. PICK s \in S : ~Dotted(s) /\ in[i].pos = s.place
      BY <1>1 DEF Hosted
    <3>2. CASE s = cut
      BY <1>1, <3>1, <3>2 DEF Hosted
    <3> QED BY <3>1, <3>2
  <2> QED BY <1>1, <2>1, <2>2 DEF Hosted
<1>7. Truthful(T, in, ng)
  BY <1>1 DEF Truthful
<1>8. HolderOf(in, cut.place) = o.i
  BY <1>1, <1>5, HolderIs
<1>9. Entries(T, in) = ls \ OfThem(ls, {o.i})
  <2>1. Entries(T, in) \subseteq ls \ OfThem(ls, {o.i})
    <3> SUFFICES ASSUME NEW e \in Entries(T, in)  PROVE e \in ls /\ e.obj # o.i
      BY DEF OfThem
    <3>1. PICK s \in T : ~Dotted(s) /\ e = EntryAs(s, HolderOf(in, s.place))
      BY DEF Entries
    <3>2. HolderOf(in, s.place) # o.i
      BY <1>1, <1>3, <1>8, <3>1, HolderOne
    <3>3. e.obj = HolderOf(in, s.place)
      BY <3>1, EntryIs DEF EntryAt
    <3> QED BY <1>1, <3>1, <3>2, <3>3 DEF Entries
  <2>2. ASSUME NEW e \in ls, e.obj # o.i  PROVE e \in Entries(T, in)
    <3>1. PICK s \in S : ~Dotted(s) /\ e = EntryAs(s, HolderOf(in, s.place))
      BY <1>1 DEF Entries
    <3>2. s # cut
      BY <1>8, <2>2, <3>1, EntryIs DEF EntryAt
    <3> QED BY <3>1, <3>2 DEF Entries
  <2> QED BY <2>1, <2>2 DEF OfThem
<1>10. Meant(o, ls, Entries(T, in))
  BY <1>9 DEF Meant, Unlinks
<1>11. \A s \in T : (s.dir = o.d => ~Called(s, o.n)) /\ in[o.i].pos # s.place
  BY <1>1, <1>4
<1>12. Doomed(o) = o.i /\ o.call # "rename"
  BY DEF Doomed, Unlinks
<1> HIDE DEF T
<1>13. T \subseteq S
  BY DEF T
<1> QED BY <1>1, <1>2, <1>6, <1>7, <1>10, <1>11, <1>12, <1>13 DEF GoneBase, T

(* What goes may be a directory, with nothing in it.                        *)
Withdraws(o, in, kin) ==
    /\ \A i \in Inodes : kin[i] = None <=> in[i] = None
    /\ \A i \in Inodes : in[i] # None =>
          IF i = Doomed(o) THEN kin[i].pos = None
          ELSE kin[i].pos = in[i].pos /\ (kin[i].linked <=> in[i].linked)
LEMMA GoneOk ==
    ASSUME NEW o, NEW S, NEW in, NEW ng, NEW ls, GoneBase(o, S, in, ng, ls),
           o.call = "rename" => ~Unlinks(o),
           Doomed(o) \in Inodes, in[Doomed(o)] # None, Takes(o), NEW kin, Withdraws(o, in, kin),
           NEW T \in SUBSET S, \A s \in S : s \notin T => Dotted(s),
           NEW ngs, Truthful(T, kin, ngs)
    PROVE  OkBase(o, T, kin, ngs, ls)
<1> DEFINE I == IF Unlinks(o) THEN {o.i} ELSE {}
           x == Doomed(o)
<1>1. /\ Sorted(S) /\ Hosted(S, {}, in, I) /\ Meant(o, ls, Entries(S, in))
      /\ \A s \in S : in[x].pos # s.place
      /\ I \subseteq {x}
  <2>1. CASE Unlinks(o)
    BY <2>1 DEF GoneBase, Doomed
  <2>2. CASE ~Unlinks(o)
    <3>1. in[x].pos = None
      BY <2>2 DEF GoneBase, Doomed, Takes
    <3>2. \A s \in S : s.place # None
      BY DEF GoneBase, Sorted
    <3> QED BY <2>2, <3>1, <3>2 DEF GoneBase
  <2> QED BY <2>1, <2>2
<1> HIDE DEF I, x
<1>2. \A i \in Inodes : kin[i] # None =>
        /\ in[i] # None
        /\ i = x => kin[i].pos = None
        /\ i # x => kin[i].pos = in[i].pos /\ (kin[i].linked <=> in[i].linked)
  BY DEF Withdraws, x
<1>3. Hosted(T, {}, kin, {})
  <2>1. \A s \in T : Dotted(s) \/ s \in {} \/ \E i \in Inodes : kin[i] # None /\ kin[i].pos = s.place
    <3> TAKE s \in T
    <3> SUFFICES ASSUME ~Dotted(s)  PROVE \E i \in Inodes : kin[i] # None /\ kin[i].pos = s.place
      OBVIOUS
    <3>1. PICK i \in Inodes : in[i] # None /\ in[i].pos = s.place
      BY <1>1 DEF Hosted
    <3>2. i # x
      BY <1>1, <3>1
    <3> QED BY <3>1, <3>2 DEF Withdraws, x
  <2>2. \A i \in Inodes : kin[i] # None /\ kin[i].pos # None =>
            i \in {} \/ \E s \in T : ~Dotted(s) /\ s \notin {} /\ kin[i].pos = s.place
    <3> TAKE i \in Inodes
    <3> HAVE kin[i] # None /\ kin[i].pos # None
    <3>1. in[i] # None /\ i # x /\ kin[i].pos = in[i].pos
      BY <1>2
    <3>2. PICK s \in S : ~Dotted(s) /\ in[i].pos = s.place
      BY <1>1, <3>1 DEF Hosted
    <3> QED BY <3>1, <3>2
  <2>3. \A i, j \in Inodes : kin[i] # None /\ kin[j] # None /\ kin[i].pos = kin[j].pos
                             /\ kin[i].pos # None => i = j
    BY <1>1, <1>2 DEF Hosted
  <2>4. \A i \in Inodes : kin[i] # None /\ ~kin[i].linked => kin[i].pos = None
    BY <1>1, <1>2 DEF Hosted
  <2> QED BY <2>1, <2>2, <2>3, <2>4 DEF Hosted
<1>4. Entries(T, kin) = Entries(S, in)
  <2>1. {s \in T : ~Dotted(s)} = {s \in S : ~Dotted(s)}
    OBVIOUS
  <2>2. \A i \in Inodes : in[i] # None /\ (\E s \in S : in[i].pos = s.place)
                            => kin[i] # None /\ kin[i].pos = in[i].pos
    BY <1>1 DEF Withdraws, x
  <2> QED BY <1>1, <1>3, <2>1, <2>2, EntriesSame
<1> QED BY <1>1, <1>3, <1>4, SortedFewer DEF OkBase

(* A rename goes on with the entry that was added or found, and the inode   *)
(* has left the old one.                                                    *)
Shifts(o, in, kin, p) ==
    /\ \A i \in Inodes : kin[i] = None <=> in[i] = None
    /\ \A i \in Inodes : in[i] # None =>
          /\ kin[i].pos = IF i = o.i THEN p ELSE IF i = o.over THEN None ELSE in[i].pos
          /\ kin[i].linked = in[i].linked /\ kin[i].start = in[i].start /\ kin[i].dir = in[i].dir
LEMMA ShiftStarts ==
    ASSUME NEW o, NEW in, NEW kin, NEW p, Shifts(o, in, kin, p)  PROVE StartsOf(kin) = StartsOf(in)
<1>1. \A i \in Inodes : (kin[i] = None <=> in[i] = None) /\ (in[i] # None => kin[i].start = in[i].start)
  BY DEF Shifts
<1> QED BY <1>1 DEF StartsOf
LEMMA TruthfulFewer ==
    ASSUME NEW S, NEW in, NEW ng, Truthful(S, in, ng), NEW T \in SUBSET S, NEW ngs \in SUBSET ng,
           NEW kin, StartsOf(in) \subseteq StartsOf(kin)
    PROVE  Truthful(T, kin, ngs)
  BY DEF Truthful

(* The inode is where the new entry is, and the old entry has none.         *)
LEMMA ShiftHosted ==
    ASSUME NEW o, o.i \in Inodes, o.over # o.i, NEW S, Sorted(S), NEW L, NEW in, Hosted(S, L, in, {}),
           in[o.i] # None, NEW old \in S \ L, in[o.i].pos = old.place,
           NEW new \in S, new # old, ~Dotted(new),
           IF o.over = None THEN L = {new}
           ELSE L = {} /\ o.over \in Inodes /\ in[o.over] # None /\ in[o.over].pos = new.place,
           NEW kin, Shifts(o, in, kin, new.place)
    PROVE  Hosted(S, {old}, kin, {}) /\ ~Dotted(old)
<1>1. ~Dotted(old)
  BY HostIs
<1>2. /\ \A s \in S : s.place # None
      /\ \A r, s \in S : r.place = s.place => r = s
  BY DEF Sorted
<1>3. \A i \in Inodes : kin[i] # None =>
        /\ in[i] # None
        /\ i = o.i => kin[i].pos = new.place
        /\ i # o.i /\ i = o.over => kin[i].pos = None
        /\ i # o.i /\ i # o.over => kin[i].pos = in[i].pos
        /\ kin[i].linked = in[i].linked
  BY DEF Shifts
<1>4. \A i \in Inodes : in[i] # None => kin[i] # None
  BY DEF Shifts
<1>5. ASSUME NEW i \in Inodes, in[i] # None, in[i].pos # None, i # o.i, i # o.over
      PROVE  in[i].pos # new.place /\ in[i].pos # old.place
  <2>1. in[i].pos # old.place
    BY <1>5 DEF Hosted
  <2>2. CASE o.over = None
    <3>1. PICK s \in S : s \notin L /\ in[i].pos = s.place
      BY <1>5 DEF Hosted
    <3> QED BY <1>2, <2>1, <2>2, <3>1
  <2>3. CASE o.over # None
    BY <1>5, <2>1, <2>3 DEF Hosted
  <2> QED BY <2>1, <2>2, <2>3
<1>6. \A s \in S : Dotted(s) \/ s \in {old} \/ \E i \in Inodes : kin[i] # None /\ kin[i].pos = s.place
  <2> SUFFICES ASSUME NEW s \in S, ~Dotted(s), s # old
               PROVE  \E i \in Inodes : kin[i] # None /\ kin[i].pos = s.place
    OBVIOUS
  <2>1. CASE s = new
    BY <1>3, <1>4, <2>1
  <2>2. CASE s # new
    <3>1. s \notin L
      BY <2>2
    <3>2. PICK i \in Inodes : in[i] # None /\ in[i].pos = s.place
      BY <3>1 DEF Hosted
    <3>3. i # o.i /\ (o.over # None => i # o.over)
      BY <1>2, <2>2, <3>2
    <3>4. o.over = None => i # o.over
      BY RootAssumption
    <3> QED BY <1>3, <1>4, <3>2, <3>3, <3>4
  <2> QED BY <2>1, <2>2
<1>7. ASSUME NEW i \in Inodes, kin[i] # None, kin[i].pos # None
      PROVE  \E s \in S : ~Dotted(s) /\ s \notin {old} /\ kin[i].pos = s.place
  <2>1. CASE i = o.i
    BY <1>3, <1>7, <2>1
  <2>2. CASE i # o.i
    <3>1. i # o.over /\ kin[i].pos = in[i].pos /\ in[i] # None
      BY <1>3, <1>7, <2>2
    <3>2. PICK s \in S : ~Dotted(s) /\ s \notin L /\ in[i].pos = s.place
      BY <1>7, <3>1 DEF Hosted
    <3>3. s # old
      BY <1>5, <1>7, <2>2, <3>1, <3>2
    <3> QED BY <3>1, <3>2, <3>3
  <2> QED BY <2>1, <2>2
<1>8. ASSUME NEW i \in Inodes, NEW j \in Inodes, kin[i] # None, kin[j] # None,
             kin[i].pos = kin[j].pos, kin[i].pos # None
      PROVE  i = j
  <2>1. CASE i # o.i /\ j # o.i
    BY <1>3, <1>8, <2>1 DEF Hosted
  <2>2. CASE i = o.i /\ j # o.i
    BY <1>3, <1>5, <1>8, <2>2
  <2>3. CASE i # o.i /\ j = o.i
    BY <1>3, <1>5, <1>8, <2>3
  <2> QED BY <2>1, <2>2, <2>3
<1>9. \A i \in Inodes : kin[i] # None /\ ~kin[i].linked => kin[i].pos = None
  <2>1. in[o.i].linked
    BY <1>2 DEF Hosted
  <2> QED BY <1>3, <2>1 DEF Hosted
<1> QED BY <1>1, <1>6, <1>7, <1>8, <1>9 DEF Hosted

LEMMA AddedMoved ==
    ASSUME NEW o, o.call = "rename", o.over = None, o.i \in Inodes,
           NEW S, NEW P, NEW new, NEW in, in[o.i] # None, NEW ng, NEW ls, AddedBase(o, S, P, new, in, ng, ls),
           NEW r, r.call = "rename", r.d = o.d, r.n = o.n, r.i = o.i, r.over = o.over, r.old = o.old,
           IsAt(new, r.new), NEW kin, Shifts(o, in, kin, new.place),
           NEW ngs, Truthful(S, kin, ngs)
    PROVE  \E old : MovedBase(r, S, old, new, kin, ngs, ls)
<1> DEFINE R == S \ {new}
<1>1. /\ Sorted(S) /\ new \in S /\ ~Dotted(new) /\ new.dir = o.d /\ NameAs(new) = o.n
      /\ Hosted(R, {}, in, {}) /\ ls = Entries(R, in) /\ o.over # o.i
  BY DEF AddedBase, Base, Ready
<1>2. PICK old \in R : IsAt(old, o.old) /\ in[o.i].pos = old.place
  BY DEF AddedBase, Ready
<1>3. old \in S \ {new} /\ new # old /\ Sorted(R)
  BY <1>1, <1>2, SortedFewer
<1>4. Hosted(S, {new}, in, {})
  BY <1>1 DEF Hosted
<1>5. Hosted(S, {old}, kin, {}) /\ ~Dotted(old)
  BY <1>1, <1>2, <1>3, <1>4, ShiftHosted
<1>6. ls = Former(r, S, kin)
  <2> DEFINE N == {s \in S : ~Dotted(s) /\ ~(r.over = None /\ IsAt(s, r.new))}
             F(s) == IF IsAt(s, r.old) THEN r.i ELSE IF IsAt(s, r.new) THEN r.over ELSE HolderOf(kin, s.place)
  <2>1. N = {s \in R : ~Dotted(s)}
    BY <1>1, OneSpot
  <2>2. \A s \in R : ~IsAt(s, r.new)
    BY <1>1, OneSpot
  <2>3. ASSUME NEW s \in R, ~Dotted(s)  PROVE F(s) = HolderOf(in, s.place)
    <3>1. CASE s = old
      <4>1. s.place # None
        BY <1>1, <1>3, <2>3, Holds
      <4>2. HolderOf(in, s.place) = o.i
        BY <1>1, <1>2, <3>1, <4>1, HolderIs
      <4> QED BY <1>2, <3>1, <4>2
    <3>2. CASE s # old
      <4>1. ~IsAt(s, r.old)
        BY <1>1, <1>2, <2>3, <3>2, OneSpot
      <4> DEFINE i == HolderOf(in, s.place)
      <4>2. i \in Inodes /\ in[i] # None /\ in[i].pos = s.place /\ s.place # None
        BY <1>1, <1>3, <2>3, Holds
      <4>3. i # o.i /\ i # o.over
        <5>1. s.place # old.place
          BY <1>2, <1>3, <2>3, <3>2 DEF Sorted
        <5> QED BY <1>2, <4>2, <5>1, RootAssumption
      <4> HIDE DEF i
      <4>5. kin[i] # None /\ kin[i].pos = s.place
        BY <4>2, <4>3 DEF Shifts
      <4>6. HolderOf(kin, s.place) = i
        BY <1>5, <4>2, <4>5, HolderIs
      <4> QED BY <2>2, <2>3, <4>1, <4>6 DEF i
    <3> QED BY <3>1, <3>2
  <2>4. Former(r, S, kin) = {EntryAs(s, F(s)) : s \in N}
    BY DEF Former
  <2>5. ls = {EntryAs(s, HolderOf(in, s.place)) : s \in N}
    BY <1>1, <2>1 DEF Entries
  <2>6. \A s \in N : F(s) = HolderOf(in, s.place)
    BY <2>1, <2>3
  <2> HIDE DEF N, F
  <2> QED BY <2>4, <2>5, <2>6
<1>7. kin[r.i].pos = new.place
  BY DEF Shifts
<1> QED BY <1>1, <1>2, <1>5, <1>6, <1>7 DEF MovedBase

(* What was listed, in the midst of a rename: the old entry is for the      *)
(* inode, and the new one for what it replaces.                             *)
WasFor(o, in, s) ==
    IF IsAt(s, o.old) THEN o.i ELSE IF IsAt(s, o.new) THEN o.over ELSE HolderOf(in, s.place)
Undotted(S) == {s \in S : ~Dotted(s)}
WereIn(o, S) == {s \in S : ~Dotted(s) /\ ~(o.over = None /\ IsAt(s, o.new))}
LEMMA FormerIs ==
    ASSUME NEW o, NEW S, NEW in, NEW R, NEW kin, WereIn(o, S) = Undotted(R),
           \A s \in WereIn(o, S) : WasFor(o, in, s) = HolderOf(kin, s.place)
    PROVE  Former(o, S, in) = Entries(R, kin)
<1>1. Former(o, S, in) = {EntryAs(s, WasFor(o, in, s)) : s \in WereIn(o, S)}
  BY DEF Former, WasFor, WereIn
<1>2. Entries(R, kin) = {EntryAs(s, HolderOf(kin, s.place)) : s \in WereIn(o, S)}
  BY DEF Entries, Undotted
<1> QED BY <1>1, <1>2

LEMMA MoveMoved ==
    ASSUME NEW o, o.call = "rename", o.over \in Inodes, o.i \in Inodes,
           NEW S, NEW old, NEW new, NEW in, in[o.i] # None, in[o.over] # None, NEW ng, NEW ls,
           MoveBase(o, S, old, new, in, ng, ls), NEW kin, Shifts(o, in, kin, new.place),
           NEW ngs, Truthful(S, kin, ngs)
    PROVE  MovedBase(o, S, old, new, kin, ngs, ls)
<1>1. /\ Sorted(S) /\ Hosted(S, {}, in, {}) /\ ls = Entries(S, in) /\ o.over # o.i
      /\ old \in S /\ IsAt(old, o.old) /\ in[o.i].pos = old.place
      /\ new \in S /\ IsAt(new, o.new) /\ in[o.over].pos = new.place
      /\ in[o.over].dir => \A s \in S : s.dir = in[o.over].start => Dotted(s)
  BY DEF MoveBase, Base
<1>2. old.place # None /\ new.place # None
  BY <1>1 DEF Sorted
<1>3. new # old
  BY <1>1, <1>2 DEF Hosted
<1>4. ~Dotted(new) /\ o.over # None
  BY <1>1, HostIs, RootAssumption
<1>5. old \in S \ {}
  BY <1>1
<1>6. Hosted(S, {old}, kin, {}) /\ ~Dotted(old)
  BY <1>1, <1>3, <1>4, <1>5, ShiftHosted
<1>7. in[o.over].linked
  BY <1>1, <1>2 DEF Hosted
<1>8. /\ kin[o.i].pos = new.place /\ kin[o.over].linked /\ kin[o.over].pos = None
      /\ kin[o.over].dir => \A s \in S : s.dir = kin[o.over].start => Dotted(s)
  BY <1>1, <1>7 DEF Shifts
<1>9. ls = Former(o, S, kin)
  <2> DEFINE N == WereIn(o, S)
  <2>1. N = Undotted(S) /\ \A s \in N : s \in S /\ ~Dotted(s)
    BY <1>4 DEF WereIn, Undotted
  <2> HIDE DEF N
  <2>2. ASSUME NEW s \in N  PROVE WasFor(o, kin, s) = HolderOf(in, s.place)
    <3>1. CASE s = old
      <4>1. HolderOf(in, s.place) = o.i
        BY <1>1, <1>2, <3>1, HolderIs
      <4> QED BY <1>1, <3>1, <4>1 DEF WasFor
    <3>2. CASE s = new
      <4>1. HolderOf(in, s.place) = o.over
        BY <1>1, <1>2, <3>2, HolderIs
      <4>2. ~IsAt(s, o.old)
        BY <1>1, <1>3, <3>2, OneSpot
      <4> QED BY <1>1, <3>2, <4>1, <4>2 DEF WasFor
    <3>3. CASE s # old /\ s # new
      <4>1. ~IsAt(s, o.old) /\ ~IsAt(s, o.new)
        BY <1>1, <2>1, <2>2, <3>3, OneSpot
      <4> DEFINE i == HolderOf(in, s.place)
      <4>2. i \in Inodes /\ in[i] # None /\ in[i].pos = s.place /\ s.place # None
        BY <1>1, <2>1, <2>2, Holds
      <4>3. i # o.i /\ i # o.over
        <5>1. s.place # old.place /\ s.place # new.place
          BY <1>1, <2>1, <2>2, <3>3 DEF Sorted
        <5> QED BY <1>1, <4>2, <5>1
      <4> HIDE DEF i
      <4>4. kin[i] # None /\ kin[i].pos = s.place
        BY <4>2, <4>3 DEF Shifts
      <4>5. HolderOf(kin, s.place) = i
        BY <1>6, <4>2, <4>4, HolderIs
      <4> QED BY <4>1, <4>5 DEF i, WasFor
    <3> QED BY <3>1, <3>2, <3>3
  <2>3. \A s \in N : WasFor(o, kin, s) = HolderOf(in, s.place)
    BY <2>2
  <2>5. Former(o, S, kin) = Entries(S, in)
    BY <2>1, <2>3, FormerIs DEF N
  <2> QED BY <1>1, <2>5
<1> QED BY <1>1, <1>4, <1>6, <1>8, <1>9 DEF MovedBase

(* Then the old entry goes.                                                 *)
MovedOut(o, S, old, new, in) ==
    /\ new # old /\ ~Dotted(new) /\ Hosted(S \ {old}, {}, in, {}) /\ HolderOf(in, new.place) = o.i
    /\ new.place # None /\ old.place # None
    /\ ~IsAt(new, o.old) /\ ~IsAt(old, o.new)
    /\ \A s \in S : ~Dotted(s) /\ s # old /\ s # new =>
          /\ ~IsAt(s, o.old) /\ ~IsAt(s, o.new) /\ HolderOf(in, s.place) \notin {None, o.i}
          /\ o.over # None => HolderOf(in, s.place) # o.over
LEMMA MovedIs ==
    ASSUME NEW o, o.call = "rename", o.i \in Inodes,
           NEW S, NEW old, NEW new, NEW in, in[o.i] # None, NEW ng, NEW ls,
           MovedBase(o, S, old, new, in, ng, ls)
    PROVE  MovedOut(o, S, old, new, in)
<1>1. /\ Sorted(S) /\ Hosted(S, {old}, in, {})
      /\ old \in S /\ IsAt(old, o.old) /\ ~Dotted(old)
      /\ new \in S /\ IsAt(new, o.new) /\ in[o.i].pos = new.place
      /\ o.over # None => in[o.over].pos = None
  BY DEF MovedBase
<1>2. new \notin {old} /\ ~Dotted(new)
  BY <1>1, HostIs
<1>3. Hosted(S \ {old}, {}, in, {})
  BY <1>1 DEF Hosted
<1>4. \A s \in S : s.place # None
  BY <1>1 DEF Sorted
<1>5. HolderOf(in, new.place) = o.i
  BY <1>1, <1>4, HolderIs
<1>6. ASSUME NEW s \in S, ~Dotted(s), s # old, s # new
      PROVE  /\ ~IsAt(s, o.old) /\ ~IsAt(s, o.new) /\ HolderOf(in, s.place) \notin {None, o.i}
             /\ o.over # None => HolderOf(in, s.place) # o.over
  <2>1. ~IsAt(s, o.old) /\ ~IsAt(s, o.new)
    BY <1>1, <1>6, OneSpot
  <2>2. s \notin {old}
    BY <1>6
  <2>3. HolderOf(in, s.place) \in Inodes /\ in[HolderOf(in, s.place)].pos = s.place
    BY <1>1, <1>6, <2>2, Holds
  <2>4. s.place # new.place
    BY <1>1, <1>6 DEF Sorted
  <2> QED BY <1>1, <1>4, <2>1, <2>3, <2>4, RootAssumption
<1>7. ~IsAt(new, o.old) /\ ~IsAt(old, o.new)
  BY <1>1, <1>2, OneSpot
<1> QED BY <1>1, <1>2, <1>3, <1>4, <1>5, <1>6, <1>7 DEF MovedOut

LEMMA MovedGone ==
    ASSUME NEW o, o.call = "rename", o.i \in Inodes, o.n \in Names,
           NEW S, NEW old, NEW new, NEW in, in[o.i] # None, NEW ng, NEW ls,
           MovedBase(o, S, old, new, in, ng, ls)
    PROVE  GoneBase(o, S \ {old}, in, ng, ls)
<1>1. /\ Sorted(S) /\ Truthful(S, in, ng) /\ ls = Former(o, S, in)
      /\ old \in S /\ IsAt(old, o.old) /\ ~Dotted(old)
      /\ new \in S /\ IsAt(new, o.new) /\ in[o.i].pos = new.place /\ o.over # o.i
  BY DEF MovedBase
<1>2. /\ new # old /\ ~Dotted(new) /\ Hosted(S \ {old}, {}, in, {}) /\ HolderOf(in, new.place) = o.i
      /\ ~IsAt(new, o.old) /\ ~IsAt(old, o.new)
      /\ \A s \in S : ~Dotted(s) /\ s # old /\ s # new =>
            /\ ~IsAt(s, o.old) /\ ~IsAt(s, o.new) /\ HolderOf(in, s.place) \notin {None, o.i}
            /\ o.over # None => HolderOf(in, s.place) # o.over
  <2>1. MovedOut(o, S, old, new, in)
    BY MovedIs
  <2> QED BY <2>1 DEF MovedOut
<1> DEFINE T == S \ {old}
           N == {s \in S : ~Dotted(s) /\ ~(o.over = None /\ IsAt(s, o.new))}
           M == {s \in T : ~Dotted(s)}
<1>3. Sorted(T) /\ T \subseteq S
  BY <1>1, SortedFewer
<1>4. Truthful(T, in, ng)
  BY <1>1 DEF Truthful
<1>5. ls = {EntryAs(s, WasFor(o, in, s)) : s \in N}
  BY <1>1 DEF Former, WasFor
<1>6. Entries(T, in) = {EntryAs(s, HolderOf(in, s.place)) : s \in M}
  BY DEF Entries
<1>7. /\ M = (N \ {old}) \cup {new}
      /\ old \in N /\ (new \in N <=> o.over # None)
      /\ \A s \in N \ {old, new} : s \in S /\ ~Dotted(s)
  BY <1>1, <1>2
<1>8. /\ WasFor(o, in, old) = o.i
      /\ o.over # None => WasFor(o, in, new) = o.over
      /\ \A s \in N \ {old, new} : /\ WasFor(o, in, s) = HolderOf(in, s.place)
                                   /\ HolderOf(in, s.place) \notin {None, o.i}
                                   /\ o.over # None => HolderOf(in, s.place) # o.over
  BY <1>1, <1>2, <1>7 DEF WasFor
<1> HIDE DEF T, N, M
<1>9. Entries(T, in) = {EntryAs(s, HolderOf(in, s.place)) : s \in N \ {old, new}} \cup {EntryAs(new, o.i)}
  BY <1>2, <1>6, <1>7
<1>10. \A s \in N : EntryAs(s, WasFor(o, in, s)).obj = WasFor(o, in, s)
  BY EntryIs DEF EntryAt
<1>11. CASE o.over = None
  <2>1. ls = {EntryAs(s, WasFor(o, in, s)) : s \in N \ {old, new}} \cup {EntryAs(old, o.i)}
    BY <1>5, <1>7, <1>8, <1>11
  <2>2. ls \ OfThem(ls, {o.i}) = {EntryAs(s, HolderOf(in, s.place)) : s \in N \ {old, new}}
    <3>1. \A e \in ls \ OfThem(ls, {o.i}) : e \in {EntryAs(s, HolderOf(in, s.place)) : s \in N \ {old, new}}
      BY <1>7, <1>8, <1>10, <2>1 DEF OfThem
    <3>2. \A s \in N \ {old, new} : EntryAs(s, HolderOf(in, s.place)) \in ls
      BY <1>8, <2>1
    <3>3. \A s \in N \ {old, new} : EntryAs(s, HolderOf(in, s.place)).obj # o.i
      BY <1>8, <1>10
    <3> QED BY <3>1, <3>2, <3>3 DEF OfThem
  <2>3. new.dir = o.d /\ NameAs(new) = o.n
    BY <1>11 DEF MovedBase
  <2>4. EntryAs(new, o.i) = [dir |-> o.d, name |-> o.n, obj |-> o.i]
    BY <2>3 DEF EntryAs
  <2>5. {e \in ls : e.dir = o.d /\ e.name = o.n} = {}
    <3> SUFFICES ASSUME NEW e \in ls, e.dir = o.d, e.name = o.n  PROVE FALSE
      OBVIOUS
    <3>1. PICK s \in N : e = EntryAs(s, WasFor(o, in, s))
      BY <1>5
    <3>2. s.dir = o.d /\ NameAs(s) = o.n
      BY <3>1, EntryIs DEF EntryAt
    <3>3. s \in S
      BY DEF N
    <3>4. Called(s, o.n) /\ Called(new, o.n)
      BY <1>1, <2>3, <3>2, <3>3, NamedCalled
    <3>5. s = new
      BY <1>1, <2>3, <3>2, <3>3, <3>4, CalledOnce
    <3> QED BY <1>7, <1>11, <3>5
  <2>6. Meant(o, ls, Entries(T, in))
    BY <1>9, <1>11, <2>2, <2>4, <2>5 DEF Meant
  <2>7. ~Takes(o)
    BY <1>11 DEF Takes, Unlinks
  <2>8. ~Unlinks(o)
    BY DEF Unlinks
  <2> QED BY <1>2, <1>3, <1>4, <1>11, <2>6, <2>7, <2>8 DEF GoneBase, T
<1>12. CASE o.over # None
  <2>1. ls = {EntryAs(s, WasFor(o, in, s)) : s \in N \ {old, new}} \cup {EntryAs(old, o.i), EntryAs(new, o.over)}
    BY <1>5, <1>7, <1>8, <1>12
  <2>2. ls \ OfThem(ls, {o.i, o.over}) = {EntryAs(s, HolderOf(in, s.place)) : s \in N \ {old, new}}
    <3>1. EntryAs(new, o.over).obj = o.over
      BY EntryIs DEF EntryAt
    <3>2. \A e \in ls \ OfThem(ls, {o.i, o.over}) : e \in {EntryAs(s, HolderOf(in, s.place)) : s \in N \ {old, new}}
      BY <1>7, <1>8, <1>10, <2>1, <3>1 DEF OfThem
    <3>3. \A s \in N \ {old, new} : EntryAs(s, HolderOf(in, s.place)) \in ls
      BY <1>8, <2>1
    <3>4. \A s \in N \ {old, new} : EntryAs(s, HolderOf(in, s.place)).obj \notin {o.i, o.over}
      BY <1>8, <1>10, <1>12
    <3> QED BY <3>2, <3>3, <3>4 DEF OfThem
  <2>3. OfThem(ls, {o.over}) = {EntryAs(new, o.over)}
    <3>1. EntryAs(new, o.over).obj = o.over /\ EntryAs(new, o.over) \in ls
      BY <2>1, EntryIs DEF EntryAt
    <3>2. \A e \in ls : e.obj = o.over => e = EntryAs(new, o.over)
      BY <1>1, <1>7, <1>8, <1>10, <1>12, <2>1
    <3> QED BY <3>1, <3>2 DEF OfThem
  <2>4. {[dir |-> e.dir, name |-> e.name, obj |-> o.i] : e \in OfThem(ls, {o.over})} = {EntryAs(new, o.i)}
    <3>1. EntryAs(new, o.over).dir = new.dir /\ EntryAs(new, o.over).name = NameAs(new)
      BY EntryIs DEF EntryAt
    <3>2. [dir |-> EntryAs(new, o.over).dir, name |-> EntryAs(new, o.over).name, obj |-> o.i] = EntryAs(new, o.i)
      BY <3>1 DEF EntryAs
    <3> QED BY <2>3, <3>2
  <2>5. Meant(o, ls, Entries(T, in))
    BY <1>9, <1>12, <2>2, <2>4 DEF Meant
  <2>6. in[o.over].pos = None /\ (in[o.over].dir => \A s \in T : s.dir = in[o.over].start => Dotted(s))
    BY <1>3, <1>12 DEF MovedBase
  <2>7. ~Unlinks(o) /\ Doomed(o) = o.over
    BY DEF Unlinks, Doomed
  <2> QED BY <1>2, <1>3, <1>4, <2>5, <2>6, <2>7 DEF GoneBase, T
<1> QED BY <1>11, <1>12

LEMMA RenamedOk ==
    ASSUME NEW o, o.call = "rename", o.over = None,
           NEW S, NEW in, NEW ng, NEW ls, GoneBase(o, S, in, ng, ls)
    PROVE  OkBase(o, S, in, ng, ls)
<1>1. ~Unlinks(o)
  BY DEF Unlinks
<1> QED BY <1>1 DEF GoneBase, OkBase

(* Or the inodes go back.                                                   *)
Backs(o, in, kin, p, q) ==
    /\ \A i \in Inodes : kin[i] = None <=> in[i] = None
    /\ \A i \in Inodes : in[i] # None =>
          /\ kin[i].pos = IF i = o.i THEN p ELSE IF i = o.over THEN q ELSE in[i].pos
          /\ kin[i].linked = in[i].linked
LEMMA BackHosted ==
    ASSUME NEW o, o.call = "rename", o.i \in Inodes, o.over # None => o.over \in Inodes,
           NEW S, NEW old, NEW new, NEW in, in[o.i] # None, o.over # None => in[o.over] # None, NEW ng, NEW ls,
           MovedBase(o, S, old, new, in, ng, ls), NEW kin, Backs(o, in, kin, old.place, new.place)
    PROVE  Hosted(S, IF o.over = None THEN {new} ELSE {}, kin, {})
<1> DEFINE L == IF o.over = None THEN {new} ELSE {}
<1>1. /\ Sorted(S) /\ Hosted(S, {old}, in, {})
      /\ old \in S /\ ~Dotted(old) /\ new \in S /\ in[o.i].pos = new.place /\ o.over # o.i
      /\ o.over # None => in[o.over].linked /\ in[o.over].pos = None
  BY DEF MovedBase
<1>2. new # old /\ ~Dotted(new) /\ new.place # None /\ old.place # None
  <2>1. MovedOut(o, S, old, new, in)
    BY MovedIs
  <2> QED BY <2>1 DEF MovedOut
<1>3. \A r, s \in S : r.place = s.place => r = s
  BY <1>1 DEF Sorted
<1>4. \A i \in Inodes : kin[i] # None =>
        /\ in[i] # None
        /\ i = o.i => kin[i].pos = old.place
        /\ i # o.i /\ i = o.over => kin[i].pos = new.place
        /\ i # o.i /\ i # o.over => kin[i].pos = in[i].pos
        /\ kin[i].linked = in[i].linked
  BY DEF Backs
<1>5. \A i \in Inodes : in[i] # None => kin[i] # None
  BY DEF Backs
<1>6. ASSUME NEW i \in Inodes, in[i] # None, in[i].pos # None, i # o.i
      PROVE  in[i].pos # new.place /\ in[i].pos # old.place
  <2>1. in[i].pos # new.place
    BY <1>1, <1>2, <1>6 DEF Hosted
  <2>2. PICK s \in S : s \notin {old} /\ in[i].pos = s.place
    BY <1>1, <1>6 DEF Hosted
  <2> QED BY <1>1, <1>3, <2>1, <2>2
<1>7. \A s \in S : Dotted(s) \/ s \in L \/ \E i \in Inodes : kin[i] # None /\ kin[i].pos = s.place
  <2> SUFFICES ASSUME NEW s \in S, ~Dotted(s), s \notin L
               PROVE  \E i \in Inodes : kin[i] # None /\ kin[i].pos = s.place
    OBVIOUS
  <2>1. CASE s = old
    BY <1>4, <1>5, <2>1
  <2>2. CASE s = new
    <3>1. o.over # None
      BY <2>2
    <3>2. kin[o.over] # None /\ kin[o.over].pos = new.place
      BY <1>1, <1>4, <1>5, <3>1
    <3> QED BY <2>2, <3>1, <3>2
  <2>3. CASE s # old /\ s # new
    <3>1. PICK i \in Inodes : in[i] # None /\ in[i].pos = s.place
      BY <1>1, <2>3 DEF Hosted
    <3>2. s.place # new.place /\ s.place # None
      BY <1>1, <2>3 DEF Sorted
    <3>3. i # o.i /\ i # o.over
      BY <1>1, <3>1, <3>2, RootAssumption
    <3> QED BY <1>4, <1>5, <3>1, <3>3
  <2> QED BY <2>1, <2>2, <2>3
<1>8. ASSUME NEW i \in Inodes, kin[i] # None, kin[i].pos # None
      PROVE  \E s \in S : ~Dotted(s) /\ s \notin L /\ kin[i].pos = s.place
  <2>1. CASE i = o.i
    BY <1>1, <1>2, <1>4, <1>8, <2>1
  <2>2. CASE i # o.i /\ i = o.over
    <3>1. o.over # None
      BY <2>2, RootAssumption
    <3> QED BY <1>1, <1>2, <1>4, <1>8, <2>2, <3>1
  <2>3. CASE i # o.i /\ i # o.over
    <3>1. kin[i].pos = in[i].pos /\ in[i] # None
      BY <1>4, <1>8, <2>3
    <3>2. PICK s \in S : ~Dotted(s) /\ in[i].pos = s.place
      BY <1>1, <1>8, <3>1 DEF Hosted
    <3>3. s # new
      BY <1>6, <1>8, <2>3, <3>1, <3>2
    <3> QED BY <3>1, <3>2, <3>3
  <2> QED BY <2>1, <2>2, <2>3
<1>9. ASSUME NEW i \in Inodes, NEW j \in Inodes, kin[i] # None, kin[j] # None,
             kin[i].pos = kin[j].pos, kin[i].pos # None
      PROVE  i = j
  <2>1. CASE i \notin {o.i, o.over} /\ j \notin {o.i, o.over}
    BY <1>1, <1>4, <1>9, <2>1 DEF Hosted
  <2>2. CASE i \in {o.i, o.over} /\ j \notin {o.i, o.over}
    BY <1>2, <1>4, <1>6, <1>9, <2>2
  <2>3. CASE i \notin {o.i, o.over} /\ j \in {o.i, o.over}
    BY <1>2, <1>4, <1>6, <1>9, <2>3
  <2>4. CASE i \in {o.i, o.over} /\ j \in {o.i, o.over}
    BY <1>1, <1>2, <1>3, <1>4, <1>9, <2>4
  <2> QED BY <2>1, <2>2, <2>3, <2>4
<1>10. \A i \in Inodes : kin[i] # None /\ ~kin[i].linked => kin[i].pos = None
  <2>1. in[o.i].linked
    BY <1>1, <1>2 DEF Hosted
  <2>2. \A i \in Inodes : i = o.over => o.over # None
    BY RootAssumption
  <2> QED BY <1>1, <1>4, <2>1, <2>2 DEF Hosted
<1> HIDE DEF L
<1>11. Hosted(S, L, kin, {})
  BY <1>7, <1>8, <1>9, <1>10 DEF Hosted
<1> QED BY <1>11 DEF L

LEMMA MovedBack ==
    ASSUME NEW o, o.call = "rename", o.i \in Inodes, o.over # None => o.over \in Inodes,
           NEW S, NEW old, NEW new, NEW in, in[o.i] # None, o.over # None => in[o.over] # None, NEW ng, NEW ls,
           MovedBase(o, S, old, new, in, ng, ls), NEW kin, Backs(o, in, kin, old.place, new.place)
    PROVE  ls = Entries(IF o.over = None THEN S \ {new} ELSE S, kin)
<1> DEFINE N == WereIn(o, S)
           R == IF o.over = None THEN S \ {new} ELSE S
           L == IF o.over = None THEN {new} ELSE {}
<1>1. /\ Sorted(S) /\ Hosted(S, {old}, in, {}) /\ ls = Former(o, S, in)
      /\ old \in S /\ IsAt(old, o.old) /\ ~Dotted(old)
      /\ new \in S /\ IsAt(new, o.new) /\ in[o.i].pos = new.place /\ o.over # o.i
      /\ o.over # None => in[o.over].pos = None
  BY DEF MovedBase
<1>2. /\ new # old /\ ~Dotted(new) /\ Hosted(S \ {old}, {}, in, {}) /\ HolderOf(in, new.place) = o.i
      /\ new.place # None /\ old.place # None
      /\ ~IsAt(new, o.old) /\ ~IsAt(old, o.new)
      /\ \A s \in S : ~Dotted(s) /\ s # old /\ s # new =>
            /\ ~IsAt(s, o.old) /\ ~IsAt(s, o.new) /\ HolderOf(in, s.place) \notin {None, o.i}
            /\ o.over # None => HolderOf(in, s.place) # o.over
  <2>1. MovedOut(o, S, old, new, in)
    BY MovedIs
  <2> QED BY <2>1 DEF MovedOut
<1>3. Hosted(S, L, kin, {})
  BY BackHosted
<1>4. N = Undotted(R)
  <2>1. \A s \in S : ~Dotted(s) => (IsAt(s, o.new) <=> s = new)
    BY <1>1, OneSpot
  <2> QED BY <2>1 DEF WereIn, Undotted
<1>5. \A s \in N : s \in S /\ ~Dotted(s) /\ (o.over = None => s # new)
  BY <1>1 DEF WereIn
<1> HIDE DEF N, R, L
<1>6. ASSUME NEW s \in N  PROVE WasFor(o, in, s) = HolderOf(kin, s.place)
  <2>1. CASE s = old
    <3>1. kin[o.i] # None /\ kin[o.i].pos = old.place
      BY DEF Backs
    <3>2. HolderOf(kin, s.place) = o.i
      BY <1>2, <1>3, <2>1, <3>1, HolderIs
    <3> QED BY <1>1, <2>1, <3>2 DEF WasFor
  <2>2. CASE s = new
    <3>1. o.over # None
      BY <1>5, <2>2
    <3>2. kin[o.over] # None /\ kin[o.over].pos = new.place
      BY <1>1, <3>1 DEF Backs
    <3>3. HolderOf(kin, s.place) = o.over
      BY <1>2, <1>3, <2>2, <3>1, <3>2, HolderIs
    <3> QED BY <1>1, <1>2, <2>2, <3>3 DEF WasFor
  <2>3. CASE s # old /\ s # new
    <3> DEFINE i == HolderOf(in, s.place)
    <3>1. s \in S /\ ~Dotted(s) /\ s \notin {old}
      BY <1>5, <2>3
    <3>2. i \in Inodes /\ in[i] # None /\ in[i].pos = s.place /\ s.place # None
      BY <1>1, <3>1, Holds
    <3>3. ~IsAt(s, o.old) /\ ~IsAt(s, o.new) /\ i # o.i /\ i # o.over
      BY <1>2, <2>3, <3>1
    <3> HIDE DEF i
    <3>4. kin[i] # None /\ kin[i].pos = s.place
      BY <3>2, <3>3 DEF Backs
    <3>5. HolderOf(kin, s.place) = i
      BY <1>3, <3>2, <3>4, HolderIs
    <3> QED BY <3>3, <3>5 DEF i, WasFor
  <2> QED BY <2>1, <2>2, <2>3
<1>7. WereIn(o, S) = Undotted(R) /\ \A s \in WereIn(o, S) : WasFor(o, in, s) = HolderOf(kin, s.place)
  BY <1>4, <1>6 DEF N
<1>8. Former(o, S, in) = Entries(R, kin)
  BY <1>7, FormerIs
<1> QED BY <1>1, <1>8 DEF R

LEMMA BackGone ==
    ASSUME NEW o, NEW S, NEW cut, NEW in, NEW ng, NEW ls, BackBase(o, S, cut, in, ng, ls)
    PROVE  Base(S \ {cut}, in, ng, ls)
<1>1. Sorted(S) /\ Hosted(S, {cut}, in, {}) /\ Truthful(S, in, ng) /\ ls = Entries(S \ {cut}, in)
  BY DEF BackBase
<1>2. Hosted(S \ {cut}, {}, in, {})
  BY <1>1 DEF Hosted
<1>3. Truthful(S \ {cut}, in, ng)
  BY <1>1 DEF Truthful
<1>4. S \ {cut} \in SUBSET S
  OBVIOUS
<1>5. Sorted(S \ {cut})
  BY <1>1, <1>4, SortedFewer
<1> QED BY <1>1, <1>2, <1>3, <1>5 DEF Base

(* Inodes that differ in other things than where their entries are.         *)
Settled(in, kin) ==
    /\ \A i \in Inodes : kin[i] # None => in[i] # None /\ kin[i].pos = in[i].pos /\ (kin[i].linked <=> in[i].linked)
    /\ \A i \in Inodes : in[i] # None /\ in[i].pos # None => kin[i] # None
LEMMA SettledBase ==
    ASSUME NEW S, NEW in, NEW ng, NEW ls, Base(S, in, ng, ls), NEW kin, Settled(in, kin),
           NEW ngs, Truthful(S, kin, ngs)
    PROVE  Base(S, kin, ngs, ls)
<1>1. Sorted(S) /\ Hosted(S, {}, in, {}) /\ ls = Entries(S, in) /\ \A s \in S : s.place # None
  BY DEF Base, Sorted
<1>2. Hosted(S, {}, kin, {})
  <2>1. \A s \in S : Dotted(s) \/ s \in {} \/ \E i \in Inodes : kin[i] # None /\ kin[i].pos = s.place
    BY <1>1 DEF Hosted, Settled
  <2>2. \A i \in Inodes : kin[i] # None /\ kin[i].pos # None =>
            i \in {} \/ \E s \in S : ~Dotted(s) /\ s \notin {} /\ kin[i].pos = s.place
    BY <1>1 DEF Hosted, Settled
  <2>3. \A i, j \in Inodes : kin[i] # None /\ kin[j] # None /\ kin[i].pos = kin[j].pos
                             /\ kin[i].pos # None => i = j
    BY <1>1 DEF Hosted, Settled
  <2>4. \A i \in Inodes : kin[i] # None /\ ~kin[i].linked => kin[i].pos = None
    BY <1>1 DEF Hosted, Settled
  <2> QED BY <2>1, <2>2, <2>3, <2>4 DEF Hosted
<1>3. \A i \in Inodes : in[i] # None /\ (\E s \in S : in[i].pos = s.place)
          => kin[i] # None /\ kin[i].pos = in[i].pos
  BY <1>1 DEF Settled
<1>4. Entries(S, kin) = Entries(S, in)
  BY <1>1, <1>2, <1>3, EntriesSame
<1> QED BY <1>1, <1>2, <1>4 DEF Base

(* Which parts of an operation are known.                                   *)
LEMMA KnownSame ==
    ASSUME NEW o, NEW r, Same(o, r), NEW label, NEW S, NEW P, NEW in, NEW ng, NEW ls,
           Known(label, o, S, P, in, ng, ls)
    PROVE  Known(label, r, S, P, in, ng, ls)
<1>1. /\ \A s : Loose(label, r, s) <=> Loose(label, o, s)
      /\ Gone(label, r) <=> Gone(label, o)
      /\ Unlinks(r) <=> Unlinks(o)
      /\ Moved(label, r) <=> Moved(label, o)
      /\ Dooms(label, r) <=> Dooms(label, o)
      /\ Doomed(r) = Doomed(o)
  BY DEF Same, Loose, LastOf, Gone, Unlinks, Moved, Dooms, Doomed
<1>2. LooseOnes(label, r, S) = LooseOnes(label, o, S)
  BY <1>1 DEF LooseOnes
<1>3. Posted(label, r, S, in)
  BY <1>1, <1>2 DEF Known, Posted, Same
<1>4. Renames(label, r, S, in)
  BY <1>1 DEF Known, Renames, Same
<1>5. Awaited(label, r, S, P, in)
  BY <1>1 DEF Known, Awaited, Same
<1>6. Denied(label, r, S, in, ng)
  BY <1>2 DEF Known, Denied
<1>7. Former(r, S, in) = Former(o, S, in)
  BY DEF Former, Same
<1>8. Meant(r, ls, Entries(S, in)) <=> Meant(o, ls, Entries(S, in))
  BY DEF Meant, Same
<1>9. Recorded(label, r, S, in, ls)
  BY <1>1, <1>2, <1>7, <1>8 DEF Known, Recorded, Same
<1> QED BY <1>3, <1>4, <1>5, <1>6, <1>9 DEF Known

-----------------------------------------------------------------------------
(* What is known is about the short entries of directories; this is what    *)
(* becomes of them when slots change.  Outside a run that has, before and   *)
(* after, a part of a name at most, nothing happens.                        *)
LEMMA TieStays ==
    ASSUME NEW v, NEW w, IsDirectory(v), IsDirectory(w), NEW p, NEW q, Run(p, q),
           Piece(v, p, q), Piece(w, p, q), Agree(v, w, p, q), NEW k \in ShortEntries(v), k \notin p..q
    PROVE  k \in ShortEntries(w) /\ w[k] = v[k] /\ Tie(w, k) = Tie(v, k)
<1>1. k \in DOMAIN v /\ IsShort(v[k]) /\ k \in Nat
  BY DEF ShortEntries, IsDirectory
<1>2. k \in DOMAIN w /\ w[k] = v[k]
  BY <1>1, BlankNot DEF Agree
<1>3. p \in Nat /\ q \in Nat /\ p <= q
  BY DEF Run
<1>4. \A x \in {v, w} : q \in DOMAIN x => ~IsLong(x[q])
  <2> SUFFICES ASSUME NEW x \in {v, w}, q \in DOMAIN x, IsLong(x[q])  PROVE FALSE
    OBVIOUS
  <2>1. Blank(x[q]) \/ LongPiece(x, p, q, q) \/ IsShort(x[q])
    BY <1>3 DEF Piece
  <2> QED BY <1>3, <2>1, BlankNot, ShortNotLong DEF LongPiece
<1>5. CASE k - 1 \in p..q
  <2>1. k - 1 = q
    BY <1>1, <1>3, <1>5
  <2> QED BY <1>1, <1>2, <1>4, <2>1 DEF Tie, ShortEntries
<1>6. CASE k - 1 \notin p..q
  <2>1. (k - 1 \in DOMAIN v /\ IsLong(v[k - 1])) <=> (k - 1 \in DOMAIN w /\ IsLong(w[k - 1]))
    BY <1>6, BlankNot DEF Agree
  <2>2. k - 1 \in DOMAIN v /\ k - 1 \in DOMAIN w => w[k - 1] = v[k - 1]
    BY <1>6 DEF Agree
  <2> QED BY <1>1, <1>2, <2>1, <2>2 DEF Tie, ShortEntries
<1> QED BY <1>5, <1>6

OutOf(S, p, q) == {s \in S : s.at \notin p..q}
SpotAt(s, t, d, k, v) ==
    s.dir = d /\ s.at = k /\ s.place = PlaceOf(t, d, k) /\ s.text = v[k].text /\ s.tie = Tie(v, k)
LEMMA SpotIs == \A t, dev, d, k : SpotAt(Spot(t, dev, d, k), t, d, k, ViewOf(t, dev, d))
  BY DEF SpotAt, Spot
LEMMA SpotsOne ==
    ASSUME NEW t, NEW a, NEW u, NEW b, NEW d, NEW k,
           PlaceOf(u, d, k) = PlaceOf(t, d, k), ViewOf(u, b, d)[k].text = ViewOf(t, a, d)[k].text,
           Tie(ViewOf(u, b, d), k) = Tie(ViewOf(t, a, d), k)
    PROVE  Spot(u, b, d, k) = Spot(t, a, d, k)
  BY DEF Spot

LEMMA SpotsBoth ==
    ASSUME NEW t, NEW a, NEW u, NEW b, NEW d, IsDirectory(ViewOf(t, a, d)), IsDirectory(ViewOf(u, b, d)),
           NEW p, NEW q, Run(p, q), Piece(ViewOf(t, a, d), p, q), Piece(ViewOf(u, b, d), p, q),
           Agree(ViewOf(t, a, d), ViewOf(u, b, d), p, q),
           \A k \in DOMAIN ViewOf(t, a, d) \cap DOMAIN ViewOf(u, b, d) : PlaceOf(u, d, k) = PlaceOf(t, d, k)
    PROVE  OutOf(SpotsIn(t, a, d), p, q) \subseteq OutOf(SpotsIn(u, b, d), p, q)
<1> DEFINE v == ViewOf(t, a, d)
           w == ViewOf(u, b, d)
<1> SUFFICES ASSUME NEW s \in OutOf(SpotsIn(t, a, d), p, q)  PROVE s \in OutOf(SpotsIn(u, b, d), p, q)
  OBVIOUS
<1>1. PICK k \in ShortEntries(v) : s = Spot(t, a, d, k)
  BY DEF OutOf, SpotsIn
<1>2. s.at = k /\ k \notin p..q
  BY <1>1, SpotIs DEF OutOf, SpotAt
<1> HIDE DEF v, w
<1>3. k \in ShortEntries(w) /\ w[k] = v[k] /\ Tie(w, k) = Tie(v, k)
  BY <1>2, TieStays DEF v, w
<1>4. k \in DOMAIN v \cap DOMAIN w
  BY <1>3 DEF ShortEntries
<1>5. Spot(u, b, d, k) = Spot(t, a, d, k)
  BY <1>3, <1>4, SpotsOne DEF v, w
<1> QED BY <1>1, <1>2, <1>3, <1>5 DEF OutOf, SpotsIn, w

LEMMA SpotsOut ==
    ASSUME NEW t, NEW a, NEW u, NEW b, NEW d, IsDirectory(ViewOf(t, a, d)), IsDirectory(ViewOf(u, b, d)),
           NEW p, NEW q, Run(p, q), Piece(ViewOf(t, a, d), p, q), Piece(ViewOf(u, b, d), p, q),
           Agree(ViewOf(t, a, d), ViewOf(u, b, d), p, q),
           \A k \in DOMAIN ViewOf(t, a, d) \cap DOMAIN ViewOf(u, b, d) : PlaceOf(u, d, k) = PlaceOf(t, d, k)
    PROVE  OutOf(SpotsIn(t, a, d), p, q) = OutOf(SpotsIn(u, b, d), p, q)
<1>1. Agree(ViewOf(u, b, d), ViewOf(t, a, d), p, q)
  BY AgreeTurned
<1>2. \A k \in DOMAIN ViewOf(u, b, d) \cap DOMAIN ViewOf(t, a, d) : PlaceOf(t, d, k) = PlaceOf(u, d, k)
  OBVIOUS
<1>3. OutOf(SpotsIn(t, a, d), p, q) \subseteq OutOf(SpotsIn(u, b, d), p, q)
  BY SpotsBoth
<1>4. OutOf(SpotsIn(u, b, d), p, q) \subseteq OutOf(SpotsIn(t, a, d), p, q)
  BY <1>1, <1>2, SpotsBoth
<1> QED BY <1>3, <1>4

(* A run with a part of a name has no entry, one with a name has one.       *)
LEMMA SpotsHalf ==
    ASSUME NEW t, NEW a, NEW d, IsDirectory(ViewOf(t, a, d)), NEW p, NEW q, Half(ViewOf(t, a, d), p, q)
    PROVE  OutOf(SpotsIn(t, a, d), p, q) = SpotsIn(t, a, d)
<1> DEFINE v == ViewOf(t, a, d)
<1> SUFFICES ASSUME NEW s \in SpotsIn(t, a, d), s.at \in p..q  PROVE FALSE
  BY DEF OutOf
<1>1. PICK k \in ShortEntries(v) : s = Spot(t, a, d, k)
  BY DEF SpotsIn
<1>2. k \in p..q /\ k \in DOMAIN v /\ IsShort(v[k])
  BY <1>1, SpotIs DEF SpotAt, ShortEntries
<1>3. Blank(v[k]) \/ LongPiece(v, p, q, k)
  BY <1>2 DEF Half
<1> QED BY <1>2, <1>3, BlankNot, ShortNotLong DEF LongPiece
LEMMA SpotsFull ==
    ASSUME NEW t, NEW a, NEW d, IsDirectory(ViewOf(t, a, d)), NEW p, NEW q, Run(p, q), Full(ViewOf(t, a, d), p, q)
    PROVE  /\ SpotsIn(t, a, d) = OutOf(SpotsIn(t, a, d), p, q) \cup {Spot(t, a, d, q)}
           /\ Spot(t, a, d, q) \notin OutOf(SpotsIn(t, a, d), p, q)
<1> DEFINE v == ViewOf(t, a, d)
<1>1. q \in ShortEntries(v) /\ q \in p..q
  BY DEF Full, Run
<1>2. Spot(t, a, d, q).at = q
  BY SpotIs DEF SpotAt
<1>3. ASSUME NEW s \in SpotsIn(t, a, d), s.at \in p..q  PROVE s = Spot(t, a, d, q)
  <2>1. PICK k \in ShortEntries(v) : s = Spot(t, a, d, k)
    BY DEF SpotsIn
  <2>2. k \in p..q
    BY <1>3, <2>1, SpotIs DEF SpotAt
  <2>3. k = q
    BY <2>2, ShortInFull
  <2> QED BY <2>1, <2>3
<1>4. Spot(t, a, d, q) \in SpotsIn(t, a, d)
  BY <1>1 DEF SpotsIn
<1> QED BY <1>1, <1>2, <1>3, <1>4 DEF OutOf

(* In a directory that has the same slots, or slots with other clusters.    *)
LEMMA SpotsSame ==
    ASSUME NEW t, NEW a, NEW u, NEW b, NEW d, ChainOf(u, d) = ChainOf(t, d), ViewOf(u, b, d) = ViewOf(t, a, d)
    PROVE  SpotsIn(u, b, d) = SpotsIn(t, a, d)
<1>1. \A k : PlaceOf(u, d, k) = PlaceOf(t, d, k)
  BY PlaceSame
<1>2. \A k : Spot(u, b, d, k) = Spot(t, a, d, k)
  BY <1>1 DEF Spot
<1> QED BY <1>2 DEF SpotsIn
LEMMA SpotsAlike ==
    ASSUME NEW a, NEW b, Likes(a, b), Device(a), NEW t, NEW d, IsChain(t, d, ChainOf(t, d))
    PROVE  SpotsIn(t, b, d) = SpotsIn(t, a, d)
<1> DEFINE v == ViewOf(t, a, d)
           w == ViewOf(t, b, d)
<1>1. Alike(v, w) /\ IsDirectory(v)
  BY LikesAlike, SlotsOf, ViewDirectory
<1> HIDE DEF v, w
<1>2. /\ ShortEntries(w) = ShortEntries(v) /\ DOMAIN w = DOMAIN v
      /\ \A k \in DOMAIN v : (IsLong(w[k]) <=> IsLong(v[k])) /\ w[k].text = v[k].text /\ w[k].name = v[k].name
  BY <1>1, AlikeSlots DEF Alike
<1>3. \A k \in ShortEntries(v) : w[k].text = v[k].text /\ Tie(w, k) = Tie(v, k)
  BY <1>2 DEF Tie, ShortEntries
<1>4. \A k \in ShortEntries(v) : Spot(t, b, d, k) = Spot(t, a, d, k)
  BY <1>3, SpotsOne DEF v, w
<1>5. SpotsIn(t, b, d) = {Spot(t, b, d, k) : k \in ShortEntries(v)}
  BY <1>2 DEF SpotsIn, w
<1>6. SpotsIn(t, a, d) = {Spot(t, a, d, k) : k \in ShortEntries(v)}
  BY DEF SpotsIn, v
<1> QED BY <1>4, <1>5, <1>6

LEMMA SpotsDir == \A t, dev, d : \A s \in SpotsIn(t, dev, d) : s.dir = d
  BY SpotIs DEF SpotsIn, SpotAt
LEMMA SpotsAll ==
    ASSUME NEW t, NEW a, NEW u, NEW b, NEW ds, \A d \in ds : SpotsIn(u, b, d) = SpotsIn(t, a, d)
    PROVE  Spots(u, b, ds) = Spots(t, a, ds)
  BY DEF Spots
LEMMA SpotsMore ==
    ASSUME NEW t, NEW a, NEW u, NEW b, NEW ds, NEW d \in ds, NEW s,
           \A e \in ds \ {d} : SpotsIn(u, b, e) = SpotsIn(t, a, e),
           SpotsIn(u, b, d) = SpotsIn(t, a, d) \cup {s}
    PROVE  Spots(u, b, ds) = Spots(t, a, ds) \cup {s}
  BY DEF Spots
LEMMA SpotsLess ==
    ASSUME NEW t, NEW a, NEW u, NEW b, NEW ds, NEW d \in ds, NEW s, s.dir = d,
           \A e \in ds \ {d} : SpotsIn(u, b, e) = SpotsIn(t, a, e),
           SpotsIn(u, b, d) = SpotsIn(t, a, d) \ {s}
    PROVE  Spots(u, b, ds) = Spots(t, a, ds) \ {s}
<1>1. \A e \in ds \ {d} : s \notin SpotsIn(t, a, e)
  BY SpotsDir
<1> QED BY <1>1 DEF Spots

(* If every directory of an operation reads as before.                      *)
LEMMA KnownAs ==
    ASSUME NEW label, NEW o, NEW t, NEW a, NEW u, NEW b, NEW in, NEW ng, NEW ls,
           KnownOn(label, o, t, a, in, ng, ls),
           \A d \in DirsOf(in) \cup PendingOf(label, o) : SpotsIn(u, b, d) = SpotsIn(t, a, d)
    PROVE  KnownOn(label, o, u, b, in, ng, ls)
<1>1. Spots(u, b, DirsOf(in)) = Spots(t, a, DirsOf(in))
  BY SpotsAll
<1>2. Spots(u, b, PendingOf(label, o)) = Spots(t, a, PendingOf(label, o))
  BY SpotsAll
<1> QED BY <1>1, <1>2 DEF KnownOn
LEMMA KnownLikes ==
    ASSUME NEW a, NEW b, Likes(a, b), Device(a), NEW label, NEW o, NEW t, NEW in, Nodes(in),
           Owned(label, o, t, in), NEW ng, NEW ls, KnownOn(label, o, t, a, in, ng, ls)
    PROVE  KnownOn(label, o, t, b, in, ng, ls)
<1>1. \A d \in DirsOf(in) \cup PendingOf(label, o) : d \in HeadsOf(label, o, in)
  BY DirsHeads DEF HeadsOf
<1>2. \A d \in DirsOf(in) \cup PendingOf(label, o) : SpotsIn(t, b, d) = SpotsIn(t, a, d)
  BY <1>1, SpotsAlike DEF Owned, Chains
<1> QED BY <1>2, KnownAs
LEMMA KnownOnSame ==
    ASSUME NEW o, NEW r, Same(o, r), NEW label, NEW t, NEW dev, NEW in, NEW ng, NEW ls,
           KnownOn(label, o, t, dev, in, ng, ls)
    PROVE  KnownOn(label, r, t, dev, in, ng, ls)
<1>1. PendingOf(label, r) = PendingOf(label, o)
  BY DEF Same, PendingOf
<1> QED BY <1>1, KnownSame DEF KnownOn

-----------------------------------------------------------------------------
(* Waiting for blocks, as for Core.                                         *)
LEMMA TellsAll ==
    ASSUME NEW r, DOMAIN r = OpFields, NEW blocks, NEW ok \in Labels, NEW bad,
           NEW t, NEW a, NEW b, NEW k, NEW in, NEW ng, NEW ls, Device(a), Device(b), Device(k),
           setup.dirsync => Likes(a, k),
           KnownOn(ok, r, t, b, in, ng, ls),
           \A m : setup.dirsync /\ Device(m) /\ (\A p \in Places : m[p] \in {a[p], b[p]})
                      => KnownOn(bad, r, t, m, in, ng, ls),
           Core(Syncing(r, blocks, ok, bad), t, b, k, in)
    PROVE  Told(Syncing(r, blocks, ok, bad), t, b, k, in, ng, ls)
<1> DEFINE o == Syncing(r, blocks, ok, bad)
<1>1. /\ Same(o, r) /\ Same(r, o)
      /\ IF setup.dirsync /\ blocks # {}
         THEN o.pc = "sync" /\ o.sync = blocks /\ o.ok = ok /\ o.bad = bad
         ELSE o.pc = ok /\ o.sync = r.sync
  BY SyncingIs
<1>2. ok # "sync"
  BY LabelNotSync
<1> HIDE DEF o
<1>3. LabelOf(o) = ok
  BY <1>1, <1>2 DEF LabelOf
<1>4. KnownOn(LabelOf(o), o, t, b, in, ng, ls)
  BY <1>1, <1>3, KnownOnSame
<1>5. ASSUME o.pc = "sync", NEW bs \in (SUBSET o.sync) \ {o.sync}
      PROVE  o.undoing \/ o.after # None \/ KnownOn(o.bad, o, t, From(b, k, bs), in, ng, ls)
  <2> DEFINE m == From(b, k, bs)
             w == From(b, a, bs)
  <2>1. /\ Device(m) /\ \A p \in Places : m[p] = IF BlockOf(p) \in bs THEN b[p] ELSE k[p]
        /\ Device(w) /\ \A p \in Places : w[p] = IF BlockOf(p) \in bs THEN b[p] ELSE a[p]
    BY FromDevice
  <2>2. setup.dirsync /\ o.bad = bad
    BY <1>1, <1>2, <1>5
  <2>3. \A p \in Places : w[p] \in {a[p], b[p]}
    BY <2>1
  <2>4. o.undoing \/ o.after # None \/ (Owned(bad, o, t, in) /\ Nodes(in))
    BY <1>5, <2>2 DEF o, Core, Secure, Sound, Typed
  <2> HIDE DEF m, w
  <2>5. KnownOn(bad, o, t, w, in, ng, ls)
    BY <1>1, <2>1, <2>2, <2>3, KnownOnSame
  <2>6. Likes(w, m)
    BY <2>1, <2>2 DEF Likes, AsIn
  <2>7. o.undoing \/ o.after # None \/ KnownOn(bad, o, t, m, in, ng, ls)
    BY <2>1, <2>4, <2>5, <2>6, KnownLikes
  <2> QED BY <2>2, <2>7 DEF m
<1> QED BY <1>4, <1>5 DEF Told, o

LEMMA TellsOne ==
    ASSUME NEW r, DOMAIN r = OpFields, NEW block, NEW ok \in Labels, NEW bad,
           NEW t, NEW a, NEW b, NEW k, NEW in, NEW ng, NEW ls, Device(a), Device(b), Device(k),
           setup.dirsync => Likes(a, k),
           KnownOn(ok, r, t, b, in, ng, ls),
           r.undoing \/ r.after # None \/ KnownOn(bad, r, t, a, in, ng, ls),
           Core(Syncing(r, {block}, ok, bad), t, b, k, in)
    PROVE  Told(Syncing(r, {block}, ok, bad), t, b, k, in, ng, ls)
<1> DEFINE o == Syncing(r, {block}, ok, bad)
<1>1. /\ Same(o, r) /\ Same(r, o)
      /\ IF setup.dirsync
         THEN o.pc = "sync" /\ o.sync = {block} /\ o.ok = ok /\ o.bad = bad
         ELSE o.pc = ok /\ o.sync = r.sync
  BY SyncingIs
<1>2. ok # "sync"
  BY LabelNotSync
<1> HIDE DEF o
<1>3. LabelOf(o) = ok
  BY <1>1, <1>2 DEF LabelOf
<1>4. KnownOn(LabelOf(o), o, t, b, in, ng, ls)
  BY <1>1, <1>3, KnownOnSame
<1>5. ASSUME o.pc = "sync", NEW bs \in (SUBSET o.sync) \ {o.sync}
      PROVE  o.undoing \/ o.after # None \/ KnownOn(o.bad, o, t, From(b, k, bs), in, ng, ls)
  <2>1. setup.dirsync /\ o.bad = bad /\ bs = {}
    <3>1. setup.dirsync /\ o.bad = bad /\ o.sync = {block}
      BY <1>1, <1>2, <1>5
    <3>2. bs \subseteq {block} /\ bs # {block}
      BY <3>1, <1>5
    <3> QED BY <3>1, <3>2
  <2>2. Likes(a, k) /\ From(b, k, bs) = k
    BY <2>1, FromNone
  <2>3. o.undoing \/ o.after # None \/ (Owned(bad, o, t, in) /\ Nodes(in))
    BY <1>5, <2>1 DEF o, Core, Secure, Sound, Typed
  <2>4. o.undoing \/ o.after # None \/ KnownOn(bad, o, t, a, in, ng, ls)
    BY <1>1, KnownOnSame DEF Same
  <2>5. o.undoing \/ o.after # None \/ KnownOn(bad, o, t, k, in, ng, ls)
    BY <2>2, <2>3, <2>4, KnownLikes
  <2> QED BY <2>1, <2>2, <2>5
<1> QED BY <1>4, <1>5 DEF Told, o

LEMMA TellsNow ==
    ASSUME NEW o, o.pc # "sync", NEW t, NEW b, NEW k, NEW in, NEW ng, NEW ls,
           KnownOn(o.pc, o, t, b, in, ng, ls)
    PROVE  Told(o, t, b, k, in, ng, ls)
  BY DEF Told, LabelOf

Aware == Sane /\ Told(op, fat, buf, disk, ino, neg, listed)
LEMMA Calmly ==
    ASSUME Aware, op.pc # "sync"
    PROVE  Resolved /\ Sound(op.pc, op, fat, buf, ino) /\ KnownOn(op.pc, op, fat, buf, ino, neg, listed)
           /\ Device(buf) /\ Device(disk) /\ op.pc \in Labels
  BY Calm DEF Aware, Told, LabelOf, Resolved, Typed, Sound, Knows

(* A label is left for another, and no slot, inode or chain is changed.     *)
LEMMA GotoTold ==
    ASSUME Aware, op.pc # "sync", NEW label, label # "sync", Goto(label), fat' = fat, buf' = buf, ino' = ino,
           KnownOn(label, op, fat, buf, ino, neg', listed')
    PROVE  Told(op', fat', buf', disk', ino', neg', listed')
<1>1. Same(op, op') /\ op'.pc = label
  BY GotoIs, Calm DEF Aware, Resolved
<1>2. KnownOn(op'.pc, op', fat', buf', ino', neg', listed')
  BY <1>1, KnownOnSame
<1> QED BY <1>1, <1>2, TellsNow

LEMMA SyncOkTold == ASSUME Aware, SyncOk  PROVE Told(op', fat', buf', disk', ino', neg', listed')
<1>1. /\ op' = [op EXCEPT !.pc = op.ok, !.sync = {}] /\ op.pc = "sync"
      /\ fat' = fat /\ buf' = buf /\ ino' = ino /\ neg' = neg /\ listed' = listed
  BY DEF SyncOk, notes
<1>2. Same(op, op') /\ op'.pc = op.ok
  BY <1>1 DEF Same, OpFields, Aware, Sane, Shape
<1>3. LabelOf(op) = op.ok /\ KnownOn(op.ok, op, fat, buf, ino, neg, listed) /\ op.ok # "sync"
  BY <1>1, LabelNotSync DEF LabelOf, Aware, Told, Sane, Core, Sound, Knows
<1>4. KnownOn(op'.pc, op', fat', buf', ino', neg', listed')
  BY <1>1, <1>2, <1>3, KnownOnSame
<1> QED BY <1>2, <1>3, <1>4, TellsNow

LEMMA SyncFailTold == ASSUME Aware, SyncFail, ~broken'  PROVE Told(op', fat', buf', disk', ino', neg', listed')
<1>1. /\ op' = [op EXCEPT !.pc = op.bad, !.sync = {}] /\ op.pc = "sync"
      /\ fat' = fat /\ ino' = ino /\ neg' = neg /\ listed' = listed /\ ~op.undoing /\ op.after = None
  BY DEF SyncFail
<1>2. PICK lost1 \in (SUBSET op.sync) \ {{}} :
          disk' = From(buf, disk, op.sync \ lost1) /\ buf' = From(disk, buf, lost1)
  BY DEF SyncFail
<1> DEFINE bs == op.sync \ lost1
<1>3. bs \in (SUBSET op.sync) \ {op.sync}
  BY <1>2
<1> HIDE DEF bs
<1>4. KnownOn(op.bad, op, fat, From(buf, disk, bs), ino, neg, listed)
  BY <1>1, <1>3 DEF Aware, Told
<1>5. Same(op, op') /\ op'.pc = op.bad
  BY <1>1 DEF Same, OpFields, Aware, Sane, Shape
<1>6. Device(buf) /\ Device(disk)
  BY DEF Aware, Sane, Core, Typed
<1>7. /\ Device(From(buf, disk, bs))
      /\ \A p \in Places : From(buf, disk, bs)[p] = IF BlockOf(p) \in bs THEN buf[p] ELSE disk[p]
  BY <1>6, FromDevice
<1>8. /\ Device(buf')
      /\ \A p \in Places : buf'[p] = IF BlockOf(p) \in lost1 THEN disk[p] ELSE buf[p]
  BY <1>2, <1>6, FromDevice
<1>9. \A p \in Places : BlockOf(p) \notin op.sync => AsIn(disk[p], buf[p])
  BY <1>1 DEF Aware, Sane, Core, Synced
<1>10. Likes(From(buf, disk, bs), buf')
  BY <1>2, <1>7, <1>8, <1>9 DEF bs, Likes, AsIn
<1>11. Owned(op.bad, op, fat, ino) /\ Nodes(ino)
  BY <1>1, <1>3 DEF Aware, Sane, Core, Secure, Sound, Typed
<1>14. KnownOn(op.bad, op, fat, buf', ino, neg, listed)
  BY <1>4, <1>7, <1>10, <1>11, KnownLikes
<1>12. op.bad # "sync"
  BY <1>1, <1>3, LabelNotSync DEF Aware, Sane, Core, Secure, Sound, Knows
<1>13. KnownOn(op'.pc, op', fat', buf', ino', neg', listed')
  BY <1>1, <1>5, <1>14, KnownOnSame
<1> QED BY <1>5, <1>12, <1>13, TellsNow

LEMMA FlushTold == ASSUME Aware, Flush  PROVE Told(op', fat', buf', disk', ino', neg', listed')
<1>1. /\ op.pc = "sync" /\ fat' = fat /\ buf' = buf /\ ino' = ino /\ neg' = neg /\ listed' = listed
  BY DEF Flush, notes
<1>2. PICK b \in op.sync : /\ op.sync # {b} /\ disk' = From(buf, disk, {b})
                           /\ op' = [op EXCEPT !.sync = @ \ {b}]
  BY DEF Flush
<1>3. /\ Same(op, op') /\ op'.pc = "sync" /\ op'.ok = op.ok /\ op'.bad = op.bad
      /\ op'.sync = op.sync \ {b}
  BY <1>1, <1>2 DEF Same, OpFields, Aware, Sane, Shape
<1>4. LabelOf(op') = LabelOf(op)
  BY <1>1, <1>3 DEF LabelOf
<1>5. KnownOn(LabelOf(op'), op', fat, buf, ino, neg, listed)
  BY <1>3, <1>4, KnownOnSame DEF Aware, Told
<1>6. Device(buf) /\ Device(disk)
  BY DEF Aware, Sane, Core, Typed
<1>7. \A p \in Places : disk'[p] = IF BlockOf(p) \in {b} THEN buf[p] ELSE disk[p]
  BY <1>2, <1>6, FromDevice
<1>8. ASSUME NEW bs \in (SUBSET op'.sync) \ {op'.sync}
      PROVE  op'.undoing \/ op'.after # None \/ KnownOn(op'.bad, op', fat, From(buf, disk', bs), ino, neg, listed)
  <2> DEFINE cs == bs \cup {b}
  <2>1. cs \in (SUBSET op.sync) \ {op.sync}
    BY <1>3
  <2>2. \A p \in Places : (IF BlockOf(p) \in bs THEN buf[p] ELSE disk'[p])
                          = IF BlockOf(p) \in cs THEN buf[p] ELSE disk[p]
    BY <1>7
  <2>3. From(buf, disk', bs) = From(buf, disk, cs)
    BY <2>2 DEF From
  <2> HIDE DEF cs
  <2>4. op.undoing \/ op.after # None \/ KnownOn(op.bad, op, fat, From(buf, disk, cs), ino, neg, listed)
    BY <1>1, <2>1 DEF Aware, Told
  <2> QED BY <1>3, <2>3, <2>4, KnownOnSame DEF Same
<1> QED BY <1>1, <1>5, <1>8 DEF Told

-----------------------------------------------------------------------------
(* The records of a directory are its short entries.                        *)
LEMMA SpotsHave ==
    ASSUME NEW t, NEW a, NEW ds, NEW s \in Spots(t, a, ds)
    PROVE  /\ s.dir \in ds /\ s.at \in ShortEntries(ViewOf(t, a, s.dir)) /\ s = Spot(t, a, s.dir, s.at)
           /\ SpotAt(s, t, s.dir, s.at, ViewOf(t, a, s.dir))
<1>1. PICK d \in ds : s \in SpotsIn(t, a, d)
  BY DEF Spots
<1>2. PICK k \in ShortEntries(ViewOf(t, a, d)) : s = Spot(t, a, d, k)
  BY <1>1 DEF SpotsIn
<1>3. SpotAt(s, t, d, k, ViewOf(t, a, d))
  BY <1>2, SpotIs
<1>4. s.dir = d /\ s.at = k
  BY <1>3 DEF SpotAt
<1> QED BY <1>2, <1>3, <1>4

LEMMA SpotsWith ==
    ASSUME NEW t, NEW a, NEW ds, NEW d \in ds, NEW k \in ShortEntries(ViewOf(t, a, d))
    PROVE  Spot(t, a, d, k) \in Spots(t, a, ds)
  BY DEF Spots, SpotsIn

LEMMA RecordTie ==
    ASSUME NEW v, Whole(v), NEW r \in Records(v)
    PROVE  /\ r.at \in ShortEntries(v) /\ r.at \in 1..Len(v) /\ Len(v) \in Nat
           /\ Tie(v, r.at) = (IF r.longs > 0 THEN <<r.name>> ELSE <<>>)
<1>1. IsDirectory(v) /\ r \in Standing(v)
  BY WholeTidy
<1>2. r.at \in ShortEntries(v) /\ r.at \in 1..Len(v)
  BY <1>1, StandingAt
<1>3. CASE r \in {PlainAt(k) : k \in Bare(v)}
  <2>1. PICK k \in Bare(v) : r = PlainAt(k)
    BY <1>3
  <2>2. r.at = k /\ r.longs = 0
    BY <2>1 DEF PlainAt
  <2>3. ~(k - 1 \in DOMAIN v /\ IsLong(v[k - 1]))
    BY <1>1, <2>1 DEF Bare, IsDirectory
  <2> QED BY <1>1, <1>2, <2>2, <2>3 DEF Tie, IsDirectory
<1>4. CASE r \in LongNamed(v)
  <2>1. r.longs \in 1..MaxLongs /\ LongRun(v, r.at, r.longs) /\ r.name = v[r.at - 1].name
    BY <1>4 DEF LongNamed
  <2>2. r.at - r.longs <= r.at - 1 /\ r.at - 1 < r.at /\ r.longs > 0 /\ r.at - 1 \in Int
    <3>1. Len(v) \in Nat
      BY <1>1 DEF IsDirectory
    <3>2. \A at \in 1..Len(v), n \in 1..MaxLongs : at - n <= at - 1 /\ at - 1 < at /\ n > 0 /\ at - 1 \in Int
      BY <3>1 DEF MaxLongs
    <3> QED BY <1>2, <2>1, <3>2
  <2>3. r.at - 1 \in 1..Len(v) /\ IsLong(v[r.at - 1])
    BY <1>1, <1>2, <2>1, <2>2, InRun
  <2> QED BY <1>1, <1>2, <2>1, <2>2, <2>3 DEF Tie, IsDirectory
<1> QED BY <1>1, <1>3, <1>4 DEF Standing

LEMMA RecordOne ==
    ASSUME NEW v, Whole(v), NEW q \in Records(v), NEW r \in Records(v), q.at = r.at
    PROVE  q = r
<1>1. IsDirectory(v) /\ q \in Standing(v) /\ r \in Standing(v)
  BY WholeTidy
<1>2. \A x \in Standing(v) : x \in LongNamed(v) \/ x \in {PlainAt(k) : k \in Bare(v)}
  BY DEF Standing
<1>3. ASSUME NEW x \in Records(v), x \in LongNamed(v), NEW y \in Records(v), y \in {PlainAt(k) : k \in Bare(v)}
      PROVE  x.at # y.at
  <2>1. x.longs \in 1..MaxLongs /\ y.longs = 0
    BY <1>3 DEF LongNamed, PlainAt
  <2>2. x.longs > 0 /\ ~(y.longs > 0)
    BY <2>1 DEF MaxLongs
  <2>3. Tie(v, x.at) = <<x.name>> /\ Tie(v, y.at) = <<>>
    BY <2>2, RecordTie
  <2>4. <<x.name>> # <<>>
    OBVIOUS
  <2> QED BY <2>3, <2>4
<1>4. CASE q \in LongNamed(v) /\ r \in LongNamed(v)
  <2>1. /\ q.longs \in 1..MaxLongs /\ LongRun(v, q.at, q.longs) /\ q.at \in ShortEntries(v)
        /\ r.longs \in 1..MaxLongs /\ LongRun(v, r.at, r.longs)
        /\ q = [at |-> q.at, longs |-> q.longs, name |-> q.name]
        /\ r = [at |-> r.at, longs |-> r.longs, name |-> r.name]
        /\ q.name = v[q.at - 1].name /\ r.name = v[r.at - 1].name
    BY <1>4 DEF LongNamed
  <2>2. q.longs = r.longs
    BY <1>1, <2>1, OneRun
  <2> QED BY <2>1, <2>2
<1>5. CASE q \in {PlainAt(k) : k \in Bare(v)} /\ r \in {PlainAt(k) : k \in Bare(v)}
  BY <1>5 DEF PlainAt
<1> QED BY <1>1, <1>2, <1>3, <1>4, <1>5

LEMMA ShortRecord ==
    ASSUME NEW v, Whole(v), NEW k \in ShortEntries(v)
    PROVE  \E r \in Records(v) : r.at = k
<1>1. IsDirectory(v) /\ Records(v) = Standing(v) /\ k \in 1..Len(v) /\ DOMAIN v = 1..Len(v) /\ Len(v) \in Nat
  BY WholeTidy DEF IsDirectory, ShortEntries
<1>2. CASE k \in Bare(v)
  <2>1. PlainAt(k) \in Standing(v) /\ PlainAt(k).at = k
    BY <1>2 DEF Standing, PlainAt
  <2> QED BY <1>1, <2>1
<1>3. CASE k \notin Bare(v)
  <2>1. k - 1 \in DOMAIN v /\ IsLong(v[k - 1]) /\ k - 1 < k
    BY <1>1, <1>3 DEF Bare
  <2>2. PICK at \in ShortEntries(v), n \in 1..MaxLongs : LongRun(v, at, n) /\ at - n <= k - 1 /\ k - 1 < at
    BY <2>1 DEF Whole, Covered
  <2>3. at \in 1..Len(v)
    BY <1>1 DEF ShortEntries
  <2>4. ~(k < at)
    <3> SUFFICES ASSUME k < at  PROVE FALSE
      OBVIOUS
    <3>1. at - n <= k /\ k \in Int
      BY <1>1, <2>2, <2>3 DEF MaxLongs
    <3>2. ~IsShort(v[k])
      BY <1>1, <2>2, <3>1, InRun
    <3> QED BY <3>2 DEF ShortEntries
  <2>5. at = k
    BY <1>1, <2>2, <2>3, <2>4
  <2> DEFINE r == [at |-> at, longs |-> n, name |-> v[at - 1].name]
  <2>6. at - 1 \in DOMAIN v
    BY <2>1, <2>5
  <2>7. r \in LongNamed(v)
    BY <2>2, <2>6 DEF LongNamed
  <2> QED BY <1>1, <2>5, <2>7 DEF Standing
<1> QED BY <1>2, <1>3

(* What answers to a name, and how a record is listed.                      *)
LEMMA RecordNamed ==
    ASSUME NEW t, NEW a, NEW d, Whole(ViewOf(t, a, d)), NEW r \in Records(ViewOf(t, a, d))
    PROVE  LET v == ViewOf(t, a, d)
               s == Spot(t, a, d, r.at)
           IN /\ r.at \in ShortEntries(v) /\ s.dir = d /\ s.at = r.at /\ s.place = PlaceOf(t, d, r.at)
              /\ Dotted(s) <=> IsDots(v[r.at])
              /\ NameAs(s) = NameOf(v, r)
              /\ \A n \in Names : Called(s, n) <=> Answers(v, r, n)
<1> DEFINE v == ViewOf(t, a, d)
           s == Spot(t, a, d, r.at)
<1>1. r.at \in ShortEntries(v) /\ Tie(v, r.at) = (IF r.longs > 0 THEN <<r.name>> ELSE <<>>)
  BY RecordTie
<1>2. SpotAt(s, t, d, r.at, v)
  BY SpotIs
<1> HIDE DEF s, v
<1>3. s.text = v[r.at].text /\ s.dir = d /\ s.at = r.at /\ s.place = PlaceOf(t, d, r.at)
  BY <1>2 DEF SpotAt
<1>4. s.tie = (IF r.longs > 0 THEN <<r.name>> ELSE <<>>)
  BY <1>1, <1>2 DEF SpotAt
<1>5. Dotted(s) <=> IsDots(v[r.at])
  BY <1>3 DEF Dotted, IsDots
<1>6. NameAs(s) = NameOf(v, r)
  <2>1. CASE r.longs > 0
    <3>1. s.tie # <<>> /\ s.tie[1] = r.name
      BY <1>4, <2>1
    <3> QED BY <2>1, <3>1 DEF NameAs, NameOf
  <2>2. CASE ~(r.longs > 0)
    <3>1. s.tie = <<>>
      BY <1>4, <2>2
    <3> QED BY <1>3, <2>2, <3>1 DEF NameAs, NameOf, ShortName
  <2> QED BY <2>1, <2>2
<1>7. ASSUME NEW n \in Names  PROVE Called(s, n) <=> Answers(v, r, n)
  <2>1. s.tie = <<n>> <=> r.longs > 0 /\ r.name = n
    BY <1>4
  <2> QED BY <1>3, <2>1 DEF Called, Answers
<1> QED BY <1>1, <1>3, <1>5, <1>6, <1>7 DEF s, v

LEMMA ListedIs ==
    ASSUME \A d \in DirsOf(ino) : Whole(View(buf, d))
    PROVE  Listed = Entries(Spots(fat, buf, DirsOf(ino)), ino)
<1> DEFINE ds == DirsOf(ino)
           S == Spots(fat, buf, ds)
<1>1. \A d, r : ObjectAt(Place(d, r.at)) = HolderOf(ino, PlaceOf(fat, d, r.at))
  <2>1. \A p : ObjectAt(p) = HolderOf(ino, p)
    BY DEF ObjectAt, At, HolderOf
  <2> QED BY <2>1, PlaceNow
<1>2. \A d \in ds : Whole(ViewOf(fat, buf, d))
  BY ViewNow
<1>3. ASSUME NEW d \in ds, NEW r \in Records(ViewOf(fat, buf, d))
      PROVE  LET s == Spot(fat, buf, d, r.at)
             IN /\ Entry(d, ViewOf(fat, buf, d), r) = EntryAs(s, HolderOf(ino, s.place))
                /\ s \in S /\ (Dotted(s) <=> IsDots(ViewOf(fat, buf, d)[r.at]))
  <2> DEFINE s == Spot(fat, buf, d, r.at)
             v == ViewOf(fat, buf, d)
  <2>1. /\ r.at \in ShortEntries(v) /\ s.dir = d /\ s.at = r.at /\ s.place = PlaceOf(fat, d, r.at)
        /\ Dotted(s) <=> IsDots(v[r.at])
        /\ NameAs(s) = NameOf(v, r)
    BY <1>2, RecordNamed
  <2>2. s \in S
    BY <2>1, SpotsWith
  <2> HIDE DEF s, v
  <2>3. Entry(d, v, r) = EntryAs(s, HolderOf(ino, s.place))
    BY <1>1, <2>1 DEF Entry, EntryAs
  <2> QED BY <2>1, <2>2, <2>3 DEF s, v
<1>4. Listed \subseteq Entries(S, ino)
  <2> SUFFICES ASSUME NEW e \in Listed  PROVE e \in Entries(S, ino)
    OBVIOUS
  <2>1. PICK d \in ds : e \in ListedIn(d)
    BY DirsNow DEF Listed
  <2>2. PICK r \in Records(ViewOf(fat, buf, d)) :
           ~IsDots(ViewOf(fat, buf, d)[r.at]) /\ e = Entry(d, ViewOf(fat, buf, d), r)
    BY <2>1, ViewNow DEF ListedIn
  <2> QED BY <1>3, <2>2 DEF Entries
<1>5. Entries(S, ino) \subseteq Listed
  <2> SUFFICES ASSUME NEW e \in Entries(S, ino)  PROVE e \in Listed
    OBVIOUS
  <2>1. PICK s \in S : ~Dotted(s) /\ e = EntryAs(s, HolderOf(ino, s.place))
    BY DEF Entries
  <2>2. s.dir \in ds /\ s.at \in ShortEntries(ViewOf(fat, buf, s.dir)) /\ s = Spot(fat, buf, s.dir, s.at)
    BY SpotsHave
  <2>3. PICK r \in Records(ViewOf(fat, buf, s.dir)) : r.at = s.at
    BY <1>2, <2>2, ShortRecord
  <2>4. s = Spot(fat, buf, s.dir, r.at)
    BY <2>2, <2>3
  <2>5. e = Entry(s.dir, ViewOf(fat, buf, s.dir), r) /\ ~IsDots(ViewOf(fat, buf, s.dir)[r.at])
    BY <1>3, <2>1, <2>2, <2>3, <2>4
  <2>6. e \in ListedIn(s.dir)
    BY <2>3, <2>5, ViewNow DEF ListedIn
  <2> QED BY <2>2, <2>6, DirsNow DEF Listed
<1> QED BY <1>4, <1>5

-----------------------------------------------------------------------------
(* Steps that change the operation only.                                    *)
LEMMA BaseFewer ==
    ASSUME NEW S, NEW in, NEW ng, NEW ls, Base(S, in, ng, ls), NEW ngs \in SUBSET ng
    PROVE  Base(S, in, ngs, ls)
  BY DEF Base, Truthful

(* The part of an operation that says what it is for.                       *)
Aims(o, r) ==
    o.call = r.call /\ o.d = r.d /\ o.n = r.n /\ o.i = r.i /\ o.over = r.over /\ o.old = r.old /\ o.new = r.new
LEMMA MeantSame ==
    ASSUME NEW o, NEW r, Aims(o, r), NEW ls, NEW then, Meant(o, ls, then)  PROVE Meant(r, ls, then)
<1> DEFINE Goal(call, d, n, i, over) ==
              \/ /\ call \in {"create", "mkdir"}
                 /\ {e \in ls : e.dir = d /\ e.name = n} = {}
                 /\ \E j \in Inodes : /\ OfThem(ls, {j}) = {}
                                      /\ then = ls \cup {[dir |-> d, name |-> n, obj |-> j]}
              \/ call \in {"unlink", "rmdir"} /\ then = ls \ OfThem(ls, {i})
              \/ /\ call = "rename" /\ over = None
                 /\ {e \in ls : e.dir = d /\ e.name = n} = {}
                 /\ then = (ls \ OfThem(ls, {i})) \cup {[dir |-> d, name |-> n, obj |-> i]}
              \/ /\ call = "rename" /\ over # None
                 /\ then = (ls \ OfThem(ls, {i, over}))
                              \cup {[dir |-> e.dir, name |-> e.name, obj |-> i] : e \in OfThem(ls, {over})}
<1>1. \A x : Meant(x, ls, then) <=> Goal(x.call, x.d, x.n, x.i, x.over)
  BY DEF Meant
<1> HIDE DEF Goal
<1> QED BY <1>1 DEF Aims

LEMMA FormerSame ==
    ASSUME NEW o, NEW r, Aims(o, r), NEW S, NEW in  PROVE Former(o, S, in) = Former(r, S, in)
<1> DEFINE Goal(old, new, i, over) ==
              {EntryAs(s, IF s.dir = old.d /\ s.at = old.at THEN i
                          ELSE IF s.dir = new.d /\ s.at = new.at THEN over ELSE HolderOf(in, s.place)) :
                  s \in {q \in S : ~Dotted(q) /\ ~(over = None /\ q.dir = new.d /\ q.at = new.at)}}
<1>1. \A x : Former(x, S, in) = Goal(x.old, x.new, x.i, x.over)
  BY DEF Former, IsAt
<1> HIDE DEF Goal
<1> QED BY <1>1 DEF Aims

LEMMA MovedSame ==
    ASSUME NEW o, NEW r, Aims(o, r), NEW S, NEW old, NEW new, NEW in, NEW ng, NEW ls,
           MovedBase(o, S, old, new, in, ng, ls)
    PROVE  MovedBase(r, S, old, new, in, ng, ls)
<1>1. ls = Former(r, S, in)
  BY FormerSame DEF MovedBase
<1> QED BY <1>1 DEF MovedBase, Aims, IsAt

LEMMA GoneSame ==
    ASSUME NEW o, NEW r, Aims(o, r), NEW S, NEW in, NEW ng, NEW ls, GoneBase(o, S, in, ng, ls), NEW ngs \in SUBSET ng
    PROVE  GoneBase(r, S, in, ngs, ls)
<1>1. Meant(r, ls, Entries(S, in))
  BY MeantSame DEF GoneBase
<1>2. Truthful(S, in, ngs)
  BY DEF GoneBase, Truthful
<1>3. (Unlinks(r) <=> Unlinks(o)) /\ Doomed(r) = Doomed(o) /\ (Takes(r) <=> Takes(o))
  BY DEF Aims, Unlinks, Doomed, Takes
<1> QED BY <1>1, <1>2, <1>3 DEF GoneBase, Aims

LEMMA AliasFor ==
    ASSUME NEW n \in Names, NEW v, CreateShortname(n, v) # None
    PROVE  AliasOf(CreateShortname(n, v), n)
<1> DEFINE alias == Form[n].alias
           unused == {j \in DOMAIN alias : alias[j] \notin ShortNames(v)}
           least == CHOOSE j \in unused : \A m \in unused : j <= m
<1>1. alias \in Seq(ShortTexts)
  BY FormAssumption
<1>2. DOMAIN alias = 1..Len(alias)
  BY <1>1
<1>3. CASE ~Form[n].tail
  BY <1>3 DEF CreateShortname, AliasOf
<1>4. CASE Form[n].tail
  <2>1. unused # {} /\ CreateShortname(n, v) = alias[least]
    BY <1>4 DEF CreateShortname
  <2>2. unused \subseteq Nat
    BY <1>2
  <2>3. \E j \in unused : \A m \in unused : j <= m
    BY <2>1, <2>2, Least
  <2>4. least \in unused
    BY <2>3
  <2>5. least \in DOMAIN alias
    BY <2>4
  <2> QED BY <1>4, <2>1, <2>5 DEF AliasOf
<1> QED BY <1>3, <1>4

LEMMA BuildTold == ASSUME Aware, Build  PROVE Told(op', fat', buf', disk', ino', neg', listed')
<1> DEFINE v == ViewOf(fat, buf, op.d)
           alias == CreateShortname(op.n, v)
           nr == Form[op.n].longs + 1
           first == FreeRun(v, nr, MaxSlots)
           slots == BuildSlots(op.n, alias, Attr, op.start)
           S == Spots(fat, buf, DirsOf(ino))
           P == Spots(fat, buf, PendingOf("build", op))
<1>1. /\ op.pc = "build" /\ fat' = fat /\ buf' = buf /\ disk' = disk /\ ino' = ino
      /\ neg' = neg /\ listed' = listed
  BY DEF Build, volume, notes
<1>2. Sound("build", op, fat, buf, ino) /\ Known("build", op, S, P, ino, neg, listed) /\ DOMAIN op = OpFields
  BY <1>1, Calmly DEF KnownOn, Resolved
<1>3. op.d \in DirsOf(ino) /\ op.n \in Names /\ op.start = op.start
  BY <1>2 DEF Sound, Knows, Rests
<1> HIDE DEF S
<1>4. Base(S, ino, neg, listed) /\ Ready(op, S, P, ino)
  BY <1>2, AddsIs DEF Adds
<1>5. \/ Goto("refused")
      \/ None # alias /\ op' = [op EXCEPT !.pc = "fill", !.first = first, !.slots = slots]
  BY ViewNow DEF Build
<1>6. CASE Goto("refused")
  <2>1. KnownOn("refused", op, fat, buf, ino, neg, listed)
    BY <1>4, BaseIs DEF KnownOn, S, Quiet
  <2> QED BY <1>1, <1>6, <2>1, GotoTold
<1>7. CASE None # alias /\ op' = [op EXCEPT !.pc = "fill", !.first = first, !.slots = slots]
  <2>1. Attr \in {"file", "dir"} /\ alias \in ShortTexts /\ AliasOf(alias, op.n)
    BY <1>3, <1>7, AliasIn, AliasFor DEF Attr
  <2>2. Writable(op.n, alias, Attr) /\ Built(slots, op.n, op.start)
    BY <1>3, <2>1, FormAssumption DEF Writable, Built
  <2>3. Len(slots) = Form[op.n].longs + 1
    BY <1>3, <2>2, BuiltIs
  <2>4. slots[Len(slots)].text = alias
    BY <2>2, <2>3, BuiltShort
  <2>5. DOMAIN Form[op.n].alias \subseteq Nat
    <3>1. Form[op.n].alias \in Seq(ShortTexts)
      BY <1>3, FormAssumption
    <3> QED BY <3>1
  <2>6. alias \notin ShortNames(v)
    BY <1>7, <2>5, AliasUnused
  <2>7. \A s \in S : s.dir = op.d => s.text # alias
    <3> SUFFICES ASSUME NEW s \in S, s.dir = op.d  PROVE s.text # alias
      OBVIOUS
    <3>1. s.at \in ShortEntries(v) /\ s.text = v[s.at].text
      BY SpotsHave DEF S, SpotAt
    <3> QED BY <2>6, <3>1 DEF ShortNames
  <2> HIDE DEF slots, first
  <2>8. /\ op'.pc = "fill" /\ op'.slots = slots
        /\ op'.call = op.call /\ op'.d = op.d /\ op'.n = op.n /\ op'.i = op.i /\ op'.over = op.over
        /\ op'.start = op.start /\ op'.old = op.old
    BY <1>2, <1>7 DEF OpFields
  <2> HIDE DEF alias
  <2>9. Fresh(op', S)
    BY <2>1, <2>4, <2>7, <2>8 DEF Fresh
  <2>10. Ready(op', S, P, ino)
    BY <1>4, <2>8 DEF Ready
  <2>11. PendingOf("fill", op') = PendingOf("build", op)
    BY <2>8 DEF PendingOf, Rests
  <2>12. Known("fill", op', S, P, ino, neg, listed)
    BY <1>4, <2>9, <2>10, AddsIs DEF Adds
  <2>13. KnownOn("fill", op', fat, buf, ino, neg, listed)
    BY <2>11, <2>12 DEF KnownOn, S
  <2> QED BY <1>1, <2>8, <2>13, TellsNow
<1> QED BY <1>5, <1>6, <1>7

LEMMA KeptTold == ASSUME Aware, Kept  PROVE Told(op', fat', buf', disk', ino', neg', listed')
<1> DEFINE S == Spots(fat, buf, DirsOf(ino))
           P == Spots(fat, buf, PendingOf("kept", op))
           Q == Spots(fat, buf, PendingOf("undo_dotdot", op))
<1>1. /\ op.pc = "kept" /\ fat' = fat /\ buf' = buf /\ disk' = disk /\ ino' = ino
      /\ neg' = neg /\ listed' = listed
  BY DEF Kept, volume, notes
<1>2. Known("kept", op, S, P, ino, neg, listed)
  BY <1>1, Calmly DEF KnownOn
<1> HIDE DEF S, P, Q
<1>3. CASE op.call # "rename"
  <2>1. Base(S, ino, neg, listed)
    BY <1>2, <1>3, BaseIs DEF Quiet
  <2>2. KnownOn("refused", op, fat, buf, ino, neg, listed)
    BY <2>1, BaseIs DEF KnownOn, S, Quiet
  <2> QED BY <1>1, <1>3, <2>2, GotoTold DEF Kept
<1>4. CASE op.call = "rename"
  <2>1. Moved("kept", op) /\ Moved("undo_dotdot", op)
    BY <1>4 DEF Moved, Moves
  <2>2. PICK old, new : MovedBase(op, S, old, new, ino, neg, listed)
    BY <1>2, <1>4, <2>1, MovedKnows
  <2>3. Known("undo_dotdot", op, S, Q, ino, neg, listed)
    BY <1>4, <2>1, <2>2, MovedKnown
  <2>4. KnownOn("undo_dotdot", op, fat, buf, ino, neg, listed)
    BY <2>3 DEF KnownOn, S, Q
  <2> QED BY <1>1, <1>4, <2>4, GotoTold DEF Kept
<1> QED BY <1>3, <1>4

LEMMA LeavesTold ==
    ASSUME Aware, op.pc \in {"dotdot", "count"}, Leaves,
           fat' = fat, buf' = buf, disk' = disk, ino' = ino, neg' = neg, listed' = listed
    PROVE  Told(op', fat', buf', disk', ino', neg', listed')
<1> DEFINE l == op.pc
           S == Spots(fat, buf, DirsOf(ino))
           P == Spots(fat, buf, PendingOf(l, op))
           Q == Spots(fat, buf, PendingOf("rm", op'))
<1>1. Sound(l, op, fat, buf, ino) /\ Known(l, op, S, P, ino, neg, listed) /\ DOMAIN op = OpFields /\ l \in Moves
  BY Calmly DEF KnownOn, Resolved, Moves
<1>2. op.call = "rename" /\ ~op.undoing
  BY <1>1 DEF Sound, Knows, Moves
<1>3. op'.pc = "rm" /\ op'.cut = op'.old /\ op'.undoing = op.undoing /\ Aims(op, op') /\ op'.call = op.call
  BY <1>1 DEF Leaves, OpFields, Aims
<1>4. Moved(l, op) /\ Moved("rm", op')
  BY <1>1, <1>2, <1>3 DEF Moved, Moves
<1> HIDE DEF S, P, Q, l
<1>5. PICK old, new : MovedBase(op, S, old, new, ino, neg, listed)
  BY <1>1, <1>2, <1>4, MovedKnows
<1>6. MovedBase(op', S, old, new, ino, neg, listed)
  BY <1>3, <1>5, MovedSame
<1>7. Known("rm", op', S, Q, ino, neg, listed)
  BY <1>2, <1>3, <1>4, <1>6, MovedKnown
<1>8. KnownOn("rm", op', fat, buf, ino, neg, listed)
  BY <1>7 DEF KnownOn, S, Q
<1> QED BY <1>3, <1>8, TellsNow

LEMMA CountTold == ASSUME Aware, Count  PROVE Told(op', fat', buf', disk', ino', neg', listed')
<1>1. /\ op.pc = "count" /\ fat' = fat /\ buf' = buf /\ disk' = disk /\ ino' = ino
      /\ neg' = neg /\ listed' = listed /\ op' = [op EXCEPT !.pc = "rm", !.cut = op.old]
  BY DEF Count, volume, notes
<1> QED BY <1>1, LeavesTold DEF Leaves

LEMMA RemoveLongsTold == ASSUME Aware, RemoveLongs  PROVE Told(op', fat', buf', disk', ino', neg', listed')
<1> DEFINE after == IF op.undoing THEN "refused" ELSE "removed"
           S == Spots(fat, buf, DirsOf(ino))
           P == Spots(fat, buf, PendingOf("cleared", op))
           Q == Spots(fat, buf, PendingOf("clear", op'))
<1>1. /\ op.pc = "cleared" /\ fat' = fat /\ buf' = buf /\ disk' = disk /\ ino' = ino
      /\ neg' \in SUBSET neg /\ listed' = listed
      /\ op' = Clearing(op.cut.d, op.cut.at - op.cut.longs, op.cut.at - Cardinality(CutFirst), after)
  BY DEF RemoveLongs, volume, notes, Forget
<1>2. Known("cleared", op, S, P, ino, neg, listed) /\ (op.undoing => op.call = "rename")
  BY <1>1, Calmly DEF KnownOn, Sound, Knows
<1>3. op'.pc = "clear" /\ op'.after = after /\ Aims(op, op') /\ op'.undoing = op.undoing
  BY <1>1, ClearingIs DEF Aware, Sane, Aims
<1> HIDE DEF S, P, Q
<1>4. Known("clear", op', S, Q, ino, neg', listed)
  <2>1. CASE op.undoing
    <3>1. Base(S, ino, neg, listed)
      BY <1>2, <2>1, BaseIs DEF Quiet
    <3>2. Base(S, ino, neg', listed)
      BY <1>1, <3>1, BaseFewer
    <3> QED BY <1>3, <2>1, <3>2, BaseIs DEF Quiet
  <2>2. CASE ~op.undoing
    <3>1. GoneBase(op, S, ino, neg, listed)
      BY <1>2, <2>2, GoneIs DEF Gone
    <3>2. GoneBase(op', S, ino, neg', listed)
      BY <1>1, <1>3, <3>1, GoneSame
    <3> QED BY <1>3, <2>2, <3>2, GoneIs DEF Gone
  <2> QED BY <2>1, <2>2
<1>5. KnownOn("clear", op', fat, buf, ino, neg', listed)
  BY <1>4 DEF KnownOn, S, Q
<1> QED BY <1>1, <1>3, <1>5, TellsNow

LEMMA ClearedTold ==
    ASSUME Aware, Clear, op.from > op.to
    PROVE  Told(op', fat', buf', disk', ino', neg', listed')
<1> DEFINE S == Spots(fat, buf, DirsOf(ino))
           P == Spots(fat, buf, PendingOf("clear", op))
           Q == Spots(fat, buf, PendingOf(op.after, op))
<1>1. /\ op.pc = "clear" /\ fat' = fat /\ buf' = buf /\ disk' = disk /\ ino' = ino
      /\ neg' = neg /\ listed' = listed /\ Goto(op.after)
  BY DEF Clear, volume, notes
<1>2. Known("clear", op, S, P, ino, neg, listed) /\ op.after \in {"refused", "removed"}
      /\ (op.after = "removed" => ~op.undoing)
  BY <1>1, Calmly DEF KnownOn, Sound, Knows
<1> HIDE DEF S, P, Q
<1>3. Known(op.after, op, S, Q, ino, neg, listed)
  <2>1. CASE op.after = "refused"
    <3>1. Base(S, ino, neg, listed)
      BY <1>2, <2>1, BaseIs DEF Quiet
    <3> QED BY <2>1, <3>1, BaseIs DEF Quiet
  <2>2. CASE op.after = "removed"
    <3>1. GoneBase(op, S, ino, neg, listed)
      BY <1>2, <2>2, GoneIs DEF Gone
    <3> QED BY <1>2, <2>2, <3>1, GoneIs DEF Gone
  <2> QED BY <1>2, <2>1, <2>2
<1>4. KnownOn(op.after, op, fat, buf, ino, neg, listed)
  BY <1>3 DEF KnownOn, S, Q
<1> QED BY <1>1, <1>2, <1>4, GotoTold

LEMMA ReturnTold == ASSUME Aware, Return  PROVE Told(op', fat', buf', disk', ino', neg', listed')
<1> DEFINE S == Spots(fat, buf, DirsOf(ino))
           P == Spots(fat, buf, PendingOf(op.pc, op))
           Q == Spots(fat, buf, PendingOf("idle", op'))
<1>1. /\ op.pc \in {"ok", "error"} /\ op' = Resting /\ fat' = fat /\ buf' = buf /\ disk' = disk
      /\ ino' = ino /\ neg' = neg /\ listed' = Listed
  BY DEF Return, volume
<1>2. Sound(op.pc, op, fat, buf, ino) /\ Known(op.pc, op, S, P, ino, neg, listed)
  BY <1>1, Calmly DEF KnownOn
<1>3. \A d \in DirsOf(ino) : Whole(View(buf, d))
  BY <1>1, <1>2, DirWhole, ViewNow DEF Fill
<1>4. Listed = Entries(S, ino)
  BY <1>3, ListedIs
<1> HIDE DEF S, P, Q
<1>5. Base(S, ino, neg, Entries(S, ino))
  <2>1. CASE op.pc = "ok"
    BY <1>2, <2>1, OkIs DEF OkBase, Base
  <2>2. CASE op.pc = "error"
    BY <1>2, <2>2, BaseIs DEF Quiet, Base
  <2> QED BY <1>1, <2>1, <2>2
<1>6. Known("idle", op', S, Q, ino, neg', listed')
  BY <1>1, <1>4, <1>5, BaseIs DEF Quiet
<1>7. KnownOn("idle", op', fat, buf, ino, neg', listed')
  BY <1>6 DEF KnownOn, S, Q
<1>8. op'.pc = "idle"
  BY <1>1, RestingIs
<1> QED BY <1>1, <1>7, <1>8, TellsNow

(* Clusters are given back.                                                 *)
LEMMA RidSpots ==
    ASSUME NEW t, NEW heads, Chains(t, heads), NEW kept \in SUBSET heads, NEW cs, Apart(t, kept, cs),
           NEW u, Rid(t, u, cs), NEW dev, NEW ds \in SUBSET kept
    PROVE  Spots(u, Emptied(dev, cs), ds) = Spots(t, dev, ds)
<1>1. /\ \A r \in kept : ChainOf(u, r) = ChainOf(t, r)
      /\ \A r \in kept : ViewOf(u, Emptied(dev, cs), r) = ViewOf(t, dev, r)
  BY RidViews
<1>2. \A d \in ds : SpotsIn(u, Emptied(dev, cs), d) = SpotsIn(t, dev, d)
  BY <1>1, SpotsSame
<1> QED BY <1>2, SpotsAll

LEMMA RefusedTold == ASSUME Aware, Refused  PROVE Told(op', fat', buf', disk', ino', neg', listed')
<1> DEFINE s == op.start
           cs == IF op.call = "mkdir" THEN {s} ELSE {}
           re == "refused"
           kept == {Root} \cup StartsOf(ino)
           heads == HeadsOf(re, op, ino)
           S == Spots(fat, buf, DirsOf(ino))
           P == Spots(fat, buf, PendingOf(re, op))
           Q == Spots(fat', buf', PendingOf("error", op'))
<1>1. /\ op.pc = re /\ ino' = ino /\ Goto("error") /\ neg' = neg /\ listed' = listed
      /\ fat' = IF op.call = "mkdir" /\ s # None THEN [fat EXCEPT ![s] = "free"] ELSE fat
      /\ buf' = Emptied(buf, cs)
  BY DEF Refused, Done, Forgotten, Emptied, notes
<1>2. Resolved /\ Sound(re, op, fat, buf, ino) /\ Nodes(ino) /\ Known(re, op, S, P, ino, neg, listed)
  BY <1>1, Calmly DEF Resolved, Typed, KnownOn
<1>3. s # None => op.call = "mkdir" /\ s \in Clusters
  BY <1>2 DEF Sound, Knows
<1>4. op'.pc = "error"
  BY <1>1, <1>2, GotoIs DEF Resolved
<1>5. Rid(fat, fat', cs)
  BY <1>1, <1>2, <1>3 DEF Rid, Resolved, Typed
<1>6. Chains(fat, heads) /\ kept \subseteq heads
  BY <1>2 DEF Sound, Owned, HeadsOf
<1>7. Apart(fat, kept, cs)
  <2>1. CASE s = None
    <3>1. \A r \in kept : ClustersOf(fat, r) \subseteq Clusters
      BY <1>6, ChainCells DEF Chains
    <3> QED BY <2>1, <3>1, RootAssumption DEF Apart
  <2>2. CASE s # None
    <3>1. PendingOf(re, op) = {s}
      BY <2>2 DEF PendingOf, Rests
    <3>2. s \in heads /\ s \notin kept
      BY <1>2, <3>1 DEF HeadsOf, Sound, Owned
    <3> HIDE DEF heads, kept
    <3>3. s \in ClustersOf(fat, s)
      BY <1>6, <3>2, ChainCells DEF Chains
    <3>4. \A r \in kept : ClustersOf(fat, r) \cap ClustersOf(fat, s) = {}
      BY <1>6, <3>2 DEF Chains
    <3> QED BY <3>3, <3>4 DEF Apart
  <2> QED BY <2>1, <2>2
<1>8. DirsOf(ino) \subseteq kept
  BY <1>2 DEF DirsOf, StartsOf, Nodes
<1> HIDE DEF S, P, Q, cs, kept, heads
<1>9. Spots(fat', buf', DirsOf(ino)) = S
  BY <1>1, <1>5, <1>6, <1>7, <1>8, RidSpots DEF S
<1>10. Base(S, ino, neg, listed)
  BY <1>2, BaseIs DEF Quiet
<1>11. Known("error", op', S, Q, ino, neg, listed)
  BY <1>10, BaseIs DEF Quiet
<1>12. KnownOn("error", op', fat', buf', ino, neg, listed)
  BY <1>9, <1>11 DEF KnownOn, Q
<1> QED BY <1>1, <1>4, <1>12, TellsNow

-----------------------------------------------------------------------------
(* An operation ends, and inodes come into use or out of it.                *)
LEMMA EndsTold ==
    ASSUME Aware, op.pc # "sync", Goto("ok"), fat' = fat, buf' = buf,
           OkBase(op, Spots(fat, buf, DirsOf(ino')), ino', neg', listed')
    PROVE  Told(op', fat', buf', disk', ino', neg', listed')
<1>1. Same(op, op') /\ op'.pc = "ok"
  BY GotoIs, Calm DEF Aware, Resolved
<1>2. KnownOn("ok", op, fat', buf', ino', neg', listed')
  BY OkIs DEF KnownOn
<1>3. KnownOn(op'.pc, op', fat', buf', ino', neg', listed')
  BY <1>1, <1>2, KnownOnSame
<1> QED BY <1>1, <1>3, TellsNow

LEMMA DirsStart == ASSUME NEW in, Nodes(in)  PROVE DirsOf(in) \subseteq {Root} \cup StartsOf(in)
  BY DEF DirsOf, StartsOf, Nodes

(* Inodes that keep their clusters, and fewer directories.                  *)
LEMMA SpotsFewer ==
    ASSUME NEW t, NEW a, NEW ds, NEW es \in SUBSET ds
    PROVE  /\ Spots(t, a, es) \in SUBSET Spots(t, a, ds)
           /\ \A s \in Spots(t, a, ds) : s \notin Spots(t, a, es) => s.dir \in ds \ es
<1>1. Spots(t, a, es) \subseteq Spots(t, a, ds)
  BY DEF Spots
<1>2. ASSUME NEW s \in Spots(t, a, ds), s \notin Spots(t, a, es)  PROVE s.dir \in ds \ es
  <2>1. s.dir \in ds /\ s.at \in ShortEntries(ViewOf(t, a, s.dir)) /\ s = Spot(t, a, s.dir, s.at)
    BY SpotsHave
  <2> QED BY <1>2, <2>1, SpotsWith
<1> QED BY <1>1, <1>2

LEMMA RemovedTold == ASSUME Aware, Removed  PROVE Told(op', fat', buf', disk', ino', neg', listed')
<1> DEFINE S == Spots(fat, buf, DirsOf(ino))
           T == Spots(fat, buf, DirsOf(ino'))
           P == Spots(fat, buf, PendingOf("removed", op))
<1>1. /\ op.pc = "removed" /\ op.call \in {"unlink", "rmdir"} /\ Goto("ok")
      /\ fat' = fat /\ buf' = buf /\ disk' = disk /\ listed' = listed
      /\ ino' = [ino EXCEPT ![op.i].pos = None, ![op.i].linked = FALSE]
      /\ neg' \subseteq neg \cup {<<op.d, op.n>>}
  BY DEF Removed, Done, volume
<1>2. Resolved /\ Sound("removed", op, fat, buf, ino) /\ Known("removed", op, S, P, ino, neg, listed)
      /\ Nodes(ino)
  BY <1>1, Calmly DEF Resolved, KnownOn, Typed
<1>3. /\ op.i \in Inodes /\ ino[op.i] # None /\ (op.undoing => op.call = "rename")
      /\ op.d \in DirsOf(ino) /\ op.n \in Names
  BY <1>1, <1>2 DEF Sound, Knows, Rests
<1>4. ino[op.i] \in Inode
  BY <1>2, <1>3 DEF Nodes
<1>5. /\ ino'[op.i] \in Inode /\ ino'[op.i].start = ino[op.i].start /\ ino'[op.i].dir = ino[op.i].dir
      /\ ino'[op.i].pos = None /\ ~ino'[op.i].linked /\ ino'[op.i] # None
      /\ \A i \in Inodes : i # op.i => ino'[i] = ino[i]
  BY <1>1, <1>2, <1>3, <1>4, InodeAssumption DEF Nodes, Inode
<1>6. /\ Unlinks(op) /\ Takes(op) /\ Doomed(op) = op.i /\ op.call # "rename" /\ ~op.undoing
      /\ Gone("removed", op)
  BY <1>1, <1>3 DEF Unlinks, Takes, Doomed, Gone
<1>7. Withdraws(op, ino, ino')
  BY <1>3, <1>5, <1>6 DEF Withdraws
<1>8. StartsOf(ino') = StartsOf(ino)
  BY <1>3, <1>5 DEF StartsOf
<1>9. DirsOf(ino') \subseteq DirsOf(ino)
      /\ DirsOf(ino) \ DirsOf(ino') \subseteq (IF ino[op.i].dir THEN {ino[op.i].start} ELSE {})
  <2>1. DirsOf(ino') \subseteq DirsOf(ino)
    BY <1>3, <1>5 DEF DirsOf
  <2>2. ASSUME NEW j \in Inodes, ino[j] # None, ino[j].linked, ino[j].dir, ino[j].start \notin DirsOf(ino')
        PROVE  j = op.i
    BY <1>5, <2>2 DEF DirsOf
  <2>3. \A d \in DirsOf(ino) \ DirsOf(ino') :
           \E j \in Inodes : ino[j] # None /\ ino[j].linked /\ ino[j].dir /\ d = ino[j].start
    BY DEF DirsOf
  <2> QED BY <2>1, <2>2, <2>3
<1>10. T \in SUBSET S /\ \A s \in S : s \notin T => s.dir \in DirsOf(ino) \ DirsOf(ino')
  BY <1>9, SpotsFewer
<1> HIDE DEF S, P, T
<1>11. GoneBase(op, S, ino, neg, listed)
  BY <1>2, <1>6, GoneIs
<1>12. \A s \in S : s \notin T => Dotted(s)
  BY <1>6, <1>9, <1>10, <1>11 DEF GoneBase
<1>13. Truthful(T, ino', neg')
  <2>1. Truthful(T, ino', neg)
    BY <1>8, <1>10, <1>11 DEF GoneBase, Truthful
  <2>2. op.d \in {Root} \cup StartsOf(ino')
    BY <1>2, <1>3, <1>8, DirsStart
  <2>3. \A s \in T : s.dir = op.d => ~Called(s, op.n)
    BY <1>6, <1>10, <1>11 DEF GoneBase
  <2>4. <<op.d, op.n>>[1] = op.d /\ <<op.d, op.n>>[2] = op.n
    OBVIOUS
  <2> QED BY <1>1, <1>3, <2>1, <2>2, <2>3, <2>4 DEF Truthful
<1>14. OkBase(op, T, ino', neg', listed)
  BY <1>3, <1>6, <1>7, <1>10, <1>11, <1>12, <1>13, GoneOk
<1> QED BY <1>1, <1>14, EndsTold DEF T

LEMMA RenamedTold == ASSUME Aware, Renamed  PROVE Told(op', fat', buf', disk', ino', neg', listed')
<1> DEFINE S == Spots(fat, buf, DirsOf(ino))
           T == Spots(fat, buf, DirsOf(ino'))
           P == Spots(fat, buf, PendingOf("removed", op))
<1>1. /\ op.pc = "removed" /\ op.call = "rename" /\ Goto("ok")
      /\ fat' = fat /\ buf' = buf /\ disk' = disk /\ listed' = listed /\ neg' = neg
      /\ ino' = IF op.over = None THEN ino ELSE [ino EXCEPT ![op.over].linked = FALSE]
  BY DEF Renamed, Done, volume
<1>2. Resolved /\ Sound("removed", op, fat, buf, ino) /\ Known("removed", op, S, P, ino, neg, listed)
      /\ Nodes(ino)
  BY <1>1, Calmly DEF Resolved, KnownOn, Typed
<1>3. ~op.undoing /\ Gone("removed", op)
  BY <1>1, <1>2 DEF Known, Renames, Gone
<1>4. op.over # None => op.over \in Inodes /\ ino[op.over] # None
  BY <1>1, <1>2 DEF Sound, Knows, Rests
<1>5. GoneBase(op, S, ino, neg, listed)
  BY <1>2, <1>3, GoneIs
<1>6. CASE op.over = None
  <2>1. OkBase(op, S, ino, neg, listed)
    BY <1>1, <1>5, <1>6, RenamedOk
  <2>2. ino' = ino
    BY <1>1, <1>6
  <2> QED BY <1>1, <2>1, <2>2, EndsTold
<1>7. CASE op.over # None
  <2>1. ino' = [ino EXCEPT ![op.over].linked = FALSE] /\ op.over \in Inodes /\ ino[op.over] \in Inode
    BY <1>1, <1>2, <1>4, <1>7 DEF Nodes
  <2>2. /\ ino'[op.over] \in Inode /\ ino'[op.over].start = ino[op.over].start
        /\ ino'[op.over].dir = ino[op.over].dir /\ ino'[op.over].pos = ino[op.over].pos
        /\ ~ino'[op.over].linked /\ ino'[op.over] # None
        /\ \A i \in Inodes : i # op.over => ino'[i] = ino[i]
    BY <1>2, <2>1, InodeAssumption DEF Nodes, Inode
  <2>3. ~Unlinks(op) /\ Takes(op) /\ Doomed(op) = op.over
    BY <1>1, <1>7 DEF Unlinks, Takes, Doomed
  <2>4. ino[op.over].pos = None
    BY <1>1, <1>5, <1>7 DEF GoneBase
  <2>5. Withdraws(op, ino, ino')
    BY <1>4, <1>7, <2>2, <2>3, <2>4 DEF Withdraws
  <2>6. StartsOf(ino') = StartsOf(ino)
    BY <1>4, <1>7, <2>2 DEF StartsOf
  <2>7. DirsOf(ino') \subseteq DirsOf(ino)
        /\ DirsOf(ino) \ DirsOf(ino') \subseteq (IF ino[op.over].dir THEN {ino[op.over].start} ELSE {})
    <3>1. DirsOf(ino') \subseteq DirsOf(ino)
      BY <1>4, <1>7, <2>2 DEF DirsOf
    <3>2. ASSUME NEW j \in Inodes, ino[j] # None, ino[j].linked, ino[j].dir, ino[j].start \notin DirsOf(ino')
          PROVE  j = op.over
      BY <2>2, <3>2 DEF DirsOf
    <3>3. \A d \in DirsOf(ino) \ DirsOf(ino') :
             \E j \in Inodes : ino[j] # None /\ ino[j].linked /\ ino[j].dir /\ d = ino[j].start
      BY DEF DirsOf
    <3> QED BY <3>1, <3>2, <3>3
  <2>8. T \in SUBSET S /\ \A s \in S : s \notin T => s.dir \in DirsOf(ino) \ DirsOf(ino')
    BY <2>7, SpotsFewer
  <2> HIDE DEF S, P, T
  <2>9. \A s \in S : s \notin T => Dotted(s)
    BY <1>5, <2>3, <2>7, <2>8 DEF GoneBase
  <2>10. Truthful(T, ino', neg)
    BY <1>5, <2>6, <2>8 DEF GoneBase, Truthful
  <2>11. OkBase(op, T, ino', neg, listed)
    BY <1>4, <1>5, <1>7, <2>3, <2>5, <2>8, <2>9, <2>10, GoneOk
  <2> QED BY <1>1, <2>11, EndsTold DEF T
<1> QED BY <1>6, <1>7

(* Entries of directories that share no cluster are in different places.    *)
LEMMA PlacesApart ==
    ASSUME NEW t, NEW heads, Chains(t, heads), NEW a, Device(a), NEW ds \in SUBSET heads,
           NEW r \in Spots(t, a, ds), NEW s \in Spots(t, a, ds), r.place = s.place
    PROVE  r = s
<1>1. /\ r.dir \in ds /\ r.at \in ShortEntries(ViewOf(t, a, r.dir)) /\ r = Spot(t, a, r.dir, r.at)
      /\ s.dir \in ds /\ s.at \in ShortEntries(ViewOf(t, a, s.dir)) /\ s = Spot(t, a, s.dir, s.at)
      /\ r.place = PlaceOf(t, r.dir, r.at) /\ s.place = PlaceOf(t, s.dir, s.at)
  BY SpotsHave DEF SpotAt
<1>2. IsChain(t, r.dir, ChainOf(t, r.dir)) /\ IsChain(t, s.dir, ChainOf(t, s.dir))
  BY <1>1 DEF Chains
<1>3. r.at \in 1..LenOf(t, r.dir) /\ s.at \in 1..LenOf(t, s.dir)
  BY <1>1, <1>2, ViewIs DEF ShortEntries
<1>4. r.place[1] \in ClustersOf(t, r.dir) /\ s.place[1] \in ClustersOf(t, s.dir)
  BY <1>1, <1>2, <1>3, PlaceIn
<1>5. r.dir = s.dir
  BY <1>1, <1>4 DEF Chains
<1>6. r.at = s.at
  BY <1>1, <1>2, <1>3, <1>5, PlaceOne
<1> QED BY <1>1, <1>5, <1>6

LEMMA SpotPlace ==
    ASSUME NEW t, NEW heads, Chains(t, heads), NEW a, NEW ds \in SUBSET heads, NEW s \in Spots(t, a, ds)
    PROVE  s.place \in Places /\ s.place # None /\ s.place = PlaceOf(t, s.dir, s.at)
           /\ s.at \in 1..LenOf(t, s.dir) /\ s.dir \in ds /\ s.place[1] \in ClustersOf(t, s.dir)
<1>1. /\ s.dir \in ds /\ s.at \in ShortEntries(ViewOf(t, a, s.dir)) /\ s.place = PlaceOf(t, s.dir, s.at)
  BY SpotsHave DEF SpotAt
<1>2. IsChain(t, s.dir, ChainOf(t, s.dir))
  BY <1>1 DEF Chains
<1>3. s.at \in 1..LenOf(t, s.dir)
  BY <1>1, <1>2, ViewIs DEF ShortEntries
<1>4. s.place \in Places /\ s.place[1] \in ClustersOf(t, s.dir)
  BY <1>1, <1>2, <1>3, PlaceIn
<1> QED BY <1>1, <1>3, <1>4, InodeAssumption

(* The entries of two sets of directories that share none.                  *)
LEMMA SortedBoth ==
    ASSUME NEW t, NEW heads, Chains(t, heads), NEW a, Device(a), NEW ds \in SUBSET heads,
           NEW es \in SUBSET heads, ds \cap es = {}, Sorted(Spots(t, a, ds)), Sorted(Spots(t, a, es))
    PROVE  Sorted(Spots(t, a, ds) \cup Spots(t, a, es))
<1> DEFINE S == Spots(t, a, ds)
           P == Spots(t, a, es)
           B == Spots(t, a, ds \cup es)
<1>1. B = S \cup P
  BY DEF Spots
<1>2. \A r, s \in B : r.place = s.place => r = s
  BY PlacesApart
<1>3. (\A s \in S : s.dir \in ds) /\ \A s \in P : s.dir \in es
  BY SpotsHave
<1> HIDE DEF S, P, B
<1>4. \A r, s \in S \cup P : r.dir = s.dir => (r \in S /\ s \in S) \/ (r \in P /\ s \in P)
  BY <1>3
<1>5. ASSUME NEW r \in S \cup P, NEW s \in S \cup P,
             \/ r.place = s.place
             \/ r.dir = s.dir /\ (r.at = s.at \/ r.text = s.text \/ (r.tie = s.tie /\ r.tie # <<>>))
      PROVE  r = s
  <2>1. CASE r.place = s.place
    BY <1>1, <1>2, <2>1
  <2>2. CASE r.dir = s.dir /\ (r.at = s.at \/ r.text = s.text \/ (r.tie = s.tie /\ r.tie # <<>>))
    BY <1>4, <2>2 DEF Sorted, S, P
  <2> QED BY <1>5, <2>1, <2>2
<1>6. \A s \in S \cup P : s.place # None /\ (s.tie # <<>> => \E n \in Names : s.tie = <<n>> /\ AliasOf(s.text, n))
  BY DEF Sorted, S, P
<1>7. Sorted(S \cup P)
  BY <1>5, <1>6 DEF Sorted
<1> QED BY <1>7 DEF S, P

LEMMA AddedTold == ASSUME Aware, Added  PROVE Told(op', fat', buf', disk', ino', neg', listed')
<1> DEFINE new == [pos |-> InfoPlace(NewInfo), start |-> op.start,
                   dir |-> op.call = "mkdir", dirty |-> FALSE, linked |-> TRUE]
           i == NewInode
           pend == PendingOf("added", op)
           S == Spots(fat, buf, DirsOf(ino))
           P == Spots(fat, buf, pend)
           T == Spots(fat, buf, DirsOf(ino'))
           heads == HeadsOf("added", op, ino)
<1>1. /\ op.pc = "added" /\ op.call \in {"create", "mkdir"} /\ Goto("ok")
      /\ fat' = fat /\ buf' = buf /\ disk' = disk /\ ino' = [ino EXCEPT ![i] = new]
      /\ listed' = listed /\ neg' = {e \in neg : e[1] # op.d}
  BY DEF Added, Done, volume, Forget
<1>2. /\ Resolved /\ Sound("added", op, fat, buf, ino) /\ Known("added", op, S, P, ino, neg, listed)
      /\ Nodes(ino) /\ Device(buf)
  BY <1>1, Calmly DEF Resolved, KnownOn, Typed
<1>3. /\ op.d \in DirsOf(ino) /\ op.n \in Names
      /\ (op.start # None => op.call = "mkdir" /\ op.start \in Clusters)
      /\ (op.call = "mkdir" => op.start # None)
      /\ \E j \in Inodes : ino[j] = None
  BY <1>1, <1>2 DEF Sound, Knows, Rests, Adds
<1>4. i \in Inodes /\ ino[i] = None
  BY <1>3 DEF NewInode, Unused
<1>5. new # None
  <2>1. Core(op', fat', buf', disk', ino')
    BY AddedCore, <1>1 DEF Aware
  <2>2. ino' \in [Inodes -> Inode \cup {None}] /\ ino'[i] = new
    BY <1>1, <1>2, <1>4, <2>1 DEF Core, Typed, Nodes
  <2>3. "pos" \in DOMAIN new
    OBVIOUS
  <2>4. new \in Inode \cup {None}
    BY <1>4, <2>2
  <2>5. new \in Inode
    <3>1. PlaceOf(fat, op.d, LastOf(op)) \in Places
      <4>1. /\ op.first \in Nat \ {0} /\ Built(op.slots, op.n, op.start) /\ LastOf(op) <= LenOf(fat, op.d)
        BY <1>1, <1>2 DEF Sound, Knows, Rests, Adds
      <4>2. Len(op.slots) \in Nat /\ Len(op.slots) >= 1
        BY <1>3, <4>1, BuiltIs
      <4>3. IsChain(fat, op.d, ChainOf(fat, op.d)) /\ LenOf(fat, op.d) \in Nat
        BY <1>2, <1>3, DirsHeads, SoundDirectory, ViewIs DEF Sound, Resolved, Typed
      <4>4. LastOf(op) \in 1..LenOf(fat, op.d)
        BY <4>1, <4>2, <4>3 DEF LastOf
      <4> QED BY <4>3, <4>4, PlaceIn
    <3>2. InfoPlace(NewInfo) \in Places
      BY <3>1, PlaceNow DEF InfoPlace, NewInfo, LastOf
    <3> QED BY <1>3, <3>2 DEF Inode
  <2> QED BY <2>5, InodeAssumption
<1>6. ino'[i] = new /\ \A j \in Inodes : j # i => ino'[j] = ino[j]
  BY <1>1, <1>4, <1>2 DEF Nodes
<1>7. new.start = op.start /\ (new.dir <=> op.call = "mkdir") /\ new.linked /\ new.pos = InfoPlace(NewInfo)
  OBVIOUS
<1>8. InfoPlace(NewInfo) = PlaceOf(fat, op.d, LastOf(op))
  BY PlaceNow DEF InfoPlace, NewInfo, LastOf
<1> HIDE DEF new, i
<1>9. pend = IF op.start = None THEN {} ELSE {op.start}
  BY DEF PendingOf, Rests
<1>10. DirsOf(ino') = DirsOf(ino) \cup pend
  <2>1. \A d \in DirsOf(ino') : d \in DirsOf(ino) \cup pend
    <3> SUFFICES ASSUME NEW j \in Inodes, ino'[j] # None, ino'[j].linked, ino'[j].dir
                 PROVE  ino'[j].start \in DirsOf(ino) \cup pend
      BY DEF DirsOf
    <3>1. CASE j = i
      BY <1>3, <1>6, <1>7, <1>9, <3>1
    <3>2. CASE j # i
      BY <1>6, <3>2 DEF DirsOf
    <3> QED BY <3>1, <3>2
  <2>2. DirsOf(ino) \subseteq DirsOf(ino')
    <3>1. \A j \in Inodes : ino[j] # None => ino'[j] = ino[j]
      BY <1>4, <1>6
    <3> QED BY <3>1 DEF DirsOf
  <2>3. pend \subseteq DirsOf(ino')
    BY <1>3, <1>4, <1>5, <1>6, <1>7, <1>9 DEF DirsOf
  <2> QED BY <2>1, <2>2, <2>3
<1>11. T = S \cup P
  BY <1>10 DEF Spots
<1>12. /\ Chains(fat, heads) /\ DirsOf(ino) \in SUBSET heads /\ pend \in SUBSET heads
       /\ DirsOf(ino) \cap pend = {} /\ StartsOf(ino) \cap pend = {}
  <2>1. Owned("added", op, fat, ino)
    BY <1>2 DEF Sound
  <2>2. StartsOf(ino) \cap pend = {} /\ Root \notin pend /\ Chains(fat, heads)
    BY <2>1 DEF Owned
  <2>3. pend \in SUBSET heads
    BY DEF HeadsOf
  <2> QED BY <1>2, <2>2, <2>3, DirsStart, DirsHeads
<1> HIDE DEF pend, heads
<1>13. PICK s : AddedBase(op, S, P, s, ino, neg, listed)
  BY <1>1, <1>2, <1>3, AddedKnows
<1>14. s \in S /\ s.dir = op.d /\ s.at = LastOf(op) /\ Sorted(S) /\ Sorted(P) /\ Truthful(S \ {s}, ino, neg)
       /\ \A r \in P : Dotted(r)
  BY <1>13 DEF AddedBase, Base, Ready
<1>15. s.place = InfoPlace(NewInfo)
  BY <1>8, <1>14, SpotsHave DEF SpotAt
<1>16. Posts(ino, ino', i, s.place)
  BY <1>4, <1>5, <1>6, <1>7, <1>15 DEF Posts
<1>17. Sorted(T)
  BY <1>2, <1>11, <1>12, <1>14, SortedBoth
<1> HIDE DEF S, P, T
<1>18. Truthful(T, ino', neg')
  <2> SUFFICES ASSUME NEW e \in neg, e[1] # op.d
               PROVE  /\ e = <<e[1], e[2]>> /\ e[1] \in {Root} \cup StartsOf(ino') /\ e[2] \in Names
                      /\ \A r \in T : r.dir = e[1] => ~Called(r, e[2])
    BY <1>1 DEF Truthful
  <2>1. e = <<e[1], e[2]>> /\ e[1] \in {Root} \cup StartsOf(ino) /\ e[2] \in Names
        /\ \A r \in S \ {s} : r.dir = e[1] => ~Called(r, e[2])
    BY <1>14 DEF Truthful
  <2>2. StartsOf(ino) \subseteq StartsOf(ino')
    <3>1. \A j \in Inodes : ino[j] # None => ino'[j] = ino[j]
      BY <1>4, <1>6
    <3> QED BY <3>1 DEF StartsOf
  <2>3. \A r \in P : ~Called(r, e[2])
    BY <1>14, <2>1, CalledNoDots
  <2>4. \A r \in T : r.dir = e[1] => ~Called(r, e[2])
    BY <1>11, <1>14, <2>1, <2>3
  <2> QED BY <2>1, <2>2, <2>4
<1>19. OkBase(op, T, ino', neg', listed)
  <2>1. op.call \in {"create", "mkdir"} /\ op.n \in Names /\ P \in SUBSET P
    BY <1>1, <1>3
  <2>2. ASSUME NEW kin, NEW ngs, NEW W, Posts(ino, kin, i, s.place), Joined(W, S, P), Sorted(W), Truthful(W, kin, ngs)
        PROVE  OkBase(op, W, kin, ngs, listed)
    BY <1>4, <1>13, <2>1, <2>2, AddedOk
  <2> QED BY <1>11, <1>16, <1>17, <1>18, <2>1, <2>2 DEF Joined
<1> QED BY <1>1, <1>19, EndsTold DEF T

-----------------------------------------------------------------------------
(* Steps that change the first cluster in one slot.                         *)
LEMMA PlacedPos ==
    ASSUME NEW in, Nodes(in), NEW i \in Inodes, in[i] # None, NEW p
    PROVE  /\ PlacedAt(in, i, p)[i].pos = p
           /\ \A j \in Inodes : j # i => PlacedAt(in, i, p)[j] = in[j]
<1>1. in[i] \in Inode /\ DOMAIN in = Inodes
  BY DEF Nodes
<1>2. [in[i] EXCEPT !.pos = p].pos = p
  BY <1>1 DEF Inode
<1> QED BY <1>1, <1>2 DEF PlacedAt

LEMMA DirtiedPos ==
    ASSUME NEW in, Nodes(in), NEW i \in Inodes, in[i] # None, NEW b, NEW j \in Inodes
    PROVE  DirtiedTo(in, i, b)[j].pos = in[j].pos
<1>1. in[i] \in Inode /\ DOMAIN in = Inodes
  BY DEF Nodes
<1>2. [in[i] EXCEPT !.dirty = b].pos = in[i].pos
  BY <1>1 DEF Inode
<1> QED BY <1>1, <1>2 DEF DirtiedTo

MoveTo == IF op.over = None THEN NewInfo ELSE op.new
LEMMA MoveShifts ==
    ASSUME Sane, Move, op.over # op.i, InfoPlace(MoveTo) \in Places
    PROVE  Akin(ino, ino') /\ Shifts(op, ino, ino', InfoPlace(MoveTo))
<1> DEFINE r == IF op.over = None THEN [op EXCEPT !.new = NewInfo] ELSE op
           p == InfoPlace(MoveTo)
           off == [j \in Inodes |-> IF j = op.over THEN [ino[j] EXCEPT !.pos = None] ELSE ino[j]]
           on == PlacedAt(off, op.i, p)
           dirty == off[op.i].dirty \/ ~setup.dirsync
<1>1. op.pc \in {"move", "added"} /\ op.call = "rename" /\ ino' = [off EXCEPT ![op.i].pos = InfoPlace(r.new), ![op.i].dirty = @ \/ ~setup.dirsync]
  <2>1. op.pc = "move" => op.call = "rename"
    BY Calm DEF Resolved, Sound, Knows, Moves
  <2> QED BY <2>1 DEF Move
<1>2. Resolved /\ Sound(op.pc, op, fat, buf, ino) /\ Nodes(ino) /\ DOMAIN op = OpFields
  BY <1>1, Calm DEF Resolved, Typed
<1>3. op.i \in Inodes /\ ino[op.i] # None
      /\ (op.over # None => op.over \in Inodes /\ ino[op.over] # None)
  BY <1>1, <1>2 DEF Sound, Knows, Rests
<1>4. InfoPlace(r.new) = p
  <2>1. r.new = MoveTo
    BY <1>2 DEF MoveTo, OpFields
  <2> QED BY <2>1
<1> HIDE DEF r, p
<1>5. /\ Akin(ino, off)
      /\ \A j \in Inodes : ino[j] # None => off[j].pos = IF j = op.over THEN None ELSE ino[j].pos
  <2>1. DOMAIN ino = Inodes
    BY <1>2 DEF Nodes
  <2>2. CASE op.over = None
    <3>1. off = ino
      BY <1>2, <2>2, RootAssumption DEF Nodes
    <3> QED BY <1>2, <2>2, <3>1, RootAssumption DEF Akin
  <2>3. CASE op.over # None
    <3>1. off = PlacedAt(ino, op.over, None)
      BY <2>1 DEF PlacedAt
    <3> QED BY <1>2, <1>3, <2>3, <3>1, Placed, PlacedPos
  <2> QED BY <2>2, <2>3
<1>6. DOMAIN off = Inodes
  OBVIOUS
<1> HIDE DEF off
<1>7. Nodes(off) /\ off[op.i] # None
  BY <1>3, <1>5 DEF Akin
<1>8. /\ Akin(off, on) /\ on[op.i].pos = p /\ on[op.i].dirty = off[op.i].dirty
      /\ \A j \in Inodes : j # op.i => on[j] = off[j]
  BY <1>3, <1>7, Placed, PlacedPos DEF p
<1>9. off[op.i] \in Inode /\ dirty \in BOOLEAN
  BY <1>3, <1>7 DEF Nodes, Inode
<1>10. ino' = DirtiedTo(on, op.i, dirty)
  BY <1>1, <1>3, <1>4, <1>6, <1>8 DEF PlacedAt, DirtiedTo
<1> HIDE DEF on, dirty
<1>11. Nodes(on) /\ on[op.i] # None
  BY <1>3, <1>7, <1>8 DEF Akin
<1>12. Akin(on, ino') /\ \A j \in Inodes : ino'[j].pos = on[j].pos
  BY <1>3, <1>9, <1>10, <1>11, Dirtied, DirtiedPos
<1>13. Akin(ino, ino')
  BY <1>5, <1>8, <1>12, AkinTwice
<1>14. \A j \in Inodes : ino[j] # None =>
          ino'[j].pos = IF j = op.i THEN p ELSE IF j = op.over THEN None ELSE ino[j].pos
  BY <1>5, <1>8, <1>12
<1> QED BY <1>13, <1>14 DEF Akin, Shifts, p

LEMMA SpotsLikes ==
    ASSUME NEW a, NEW b, Likes(a, b), Device(a), NEW t, NEW heads, Chains(t, heads), NEW ds \in SUBSET heads
    PROVE  Spots(t, b, ds) = Spots(t, a, ds)
<1>1. \A d \in ds : SpotsIn(t, b, d) = SpotsIn(t, a, d)
  BY SpotsAlike DEF Chains
<1> QED BY <1>1, SpotsAll

LEMMA MoveTold == ASSUME Aware, Move  PROVE Told(op', fat', buf', disk', ino', neg', listed')
<1> DEFINE r == IF op.over = None THEN [op EXCEPT !.new = NewInfo] ELSE op
           p == InfoPlace(MoveTo)
           l == op.pc
           ds == DirsOf(ino)
           S == Spots(fat, buf, ds)
           P == Spots(fat, buf, PendingOf(l, op))
           Q == Spots(fat, buf, PendingOf("dotdot", r))
<1>1. /\ l = "move" \/ (l = "added" /\ op.call = "rename")
      /\ op' = Syncing(r, {BlockOf(InfoPlace(r.new))}, "dotdot", "undo_move")
      /\ neg' = {e \in neg : e[1] # op.d} /\ listed' = listed
  BY DEF Move, Sync, Forget, notes
<1>0. /\ fat' = fat /\ disk' = disk
      /\ buf' = IF setup.dirsync THEN StartAt(buf, InfoPlace(r.new), ino[op.i].start) ELSE buf
  BY DEF Move, WriteEntry, StartAt
<1>2. /\ Resolved /\ Sound(l, op, fat, buf, ino) /\ Known(l, op, S, P, ino, neg, listed)
      /\ Nodes(ino) /\ Device(buf) /\ Device(disk) /\ DOMAIN op = OpFields
  BY <1>1, Calmly DEF Resolved, KnownOn, Typed
<1>3. /\ op.call = "rename" /\ op.i \in Inodes /\ ino[op.i] # None /\ op.d \in ds /\ op.n \in Names
      /\ op.over # None => op.over \in Inodes /\ ino[op.over] # None /\ Points(op.new, fat, ds)
      /\ ~op.undoing /\ (l = "move" <=> op.over # None) /\ (l = "added" <=> op.over = None)
  BY <1>1, <1>2 DEF Sound, Knows, Moves, Adds, Rests
<1>4. /\ r.call = "rename" /\ r.d = op.d /\ r.n = op.n /\ r.i = op.i /\ r.over = op.over
      /\ r.old = op.old /\ r.start = op.start /\ DOMAIN r = OpFields /\ r.new = MoveTo
      /\ (op.over # None => r = op)
  BY <1>2, <1>3 DEF OpFields, MoveTo
<1>5. op.over # op.i
  BY <1>1, <1>2, <1>3 DEF Known, Renames, Adds, Moves
<1>6. Chains(fat, HeadsOf(l, op, ino)) /\ ds \in SUBSET HeadsOf(l, op, ino)
  BY <1>2, DirsHeads DEF Sound, Owned
<1>7. \A s \in S : s.place \in Places /\ s.place = PlaceOf(fat, s.dir, s.at)
  BY <1>6, SpotPlace
<1> HIDE DEF r, p, l, S, P, Q, ds
<1>8. \E new \in S : p = new.place /\ IsAt(new, MoveTo) /\ \E old :
         \A kin, ngs : Shifts(op, ino, kin, new.place) /\ Truthful(S, kin, ngs)
                         => \E was : MovedBase(r, S, was, new, kin, ngs, listed)
  <2>1. CASE op.over = None
    <3>1. PICK new : AddedBase(op, S, P, new, ino, neg, listed)
      BY <1>2, <1>3, <2>1, AddedKnows
    <3>2. new \in S /\ new.dir = op.d /\ new.at = LastOf(op)
      BY <3>1 DEF AddedBase
    <3>3. MoveTo = NewInfo /\ NewInfo.d = op.d /\ NewInfo.at = LastOf(op)
      BY <2>1 DEF MoveTo, NewInfo, LastOf
    <3>4. IsAt(new, MoveTo) /\ p = new.place
      BY <1>7, <3>2, <3>3, PlaceNow DEF p, InfoPlace, IsAt
    <3>5. ASSUME NEW kin, NEW ngs, Shifts(op, ino, kin, new.place), Truthful(S, kin, ngs)
          PROVE  \E was : MovedBase(r, S, was, new, kin, ngs, listed)
      BY <1>3, <1>4, <2>1, <3>1, <3>4, <3>5, AddedMoved
    <3> QED BY <3>2, <3>4, <3>5
  <2>2. CASE op.over # None
    <3>1. PICK old, new : MoveBase(op, S, old, new, ino, neg, listed)
      BY <1>2, <1>3, <2>2, MoveIs
    <3>2. new \in S /\ IsAt(new, op.new) /\ MoveTo = op.new
      BY <2>2, <3>1 DEF MoveBase, MoveTo
    <3>3. p = new.place
      BY <1>7, <3>2, PlaceNow DEF p, InfoPlace, IsAt
    <3>4. ASSUME NEW kin, NEW ngs, Shifts(op, ino, kin, new.place), Truthful(S, kin, ngs)
          PROVE  MovedBase(op, S, old, new, kin, ngs, listed)
      BY <1>3, <2>2, <3>1, <3>4, MoveMoved
    <3> QED BY <1>4, <2>2, <3>2, <3>3, <3>4
  <2> QED BY <2>1, <2>2
<1>9. PICK new \in S : p = new.place /\ IsAt(new, MoveTo) /\
         \A kin, ngs : Shifts(op, ino, kin, new.place) /\ Truthful(S, kin, ngs)
                         => \E was : MovedBase(r, S, was, new, kin, ngs, listed)
  BY <1>8
<1>10. p \in Places
  BY <1>7, <1>9
<1>11. Akin(ino, ino') /\ Shifts(op, ino, ino', p)
  BY <1>5, <1>10, MoveShifts DEF p, Aware
<1>12. Truthful(S, ino', neg')
  <2>1. StartsOf(ino') = StartsOf(ino) /\ neg' \subseteq neg
    BY <1>1, <1>11, ShiftStarts
  <2>2. CASE op.over = None
    <3>1. PICK s : AddedBase(op, S, P, s, ino, neg, listed)
      BY <1>2, <1>3, <2>2, AddedKnows
    <3>2. s.dir = op.d /\ Truthful(S \ {s}, ino, neg)
      BY <3>1 DEF AddedBase, Base
    <3>3. ASSUME NEW e \in neg'
          PROVE  /\ e = <<e[1], e[2]>> /\ e[1] \in {Root} \cup StartsOf(ino') /\ e[2] \in Names
                 /\ \A q \in S : q.dir = e[1] => ~Called(q, e[2])
      <4>1. e \in neg /\ e[1] # op.d
        BY <1>1
      <4>2. /\ e = <<e[1], e[2]>> /\ e[1] \in {Root} \cup StartsOf(ino) /\ e[2] \in Names
            /\ \A q \in S \ {s} : q.dir = e[1] => ~Called(q, e[2])
        BY <3>2, <4>1 DEF Truthful
      <4> QED BY <2>1, <3>2, <4>1, <4>2
    <3> QED BY <3>3 DEF Truthful
  <2>3. CASE op.over # None
    <3>1. Truthful(S, ino, neg)
      BY <1>2, <1>3, <2>3 DEF Known, Denied
    <3> QED BY <2>1, <3>1, TruthfulFewer
  <2> QED BY <2>2, <2>3
<1>13. PICK was : MovedBase(r, S, was, new, ino', neg', listed)
  BY <1>9, <1>11, <1>12
<1>14. Moved("dotdot", r) /\ Moved("undo_move", r)
  BY <1>4 DEF Moved, Moves
<1>15. Known("dotdot", r, S, Q, ino', neg', listed) /\ Known("undo_move", r, S, Q, ino', neg', listed)
  BY <1>4, <1>13, <1>14, MovedKnown
<1>16. Device(buf') /\ Likes(buf, buf')
  <2>1. CASE setup.dirsync
    BY <1>0, <1>2, <2>1, StartSet
  <2>2. CASE ~setup.dirsync
    BY <1>0, <1>2, <2>2 DEF Likes, AsIn
  <2> QED BY <2>1, <2>2
<1>17. PendingOf("dotdot", r) = PendingOf(l, op) /\ PendingOf("undo_move", r) = PendingOf("dotdot", r)
       /\ PendingOf(l, op) \in SUBSET HeadsOf(l, op, ino)
  BY <1>3, <1>4 DEF PendingOf, Rests, HeadsOf
<1>18. Spots(fat, buf', ds) = S /\ Spots(fat, buf', PendingOf("dotdot", r)) = Q
  BY <1>2, <1>6, <1>16, <1>17, SpotsLikes DEF S, Q
<1>19. DirsOf(ino') = ds
  BY <1>11, AkinSame DEF ds
<1>20. KnownOn("dotdot", r, fat, buf', ino', neg', listed) /\ KnownOn("undo_move", r, fat, buf, ino', neg', listed)
  BY <1>15, <1>17, <1>18, <1>19 DEF KnownOn, S, Q
<1>21. "dotdot" \in Labels /\ (setup.dirsync => Likes(buf, disk))
  BY <1>2 DEF Labels, Moves, Resolved
<1>23. Core(Syncing(r, {BlockOf(InfoPlace(r.new))}, "dotdot", "undo_move"), fat, buf', disk, ino')
  BY <1>0, <1>1, MoveCore DEF Aware
<1>22. Told(Syncing(r, {BlockOf(InfoPlace(r.new))}, "dotdot", "undo_move"), fat, buf', disk, ino', neg', listed)
  BY <1>2, <1>4, <1>16, <1>20, <1>21, <1>23, TellsOne
<1> QED BY <1>0, <1>1, <1>22

(* The rename goes on, or back, and only first clusters change.             *)
LEMMA MovingTold ==
    ASSUME Aware, NEW l, op.pc = l, Moved(l, op), op.call = "rename", l # "rm",
           NEW r, DOMAIN r = OpFields, r.call = "rename", Aims(op, r), r.start = op.start,
           NEW label \in Moves \ {"move"}, NEW b, Likes(buf, b)
    PROVE  KnownOn(label, r, fat, b, ino, neg, listed)
<1> DEFINE ds == DirsOf(ino)
           S == Spots(fat, buf, ds)
           P == Spots(fat, buf, PendingOf(l, op))
           Q == Spots(fat, b, PendingOf(label, r))
<1>1. l \in Moves /\ l # "sync"
  BY DEF Moved, Moves
<1>2. /\ Sound(l, op, fat, buf, ino) /\ Known(l, op, S, P, ino, neg, listed)
      /\ Nodes(ino) /\ Device(buf)
  BY <1>1, Calmly DEF Resolved, KnownOn, Typed
<1>3. Chains(fat, HeadsOf(l, op, ino)) /\ ds \in SUBSET HeadsOf(l, op, ino)
  BY <1>2, DirsHeads DEF Sound, Owned
<1>4. Spots(fat, b, ds) = S
  BY <1>2, <1>3, SpotsLikes
<1> HIDE DEF S, P, Q, ds
<1>5. PICK old, new : MovedBase(op, S, old, new, ino, neg, listed)
  BY <1>2, MovedKnows
<1>6. MovedBase(r, S, old, new, ino, neg, listed)
  BY <1>5, MovedSame
<1>7. Moved(label, r) /\ label # "rm"
  BY DEF Moved, Moves
<1>8. Known(label, r, S, Q, ino, neg, listed)
  BY <1>6, <1>7, MovedKnown
<1> QED BY <1>4, <1>8 DEF KnownOn, S, Q, ds

LEMMA SetDotDotTold == ASSUME Aware, SetDotDot  PROVE Told(op', fat', buf', disk', ino', neg', listed')
<1> DEFINE q == DotDotPlace
           c == LogStart(op.d)
<1>1. op.pc = "dotdot" /\ fat' = fat /\ disk' = disk /\ ino' = ino /\ neg' = neg /\ listed' = listed
  BY DEF SetDotDot, notes
<1>2. Resolved /\ Sound("dotdot", op, fat, buf, ino) /\ Device(buf) /\ Device(disk)
  BY <1>1, Calmly
<1>3. CASE ~UpdateDotDot
  <2>1. buf' = buf /\ Leaves
    BY <1>3 DEF SetDotDot, Leaves
  <2> QED BY <1>1, <2>1, LeavesTold
<1>4. CASE UpdateDotDot
  <2>1. buf' = StartAt(buf, q, c) /\ op' = Syncing(op, {BlockOf(q)}, "count", "undo_dotdot")
    BY <1>4 DEF SetDotDot, Sync, StartAt
  <2> HIDE DEF q, c
  <2>2. op.call = "rename" /\ {"dotdot", "count", "undo_dotdot"} \subseteq Moves \ {"move"} /\ "count" \in Labels
    BY <1>2 DEF Sound, Knows, Moves, Labels
  <2>3. Moved("dotdot", op) /\ Aims(op, op) /\ DOMAIN op = OpFields
    BY <1>2, <2>2 DEF Moved, Aims, Resolved
  <2>4. Device(buf') /\ Likes(buf, buf') /\ Likes(buf, buf)
    BY <1>2, <2>1, StartSet DEF Likes, AsIn
  <2>5. KnownOn("count", op, fat, buf', ino, neg, listed) /\ KnownOn("undo_dotdot", op, fat, buf, ino, neg, listed)
    BY <1>1, <2>2, <2>3, <2>4, MovingTold
  <2>6. setup.dirsync => Likes(buf, disk)
    BY <1>2 DEF Resolved
  <2>8. Core(Syncing(op, {BlockOf(q)}, "count", "undo_dotdot"), fat, buf', disk, ino)
    BY <1>1, <2>1, SetDotDotCore DEF Aware
  <2>7. Told(Syncing(op, {BlockOf(q)}, "count", "undo_dotdot"), fat, buf', disk, ino, neg, listed)
    BY <1>2, <2>2, <2>3, <2>4, <2>5, <2>6, <2>8, TellsOne
  <2> QED BY <1>1, <2>1, <2>7
<1> QED BY <1>3, <1>4

LEMMA UndoDotDotTold == ASSUME Aware, UndoDotDot  PROVE Told(op', fat', buf', disk', ino', neg', listed')
<1> DEFINE q == DotDotPlace
           c == LogStart(op.old.d)
           r == [op EXCEPT !.undoing = TRUE]
           to == "undo_move"
<1>1. op.pc = "undo_dotdot" /\ fat' = fat /\ disk' = disk /\ ino' = ino /\ neg' = neg /\ listed' = listed
  BY DEF UndoDotDot
<1>2. Resolved /\ Sound("undo_dotdot", op, fat, buf, ino) /\ Device(buf) /\ Device(disk) /\ DOMAIN op = OpFields
  BY <1>1, Calmly DEF Resolved
<1>3. op.call = "rename" /\ {"undo_dotdot", to} \subseteq Moves \ {"move"} /\ to \in Labels
  BY <1>2 DEF Sound, Knows, Moves, Labels
<1>4. Moved("undo_dotdot", op)
  BY <1>3 DEF Moved
<1>5. CASE ~UpdateDotDot
  <2>1. buf' = buf /\ op' = [op EXCEPT !.undoing = TRUE, !.pc = to]
    BY <1>5 DEF UndoDotDot
  <2>2. Aims(op, op') /\ op'.start = op.start /\ DOMAIN op' = OpFields /\ op'.pc = to /\ op'.call = "rename"
    BY <1>2, <1>3, <2>1 DEF OpFields, Aims
  <2>3. Likes(buf, buf)
    BY DEF Likes, AsIn
  <2>4. KnownOn(to, op', fat, buf, ino, neg, listed)
    BY <1>1, <1>3, <1>4, <2>2, <2>3, MovingTold
  <2> QED BY <1>1, <2>1, <2>2, <2>4, TellsNow
<1>6. CASE UpdateDotDot
  <2>1. buf' = StartAt(buf, q, c) /\ op' = Syncing(r, {BlockOf(q)}, to, to)
    BY <1>6 DEF UndoDotDot, Sync, StartAt
  <2>2. Aims(op, r) /\ r.start = op.start /\ DOMAIN r = OpFields /\ r.undoing /\ r.call = "rename"
    BY <1>2, <1>3 DEF OpFields, Aims
  <2> HIDE DEF q, c, r
  <2>3. Device(buf') /\ Likes(buf, buf')
    BY <1>2, <2>1, StartSet
  <2>4. KnownOn(to, r, fat, buf', ino, neg, listed)
    BY <1>1, <1>3, <1>4, <2>2, <2>3, MovingTold
  <2>5. setup.dirsync => Likes(buf, disk)
    BY <1>2 DEF Resolved
  <2>7. Core(Syncing(r, {BlockOf(q)}, to, to), fat, buf', disk, ino)
    BY <1>1, <2>1, UndoDotDotCore DEF Aware
  <2>6. Told(Syncing(r, {BlockOf(q)}, to, to), fat, buf', disk, ino, neg, listed)
    BY <1>2, <1>3, <2>2, <2>3, <2>4, <2>5, <2>7, TellsOne
  <2> QED BY <1>1, <2>1, <2>6
<1> QED BY <1>5, <1>6

LEMMA UndoMoveTold == ASSUME Aware, UndoMove  PROVE Told(op', fat', buf', disk', ino', neg', listed')
<1> DEFINE p == InfoPlace(op.new)
           back == PlacedAt(ino, op.i, InfoPlace(op.old))
           ds == DirsOf(ino)
           S == Spots(fat, buf, ds)
           P == Spots(fat, buf, PendingOf("undo_move", op))
<1>1. op.pc = "undo_move" /\ fat' = fat /\ disk' = disk /\ neg' = neg /\ listed' = listed
  BY DEF UndoMove, notes
<1>2. /\ Resolved /\ Sound("undo_move", op, fat, buf, ino) /\ Known("undo_move", op, S, P, ino, neg, listed)
      /\ Nodes(ino) /\ Device(buf) /\ Device(disk) /\ DOMAIN op = OpFields
  BY <1>1, Calmly DEF Resolved, Typed, KnownOn
<1>3. /\ op.call = "rename" /\ op.i \in Inodes /\ ino[op.i] # None
      /\ op.over # None => op.over \in Inodes /\ ino[op.over] # None
  BY <1>2 DEF Sound, Knows, Moves, Rests
<1>4. Moved("undo_move", op)
  BY <1>3 DEF Moved, Moves
<1>5. Chains(fat, HeadsOf("undo_move", op, ino)) /\ ds \in SUBSET HeadsOf("undo_move", op, ino)
  BY <1>2, DirsHeads DEF Sound, Owned
<1>6. \A s \in S : s.place \in Places /\ s.place = PlaceOf(fat, s.dir, s.at)
  BY <1>5, SpotPlace
<1> HIDE DEF S, P, ds
<1>7. PICK old, new : MovedBase(op, S, old, new, ino, neg, listed)
  BY <1>2, <1>3, <1>4, MovedKnows
<1>8. /\ Sorted(S) /\ Truthful(S, ino, neg) /\ op.over # op.i
      /\ old \in S /\ IsAt(old, op.old) /\ new \in S /\ IsAt(new, op.new)
  BY <1>7 DEF MovedBase
<1>9. InfoPlace(op.old) = old.place /\ p = new.place /\ old.place \in Places /\ new.place \in Places
  BY <1>6, <1>8, PlaceNow DEF p, InfoPlace, IsAt
<1> HIDE DEF p
<1>10. /\ Akin(ino, back) /\ back[op.i].pos = old.place
       /\ \A j \in Inodes : j # op.i => back[j] = ino[j]
  BY <1>2, <1>3, <1>9, Placed, PlacedPos
<1>11. /\ Nodes(back) /\ (op.over # None => back[op.over] # None)
  BY <1>3, <1>10 DEF Akin
<1>12. ino' = IF op.over = None THEN back ELSE PlacedAt(back, op.over, new.place)
  BY <1>9 DEF UndoMove, PlacedAt, p
<1> HIDE DEF back
<1>13. Akin(ino, ino') /\ \A j \in Inodes : ino[j] # None =>
          ino'[j].pos = IF j = op.i THEN old.place ELSE IF j = op.over THEN new.place ELSE ino[j].pos
  <2>1. CASE op.over = None
    BY <1>3, <1>10, <1>12, <2>1, RootAssumption
  <2>2. CASE op.over # None
    <3>1. Akin(back, ino') /\ ino'[op.over].pos = new.place /\ \A j \in Inodes : j # op.over => ino'[j] = back[j]
      BY <1>3, <1>9, <1>11, <1>12, <2>2, Placed, PlacedPos
    <3> QED BY <1>3, <1>8, <1>10, <3>1, AkinTwice
  <2> QED BY <2>1, <2>2
<1>14. Backs(op, ino, ino', old.place, new.place)
  BY <1>13 DEF Akin, Backs
<1>15. Hosted(S, IF op.over = None THEN {new} ELSE {}, ino', {})
  BY <1>3, <1>7, <1>14, BackHosted
<1>16. listed = Entries(IF op.over = None THEN S \ {new} ELSE S, ino')
  BY <1>3, <1>7, <1>14, MovedBack
<1>17. StartsOf(ino') = StartsOf(ino) /\ DirsOf(ino') = ds
  BY <1>13, AkinSame DEF ds
<1>18. Truthful(S, ino', neg)
  BY <1>8, <1>17, TruthfulFewer
<1>19. CASE op.over = None
  <2>1. buf' = buf /\ op' = [op EXCEPT !.pc = "rm", !.cut = op.new, !.undoing = TRUE]
    BY <1>19 DEF UndoMove
  <2>2. op'.pc = "rm" /\ op'.cut = op.new /\ op'.call = "rename" /\ op'.undoing
        /\ op'.i = op.i /\ op'.over = op.over
    BY <1>2, <1>3, <2>1 DEF OpFields
  <2>3. IsAt(new, op'.cut)
    BY <1>8, <2>2
  <2>4. BackBase(op', S, new, ino', neg, listed)
    BY <1>8, <1>15, <1>16, <1>18, <1>19, <2>2, <2>3 DEF BackBase
  <2>5. \A Q : Known("rm", op', S, Q, ino', neg, listed)
    BY <1>8, <2>2, <2>3, <2>4, BackIs
  <2>6. KnownOn("rm", op', fat, buf, ino', neg, listed)
    BY <1>17, <2>5 DEF KnownOn, S, ds
  <2> QED BY <1>1, <2>1, <2>2, <2>6, TellsNow
<1>20. CASE op.over # None
  <2> DEFINE to == "refused"
  <2>1. Base(S, ino', neg, listed)
    BY <1>8, <1>15, <1>16, <1>18, <1>20 DEF Base
  <2>2. Quiet(to, op)
    BY DEF Quiet
  <2>3. \A Q : Known(to, op, S, Q, ino', neg, listed)
    BY <2>1, <2>2, BaseIs
  <2>4. KnownOn(to, op, fat, buf, ino', neg, listed)
    BY <1>17, <2>3 DEF KnownOn, S, ds
  <2>5. /\ buf' = IF op.undoing THEN StartAt(buf, p, ino[op.over].start) ELSE buf
        /\ op' = Syncing(op, IF op.undoing THEN {BlockOf(p)} ELSE {}, to, to)
    BY <1>20 DEF UndoMove, Sync, WriteEntry, StartAt, p
  <2>6. CASE op.undoing
    <3>1. Device(buf') /\ Likes(buf, buf')
      BY <1>2, <2>5, <2>6, StartSet
    <3>2. Spots(fat, buf', ds) = S
      BY <1>2, <1>5, <3>1, SpotsLikes DEF S
    <3>3. KnownOn(to, op, fat, buf', ino', neg, listed)
      BY <1>17, <2>3, <3>2 DEF KnownOn
    <3>4. (setup.dirsync => Likes(buf, disk)) /\ to \in Labels
      BY <1>2 DEF Resolved, Labels
    <3>6. Core(Syncing(op, {BlockOf(p)}, to, to), fat, buf', disk, ino')
      BY <1>1, <2>5, <2>6, UndoMoveCore DEF Aware
    <3>5. Told(Syncing(op, {BlockOf(p)}, to, to), fat, buf', disk, ino', neg, listed)
      BY <1>2, <2>6, <3>1, <3>3, <3>4, <3>6, TellsOne
    <3> QED BY <1>1, <2>5, <2>6, <3>5
  <2>7. CASE ~op.undoing
    <3>1. buf' = buf /\ op' = Syncing(op, {}, to, to)
      BY <2>5, <2>7
    <3>2. Same(op, op') /\ op'.pc = to
      BY <1>2, <3>1, SyncingIs
    <3>3. KnownOn(to, op', fat, buf, ino', neg, listed)
      BY <2>4, <3>2, KnownOnSame
    <3> QED BY <1>1, <3>1, <3>2, <3>3, TellsNow
  <2> QED BY <2>6, <2>7
<1> QED BY <1>19, <1>20

-----------------------------------------------------------------------------
(* Steps that write the slots of a new name.                                *)
LEMMA FillStays ==
    ASSUME NEW l \in Adds \ {"added", "build"}, NEW label \in (Adds \ {"added"}) \cup {"undo"},
           NEW o, NEW t, NEW dev, NEW in, NEW ng, NEW ls, KnownOn(l, o, t, dev, in, ng, ls)
    PROVE  KnownOn(label, o, t, dev, in, ng, ls)
<1> DEFINE S == Spots(t, dev, DirsOf(in))
           P == Spots(t, dev, PendingOf(l, o))
<1>1. PendingOf(label, o) = PendingOf(l, o)
  BY DEF PendingOf, Rests, Adds
<1>2. Known(l, o, S, P, in, ng, ls)
  BY DEF KnownOn
<1> HIDE DEF S, P
<1>3. Base(S, in, ng, ls) /\ Ready(o, S, P, in) /\ Fresh(o, S)
  BY <1>2, AddsIs
<1>4. Known(label, o, S, P, in, ng, ls)
  <2>1. CASE label = "undo"
    <3>1. Quiet(label, o)
      BY <2>1 DEF Quiet
    <3> QED BY <1>3, <3>1, BaseIs
  <2>2. CASE label # "undo"
    <3>1. label \in Adds \ {"added"}
      BY <2>2
    <3> QED BY <1>3, <3>1, AddsIs
  <2> QED BY <2>1, <2>2
<1> QED BY <1>1, <1>4 DEF KnownOn, S, P

LEMMA BegunSpots ==
    ASSUME NEW t, NEW a, NEW b, NEW d, IsDirectory(ViewOf(t, a, d)), IsDirectory(ViewOf(t, b, d)),
           NEW f \in Nat \ {0}, NEW slots, NEW n \in Names, NEW c, Built(slots, n, c),
           Begun(ViewOf(t, a, d), f, slots), Begun(ViewOf(t, b, d), f, slots),
           Agree(ViewOf(t, a, d), ViewOf(t, b, d), f, f + Len(slots) - 1)
    PROVE  SpotsIn(t, b, d) = SpotsIn(t, a, d)
<1> DEFINE v == ViewOf(t, a, d)
           w == ViewOf(t, b, d)
           q == f + Len(slots) - 1
<1>1. Run(f, q) /\ Half(v, f, q) /\ Half(w, f, q)
  BY BegunHalf
<1>2. Piece(v, f, q) /\ Piece(w, f, q)
  BY <1>1, HalfPiece
<1> HIDE DEF q
<1>3. OutOf(SpotsIn(t, a, d), f, q) = OutOf(SpotsIn(t, b, d), f, q)
  BY <1>1, <1>2, SpotsOut DEF q
<1>4. OutOf(SpotsIn(t, a, d), f, q) = SpotsIn(t, a, d) /\ OutOf(SpotsIn(t, b, d), f, q) = SpotsIn(t, b, d)
  BY <1>1, SpotsHalf
<1> QED BY <1>3, <1>4

LEMMA FilledSpots ==
    ASSUME Sane, op.pc \in Fill, NEW part \in SUBSET (1..Room), \A j \in part : j < Len(op.slots),
           NEW b, Writes(fat, op.d, op.first, op.slots, part, buf, b),
           NEW m, Device(m), Between(m, buf, b)
    PROVE  \A e \in HeadsOf(op.pc, op, ino) : SpotsIn(fat, m, e) = SpotsIn(fat, buf, e)
<1> DEFINE d == op.d
           f == op.first
           slots == op.slots
           q == f + Len(slots) - 1
           L == LenOf(fat, d)
           v == ViewOf(fat, buf, d)
           w == ViewOf(fat, m, d)
           heads == HeadsOf(op.pc, op, ino)
<1>1. /\ Sound(op.pc, op, fat, buf, ino) /\ Device(buf) /\ d \in heads
      /\ Chains(fat, heads) /\ IsChain(fat, d, ChainOf(fat, d)) /\ op.n \in Names
      /\ Built(slots, op.n, op.start) /\ f \in Nat \ {0} /\ Len(slots) \in Nat \ {0} /\ L \in Nat
      /\ Begun(v, f, slots)
  BY FillKnown
<1>2. Room \in 0..Len(slots) /\ f + Room - 1 <= L
  BY RoomIs
<1>3. Within(fat, d, f, part)
  BY <1>1, <1>2 DEF Within
<1>4. /\ DOMAIN w = 1..L /\ DOMAIN v = 1..L
      /\ \A k \in 1..L : w[k] = v[k] \/ (k - f + 1 \in part /\ w[k] = slots[k - f + 1])
      /\ \A e \in heads \ {d} : ViewOf(fat, m, e) = ViewOf(fat, buf, e)
  BY <1>1, <1>3, WritesView
<1>5. IsDirectory(v) /\ IsDirectory(w)
  BY <1>1, SoundDirectory DEF Sound
<1>6. Begun(w, f, slots)
  BY FilledBegun
<1>7. \A e \in heads \ {d} : SpotsIn(fat, m, e) = SpotsIn(fat, buf, e)
  BY <1>4, SpotsSame
<1>8. Agree(v, w, f, q)
  <2> HIDE DEF v, w, L, f, slots
  <2> SUFFICES ASSUME NEW k \in 1..L, k \notin f..q  PROVE v[k] = w[k]
    BY <1>4 DEF Agree
  <2>1. k - f + 1 \notin part
    <3> SUFFICES ASSUME k - f + 1 \in part  PROVE FALSE
      OBVIOUS
    <3>1. k - f + 1 \in 1..Room /\ k - f + 1 < Len(slots) /\ k \in Int /\ f \in Nat /\ Room \in Nat /\ Len(slots) \in Nat
      BY <1>1, <1>2 DEF slots
    <3> QED BY <3>1
  <2> QED BY <1>4, <2>1
<1>9. SpotsIn(fat, m, d) = SpotsIn(fat, buf, d)
  BY <1>1, <1>5, <1>6, <1>8, BegunSpots
<1> QED BY <1>7, <1>9

LEMMA FillLongTold == ASSUME Aware, FillLong  PROVE Told(op', fat', buf', disk', ino', neg', listed')
<1> DEFINE blocks == {BlockOf(NewPlace(j)) : j \in LongPart}
           ok == IF Fits THEN "short" ELSE "grow"
           heads == HeadsOf(op.pc, op, ino)
<1>1. /\ op.pc = "fill" /\ fat' = fat /\ disk' = disk /\ ino' = ino /\ neg' = neg /\ listed' = listed
      /\ op' = Syncing(op, blocks, ok, "undo") /\ Put(LongPart)
  BY DEF FillLong, Sync, notes
<1>2. op.pc \in Fill /\ op.pc \in Adds \ {"added", "build"} /\ ok \in Adds \ {"added"} /\ ok \in Labels
  BY <1>1 DEF Fill, Adds, Labels
<1>3. /\ Resolved /\ Sane /\ KnownOn(op.pc, op, fat, buf, ino, neg, listed) /\ Device(disk) /\ DOMAIN op = OpFields
      /\ Core(op', fat', buf', disk', ino')
  BY <1>1, Calmly, FillLongCore DEF Resolved, Aware
<1>4. /\ Device(buf) /\ Nodes(ino) /\ Len(op.slots) \in Nat
  BY <1>2, <1>3, FillKnown
<1>5. LongPart \in SUBSET (1..Room) /\ \A j \in LongPart : j < Len(op.slots)
  <2>1. Room \in 0..Len(op.slots) /\ (Fits <=> Room = Len(op.slots))
    BY <1>2, <1>3, RoomIs
  <2>2. ASSUME NEW j \in LongPart  PROVE j \in 1..Room /\ j < Len(op.slots)
    <3>1. j \in 1..Room /\ ~InLast(j)
      BY DEF LongPart
    <3>2. ~Fits \/ j # Room
      BY <3>1 DEF InLast
    <3> QED BY <1>4, <2>1, <3>1, <3>2
  <2> QED BY <2>2
<1>6. Writes(fat, op.d, op.first, op.slots, LongPart, buf, buf')
  BY <1>1, <1>2, <1>3, <1>5, PutWrites
<1> HIDE DEF ok, blocks
<1>7. ASSUME NEW m, Device(m), Between(m, buf, buf'), NEW label \in (Adds \ {"added"}) \cup {"undo"}
      PROVE  KnownOn(label, op, fat, m, ino, neg, listed)
  <2>1. \A e \in heads : SpotsIn(fat, m, e) = SpotsIn(fat, buf, e)
    BY <1>2, <1>3, <1>5, <1>6, <1>7, FilledSpots
  <2>2. KnownOn(label, op, fat, buf, ino, neg, listed)
    BY <1>2, <1>3, FillStays
  <2>3. \A d \in DirsOf(ino) \cup PendingOf(label, op) : d \in heads
    <3>1. PendingOf(label, op) = PendingOf(op.pc, op)
      BY <1>2 DEF PendingOf, Rests, Adds
    <3> QED BY <1>4, <3>1, DirsHeads DEF HeadsOf
  <2> HIDE DEF heads
  <2> QED BY <2>1, <2>2, <2>3, KnownAs
<1>8. Between(buf', buf, buf') /\ Device(buf')
  BY <1>3 DEF Between, Core, Typed
<1>9. KnownOn(ok, op, fat, buf', ino, neg, listed)
  BY <1>2, <1>7, <1>8
<1>10. \A m : setup.dirsync /\ Device(m) /\ (\A p \in Places : m[p] \in {buf[p], buf'[p]})
              => KnownOn("undo", op, fat, m, ino, neg, listed)
  BY <1>7 DEF Between
<1>11. setup.dirsync => Likes(buf, disk)
  BY <1>3 DEF Resolved
<1>13. Core(Syncing(op, blocks, ok, "undo"), fat, buf', disk, ino)
  BY <1>1, <1>3
<1>12. Told(Syncing(op, blocks, ok, "undo"), fat, buf', disk, ino, neg, listed)
  BY <1>13, <1>2, <1>3, <1>4, <1>8, <1>9, <1>10, <1>11, TellsAll
<1> QED BY <1>1, <1>12

(* The last slot of a new name makes it one.                                *)
LEMMA DirsNotPending ==
    ASSUME NEW label, NEW o, NEW t, NEW in, Nodes(in), Owned(label, o, t, in)
    PROVE  DirsOf(in) \cap PendingOf(label, o) = {}
  BY DirsStart DEF Owned

WrittenAll(w, f, slots, n, c, q) ==
    /\ n \in Names /\ Built(slots, n, c) /\ f \in Nat \ {0} /\ q = f + Len(slots) - 1
    /\ HasAll(w, f, slots) /\ Full(w, f, q) /\ IsDirectory(w)
LEMMA NewTie ==
    ASSUME NEW w, NEW f, NEW slots, NEW n, NEW c, NEW q, WrittenAll(w, f, slots, n, c, q)
    PROVE  /\ q \in ShortEntries(w) /\ w[q].text = slots[Len(slots)].text
           /\ Tie(w, q) = (IF Form[n].longs = 0 THEN <<>> ELSE <<n>>)
<1>0. /\ n \in Names /\ Built(slots, n, c) /\ f \in Nat \ {0} /\ q = f + Len(slots) - 1
      /\ HasAll(w, f, slots) /\ Full(w, f, q) /\ IsDirectory(w)
  BY DEF WrittenAll
<1>1. /\ Len(slots) = Form[n].longs + 1 /\ Form[n].longs \in Nat /\ Len(slots) \in Nat /\ Len(slots) >= 1
  BY <1>0, BuiltIs
<1>2. q \in ShortEntries(w)
  BY <1>0 DEF Full
<1>3. w[q] = slots[Len(slots)]
  <2>1. Len(slots) \in 1..Len(slots) /\ f + Len(slots) - 1 = q
    BY <1>0, <1>1
  <2> QED BY <1>0, <2>1 DEF HasAll
<1>4. CASE Form[n].longs = 0
  <2>1. f = q
    BY <1>0, <1>1, <1>4
  <2>2. q \in Bare(w)
    BY <1>0, <2>1 DEF Full
  <2>3. ~(q - 1 \in DOMAIN w /\ IsLong(w[q - 1]))
    <3>1. f \in Nat \ {0} /\ IsDirectory(w)
      BY <1>0
    <3> QED BY <2>1, <2>2, <3>1 DEF Bare, IsDirectory
  <2> QED BY <1>2, <1>3, <1>4, <2>3 DEF Tie
<1>5. CASE Form[n].longs # 0
  <2>1. PICK a, attr : Writable(n, a, attr) /\ slots = BuildSlots(n, a, attr, c)
    BY <1>0, BuiltIs
  <2>2. Form[n].longs \in 1..Form[n].longs /\ Form[n].longs \in 1..Len(slots) /\ f + Form[n].longs - 1 = q - 1
    <3> DEFINE k == Form[n].longs
    <3>1. k \in Nat /\ k # 0 /\ Len(slots) = k + 1 /\ q = f + Len(slots) - 1 /\ f \in Nat
      BY <1>0, <1>1, <1>5
    <3> HIDE DEF k
    <3>2. k \in 1..k /\ k \in 1..(k + 1) /\ f + k - 1 = q - 1
      BY <3>1
    <3> QED BY <3>1, <3>2 DEF k
  <2>3. slots[Form[n].longs].name = n /\ IsLong(slots[Form[n].longs])
    <3> DEFINE k == Form[n].longs
               s == slots[k]
    <3>1. k \in 1..Form[n].longs /\ s = BuildSlots(n, a, attr, c)[k] /\ Writable(n, a, attr)
      BY <2>1, <2>2
    <3> HIDE DEF k, s
    <3>2. s.name = n /\ IsLong(s)
      BY ONLY <3>1, BuiltLong
    <3> QED BY <3>2 DEF k, s
  <2>4. q - 1 \in DOMAIN w /\ w[q - 1] = slots[Form[n].longs]
    BY <1>0, <1>1, <2>2 DEF HasAll
  <2> QED BY <1>2, <1>3, <1>5, <2>3, <2>4 DEF Tie
<1> QED BY <1>4, <1>5

LEMMA JoinsTold ==
    ASSUME NEW label \in {"short", "link"}, NEW o, NEW t, NEW a, NEW in, Nodes(in),
           Sound(label, o, t, a, in), NEW ng, NEW ls, KnownOn(label, o, t, a, in, ng, ls),
           NEW u, NEW b, Device(b), NEW heads, Chains(u, heads), DirsOf(in) \subseteq heads,
           NEW v, v = ViewOf(t, a, o.d), NEW w, w = ViewOf(u, b, o.d), IsDirectory(v), IsDirectory(w),
           NEW f, f = o.first, NEW q, q = LastOf(o), Run(f, q), Half(v, f, q), Full(w, f, q), Agree(v, w, f, q),
           HasAll(w, f, o.slots), q <= LenOf(u, o.d),
           \A k \in DOMAIN v \cap DOMAIN w : PlaceOf(u, o.d, k) = PlaceOf(t, o.d, k),
           \A e \in (DirsOf(in) \cup PendingOf(label, o)) \ {o.d} : SpotsIn(u, b, e) = SpotsIn(t, a, e)
    PROVE  KnownOn("added", o, u, b, in, ng, ls)
<1> DEFINE d == o.d
           ds == DirsOf(in)
           P == Spots(t, a, PendingOf(label, o))
           S == Spots(t, a, ds)
           s == Spot(u, b, d, q)
           mine == SpotsIn(t, a, d)
<1>1. /\ d \in ds /\ o.n \in Names /\ Built(o.slots, o.n, o.start) /\ f \in Nat \ {0}
      /\ o.call \in {"create", "mkdir", "rename"} /\ Owned(label, o, t, in)
  BY DEF Sound, Knows, Adds, Fill, Rests
<1>2. q = f + Len(o.slots) - 1
  BY DEF LastOf
<1>3. /\ q \in ShortEntries(w) /\ w[q].text = o.slots[Len(o.slots)].text
      /\ Tie(w, q) = (IF Form[o.n].longs = 0 THEN <<>> ELSE <<o.n>>)
  <2> DEFINE n == o.n
             sl == o.slots
  <2>1. WrittenAll(w, f, sl, n, o.start, q)
    BY <1>1, <1>2 DEF WrittenAll
  <2> HIDE DEF n, sl
  <2>2. /\ q \in ShortEntries(w) /\ w[q].text = sl[Len(sl)].text
        /\ Tie(w, q) = (IF Form[n].longs = 0 THEN <<>> ELSE <<n>>)
    BY <2>1, NewTie
  <2> QED BY <2>2 DEF n, sl
<1>4. Piece(v, f, q) /\ Piece(w, f, q)
  BY HalfPiece, FullPiece
<1>5. OutOf(mine, f, q) = OutOf(SpotsIn(u, b, d), f, q) /\ OutOf(mine, f, q) = mine
  <2>1. OutOf(SpotsIn(t, a, d), f, q) = OutOf(SpotsIn(u, b, d), f, q)
    BY <1>4, SpotsOut
  <2>2. OutOf(SpotsIn(t, a, d), f, q) = SpotsIn(t, a, d)
    BY SpotsHalf
  <2> QED BY <2>1, <2>2
<1>6. SpotsIn(u, b, d) = OutOf(SpotsIn(u, b, d), f, q) \cup {s}
  BY SpotsFull
<1>7. Spots(u, b, ds) = S \cup {s}
  <2>1. \A e \in ds \ {d} : SpotsIn(u, b, e) = SpotsIn(t, a, e)
    OBVIOUS
  <2>2. SpotsIn(u, b, d) = SpotsIn(t, a, d) \cup {s}
    BY <1>5, <1>6
  <2>3. d \in ds
    BY <1>1
  <2> HIDE DEF ds, s, d
  <2>4. Spots(u, b, ds) = Spots(t, a, ds) \cup {s}
    BY ONLY <2>1, <2>2, <2>3 DEF Spots
  <2> QED BY <2>4
<1>8. Spots(u, b, PendingOf("added", o)) = P
  <2>1. PendingOf("added", o) = PendingOf(label, o)
    BY DEF PendingOf, Rests
  <2>2. \A e \in PendingOf(label, o) : SpotsIn(u, b, e) = SpotsIn(t, a, e)
    BY <1>1, DirsNotPending
  <2> QED BY <2>1, <2>2, SpotsAll
<1>9. SpotAt(s, u, d, q, w)
  BY SpotIs
<1>10. s.dir = d /\ s.at = q /\ s.place = PlaceOf(u, d, q) /\ s.text = w[q].text /\ s.tie = Tie(w, q)
  BY <1>9 DEF SpotAt
<1> HIDE DEF s
<1>11. s \in Spots(u, b, ds)
  BY <1>7
<1>12. s.place # None
  BY <1>1, <1>11, SpotPlace
<1>13. ASSUME NEW r \in S  PROVE r.place # s.place /\ (r.dir = s.dir => r.at # s.at)
  <2>1. r.dir = d => r.at \notin f..q
    <3> SUFFICES ASSUME r.dir = d  PROVE r.at \notin f..q
      OBVIOUS
    <3>1. r.at \in ShortEntries(ViewOf(t, a, d)) /\ r = Spot(t, a, d, r.at)
      BY SpotsHave
    <3>2. r \in mine
      BY <3>1 DEF SpotsIn
    <3>3. r \in OutOf(mine, f, q)
      BY <1>5, <3>2
    <3> QED BY <3>3 DEF OutOf
  <2>2. r.dir = s.dir => r.at # s.at
    BY <1>10, <2>1 DEF Run
  <2>3. r \in Spots(u, b, ds) /\ r # s
    BY <1>7, <2>2
  <2> HIDE DEF S, ds
  <2> QED BY <1>1, <1>11, <2>2, <2>3, PlacesApart DEF ds
<1>14. IsNew(s, o, S)
  BY <1>3, <1>10, <1>12, <1>13 DEF IsNew, LastOf
<1>15. Known(label, o, S, P, in, ng, ls)
  BY DEF KnownOn
<1> HIDE DEF S, P
<1>16. Known("added", o, S \cup {s}, P, in, ng, ls)
  BY <1>1, <1>14, <1>15, NewKnown
<1> QED BY <1>7, <1>8, <1>16 DEF KnownOn

LEMMA FillShortTold == ASSUME Aware, FillShort  PROVE Told(op', fat', buf', disk', ino', neg', listed')
<1> DEFINE d == op.d
           f == op.first
           q == LastOf(op)
           block == BlockOf(NewPlace(Room))
           v == ViewOf(fat, buf, d)
           w == ViewOf(fat, buf', d)
           sh == "short"
           heads == HeadsOf(sh, op, ino)
<1>1. /\ op.pc = sh /\ fat' = fat /\ disk' = disk /\ ino' = ino /\ neg' = neg /\ listed' = listed
      /\ op' = Syncing(op, {block}, "added", "undo")
  BY DEF FillShort, Sync, notes
<1>2. op.pc \in Fill /\ sh \in {"short", "link"} /\ sh \in Adds \ {"added", "build"} /\ "added" \in Labels
  BY <1>1 DEF Fill, Adds, Labels
<1>3. /\ Resolved /\ Sane /\ KnownOn(sh, op, fat, buf, ino, neg, listed) /\ Device(disk) /\ DOMAIN op = OpFields
  BY <1>1, Calmly DEF Resolved, Aware
<1>4. Sound(sh, op, fat, buf, ino) /\ Device(buf) /\ Nodes(ino) /\ Chains(fat, heads)
  BY <1>1, <1>2, <1>3, FillKnown
<1>5. /\ Device(buf') /\ q <= LenOf(fat, d) /\ Run(f, q) /\ IsDirectory(v) /\ IsDirectory(w) /\ Half(v, f, q)
      /\ Full(w, f, q) /\ Agree(v, w, f, q) /\ HasAll(w, f, op.slots)
      /\ \A e \in heads \ {d} : ViewOf(fat, buf', e) = ViewOf(fat, buf, e)
  BY <1>3, FillShortRead
<1> HIDE DEF v, w, heads, sh, block
<1>6. DirsOf(ino) \subseteq heads
  BY <1>4, DirsHeads DEF heads
<1>7. PendingOf(sh, op) \subseteq heads
  BY DEF HeadsOf, heads
<1>8. \A e \in (DirsOf(ino) \cup PendingOf(sh, op)) \ {d} : SpotsIn(fat, buf', e) = SpotsIn(fat, buf, e)
  BY <1>5, <1>6, <1>7, SpotsSame
<1>9. KnownOn("added", op, fat, buf', ino, neg, listed)
  <2>1. v = ViewOf(fat, buf, op.d) /\ w = ViewOf(fat, buf', op.d) /\ f = op.first /\ q = LastOf(op)
    BY DEF v, w
  <2>2. \A k \in DOMAIN v \cap DOMAIN w : PlaceOf(fat, op.d, k) = PlaceOf(fat, op.d, k)
    OBVIOUS
  <2> HIDE DEF f, q
  <2> QED BY <1>2, <1>3, <1>4, <1>5, <1>6, <1>8, <2>1, <2>2, JoinsTold
<1>10. KnownOn("undo", op, fat, buf, ino, neg, listed)
  BY <1>2, <1>3, FillStays
<1>11. setup.dirsync => Likes(buf, disk)
  BY <1>3 DEF Resolved
<1>13. Core(Syncing(op, {block}, "added", "undo"), fat, buf', disk, ino)
  BY <1>1, <1>3, FillShortCore
<1>12. Told(Syncing(op, {block}, "added", "undo"), fat, buf', disk, ino, neg, listed)
  BY <1>13, <1>2, <1>3, <1>4, <1>5, <1>9, <1>10, <1>11, TellsOne
<1> QED BY <1>1, <1>12

(* A free cluster that is taken is in no directory yet.                     *)
LEMMA NewSpots ==
    ASSUME NEW t, Table(t), NEW heads, Chains(t, heads), NEW c \in Clusters, NEW u, NewAt(t, u, c),
           NEW a, NEW m, OnlyAt(c, a, m)
    PROVE  \A e \in heads : SpotsIn(u, m, e) = SpotsIn(t, a, e)
<1>1. NewRead(t, u, c, heads)
  BY NewViews
<1>2. \A e \in heads : ChainOf(u, e) = ChainOf(t, e) /\ ViewOf(u, m, e) = ViewOf(t, a, e)
  BY <1>1 DEF NewRead
<1> QED BY <1>2, SpotsSame

LEMMA GrownKnown ==
    ASSUME NEW l \in Adds \ {"added", "build"}, NEW label \in {"link", "undo"}, NEW o, NEW t, NEW dev, NEW in, NEW ng, NEW ls,
           KnownOn(l, o, t, dev, in, ng, ls), DOMAIN o = OpFields, NEW c, NEW r, r = [o EXCEPT !.grown = c]
    PROVE  KnownOn(label, r, t, dev, in, ng, ls)
<1> DEFINE S == Spots(t, dev, DirsOf(in))
           P == Spots(t, dev, PendingOf(l, o))
<1>1. PendingOf(label, r) = PendingOf(l, o)
  BY DEF PendingOf, Rests, Adds, OpFields
<1>2. Known(l, o, S, P, in, ng, ls)
  BY DEF KnownOn
<1> HIDE DEF S, P
<1>3. Base(S, in, ng, ls) /\ Ready(o, S, P, in) /\ Fresh(o, S)
  BY <1>2, AddsIs
<1>4. r.d = o.d /\ r.n = o.n /\ r.call = o.call /\ r.over = o.over /\ r.i = o.i /\ r.old = o.old /\ r.slots = o.slots
  BY DEF OpFields
<1>5. Ready(r, S, P, in) /\ Fresh(r, S)
  BY <1>3, <1>4 DEF Ready, Fresh
<1>6. Known(label, r, S, P, in, ng, ls)
  <2>1. CASE label = "undo"
    <3>1. Quiet(label, r)
      BY <2>1 DEF Quiet
    <3> QED BY <1>3, <3>1, BaseIs
  <2>2. CASE label # "undo"
    <3>1. label \in Adds \ {"added"}
      BY <2>2 DEF Adds
    <3> QED BY <1>3, <1>5, <3>1, AddsIs
  <2> QED BY <2>1, <2>2
<1> QED BY <1>1, <1>6 DEF KnownOn, S, P

LEMMA GrowTold == ASSUME Aware, Grow  PROVE Told(op', fat', buf', disk', ino', neg', listed')
<1> DEFINE gr == "grow"
           heads == HeadsOf(gr, op, ino)
<1>1. op.pc = gr /\ disk' = disk /\ ino' = ino /\ neg' = neg /\ listed' = listed
  BY DEF Grow, notes
<1>2. op.pc \in Fill /\ gr \in Adds \ {"added", "build"} /\ "link" \in Labels
  BY <1>1 DEF Fill, Adds, Labels
<1>3. /\ Resolved /\ Sane /\ KnownOn(gr, op, fat, buf, ino, neg, listed) /\ Device(disk) /\ DOMAIN op = OpFields
      /\ Core(op', fat', buf', disk', ino')
  BY <1>1, Calmly, GrowCore DEF Resolved, Aware
<1>4. Device(buf) /\ Nodes(ino) /\ Chains(fat, heads) /\ Device(buf')
  BY <1>1, <1>2, <1>3, FillKnown DEF Core, Typed
<1>5. CASE Free = {} /\ Goto("undo") /\ UNCHANGED <<fat, buf>>
  <2>1. KnownOn("undo", op, fat, buf, ino, neg, listed)
    BY <1>2, <1>3, FillStays
  <2> QED BY <1>1, <1>5, <2>1, GotoTold
<1>6. ASSUME NEW c \in FreeCluster, fat' = [fat EXCEPT ![c] = "eof"], SetSlots(NewEntries(c)),
             op' = Syncing([op EXCEPT !.grown = c], BlocksOf(c), "link", "undo")
      PROVE  Told(op', fat', buf', disk', ino', neg', listed')
  <2> DEFINE r == [op EXCEPT !.grown = c]
             blocks == BlocksOf(c)
  <2>1. c \in Clusters /\ fat[c] = "free" /\ Table(fat)
    BY <1>3, <1>6, FreeIs DEF Resolved, Typed, Table
  <2>2. NewAt(fat, fat', c)
    BY <1>6, <2>1, FreeTaken DEF Table
  <2>3. \A p \in Places : p[1] # c => buf'[p] = buf[p]
    <3>1. DOMAIN NewEntries(c) = {c} \X (1..Spc)
      BY DEF NewEntries, ZeroedCluster
    <3>2. \A p \in Places : p[1] # c => p \notin {c} \X (1..Spc)
      OBVIOUS
    <3> QED BY <1>6, <3>1, <3>2 DEF SetSlots
  <2>4. DOMAIN r = OpFields
    BY <1>3 DEF OpFields
  <2>5. ASSUME NEW m, OnlyAt(c, buf, m), NEW label \in {"link", "undo"}
        PROVE  KnownOn(label, r, fat', m, ino, neg, listed)
    <3>1. \A e \in heads : SpotsIn(fat', m, e) = SpotsIn(fat, buf, e)
      <4> HIDE DEF heads
      <4> QED BY <1>4, <2>1, <2>2, <2>5, NewSpots
    <3>2. KnownOn(label, r, fat, buf, ino, neg, listed)
      BY <1>2, <1>3, GrownKnown
    <3>3. \A d \in DirsOf(ino) \cup PendingOf(label, r) : d \in heads
      <4>1. PendingOf(label, r) = PendingOf(gr, op)
        BY <1>3 DEF PendingOf, Rests, OpFields
      <4> QED BY <1>4, <4>1, DirsHeads DEF HeadsOf
    <3> HIDE DEF heads, r
    <3> QED BY <3>1, <3>2, <3>3, KnownAs
  <2> HIDE DEF r, blocks
  <2>6. KnownOn("link", r, fat', buf', ino, neg, listed)
    BY <2>3, <2>5 DEF OnlyAt
  <2>7. \A m : setup.dirsync /\ Device(m) /\ (\A p \in Places : m[p] \in {buf[p], buf'[p]})
               => KnownOn("undo", r, fat', m, ino, neg, listed)
    BY <2>3, <2>5 DEF OnlyAt
  <2>8. setup.dirsync => Likes(buf, disk)
    BY <1>3 DEF Resolved
  <2>10. Core(Syncing(r, blocks, "link", "undo"), fat', buf', disk, ino)
    BY <1>1, <1>3, <1>6 DEF r, blocks
  <2>9. Told(Syncing(r, blocks, "link", "undo"), fat', buf', disk, ino, neg, listed)
    BY <2>10, <1>2, <1>3, <1>4, <2>4, <2>6, <2>7, <2>8, TellsAll
  <2> QED BY <1>1, <1>6, <2>9 DEF r, blocks
<1>7. \/ Free = {} /\ Goto("undo") /\ UNCHANGED <<fat, buf>>
      \/ \E c \in FreeCluster :
            /\ fat' = [fat EXCEPT ![c] = "eof"] /\ SetSlots(NewEntries(c))
            /\ op' = Syncing([op EXCEPT !.grown = c], BlocksOf(c), "link", "undo")
  BY DEF Grow, Sync
<1> QED BY <1>5, <1>6, <1>7

LEMMA LinkTold == ASSUME Aware, Link  PROVE Told(op', fat', buf', disk', ino', neg', listed')
<1> DEFINE d == op.d
           f == op.first
           q == LastOf(op)
           v == ViewOf(fat, buf, d)
           w == ViewOf(fat', buf, d)
           li == "link"
           ad == "added"
           kept == HeadsOf(ad, op, ino)
<1>1. /\ op.pc = li /\ disk' = disk /\ ino' = ino /\ neg' = neg /\ listed' = listed /\ Goto(ad)
  BY DEF Link, notes
<1>2. op.pc \in Fill /\ li \in {"short", "link"}
  BY <1>1 DEF Fill
<1>3. /\ Resolved /\ Sane /\ KnownOn(li, op, fat, buf, ino, neg, listed) /\ DOMAIN op = OpFields
  BY <1>1, Calmly DEF Resolved, Aware
<1>4. Sound(li, op, fat, buf, ino) /\ Device(buf) /\ Nodes(ino)
  BY <1>1, <1>2, <1>3, FillKnown
<1>5. /\ buf' = buf /\ Chains(fat', kept) /\ DOMAIN v = 1..LenOf(fat, d) /\ q <= LenOf(fat', d)
      /\ IsDirectory(v) /\ IsDirectory(w) /\ Agree(v, w, f, q) /\ HasAll(w, f, op.slots) /\ Full(w, f, q)
      /\ Run(f, q) /\ Half(v, f, q) /\ DirsOf(ino) \subseteq kept /\ PendingOf(li, op) \subseteq kept
  BY <1>3, LinkRead
<1>6. \A k \in 1..LenOf(fat, d) : PlaceOf(fat', d, k) = PlaceOf(fat, d, k)
  BY <1>3, LinkRead
<1>7. \A r \in kept : r # d => ViewOf(fat', buf, r) = ViewOf(fat, buf, r) /\ ChainOf(fat', r) = ChainOf(fat, r)
  BY <1>3, LinkRead
<1> HIDE DEF v, w, kept, li
<1>8. \A e \in (DirsOf(ino) \cup PendingOf(li, op)) \ {d} : SpotsIn(fat', buf, e) = SpotsIn(fat, buf, e)
  BY <1>5, <1>7, SpotsSame
<1>9. KnownOn("added", op, fat', buf, ino, neg, listed)
  <2>1. v = ViewOf(fat, buf, op.d) /\ w = ViewOf(fat', buf, op.d) /\ f = op.first /\ q = LastOf(op)
    BY DEF v, w
  <2>2. \A k \in DOMAIN v \cap DOMAIN w : PlaceOf(fat', op.d, k) = PlaceOf(fat, op.d, k)
    BY <1>5, <1>6
  <2> HIDE DEF f, q
  <2> QED BY <1>2, <1>3, <1>4, <1>5, <1>8, <2>1, <2>2, JoinsTold
<1>10. Same(op, op') /\ op'.pc = ad
  BY <1>1, <1>3, GotoIs
<1>11. KnownOn(ad, op', fat', buf, ino, neg, listed)
  BY <1>9, <1>10, KnownOnSame
<1> QED BY <1>1, <1>5, <1>10, <1>11, TellsNow

-----------------------------------------------------------------------------
(* Steps that delete slots.                                                 *)
LEMMA UndoTold == ASSUME Aware, Undo  PROVE Told(op', fat', buf', disk', ino', neg', listed')
<1> DEFINE un == "undo"
           cl == "clear"
           g == op.grown
           cs == {g}
           to == op.first + Room - 1
           kept == {Root} \cup StartsOf(ino)
           heads == HeadsOf(un, op, ino)
           S == Spots(fat, buf, DirsOf(ino))
           P == Spots(fat, buf, PendingOf(un, op))
           Q == Spots(fat', buf', PendingOf(cl, op'))
<1>1. /\ op.pc \in {un, "link"} /\ op.pc # "sync" /\ op.pc \in Fill
      /\ fat' = (IF g = None THEN fat ELSE [fat EXCEPT ![g] = "free"])
      /\ buf' = Emptied(buf, cs) /\ ino' = ino /\ neg' = neg /\ listed' = listed
      /\ op' = Clearing(op.d, op.first, to, "refused")
  BY DEF Undo, LinkFails, Forgotten, Emptied, notes, Fill
<1>2. /\ Resolved /\ Sound(op.pc, op, fat, buf, ino) /\ Nodes(ino)
      /\ KnownOn(op.pc, op, fat, buf, ino, neg, listed)
  BY <1>1, Calmly DEF Resolved, Typed
<1>3. Sound(un, op, fat, buf, ino)
  BY <1>1, <1>2, UndoSound
<1>4. KnownOn(un, op, fat, buf, ino, neg, listed)
  <2>1. CASE op.pc = un
    BY <1>2, <2>1
  <2>2. CASE op.pc = "link"
    BY <1>2, <2>2, FillStays DEF Adds
  <2> QED BY <1>1, <2>1, <2>2
<1> HIDE DEF to
<1>5. op'.pc = cl /\ op'.after = "refused"
  BY <1>1, ClearingIs DEF Aware, Sane
<1>6. Rid(fat, fat', cs)
  BY <1>1, <1>2 DEF Rid, Resolved, Typed
<1>7. Chains(fat, heads) /\ kept \subseteq heads
  BY <1>3 DEF Sound, Owned, HeadsOf
<1>8. Apart(fat, kept, cs)
  <2>1. CASE g = None
    <3>1. \A r \in kept : ClustersOf(fat, r) \subseteq Clusters
      BY <1>7, ChainCells DEF Chains
    <3> QED BY <2>1, <3>1, RootAssumption DEF Apart
  <2>2. CASE g # None
    <3>1. GrownOf(un, op) = {g}
      BY <2>2 DEF GrownOf
    <3>2. g \in heads /\ g \notin kept
      BY <1>3, <3>1 DEF HeadsOf, Sound, Owned
    <3> HIDE DEF heads, kept
    <3>3. g \in ClustersOf(fat, g)
      BY <1>7, <3>2, ChainCells DEF Chains
    <3>4. \A r \in kept : ClustersOf(fat, r) \cap ClustersOf(fat, g) = {}
      BY <1>7, <3>2 DEF Chains
    <3> QED BY <3>3, <3>4 DEF Apart
  <2> QED BY <2>1, <2>2
<1>9. DirsOf(ino) \subseteq kept
  BY <1>2 DEF DirsOf, StartsOf, Nodes
<1> HIDE DEF S, P, Q, cs, kept, heads
<1>10. Spots(fat', buf', DirsOf(ino)) = S
  BY <1>1, <1>6, <1>7, <1>8, <1>9, RidSpots DEF S
<1>11. Base(S, ino, neg, listed)
  BY <1>4, BaseIs DEF Quiet, KnownOn, S, P
<1>12. Known(cl, op', S, Q, ino, neg, listed)
  BY <1>5, <1>11, BaseIs DEF Quiet
<1>13. KnownOn(cl, op', fat', buf', ino, neg, listed)
  BY <1>10, <1>12 DEF KnownOn, Q
<1> QED BY <1>1, <1>5, <1>13, TellsNow

LEMMA SpotsHalves ==
    ASSUME NEW t, NEW a, NEW b, NEW d, IsDirectory(ViewOf(t, a, d)), IsDirectory(ViewOf(t, b, d)),
           NEW p, NEW q, Run(p, q), Half(ViewOf(t, a, d), p, q), Half(ViewOf(t, b, d), p, q),
           Agree(ViewOf(t, a, d), ViewOf(t, b, d), p, q)
    PROVE  SpotsIn(t, b, d) = SpotsIn(t, a, d)
<1>1. Piece(ViewOf(t, a, d), p, q) /\ Piece(ViewOf(t, b, d), p, q)
  BY DEF Half, Piece
<1>2. OutOf(SpotsIn(t, a, d), p, q) = OutOf(SpotsIn(t, b, d), p, q)
  BY <1>1, SpotsOut
<1>3. /\ OutOf(SpotsIn(t, a, d), p, q) = SpotsIn(t, a, d)
      /\ OutOf(SpotsIn(t, b, d), p, q) = SpotsIn(t, b, d)
  BY SpotsHalf
<1> QED BY <1>2, <1>3

LEMMA ClearKnown ==
    ASSUME NEW o, o.after \in {"refused", "removed"}, o.after = "removed" => ~o.undoing,
           NEW S, NEW P, NEW in, NEW ng, NEW ls, Known("clear", o, S, P, in, ng, ls),
           NEW r, Aims(o, r), r.after = o.after, r.undoing = o.undoing, NEW Q
    PROVE  Known("clear", r, S, Q, in, ng, ls)
<1>1. CASE o.after = "refused"
  <2>1. Base(S, in, ng, ls)
    BY <1>1, BaseIs DEF Quiet
  <2> QED BY <1>1, <2>1, BaseIs DEF Quiet
<1>2. CASE o.after = "removed"
  <2>1. GoneBase(o, S, in, ng, ls)
    BY <1>2, GoneIs DEF Gone
  <2>2. GoneBase(r, S, in, ng, ls)
    BY <2>1, GoneSame
  <2> QED BY <1>2, <2>2, GoneIs DEF Gone
<1> QED BY <1>1, <1>2

LEMMA ClearTold ==
    ASSUME Aware, Clear, ~(op.from > op.to)
    PROVE  Told(op', fat', buf', disk', ino', neg', listed')
<1> DEFINE d == op.cut.d
           f == op.from
           ks == {k \in f..op.to : BlockAt(fat, d, k) = BlockAt(fat, d, f)}
           r == [op EXCEPT !.from = f + Cardinality(ks)]
           block == BlockAt(fat, d, f)
           v == ViewOf(fat, buf, d)
           w == ViewOf(fat, buf', d)
           cl == "clear"
           heads == HeadsOf(cl, op, ino)
           S == Spots(fat, buf, DirsOf(ino))
           P == Spots(fat, buf, PendingOf(cl, op))
           Q == Spots(fat, buf', PendingOf(cl, r))
<1>0. Sane
  BY DEF Aware
<1>1. /\ op.pc = cl /\ fat' = fat /\ disk' = disk /\ ino' = ino
      /\ op' = Syncing(r, {block}, cl, op.after)
  BY <1>0, ClearRead
<1>2. neg' = neg /\ listed' = listed
  BY DEF Clear, notes
<1>3. /\ Device(buf') /\ Len(w) = Len(v) /\ DOMAIN v = 1..LenOf(fat, d) /\ DOMAIN w = 1..LenOf(fat, d)
      /\ \A k \in 1..LenOf(fat, d) : IF k \in ks THEN Blank(w[k]) ELSE w[k] = v[k]
      /\ \A e \in heads \ {d} : ViewOf(fat, buf', e) = ViewOf(fat, buf, e)
  BY <1>0, ClearRead
<1>4. /\ Resolved /\ Sound(cl, op, fat, buf, ino) /\ Device(buf) /\ Device(disk) /\ Nodes(ino)
      /\ Known(cl, op, S, P, ino, neg, listed)
  BY <1>1, Calmly DEF Resolved, Typed, KnownOn
<1>5. /\ op.after \in {"refused", "removed"} /\ (op.after = "removed" => ~op.undoing) /\ d \in DirsOf(ino)
  BY <1>4 DEF Sound, Knows
<1>6. PICK p, q \in Nat : Removing(v, p, q, f, op.to)
  BY <1>4 DEF Sound, Fit, Cutting
<1>7. ks \in SUBSET (p..q)
  <2>1. p <= f /\ op.to <= q /\ f \in Int /\ op.to \in Int
    BY <1>6 DEF Removing
  <2> DEFINE to == op.to
  <2> HIDE DEF f, to
  <2>2. f..to \subseteq p..q
    BY <2>1 DEF to
  <2> QED BY <2>2 DEF to
<1>8. DirsOf(ino) \subseteq heads /\ Chains(fat, heads)
  BY <1>4, DirsHeads DEF Sound, Owned
<1>9. IsDirectory(v) /\ IsDirectory(w)
  <2>1. IsChain(fat, d, ChainOf(fat, d))
    BY <1>5, <1>8 DEF Chains
  <2> QED BY <1>3, <1>4, <2>1, SlotsOf, ViewDirectory
<1>10. /\ r.from = f + Cardinality(ks) /\ DOMAIN r = OpFields /\ Aims(op, r)
       /\ r.after = op.after /\ r.undoing = op.undoing
  BY <1>4 DEF Resolved, OpFields, Aims
<1> HIDE DEF d, f, v, w, heads, ks, S, P, Q, r
<1>11. Half(w, p, q) /\ Agree(v, w, p, q) /\ Run(p, q) /\ Half(v, p, q)
  <2>1. Run(p, q) /\ Half(v, p, q)
    BY <1>6 DEF Removing
  <2>2. Agree(v, w, p, q)
    BY <1>3, <1>7 DEF Agree
  <2>3. ASSUME NEW k \in p..q, k \in DOMAIN w  PROVE Blank(w[k]) \/ LongPiece(w, p, q, k)
    <3>1. k \in DOMAIN v /\ (Blank(w[k]) \/ w[k] = v[k])
      BY <1>3, <2>3
    <3>2. Blank(v[k]) \/ LongPiece(v, p, q, k)
      BY <2>1, <3>1 DEF Half
    <3> QED BY <3>1, <3>2 DEF LongPiece
  <2> QED BY <2>1, <2>2, <2>3 DEF Half
<1>12. SpotsIn(fat, buf', d) = SpotsIn(fat, buf, d)
  BY <1>9, <1>11, SpotsHalves DEF v, w
<1>13. \A e \in DirsOf(ino) : SpotsIn(fat, buf', e) = SpotsIn(fat, buf, e)
  BY <1>3, <1>8, <1>12, SpotsSame
<1>14. Spots(fat, buf', DirsOf(ino)) = S
  BY <1>13, SpotsAll DEF S
<1>15. Known(cl, r, S, Q, ino, neg, listed)
  BY <1>4, <1>5, <1>10, ClearKnown
<1>16. KnownOn(cl, r, fat, buf', ino, neg, listed)
  BY <1>14, <1>15 DEF KnownOn, Q
<1>17. Told(Syncing(r, {block}, cl, op.after), fat, buf', disk, ino, neg, listed)
  <2>1. cl \in Labels /\ r.after # None
    BY <1>5, <1>10, InodeAssumption DEF Labels, Cuts
  <2>2. setup.dirsync => Likes(buf, disk)
    BY <1>4 DEF Resolved
  <2>3. Core(op', fat', buf', disk', ino')
    BY ClearCore DEF Aware
  <2> HIDE DEF block, cl
  <2>4. Core(Syncing(r, {block}, cl, op.after), fat, buf', disk, ino)
    BY <1>1, <1>2, <2>3
  <2> QED BY <1>3, <1>4, <1>10, <1>16, <2>1, <2>2, <2>4, TellsOne
<1> QED BY <1>1, <1>2, <1>17

(* The short slot goes, and with it its entry.                              *)
LEMMA SpotsCut ==
    ASSUME NEW t, NEW a, NEW b, NEW d, IsDirectory(ViewOf(t, a, d)), IsDirectory(ViewOf(t, b, d)),
           NEW p, NEW q, Run(p, q), Full(ViewOf(t, a, d), p, q), Half(ViewOf(t, b, d), p, q),
           Agree(ViewOf(t, a, d), ViewOf(t, b, d), p, q), NEW ds, d \in ds,
           \A e \in ds \ {d} : SpotsIn(t, b, e) = SpotsIn(t, a, e)
    PROVE  /\ Spots(t, b, ds) = Spots(t, a, ds) \ {Spot(t, a, d, q)}
           /\ Spot(t, a, d, q) \in Spots(t, a, ds)
<1>1. Piece(ViewOf(t, a, d), p, q) /\ Piece(ViewOf(t, b, d), p, q)
  BY HalfPiece, FullPiece
<1>2. OutOf(SpotsIn(t, a, d), p, q) = OutOf(SpotsIn(t, b, d), p, q)
  BY <1>1, SpotsOut
<1>3. OutOf(SpotsIn(t, b, d), p, q) = SpotsIn(t, b, d)
  BY SpotsHalf
<1>4. /\ SpotsIn(t, a, d) = OutOf(SpotsIn(t, a, d), p, q) \cup {Spot(t, a, d, q)}
      /\ Spot(t, a, d, q) \notin OutOf(SpotsIn(t, a, d), p, q)
  BY SpotsFull
<1>5. SpotsIn(t, b, d) = SpotsIn(t, a, d) \ {Spot(t, a, d, q)}
  BY <1>2, <1>3, <1>4
<1>6. Spot(t, a, d, q).dir = d
  BY SpotIs DEF SpotAt
<1>7. Spots(t, b, ds) = Spots(t, a, ds) \ {Spot(t, a, d, q)}
  BY <1>5, <1>6, SpotsLess
<1>8. Spot(t, a, d, q) \in Spots(t, a, ds)
  BY <1>4 DEF Spots
<1> QED BY <1>7, <1>8

LEMMA CutKnown ==
    ASSUME NEW o, NEW in, NEW t, NEW dev, Sound("rm", o, t, dev, in),
           NEW S, NEW P, NEW ng, NEW ls, Known("rm", o, S, P, in, ng, ls),
           NEW c \in S, IsAt(c, o.cut), NEW Q
    PROVE  /\ Known("cleared", o, S \ {c}, Q, in, ng, ls)
           /\ ~o.undoing => Known("kept", o, S, Q, in, ng, ls)
<1> DEFINE rm == "rm"
           cleared == "cleared"
           kept == "kept"
<1>1. /\ o.call \in {"unlink", "rmdir", "rename"} /\ o.i \in Inodes /\ in[o.i] # None /\ o.n \in Names
      /\ (o.undoing => o.call = "rename") /\ o.after = None
  BY DEF Sound, Knows, Rests
<1>2. Sorted(S)
  BY DEF Known
<1>3. CASE Unlinks(o)
  <2>1. PICK cut : CutBase(o, S, cut, in, ng, ls)
    BY <1>3, CutIs
  <2>2. cut = c
    BY <1>2, <2>1, OneSpot DEF CutBase
  <2>3. GoneBase(o, S \ {c}, in, ng, ls)
    BY <1>1, <1>3, <2>1, <2>2, CutGone
  <2>4. o.call # "rename" /\ ~o.undoing
    BY <1>1, <1>3 DEF Unlinks
  <2>5. Known(cleared, o, S \ {c}, Q, in, ng, ls)
    BY <2>3, <2>4, GoneIs DEF Gone
  <2>6. Base(S, in, ng, ls)
    BY <2>1 DEF CutBase
  <2>7. Known(kept, o, S, Q, in, ng, ls)
    BY <2>4, <2>6, BaseIs DEF Quiet
  <2> QED BY <2>5, <2>7
<1>4. CASE o.call = "rename" /\ ~o.undoing
  <2>1. Moved(rm, o) /\ Moved(kept, o)
    BY <1>4 DEF Moved, Moves
  <2>2. PICK old, new : MovedBase(o, S, old, new, in, ng, ls)
    BY <1>4, <2>1, MovedKnows
  <2>3. o.cut = o.old
    BY <1>4 DEF Known, Renames
  <2>4. old = c
    BY <1>2, <2>2, <2>3, OneSpot DEF MovedBase
  <2>5. GoneBase(o, S \ {c}, in, ng, ls)
    BY <1>1, <1>4, <2>2, <2>4, MovedGone
  <2>6. Known(cleared, o, S \ {c}, Q, in, ng, ls)
    BY <1>4, <2>5, GoneIs DEF Gone
  <2>7. Known(kept, o, S, Q, in, ng, ls)
    BY <1>4, <2>1, <2>2, MovedKnown
  <2> QED BY <2>6, <2>7
<1>5. CASE o.call = "rename" /\ o.undoing
  <2>1. BackBase(o, S, c, in, ng, ls)
    BY <1>5, BackIs
  <2>2. Base(S \ {c}, in, ng, ls)
    BY <2>1, BackGone
  <2>3. Known(cleared, o, S \ {c}, Q, in, ng, ls)
    BY <1>5, <2>2, BaseIs DEF Quiet
  <2> QED BY <1>5, <2>3
<1> QED BY <1>1, <1>3, <1>4, <1>5 DEF Unlinks

LEMMA RemoveShortTold == ASSUME Aware, RemoveShort  PROVE Told(op', fat', buf', disk', ino', neg', listed')
<1> DEFINE d == op.cut.d
           at == op.cut.at
           p == at - op.cut.longs
           v == ViewOf(fat, buf, d)
           w == ViewOf(fat, buf', d)
           rm == "rm"
           cleared == "cleared"
           kept == "kept"
           bad == IF op.undoing THEN "refused" ELSE kept
           block == BlockAt(fat, d, at)
           heads == HeadsOf(rm, op, ino)
           S == Spots(fat, buf, DirsOf(ino))
           P == Spots(fat, buf, PendingOf(rm, op))
           Q == Spots(fat, buf', PendingOf(cleared, op))
           R == Spots(fat, buf, PendingOf(kept, op))
           c == Spot(fat, buf, d, at)
<1>0. Sane
  BY DEF Aware
<1>1. /\ op.pc = rm /\ fat' = fat /\ disk' = disk /\ ino' = ino /\ d \in DirsOf(ino)
      /\ op' = Syncing(op, {block}, cleared, bad)
  BY <1>0, RemoveShortRead
<1>2. neg' = neg /\ listed' = listed
  BY DEF RemoveShort, notes
<1>3. /\ Whole(v) /\ Run(p, at) /\ Full(v, p, at) /\ Agree(v, w, p, at)
      /\ Removing(w, p, at, p, at - Cardinality(CutFirstOf(op, fat)))
      /\ Device(buf') /\ \A e \in heads \ {d} : ViewOf(fat, buf', e) = ViewOf(fat, buf, e)
  BY <1>0, RemoveShortRead
<1>4. /\ Resolved /\ Sound(rm, op, fat, buf, ino) /\ Device(buf) /\ Device(disk) /\ Nodes(ino)
      /\ Known(rm, op, S, P, ino, neg, listed) /\ DOMAIN op = OpFields
  BY <1>1, Calmly DEF Resolved, Typed, KnownOn
<1>5. DirsOf(ino) \subseteq heads /\ Chains(fat, heads)
  BY <1>4, DirsHeads DEF Sound, Owned
<1>6. IsDirectory(v) /\ IsDirectory(w) /\ Half(w, p, at)
  <2>1. IsChain(fat, d, ChainOf(fat, d))
    BY <1>1, <1>5 DEF Chains
  <2> QED BY <1>3, <1>4, <2>1, SlotsOf, ViewDirectory DEF Removing
<1>7. c.dir = d /\ c.at = at
  BY SpotIs DEF SpotAt
<1>8. IsAt(c, op.cut)
  BY <1>7 DEF IsAt
<1> HIDE DEF d, at, p, heads
<1>9. \A e \in DirsOf(ino) \ {d} : SpotsIn(fat, buf', e) = SpotsIn(fat, buf, e)
  BY <1>3, <1>5, SpotsSame
<1>10. Spots(fat, buf', DirsOf(ino)) = S \ {c} /\ c \in S
  BY <1>1, <1>3, <1>6, <1>9, SpotsCut
<1> HIDE DEF c, S, P, Q, R
<1>11. /\ Known(cleared, op, S \ {c}, Q, ino, neg, listed)
       /\ ~op.undoing => Known(kept, op, S, R, ino, neg, listed)
  BY <1>4, <1>8, <1>10, CutKnown
<1>12. KnownOn(cleared, op, fat, buf', ino, neg, listed)
  BY <1>10, <1>11 DEF KnownOn, Q
<1>13. ~op.undoing => KnownOn(kept, op, fat, buf, ino, neg, listed)
  BY <1>11 DEF KnownOn, R, S
<1>14. Told(Syncing(op, {block}, cleared, bad), fat, buf', disk, ino, neg, listed)
  <2>1. cleared \in Labels
    BY DEF Labels, Cuts
  <2>2. setup.dirsync => Likes(buf, disk)
    BY <1>4 DEF Resolved
  <2>3. op.undoing \/ op.after # None \/ KnownOn(bad, op, fat, buf, ino, neg, listed)
    BY <1>13
  <2>4. Core(op', fat', buf', disk', ino')
    BY RemoveShortCore DEF Aware
  <2> HIDE DEF block, cleared, bad
  <2>5. Core(Syncing(op, {block}, cleared, bad), fat, buf', disk, ino)
    BY <1>1, <1>2, <2>4
  <2> QED BY <1>3, <1>4, <1>12, <2>1, <2>2, <2>3, <2>5, TellsOne
<1> QED BY <1>1, <1>2, <1>14

LEMMA StepTold ==
    ASSUME Aware, Step, ~broken'  PROVE Told(op', fat', buf', disk', ino', neg', listed')
  BY SyncOkTold, SyncFailTold, FlushTold, BuildTold, FillLongTold, FillShortTold, GrowTold, LinkTold,
     UndoTold, ClearedTold, ClearTold, RemoveShortTold, RemoveLongsTold, KeptTold, AddedTold,
     RemovedTold, RefusedTold, MoveTold, SetDotDotTold, CountTold, RenamedTold, UndoDotDotTold,
     UndoMoveTold, ReturnTold DEF Step

-----------------------------------------------------------------------------
(* Requests.                                                                *)
LEMMA RestTold ==
    ASSUME Aware, op.pc = "idle"
    PROVE  /\ Resolved /\ Sound("idle", op, fat, buf, ino) /\ Nodes(ino) /\ Device(buf) /\ Device(disk)
           /\ Base(Spots(fat, buf, DirsOf(ino)), ino, neg, listed)
           /\ \A d \in DirsOf(ino) : Whole(ViewOf(fat, buf, d))
           /\ Chains(fat, HeadsOf("idle", op, ino)) /\ DirsOf(ino) \subseteq HeadsOf("idle", op, ino)
<1> DEFINE id == "idle"
<1>1. Resolved /\ Sound(id, op, fat, buf, ino) /\ Device(buf) /\ Device(disk) /\ KnownOn(id, op, fat, buf, ino, neg, listed)
  BY Calmly
<1>2. Nodes(ino)
  BY <1>1 DEF Resolved, Typed
<1>3. Base(Spots(fat, buf, DirsOf(ino)), ino, neg, listed)
  BY <1>1, BaseIs DEF Quiet, KnownOn
<1>4. \A d \in DirsOf(ino) : Whole(ViewOf(fat, buf, d))
  BY <1>1, DirWhole DEF Fill
<1>5. Chains(fat, HeadsOf(id, op, ino)) /\ DirsOf(ino) \subseteq HeadsOf(id, op, ino)
  BY <1>1, <1>2, DirsHeads DEF Sound, Owned
<1> QED BY <1>1, <1>2, <1>3, <1>4, <1>5

(* What the VFS knows of a name is what its directory has.                  *)
LEMMA DentryTold ==
    ASSUME Aware, op.pc = "idle", NEW e \in Dentries,
           NEW S, S = Spots(fat, buf, DirsOf(ino))
    PROVE  /\ e.d \in DirsOf(ino) /\ e.n \in Names
           /\ e.obj = None => \A s \in S : s.dir = e.d => ~Called(s, e.n)
           /\ e.obj # None => /\ e.obj \in Inodes /\ ino[e.obj] # None
                              /\ \E s \in S : /\ IsAt(s, e.info) /\ s.dir = e.d /\ Called(s, e.n)
                                              /\ ino[e.obj].pos = s.place
<1>1. PICK d \in Dirs : \E n \in setup.names : e = Dentry(d, View(buf, d), Records(View(buf, d)), n)
  BY DEF Dentries
<1>2. PICK n \in setup.names : e = Dentry(d, View(buf, d), Records(View(buf, d)), n)
  BY <1>1
<1> DEFINE v == ViewOf(fat, buf, d)
           all == {r \in Records(v) : Answers(v, r, n)}
           r == FirstOf(all)
           s == Spot(fat, buf, d, r.at)
<1>3. /\ Base(S, ino, neg, listed) /\ d \in DirsOf(ino) /\ n \in Names /\ Whole(v)
  BY RestTold, DirsNow, SetupAssumption DEF Aware, Sane, Shape
<1>4. View(buf, d) = v
  BY ViewNow
<1>5. CASE <<d, n>> \in neg \/ all = {}
  <2>1. e = [d |-> d, n |-> n, info |-> NoInfo, obj |-> None]
    BY <1>2, <1>4, <1>5 DEF Dentry
  <2>2. ASSUME NEW x \in S, x.dir = d, Called(x, n)  PROVE FALSE
    <3>1. CASE <<d, n>> \in neg
      <4> DEFINE p == <<d, n>>
      <4>1. p[1] = d /\ p[2] = n /\ p \in neg
        BY <3>1
      <4> HIDE DEF p
      <4> QED BY <1>3, <2>2, <4>1 DEF Base, Truthful
    <3>2. CASE all = {}
      <4>1. x.at \in ShortEntries(v) /\ x = Spot(fat, buf, d, x.at)
        BY <2>2, SpotsHave
      <4>2. PICK q \in Records(v) : q.at = x.at
        BY <1>3, <4>1, ShortRecord
      <4>3. Called(Spot(fat, buf, d, q.at), n) <=> Answers(v, q, n)
        BY <1>3, RecordNamed
      <4> QED BY <2>2, <3>2, <4>1, <4>2, <4>3
    <3> QED BY <1>5, <3>1, <3>2
  <2> QED BY <1>3, <2>1, <2>2
<1>6. CASE ~(<<d, n>> \in neg \/ all = {})
  <2>1. e = [d |-> d, n |-> n, info |-> [d |-> d, at |-> r.at, longs |-> r.longs],
             obj |-> ObjectAt(Place(d, r.at))]
    BY <1>2, <1>4, <1>6 DEF Dentry
  <2>2. r \in all
    BY <1>3, <1>6, FirstIn
  <2>3. /\ r.at \in ShortEntries(v) /\ s.dir = d /\ s.at = r.at /\ s.place = PlaceOf(fat, d, r.at)
        /\ Called(s, n)
    BY <1>3, <2>2, RecordNamed
  <2>4. s \in S
    BY <1>3, <2>3, SpotsWith
  <2> HIDE DEF s, all, r
  <2>5. ~Dotted(s)
    BY <1>3, <2>3, <2>4, CalledNoDots DEF Base
  <2>6. Sorted(S) /\ Hosted(S, {}, ino, {})
    BY <1>3 DEF Base
  <2>7. /\ HolderOf(ino, s.place) \in Inodes /\ ino[HolderOf(ino, s.place)] # None
        /\ ino[HolderOf(ino, s.place)].pos = s.place
    BY <2>4, <2>5, <2>6, Holds
  <2>8. ObjectAt(Place(d, r.at)) = HolderOf(ino, s.place)
    <3>1. Place(d, r.at) = s.place
      BY <2>3, PlaceNow
    <3> QED BY <3>1 DEF ObjectAt, At, HolderOf
  <2>9. e.d = d /\ e.n = n /\ e.obj = HolderOf(ino, s.place) /\ e.info.d = d /\ e.info.at = r.at
    BY <2>1, <2>8
  <2>10. IsAt(s, e.info) /\ e.obj # None
    BY <2>3, <2>7, <2>9, RootAssumption DEF IsAt
  <2> QED BY <1>3, <2>3, <2>4, <2>7, <2>9, <2>10
<1> QED BY <1>5, <1>6

LEMMA BeginsTold ==
    ASSUME fat' = fat, buf' = buf, ino' = ino, neg' = neg, listed' = listed,
           NEW label, label # "sync", op'.pc = label, op'.start = None,
           Known(label, op', Spots(fat, buf, DirsOf(ino)), {}, ino, neg, listed)
    PROVE  Told(op', fat', buf', disk', ino', neg', listed')
<1>1. PendingOf(label, op') = {}
  BY DEF PendingOf
<1>2. Spots(fat, buf, PendingOf(label, op')) = {}
  BY <1>1 DEF Spots
<1>3. KnownOn(label, op', fat, buf, ino, neg, listed)
  BY <1>2 DEF KnownOn
<1> QED BY <1>3, TellsNow

LEMMA CreateTold ==
    ASSUME Aware, NEW e \in Dentries, Create(e)  PROVE Told(op', fat', buf', disk', ino', neg', listed')
<1> DEFINE S == Spots(fat, buf, DirsOf(ino))
<1>1. /\ op.pc = "idle" /\ e.obj = None /\ fat' = fat /\ buf' = buf /\ ino' = ino /\ neg' = neg /\ listed' = listed
      /\ op' = [Resting EXCEPT !.pc = "build", !.call = "create", !.d = e.d, !.n = e.n]
  BY DEF Create, Idle, Ask, volume, notes
<1>2. op'.pc = "build" /\ op'.call = "create" /\ op'.d = e.d /\ op'.n = e.n /\ op'.start = None
  BY <1>1 DEF Resting
<1>3. Base(S, ino, neg, listed)
  BY <1>1, RestTold
<1>4. \A s \in S : s.dir = e.d => ~Called(s, e.n)
  BY <1>1, DentryTold
<1> HIDE DEF S
<1>5. Ready(op', S, {}, ino)
  BY <1>2, <1>4 DEF Ready, Sorted
<1>6. Known("build", op', S, {}, ino, neg, listed)
  BY <1>3, <1>5, AddsIs DEF Adds
<1> QED BY <1>1, <1>2, <1>6, BeginsTold DEF S

LEMMA EmptyDotted ==
    ASSUME Aware, op.pc = "idle", NEW i \in Inodes, EmptyDir(i),
           NEW s \in Spots(fat, buf, DirsOf(ino)), s.dir = ino[i].start
    PROVE  Dotted(s)
<1> DEFINE d == ino[i].start
<1>1. s.dir = d /\ s.at \in ShortEntries(ViewOf(fat, buf, d)) /\ SpotAt(s, fat, d, s.at, ViewOf(fat, buf, d))
  BY SpotsHave
<1>2. \A k \in ShortEntries(ViewOf(fat, buf, d)) : IsDots(ViewOf(fat, buf, d)[k])
  BY ViewNow DEF EmptyDir, DirEmpty
<1> QED BY <1>1, <1>2 DEF Dotted, IsDots, SpotAt

LEMMA UnlinkTold ==
    ASSUME Aware, NEW e \in Dentries, Unlink(e) \/ Rmdir(e)
    PROVE  Told(op', fat', buf', disk', ino', neg', listed')
<1> DEFINE S == Spots(fat, buf, DirsOf(ino))
<1>1. /\ op.pc = "idle" /\ fat' = fat /\ buf' = buf /\ ino' = ino /\ neg' = neg /\ listed' = listed /\ e.obj # None
      /\ \E label \in {"rm", "refused"}, call \in {"unlink", "rmdir"} :
            /\ op' = [Resting EXCEPT !.pc = label, !.call = call, !.d = e.d, !.n = e.n, !.i = e.obj,
                                     !.cut = e.info]
            /\ label = "rm" /\ ino[e.obj].dir => EmptyDir(e.obj)
  <2>1. CASE Unlink(e)
    BY <2>1 DEF Unlink, Idle, Ask, volume, notes
  <2>2. CASE Rmdir(e)
    BY <2>2 DEF Rmdir, Idle, Ask, volume, notes
  <2> QED BY <2>1, <2>2
<1>2. PICK label \in {"rm", "refused"} :
          \E call \in {"unlink", "rmdir"} :
            /\ op' = [Resting EXCEPT !.pc = label, !.call = call, !.d = e.d, !.n = e.n, !.i = e.obj,
                                     !.cut = e.info]
            /\ label = "rm" /\ ino[e.obj].dir => EmptyDir(e.obj)
  BY <1>1
<1>3. /\ op'.pc = label /\ op'.call \in {"unlink", "rmdir"} /\ op'.d = e.d /\ op'.n = e.n
      /\ op'.i = e.obj /\ op'.cut = e.info /\ op'.start = None /\ op'.over = None
      /\ label = "rm" /\ ino[e.obj].dir => EmptyDir(e.obj)
  BY <1>2 DEF Resting
<1>4. Base(S, ino, neg, listed)
  BY <1>1, RestTold
<1>5. /\ e.n \in Names /\ e.obj \in Inodes /\ ino[e.obj] # None
      /\ \E s \in S : IsAt(s, e.info) /\ s.dir = e.d /\ Called(s, e.n) /\ ino[e.obj].pos = s.place
  BY <1>1, DentryTold
<1>6. CASE label = "refused"
  <2>1. Known(label, op', S, {}, ino, neg, listed)
    BY <1>4, <1>6, BaseIs DEF Quiet
  <2> QED BY <1>1, <1>3, <1>6, <2>1, BeginsTold
<1>7. CASE label = "rm"
  <2>1. ino[e.obj].dir => \A s \in S : s.dir = ino[e.obj].start => Dotted(s)
    BY <1>1, <1>3, <1>5, <1>7, EmptyDotted
  <2> HIDE DEF S
  <2>2. PICK cut \in S : IsAt(cut, e.info) /\ cut.dir = e.d /\ Called(cut, e.n) /\ ino[e.obj].pos = cut.place
    BY <1>5
  <2>3. \A s \in S : s.dir = e.d /\ Called(s, e.n) => s = cut
    BY <1>4, <1>5, <2>2, CalledOnce DEF Base
  <2>4. CutBase(op', S, cut, ino, neg, listed)
    BY <1>3, <1>4, <2>1, <2>2, <2>3 DEF CutBase
  <2>5. Unlinks(op')
    BY <1>3 DEF Unlinks
  <2>6. Known("rm", op', S, {}, ino, neg, listed)
    BY <2>4, <2>5, CutIs
  <2> QED BY <1>1, <1>3, <1>7, <2>6, BeginsTold DEF S
<1> QED BY <1>6, <1>7

LEMMA RenameTold ==
    ASSUME Aware, NEW o \in Dentries, NEW e \in Dentries, Rename(o, e)
    PROVE  Told(op', fat', buf', disk', ino', neg', listed')
<1> DEFINE S == Spots(fat, buf, DirsOf(ino))
<1>1. /\ op.pc = "idle" /\ fat' = fat /\ buf' = buf /\ ino' = ino /\ neg' = neg /\ listed' = listed
      /\ o.obj # None /\ e.obj # o.obj /\ (e.obj # None => ino[e.obj].dir = ino[o.obj].dir)
      /\ \E label \in {"build", "refused", "move"} :
            /\ label = "build" <=> e.obj = None
            /\ label = "move" => ~(ino[o.obj].dir /\ ~EmptyDir(e.obj))
            /\ op' = [Resting EXCEPT !.pc = label, !.call = "rename", !.d = e.d, !.n = e.n,
                                  !.i = o.obj, !.over = e.obj, !.old = o.info, !.new = e.info]
  BY DEF Rename, Idle, Ask, volume, notes
<1>2. PICK label \in {"build", "refused", "move"} :
            /\ label = "build" <=> e.obj = None
            /\ label = "move" => ~(ino[o.obj].dir /\ ~EmptyDir(e.obj))
            /\ op' = [Resting EXCEPT !.pc = label, !.call = "rename", !.d = e.d, !.n = e.n,
                                  !.i = o.obj, !.over = e.obj, !.old = o.info, !.new = e.info]
  BY <1>1
<1>3. /\ op'.pc = label /\ op'.call = "rename" /\ op'.d = e.d /\ op'.n = e.n /\ op'.start = None
      /\ op'.i = o.obj /\ op'.over = e.obj /\ op'.old = o.info /\ op'.new = e.info
  BY <1>2 DEF Resting
<1>4. Base(S, ino, neg, listed)
  BY <1>1, RestTold
<1>5. /\ o.obj \in Inodes /\ ino[o.obj] # None
      /\ \E s \in S : IsAt(s, o.info) /\ ino[o.obj].pos = s.place
  BY <1>1, DentryTold
<1>6. CASE label = "refused"
  <2>1. Known(label, op', S, {}, ino, neg, listed)
    BY <1>4, <1>6, BaseIs DEF Quiet
  <2> QED BY <1>1, <1>3, <1>6, <2>1, BeginsTold
<1>7. CASE label = "build"
  <2>1. \A s \in S : s.dir = e.d => ~Called(s, e.n)
    BY <1>1, <1>2, <1>7, DentryTold
  <2> HIDE DEF S
  <2>2. Ready(op', S, {}, ino)
    BY <1>1, <1>3, <1>5, <2>1 DEF Ready, Sorted
  <2>3. Known("build", op', S, {}, ino, neg, listed)
    BY <1>4, <2>2, AddsIs DEF Adds
  <2> QED BY <1>1, <1>3, <1>7, <2>3, BeginsTold DEF S
<1>8. CASE label = "move"
  <2>1. /\ e.obj # None /\ e.obj \in Inodes /\ ino[e.obj] # None
        /\ \E s \in S : IsAt(s, e.info) /\ ino[e.obj].pos = s.place
    BY <1>1, <1>2, <1>8, DentryTold
  <2>2. ino[e.obj].dir => EmptyDir(e.obj)
    BY <1>1, <1>2, <1>8, <2>1
  <2>3. ino[e.obj].dir => \A s \in S : s.dir = ino[e.obj].start => Dotted(s)
    BY <1>1, <2>1, <2>2, EmptyDotted
  <2> HIDE DEF S
  <2>4. PICK old \in S : IsAt(old, o.info) /\ ino[o.obj].pos = old.place
    BY <1>5
  <2>5. PICK new \in S : IsAt(new, e.info) /\ ino[e.obj].pos = new.place
    BY <2>1
  <2>6. MoveBase(op', S, old, new, ino, neg, listed)
    BY <1>1, <1>3, <1>4, <2>3, <2>4, <2>5 DEF MoveBase
  <2>7. Known("move", op', S, {}, ino, neg, listed)
    BY <1>3, <2>1, <2>6, MoveIs
  <2> QED BY <1>1, <1>3, <1>8, <2>7, BeginsTold DEF S
<1> QED BY <1>6, <1>7, <1>8

(* fat_alloc_new_dir makes the entries "." and "..", and no other.          *)
LEMMA NewDirSpots ==
    ASSUME NEW t, NEW heads, Chains(t, heads), NEW c \in heads, c \in Clusters, ChainOf(t, c) = <<c>>,
           NEW b, Device(b), NEW d, \A j \in 1..Spc : b[<<c, j>>] = NewDir(c, d)[<<c, j>>]
    PROVE  Sorted(Spots(t, b, {c})) /\ \A s \in Spots(t, b, {c}) : Dotted(s)
<1> DEFINE P == Spots(t, b, {c})
           x == NewDir(c, d)
           v == ViewOf(t, b, c)
<1>1. \A j \in 1..Spc : ~IsLong(x[<<c, j>>]) /\ (j = 1 => x[<<c, j>>].text = Dot)
                        /\ (j = 2 => x[<<c, j>>].text = DotDot) /\ (j \notin {1, 2} => x[<<c, j>>] = Zero)
  <2> DEFINE z == ZeroedCluster(c)
             s1 == Short(Dot, "dir", c)
             s2 == Short(DotDot, "dir", LogStart(d))
  <2>1. DOMAIN z = {c} \X (1..Spc) /\ \A p \in {c} \X (1..Spc) : z[p] = Zero
    BY DEF ZeroedCluster
  <2>2. s1.text = Dot /\ s2.text = DotDot
    BY DEF Short
  <2> HIDE DEF z, s1, s2
  <2>3. x = [z EXCEPT ![<<c, 1>>] = s1, ![<<c, 2>>] = s2]
    BY DEF NewDir, z, s1, s2
  <2>4. \A j \in 1..Spc : <<c, j>> \in {c} \X (1..Spc) /\ ~IsLong(x[<<c, j>>])
    BY NewDirIs
  <2> HIDE DEF x
  <2>5. \A j \in 1..Spc : (j = 1 => x[<<c, j>>] = s1) /\ (j = 2 => x[<<c, j>>] = s2)
                          /\ (j \notin {1, 2} => x[<<c, j>>] = z[<<c, j>>])
    BY <2>1, <2>3, <2>4, SizeAssumption DEF Spc
  <2> QED BY <2>1, <2>2, <2>4, <2>5
<1>2. IsChain(t, c, ChainOf(t, c)) /\ ClustersOf(t, c) = {c}
  BY DEF Chains, ClustersOf
<1> HIDE DEF x
<1>3. ASSUME NEW k \in 1..LenOf(t, c)
      PROVE  \E j \in 1..Spc : PlaceOf(t, c, k) = <<c, j>> /\ v[k] = x[<<c, j>>]
  <2>1. PlaceOf(t, c, k) \in Places /\ PlaceOf(t, c, k)[1] = c /\ v[k] = b[PlaceOf(t, c, k)]
    BY <1>2, PlaceIn, ViewIs
  <2>2. PICK j \in 1..Spc : PlaceOf(t, c, k) = <<c, j>>
    BY <2>1 DEF Places
  <2> QED BY <2>1, <2>2 DEF x
<1>4. DOMAIN v = 1..LenOf(t, c)
  BY <1>2, ViewIs
<1>5. ASSUME NEW s \in P
      PROVE  /\ s.dir = c /\ s.tie = <<>> /\ s.place # None
             /\ \E j \in {1, 2} : s.place = <<c, j>> /\ s.text = (IF j = 1 THEN Dot ELSE DotDot)
  <2>1. /\ s.dir = c /\ s.at \in ShortEntries(v) /\ s.place = PlaceOf(t, c, s.at)
        /\ s.text = v[s.at].text /\ s.tie = Tie(v, s.at)
    BY SpotsHave DEF SpotAt
  <2>2. s.at \in DOMAIN v /\ IsShort(v[s.at])
    BY <2>1 DEF ShortEntries
  <2>3. s.place # None
    <3>1. {c} \in SUBSET heads
      OBVIOUS
    <3> QED BY <3>1, SpotPlace
  <2>4. PICK j \in 1..Spc : s.place = <<c, j>> /\ v[s.at] = x[<<c, j>>]
    BY <1>3, <1>4, <2>1, <2>2
  <2>5. j \in {1, 2}
    BY <1>1, <2>2, <2>4 DEF IsShort, IsFree, Zero
  <2>6. s.tie = <<>>
    <3>1. CASE s.at - 1 \in DOMAIN v
      BY <1>1, <1>3, <1>4, <2>1, <3>1 DEF Tie
    <3>2. CASE s.at - 1 \notin DOMAIN v
      BY <2>1, <3>2 DEF Tie
    <3> QED BY <3>1, <3>2
  <2> QED BY <1>1, <2>1, <2>3, <2>4, <2>5, <2>6
<1>6. ASSUME NEW r \in P, NEW s \in P, r.place = s.place  PROVE r = s
  <2>1. {c} \in SUBSET heads
    OBVIOUS
  <2> QED BY <1>6, <2>1, PlacesApart
<1> HIDE DEF P, v
<1>7. ASSUME NEW r \in P, NEW s \in P, r.dir = s.dir /\ (r.at = s.at \/ r.text = s.text \/ (r.tie = s.tie /\ r.tie # <<>>))
      PROVE  r = s
  <2>1. CASE r.text = s.text
    BY <1>5, <1>6, <2>1 DEF Dot, DotDot
  <2>2. CASE r.at = s.at
    <3>1. r.place = s.place
      BY <1>5, <2>2, SpotsHave DEF P, SpotAt
    <3> QED BY <1>6, <3>1
  <2> QED BY <1>5, <1>7, <2>1, <2>2
<1>8. Sorted(P)
  BY <1>5, <1>6, <1>7 DEF Sorted
<1>9. \A s \in P : Dotted(s)
  BY <1>5 DEF Dotted
<1> QED BY <1>8, <1>9 DEF P

LEMMA MkdirTold ==
    ASSUME Aware, NEW e \in Dentries, Mkdir(e)  PROVE Told(op', fat', buf', disk', ino', neg', listed')
<1> DEFINE S == Spots(fat, buf, DirsOf(ino))
           r == [Resting EXCEPT !.call = "mkdir", !.d = e.d, !.n = e.n]
           heads == HeadsOf("idle", op, ino)
<1>0. Sane
  BY DEF Aware
<1>1. /\ op.pc = "idle" /\ e.obj = None /\ MayAdd /\ disk' = disk /\ ino' = ino /\ neg' = neg /\ listed' = listed
      /\ \/ /\ Free = {} /\ op' = [r EXCEPT !.pc = "refused"] /\ UNCHANGED <<fat, buf>>
         \/ \E c \in FreeCluster :
                /\ fat' = [fat EXCEPT ![c] = "eof"] /\ SetSlots(NewDir(c, e.d))
                /\ op' = Syncing([r EXCEPT !.start = c], BlocksOf(c), "build", "refused")
  BY DEF Mkdir, Idle, Ask, notes
<1>2. /\ Resolved /\ Base(S, ino, neg, listed) /\ Device(buf) /\ Device(disk) /\ Nodes(ino)
      /\ Chains(fat, heads) /\ DirsOf(ino) \subseteq heads
  BY <1>1, RestTold
<1>3. \A s \in S : s.dir = e.d => ~Called(s, e.n)
  BY <1>1, DentryTold
<1>4. CASE Free = {} /\ op' = [r EXCEPT !.pc = "refused"] /\ UNCHANGED <<fat, buf>>
  <2>1. op'.pc = "refused" /\ op'.start = None
    BY <1>4 DEF Resting
  <2> HIDE DEF S
  <2>2. Quiet("refused", op')
    BY DEF Quiet
  <2>3. Known("refused", op', S, {}, ino, neg, listed)
    BY <1>2, <2>2, BaseIs
  <2> QED BY <1>1, <1>4, <2>1, <2>3, BeginsTold DEF S
<1>5. ASSUME NEW c \in FreeCluster, fat' = [fat EXCEPT ![c] = "eof"], SetSlots(NewDir(c, e.d)),
             op' = Syncing([r EXCEPT !.start = c], BlocksOf(c), "build", "refused")
      PROVE  Told(op', fat', buf', disk', ino', neg', listed')
  <2> DEFINE o == [r EXCEPT !.start = c]
             blocks == BlocksOf(c)
             P == Spots(fat', buf', {c})
  <2>1. c \in Clusters /\ fat[c] = "free" /\ c # None /\ Table(fat)
    BY <1>2, FreeIs, RootAssumption DEF Resolved, Typed, Table
  <2>2. NewAt(fat, fat', c)
    BY <1>5, <2>1, FreeTaken DEF Table
  <2>3. /\ DOMAIN o = OpFields /\ o.call = "mkdir" /\ o.d = e.d /\ o.n = e.n /\ o.start = c
    BY DEF Resting, OpFields
  <2> HIDE DEF o, blocks, heads
  <2>4. Device(buf')
    BY <1>0, <1>1, MkdirCore DEF Core, Typed
  <2>5. /\ OnlyAt(c, buf, buf')
        /\ \A j \in 1..Spc : buf'[<<c, j>>] = NewDir(c, e.d)[<<c, j>>]
    <3> DEFINE x == NewDir(c, e.d)
    <3>1. DOMAIN x = {c} \X (1..Spc)
      BY NewDirIs
    <3> HIDE DEF x
    <3>2. buf' = [p \in Places |-> IF p \in DOMAIN x THEN x[p] ELSE buf[p]]
      BY <1>5 DEF SetSlots, x
    <3>3. \A p \in Places : p[1] # c => p \notin {c} \X (1..Spc)
      OBVIOUS
    <3>4. \A j \in 1..Spc : <<c, j>> \in Places /\ <<c, j>> \in {c} \X (1..Spc)
      BY <2>1 DEF Places
    <3>5. \A j \in 1..Spc : buf'[<<c, j>>] = x[<<c, j>>]
      BY <3>1, <3>2, <3>4
    <3> QED BY <3>1, <3>2, <3>3, <3>5 DEF OnlyAt, x
  <2>6. Chains(fat', heads \cup {c}) /\ ChainOf(fat', c) = <<c>> /\ c \notin heads
    BY <1>2, <2>1, <2>2, NewViews DEF NewRead
  <2>7. ASSUME NEW m, OnlyAt(c, buf, m)  PROVE Spots(fat', m, DirsOf(ino)) = S
    <3>1. \A d \in heads : SpotsIn(fat', m, d) = SpotsIn(fat, buf, d)
      BY <1>2, <2>1, <2>2, <2>7, NewSpots
    <3>2. \A d \in DirsOf(ino) : SpotsIn(fat', m, d) = SpotsIn(fat, buf, d)
      BY <1>2, <3>1
    <3> QED BY <3>2, SpotsAll
  <2>8. Sorted(P) /\ \A s \in P : Dotted(s)
    <3> DEFINE all == heads \cup {c}
    <3>1. c \in all /\ Chains(fat', all)
      BY <2>6
    <3> HIDE DEF all
    <3> QED BY <2>1, <2>4, <2>5, <2>6, <3>1, NewDirSpots
  <2> HIDE DEF S, P
  <2>9. KnownOn("build", o, fat', buf', ino, neg, listed)
    <3>1. Ready(o, S, P, ino)
      BY <1>3, <2>3, <2>8 DEF Ready
    <3>2. Known("build", o, S, P, ino, neg, listed)
      BY <1>2, <3>1, AddsIs DEF Adds
    <3>3. PendingOf("build", o) = {c}
      BY <2>1, <2>3 DEF PendingOf, Rests
    <3>4. Spots(fat', buf', DirsOf(ino)) = S
      BY <2>5, <2>7
    <3> QED BY <3>2, <3>3, <3>4 DEF KnownOn, P
  <2>10. ASSUME NEW m, OnlyAt(c, buf, m)  PROVE KnownOn("refused", o, fat', m, ino, neg, listed)
    <3> DEFINE Q == Spots(fat', m, PendingOf("refused", o))
    <3> HIDE DEF Q
    <3>1. Quiet("refused", o)
      BY DEF Quiet
    <3>2. Known("refused", o, S, Q, ino, neg, listed)
      BY <1>2, <3>1, BaseIs
    <3>3. Spots(fat', m, DirsOf(ino)) = S
      BY <2>7, <2>10
    <3> QED BY <3>2, <3>3 DEF KnownOn, Q
  <2>11. \A m : setup.dirsync /\ Device(m) /\ (\A p \in Places : m[p] \in {buf[p], buf'[p]})
               => KnownOn("refused", o, fat', m, ino, neg, listed)
    BY <2>5, <2>10 DEF OnlyAt
  <2>12. setup.dirsync => Likes(buf, disk)
    BY <1>2 DEF Resolved
  <2>13. "build" \in Labels
    BY DEF Labels, Adds
  <2>15. Core(Syncing(o, blocks, "build", "refused"), fat', buf', disk, ino)
    BY <1>0, <1>1, <1>5, MkdirCore DEF o, blocks
  <2>14. Told(Syncing(o, blocks, "build", "refused"), fat', buf', disk, ino, neg, listed)
    BY <2>15, <1>2, <2>3, <2>4, <2>9, <2>11, <2>12, <2>13, TellsAll
  <2> QED BY <1>1, <1>5, <2>14 DEF o, blocks
<1> QED BY <1>1, <1>4, <1>5

(* Between operations.                                                      *)
LEMMA RestsTold ==
    ASSUME op'.pc = "idle", Base(Spots(fat', buf', DirsOf(ino')), ino', neg', listed')
    PROVE  Told(op', fat', buf', disk', ino', neg', listed')
<1> DEFINE S == Spots(fat', buf', DirsOf(ino'))
           P == Spots(fat', buf', PendingOf("idle", op'))
<1> HIDE DEF S, P
<1>1. Base(S, ino', neg', listed')
  BY DEF S
<1>2. Known("idle", op', S, P, ino', neg', listed')
  BY <1>1, BaseIs DEF Quiet
<1>3. KnownOn(op'.pc, op', fat', buf', ino', neg', listed')
  BY <1>2 DEF KnownOn, S, P
<1> QED BY <1>3, TellsNow

LEMMA LookupMissTold ==
    ASSUME Aware, NEW e \in Dentries, LookupMiss(e)  PROVE Told(op', fat', buf', disk', ino', neg', listed')
<1> DEFINE S == Spots(fat, buf, DirsOf(ino))
<1>1. /\ op.pc = "idle" /\ e.obj = None /\ neg' = neg \cup {<<e.d, e.n>>}
      /\ fat' = fat /\ buf' = buf /\ ino' = ino /\ op' = op /\ listed' = listed
  BY DEF LookupMiss, Idle, volume, notes
<1>2. Base(S, ino, neg, listed) /\ Nodes(ino)
  BY <1>1, RestTold
<1>3. e.d \in DirsOf(ino) /\ e.n \in Names /\ \A s \in S : s.dir = e.d => ~Called(s, e.n)
  BY <1>1, DentryTold
<1>4. e.d \in {Root} \cup StartsOf(ino)
  BY <1>2, <1>3, DirsStart
<1> DEFINE x == <<e.d, e.n>>
<1>5. x[1] = e.d /\ x[2] = e.n /\ x = <<x[1], x[2]>>
  OBVIOUS
<1> HIDE DEF S, x
<1>6. Truthful(S, ino, neg) /\ Truthful(S, ino, {x})
  BY <1>2, <1>3, <1>4, <1>5 DEF Base, Truthful
<1>7. Truthful(S, ino, neg')
  BY <1>1, <1>6 DEF Truthful, x
<1>8. Base(S, ino, neg', listed)
  BY <1>2, <1>7 DEF Base
<1> QED BY <1>1, <1>8, RestsTold DEF S

LEMMA WriteInodeTold ==
    ASSUME Aware, NEW i \in Inodes, WriteInode(i)  PROVE Told(op', fat', buf', disk', ino', neg', listed')
<1> DEFINE S == Spots(fat, buf, DirsOf(ino))
           heads == HeadsOf("idle", op, ino)
<1>1. /\ op.pc = "idle" /\ op' = op /\ fat' = fat /\ neg' = neg /\ listed' = listed /\ ino[i] # None
      /\ buf' = StartAt(buf, ino[i].pos, ino[i].start) /\ ino' = DirtiedTo(ino, i, FALSE)
  BY DEF WriteInode, Linked, WriteEntry, StartAt, DirtiedTo, notes
<1>2. /\ Base(S, ino, neg, listed) /\ Nodes(ino) /\ Device(buf)
      /\ Chains(fat, heads) /\ DirsOf(ino) \subseteq heads
  BY <1>1, RestTold
<1>3. Akin(ino, ino') /\ Nodes(ino')
  <2>1. Akin(ino, ino')
    BY <1>1, <1>2, Dirtied
  <2> QED BY <2>1 DEF Akin
<1>4. \A j \in Inodes : ino'[j].pos = ino[j].pos
  BY <1>1, <1>2, DirtiedPos
<1>5. Likes(buf, buf')
  BY <1>1, <1>2, StartSet
<1>6. DirsOf(ino') = DirsOf(ino) /\ StartsOf(ino') = StartsOf(ino)
  BY <1>2, <1>3, AkinSame
<1> HIDE DEF heads
<1>7. Spots(fat, buf', DirsOf(ino)) = S
  BY <1>2, <1>5, SpotsLikes
<1> HIDE DEF S
<1>8. Settled(ino, ino')
  BY <1>3, <1>4 DEF Settled, Akin
<1>9. Truthful(S, ino', neg)
  BY <1>2, <1>6 DEF Base, Truthful
<1>10. Base(S, ino', neg, listed)
  BY <1>2, <1>8, <1>9, SettledBase
<1> QED BY <1>1, <1>6, <1>7, <1>10, RestsTold

LEMMA EvictTold ==
    ASSUME Aware, NEW i \in Inodes, Evict(i)  PROVE Told(op', fat', buf', disk', ino', neg', listed')
<1> DEFINE s == ino[i].start
           cs == IF s = None THEN {} ELSE ClustersOf(fat, s)
           kept == {Root} \cup StartsOf(ino')
           heads == HeadsOf("idle", op, ino)
           S == Spots(fat, buf, DirsOf(ino))
<1>1. /\ op.pc = "idle" /\ op' = op /\ listed' = listed /\ ino[i] # None /\ ~ino[i].linked
      /\ ino' = [ino EXCEPT ![i] = None] /\ neg' = {e \in neg : e[1] # s}
      /\ fat' = [c \in Clusters |-> IF c \in cs THEN "free" ELSE fat[c]]
      /\ buf' = Emptied(buf, cs)
  <2>1. \A c : Chained(c) = ClustersOf(fat, c)
    BY ChainNow DEF Chained, ClustersOf
  <2> QED BY <2>1 DEF Evict, Forgotten, Emptied, notes
<1>2. /\ Sound("idle", op, fat, buf, ino) /\ Nodes(ino) /\ Base(S, ino, neg, listed)
      /\ Chains(fat, heads) /\ DirsOf(ino) \subseteq heads
  BY <1>1, RestTold
<1>3. Owned("idle", op, fat, ino)
  BY <1>2 DEF Sound
<1>4. ino'[i] = None /\ \A j \in Inodes : j # i => ino'[j] = ino[j]
  BY <1>1, <1>2 DEF Nodes
<1>5. \A j \in Inodes : ino'[j] # None => ino[j] # None /\ ino'[j] = ino[j]
  BY <1>4
<1>6. StartsOf(ino') = StartsOf(ino) \ {s} /\ (s # None => s \in StartsOf(ino)) /\ s # Root
  <2>1. s # None => s \in StartsOf(ino)
    BY <1>1 DEF StartsOf
  <2>2. ASSUME NEW c \in StartsOf(ino')  PROVE c \in StartsOf(ino) /\ c # s
    <3>1. PICK j \in Inodes : ino'[j] # None /\ ino'[j].start = c /\ c # None
      BY DEF StartsOf
    <3>2. j # i /\ ino[j] # None /\ ino[j].start = c
      BY <1>4, <3>1
    <3> QED BY <1>1, <1>3, <3>1, <3>2 DEF Owned, StartsOf
  <2>3. ASSUME NEW c \in StartsOf(ino), c # s  PROVE c \in StartsOf(ino')
    <3>1. PICK j \in Inodes : ino[j] # None /\ ino[j].start = c /\ c # None
      BY DEF StartsOf
    <3>2. j # i
      BY <2>3, <3>1
    <3> QED BY <1>4, <3>1, <3>2 DEF StartsOf
  <2>4. s # Root
    BY <1>3, <2>1, RootAssumption DEF Owned
  <2> QED BY <2>1, <2>2, <2>3, <2>4
<1>7. DirsOf(ino') = DirsOf(ino)
  <2>1. {j \in Inodes : ino'[j] # None /\ ino'[j].linked /\ ino'[j].dir}
        = {j \in Inodes : ino[j] # None /\ ino[j].linked /\ ino[j].dir}
    BY <1>1, <1>4
  <2>2. \A j \in {m \in Inodes : ino[m] # None /\ ino[m].linked /\ ino[m].dir} : ino'[j] = ino[j]
    BY <1>1, <1>4
  <2> QED BY <2>1, <2>2 DEF DirsOf
<1>8. Rid(fat, fat', cs)
  BY <1>1 DEF Rid
<1>9. kept \subseteq heads
  BY <1>6 DEF HeadsOf
<1>10. Apart(fat, kept, cs)
  <2>1. CASE s = None
    BY <2>1 DEF Apart
  <2>2. CASE s # None
    <3>1. s \in heads /\ s \notin kept
      BY <1>6, <2>2 DEF HeadsOf
    <3> HIDE DEF heads, kept
    <3>2. \A r \in kept : ClustersOf(fat, r) \cap ClustersOf(fat, s) = {}
      BY <1>2, <1>9, <3>1 DEF Chains
    <3> QED BY <2>2, <3>2 DEF Apart
  <2> QED BY <2>1, <2>2
<1>11. DirsOf(ino) \subseteq kept
  <2>1. Nodes(ino')
    BY <1>1, <1>2 DEF Nodes
  <2> QED BY <1>7, <2>1, DirsStart
<1> HIDE DEF heads, kept, cs
<1>12. Spots(fat', buf', DirsOf(ino')) = S
  BY <1>1, <1>2, <1>7, <1>8, <1>9, <1>10, <1>11, RidSpots
<1> HIDE DEF S
<1>13. Settled(ino, ino')
  <2>1. ino[i].pos = None
    BY <1>1, <1>2 DEF Base, Hosted
  <2> QED BY <1>4, <1>5, <2>1 DEF Settled
<1>14. Truthful(S, ino', neg')
  BY <1>1, <1>2, <1>6 DEF Base, Truthful
<1>15. Base(S, ino', neg', listed)
  BY <1>2, <1>13, <1>14, SettledBase
<1> QED BY <1>1, <1>12, <1>15, RestsTold

LEMMA FormatTold ==
    ASSUME setup \in Setups
    PROVE  Told(Resting, EmptyTable, EmptyRoot, EmptyRoot, NoNodes, {}, {})
<1> DEFINE t == EmptyTable
           a == EmptyRoot
           S == Spots(t, a, DirsOf(NoNodes))
           P == Spots(t, a, PendingOf("idle", Resting))
<1>1. Core(Resting, t, a, a, NoNodes)
  BY FormatCore
<1>2. Resting.pc = "idle"
  BY DEF Resting
<1>3. Sound("idle", Resting, t, a, NoNodes) /\ Nodes(NoNodes)
  BY <1>1, <1>2 DEF Core, LabelOf, Typed
<1>4. (\A i \in Inodes : NoNodes[i] = None) /\ DirsOf(NoNodes) = {Root}
  BY DEF NoNodes, DirsOf
<1>5. \A p \in Places : ~IsShort(a[p])
  BY DEF EmptyRoot, IsShort, IsFree, Zero
<1>6. Chains(t, HeadsOf("idle", Resting, NoNodes)) /\ Root \in HeadsOf("idle", Resting, NoNodes)
  BY <1>3 DEF Sound, Owned, HeadsOf
<1>7. IsChain(t, Root, ChainOf(t, Root))
  BY <1>6 DEF Chains
<1> HIDE DEF t, a
<1>8. ShortEntries(ViewOf(t, a, Root)) = {}
  <2>1. DOMAIN ViewOf(t, a, Root) = 1..LenOf(t, Root)
        /\ \A k \in 1..LenOf(t, Root) : ViewOf(t, a, Root)[k] = a[PlaceOf(t, Root, k)]
    BY <1>7, ViewIs
  <2>2. \A k \in 1..LenOf(t, Root) : PlaceOf(t, Root, k) \in Places
    BY <1>7, PlaceIn
  <2> QED BY <1>5, <2>1, <2>2 DEF ShortEntries
<1>9. S = {}
  BY <1>4, <1>8 DEF Spots, SpotsIn
<1> HIDE DEF S, P
<1>10. Base(S, NoNodes, {}, {})
  BY <1>4, <1>9 DEF Base, Sorted, Hosted, Truthful, Entries
<1>11. Known("idle", Resting, S, P, NoNodes, {}, {})
  BY <1>10, BaseIs DEF Quiet
<1>12. KnownOn(Resting.pc, Resting, t, a, NoNodes, {}, {})
  BY <1>2, <1>11 DEF KnownOn, S, P
<1>13. Told(Resting, t, a, a, NoNodes, {}, {})
  BY <1>2, <1>12, TellsNow
<1> QED BY <1>13 DEF t, a

(* What write-back copies, either way, differs in first clusters only.      *)
LEMMA WriteBufferTold ==
    ASSUME Aware, NEW block, WriteBuffer(block)  PROVE Told(op', fat', buf', disk', ino', neg', listed')
<1>1. /\ Resolved /\ op' = op /\ fat' = fat /\ ino' = ino /\ op.pc = "idle"
      /\ Likes(buf, buf') /\ Likes(buf', disk') /\ Device(buf') /\ Device(disk')
  BY WriteBufferLikes DEF Aware
<1>2. neg' = neg /\ listed' = listed
  BY DEF WriteBuffer, notes
<1>3. /\ Owned(op.pc, op, fat, ino) /\ Nodes(ino) /\ Device(buf)
      /\ KnownOn(op.pc, op, fat, buf, ino, neg, listed)
  BY <1>1, Calmly DEF Resolved, Typed, Sound
<1>4. KnownOn(op.pc, op, fat, buf', ino, neg, listed)
  BY <1>1, <1>3, KnownLikes
<1> QED BY <1>1, <1>2, <1>4, TellsNow

LEMMA WriteTold ==
    ASSUME Aware, NEW i \in Inodes, Write(i)  PROVE Told(op', fat', buf', disk', ino', neg', listed')
<1> DEFINE heads == HeadsOf("idle", op, ino)
           S == Spots(fat, buf, DirsOf(ino))
<1>1. /\ op.pc = "idle" /\ op' = op /\ i \in Linked /\ ~ino[i].dir /\ ino[i].start = None
      /\ neg' = neg /\ listed' = listed /\ buf' = buf
  BY DEF Write, Idle, notes
<1>2. PICK c \in FreeCluster :
         /\ fat' = [fat EXCEPT ![c] = "eof"]
         /\ ino' = [ino EXCEPT ![i].start = c, ![i].dirty = TRUE]
  BY DEF Write
<1>3. /\ Base(S, ino, neg, listed) /\ Nodes(ino) /\ Device(buf) /\ Resolved
      /\ Chains(fat, heads) /\ DirsOf(ino) \subseteq heads
  BY <1>1, RestTold
<1>4. Table(fat) /\ c \in Clusters /\ fat[c] = "free"
  BY <1>3, FreeIs DEF Resolved, Typed, Table
<1>5. NewAt(fat, fat', c)
  BY <1>2, <1>4, FreeTaken DEF Table
<1> HIDE DEF heads
<1>7. Spots(fat, buf', DirsOf(ino)) = S
  BY <1>1
<1>8. Spots(fat', buf', DirsOf(ino)) = Spots(fat, buf', DirsOf(ino))
  <2>1. OnlyAt(c, buf', buf')
    BY DEF OnlyAt
  <2>2. \A e \in heads : SpotsIn(fat', buf', e) = SpotsIn(fat, buf', e)
    BY <1>3, <1>4, <1>5, <2>1, NewSpots
  <2>3. \A e \in DirsOf(ino) : SpotsIn(fat', buf', e) = SpotsIn(fat, buf', e)
    BY <1>3, <2>2
  <2> QED BY <2>3, SpotsAll
<1>9. /\ ino[i] # None /\ ino[i] \in Inode /\ DOMAIN ino = Inodes
      /\ \A j \in Inodes : ino[j] \in Inode \cup {None}
  BY <1>1, <1>3 DEF Linked, Nodes
<1>10. /\ \A j \in Inodes : j # i => ino'[j] = ino[j]
       /\ ino'[i] # None /\ ino'[i].pos = ino[i].pos /\ ino'[i].start = c
       /\ (ino'[i].linked <=> ino[i].linked) /\ ~ino'[i].dir
  <2> DEFINE x == ino[i]
             nd == TRUE
             z == [x EXCEPT !.start = c]
             y == [z EXCEPT !.dirty = nd]
  <2> HIDE DEF nd
  <2>1. ino' = [j \in Inodes |-> IF j = i THEN y ELSE ino[j]]
    BY <1>2, <1>9 DEF nd
  <2>2. x = [pos |-> x.pos, start |-> x.start, dir |-> x.dir, dirty |-> x.dirty, linked |-> x.linked]
        /\ ~x.dir
    BY <1>1, <1>9 DEF Inode
  <2> HIDE DEF x
  <2>3. z = [pos |-> x.pos, start |-> c, dir |-> x.dir, dirty |-> x.dirty, linked |-> x.linked]
    BY <2>2
  <2> HIDE DEF z
  <2>4. y = [pos |-> x.pos, start |-> c, dir |-> x.dir, dirty |-> nd, linked |-> x.linked]
    BY <2>3
  <2>5. y.pos = x.pos /\ y.start = c /\ (y.linked <=> x.linked) /\ ~y.dir
    BY <2>2, <2>4
  <2>6. Nodes(ino')
    <3>1. Core(op', fat', buf', disk', ino')
      BY WriteCore DEF Aware
    <3> QED BY <3>1 DEF Core, Typed
  <2> HIDE DEF y
  <2>7. ino'[i] = y /\ \A j \in Inodes : j # i => ino'[j] = ino[j]
    BY <2>1
  <2>8. ino'[i] # None
    <3>1. y = [pos |-> x.pos, start |-> c, dir |-> x.dir, dirty |-> nd, linked |-> x.linked]
      BY <2>4 DEF y
    <3>2. y \in Inode
      <4>1. nd \in BOOLEAN
        BY DEF nd
      <4>2. x.pos \in Places \cup {None} /\ x.dir \in BOOLEAN /\ x.linked \in BOOLEAN
        BY <1>9 DEF Inode, x
      <4> QED BY <1>4, <3>1, <4>1, <4>2 DEF Inode
    <3> QED BY <2>7, <3>2, InodeAssumption
  <2> QED BY <2>5, <2>7, <2>8 DEF x
<1>11. StartsOf(ino) \subseteq StartsOf(ino')
  <2> SUFFICES ASSUME NEW s \in StartsOf(ino)  PROVE s \in StartsOf(ino')
    OBVIOUS
  <2>1. PICK j \in Inodes : ino[j] # None /\ ino[j].start = s /\ s # None
    BY DEF StartsOf
  <2>2. j # i
    BY <1>1, <2>1
  <2> QED BY <1>10, <2>1, <2>2 DEF StartsOf
<1>12. DirsOf(ino') = DirsOf(ino)
  <2>1. {j \in Inodes : ino'[j] # None /\ ino'[j].linked /\ ino'[j].dir}
        = {j \in Inodes : ino[j] # None /\ ino[j].linked /\ ino[j].dir}
    BY <1>1, <1>10
  <2>2. \A j \in {m \in Inodes : ino[m] # None /\ ino[m].linked /\ ino[m].dir} : ino'[j] = ino[j]
    BY <1>1, <1>10
  <2> QED BY <2>1, <2>2 DEF DirsOf
<1> HIDE DEF S
<1>13. Settled(ino, ino')
  <2>1. \A j \in Inodes : ino'[j] # None => ino[j] # None /\ ino'[j].pos = ino[j].pos /\ (ino'[j].linked <=> ino[j].linked)
    BY <1>9, <1>10
  <2>2. \A j \in Inodes : ino[j] # None => ino'[j] # None
    BY <1>10
  <2> QED BY <2>1, <2>2 DEF Settled
<1>14. Truthful(S, ino', neg)
  BY <1>3, <1>11 DEF Base, Truthful
<1>15. Base(S, ino', neg, listed)
  BY <1>3, <1>13, <1>14, SettledBase
<1> QED BY <1>1, <1>7, <1>8, <1>12, <1>15, RestsTold

LEMMA RequestTold ==
    ASSUME Aware, Request  PROVE Told(op', fat', buf', disk', ino', neg', listed')
<1>1. ASSUME UNCHANGED <<op, volume, ino, neg, listed>>
      PROVE  Told(op', fat', buf', disk', ino', neg', listed')
  BY <1>1 DEF Aware, volume
<1>2. ASSUME NEW e \in Dentries, LookupMiss(e)  PROVE Told(op', fat', buf', disk', ino', neg', listed')
  BY <1>2, LookupMissTold
<1>3. ASSUME NEW d \in Dirs, ReadOpen(d)  PROVE Told(op', fat', buf', disk', ino', neg', listed')
  BY <1>1, <1>3 DEF ReadOpen, notes
<1>4. CASE ReadEntry \/ ReadFull \/ ReadEnd
  BY <1>1, <1>4 DEF ReadEntry, ReadFull, ReadEnd, notes
<1>5. ASSUME NEW i \in Inodes, WriteInode(i) \/ Write(i)
      PROVE  Told(op', fat', buf', disk', ino', neg', listed')
  BY <1>5, WriteInodeTold, WriteTold
<1>8. ASSUME NEW b \in Blocks, WriteBuffer(b)  PROVE Told(op', fat', buf', disk', ino', neg', listed')
  BY <1>8, WriteBufferTold
<1>6. ASSUME NEW e \in Dentries, Create(e) \/ Mkdir(e) \/ Unlink(e) \/ Rmdir(e)
      PROVE  Told(op', fat', buf', disk', ino', neg', listed')
  BY <1>6, CreateTold, MkdirTold, UnlinkTold
<1>7. ASSUME NEW o \in Dentries, NEW e \in Dentries, Rename(o, e)
      PROVE  Told(op', fat', buf', disk', ino', neg', listed')
  BY <1>7, RenameTold
<1> QED BY <1>2, <1>3, <1>4, <1>5, <1>6, <1>7, <1>8 DEF Request

-----------------------------------------------------------------------------
(* What is known of the names stays known.                                  *)
LEMMA NamesStep ==
    ASSUME Shape, SlotsInv, NamesInv, [NextRecovery]_recoveryVars  PROVE NamesInv'
<1> SUFFICES ASSUME mounted', ~broken'  PROVE Told(op', fat', buf', disk', ino', neg', listed')
  BY DEF NamesInv
<1>1. CASE Mounted
  <2>1. mounted /\ ~broken
    BY <1>1, BrokenStays DEF Mounted
  <2>2. Aware
    BY <2>1 DEF SlotsInv, NamesInv, Sane, Aware
  <2>3. CASE Step
    BY <2>2, <2>3, StepTold
  <2>4. CASE Request
    BY <2>2, <2>4, RequestTold
  <2>5. CASE \E i \in Inodes : Evict(i)
    BY <2>2, <2>5, EvictTold
  <2> QED BY <1>1, <2>3, <2>4, <2>5 DEF Mounted
<1>2. CASE Restart
  <2>1. op' = Resting /\ setup \in Setups
    BY <1>2 DEF Restart, AtRest, Shape
  <2>2. /\ fat' = EmptyTable /\ buf' = EmptyRoot /\ disk' = EmptyRoot /\ ino' = NoNodes
        /\ neg' = {} /\ listed' = {}
    BY <1>2 DEF Restart, NoNodes
  <2> QED BY <2>1, <2>2, FormatTold
<1>3. CASE UNCHANGED recoveryVars
  <2>1. mounted /\ ~broken /\ UNCHANGED <<op, fat, buf, disk, ino, neg, listed>>
    BY <1>3 DEF recoveryVars, vars, volume, notes
  <2> QED BY <2>1 DEF NamesInv
<1> QED BY <1>1, <1>2, <1>3 DEF NextRecovery, Unmount, Recover

LEMMA NamesInit == ASSUME InitRecovery  PROVE Shape /\ SlotsInv /\ NamesInv
<1>1. /\ op = Resting /\ setup \in Setups /\ fat = EmptyTable /\ buf = EmptyRoot /\ disk = EmptyRoot
      /\ ino = NoNodes /\ neg = {} /\ listed = {}
  BY DEF InitRecovery, Init, NoNodes
<1>2. Shape
  BY <1>1, RestingIs DEF Shape, LabelOf
<1> QED BY <1>1, <1>2, FormatCore, FormatTold DEF SlotsInv, NamesInv

-----------------------------------------------------------------------------
(* What follows: the names of the directories, between operations.          *)
LEMMA AnswersNow ==
    ASSUME Aware, op.pc = "idle", NEW d \in Dirs
    PROVE  /\ Whole(View(buf, d)) /\ View(buf, d) = ViewOf(fat, buf, d) /\ d \in DirsOf(ino)
           /\ \A r \in Records(View(buf, d)) :
                 LET s == Spot(fat, buf, d, r.at)
                 IN /\ s \in Spots(fat, buf, DirsOf(ino)) /\ s.dir = d /\ s.at = r.at
                    /\ \A n \in Names : Called(s, n) <=> Answers(View(buf, d), r, n)
<1>1. d \in DirsOf(ino) /\ View(buf, d) = ViewOf(fat, buf, d)
  BY DirsNow, ViewNow
<1>2. Whole(ViewOf(fat, buf, d))
  BY <1>1, RestTold
<1>3. ASSUME NEW r \in Records(ViewOf(fat, buf, d))
      PROVE  LET s == Spot(fat, buf, d, r.at)
             IN /\ s \in Spots(fat, buf, DirsOf(ino)) /\ s.dir = d /\ s.at = r.at
                /\ \A n \in Names : Called(s, n) <=> Answers(ViewOf(fat, buf, d), r, n)
  <2> DEFINE s == Spot(fat, buf, d, r.at)
             v == ViewOf(fat, buf, d)
  <2>1. /\ r.at \in ShortEntries(v) /\ s.dir = d /\ s.at = r.at /\ s.place = PlaceOf(fat, d, r.at)
        /\ Dotted(s) <=> IsDots(v[r.at])
        /\ NameAs(s) = NameOf(v, r)
        /\ \A n \in Names : Called(s, n) <=> Answers(v, r, n)
    BY <1>2, RecordNamed
  <2>2. s \in Spots(fat, buf, DirsOf(ino))
    BY <1>1, <2>1, SpotsWith
  <2> QED BY <2>1, <2>2
<1> QED BY <1>1, <1>2, <1>3

LEMMA OneAnswerNow == ASSUME Shape, SlotsInv, NamesInv, mounted  PROVE OneAnswer
<1> SUFFICES ASSUME AtRest, ~broken
             PROVE  /\ listed = Listed
                    /\ \A d \in Dirs : \A q, r \in Records(View(buf, d)) :
                          q # r => ~\E n \in setup.names : Answers(View(buf, d), q, n) /\ Answers(View(buf, d), r, n)
  BY DEF OneAnswer
<1> DEFINE S == Spots(fat, buf, DirsOf(ino))
<1>1. Aware /\ op.pc = "idle" /\ setup.names \subseteq Names
  BY SetupAssumption DEF SlotsInv, NamesInv, Sane, Aware, AtRest, Shape
<1>2. Base(S, ino, neg, listed) /\ \A d \in DirsOf(ino) : Whole(ViewOf(fat, buf, d))
  BY <1>1, RestTold
<1>3. listed = Listed
  <2>1. \A d \in DirsOf(ino) : Whole(View(buf, d))
    BY <1>2, ViewNow
  <2>2. Listed = Entries(S, ino)
    BY <2>1, ListedIs
  <2> QED BY <1>2, <2>2 DEF Base
<1>4. ASSUME NEW d \in Dirs, NEW q \in Records(View(buf, d)), NEW r \in Records(View(buf, d)),
             NEW n \in setup.names, Answers(View(buf, d), q, n), Answers(View(buf, d), r, n)
      PROVE  q = r
  <2> DEFINE s == Spot(fat, buf, d, q.at)
             u == Spot(fat, buf, d, r.at)
  <2>1. /\ Whole(View(buf, d)) /\ n \in Names
        /\ s \in S /\ s.dir = d /\ s.at = q.at /\ Called(s, n)
        /\ u \in S /\ u.dir = d /\ u.at = r.at /\ Called(u, n)
    BY <1>1, <1>4, AnswersNow
  <2>2. Sorted(S)
    BY <1>2 DEF Base
  <2> HIDE DEF s, u, S
  <2>3. s = u
    BY <2>1, <2>2, CalledOnce
  <2> QED BY <2>1, <2>3, RecordOne
<1> QED BY <1>3, <1>4

LEMMA NegativeNow == ASSUME Shape, SlotsInv, NamesInv, mounted  PROVE NegativeTrue
<1> SUFFICES ASSUME AtRest, ~broken, NEW e \in neg, e[1] \in Dirs
             PROVE  SearchLong(View(buf, e[1]), e[2]) = {}
  BY DEF NegativeTrue
<1> DEFINE S == Spots(fat, buf, DirsOf(ino))
<1>1. Aware /\ op.pc = "idle"
  BY DEF SlotsInv, NamesInv, Sane, Aware, AtRest
<1>2. Truthful(S, ino, neg)
  BY <1>1, RestTold DEF Base
<1>3. e[2] \in Names /\ \A s \in S : s.dir = e[1] => ~Called(s, e[2])
  BY <1>2 DEF Truthful
<1>4. ASSUME NEW r \in Records(View(buf, e[1]))  PROVE ~Answers(View(buf, e[1]), r, e[2])
  <2> DEFINE s == Spot(fat, buf, e[1], r.at)
  <2>1. s \in S /\ s.dir = e[1] /\ (Called(s, e[2]) <=> Answers(View(buf, e[1]), r, e[2]))
    BY <1>1, <1>3, AnswersNow
  <2> QED BY <1>3, <2>1
<1> QED BY <1>4 DEF SearchLong

(* Between operations nothing has changed what is listed, and no two        *)
(* entries of a directory answer to one name, whatever was asked for and    *)
(* whatever write failed, as long as none failed that was to undo or to     *)
(* complete an operation.                                                   *)
THEOREM OneAnswers == SpecRecovery => [](mounted => OneAnswer)
<1>1. InitRecovery => Shape /\ SlotsInv /\ NamesInv
  BY NamesInit
<1>2. Shape /\ SlotsInv /\ NamesInv /\ [NextRecovery]_recoveryVars => (Shape /\ SlotsInv /\ NamesInv)'
  BY ShapeStep, SlotsStep, NamesStep
<1>3. Shape /\ SlotsInv /\ NamesInv => (mounted => OneAnswer)
  BY OneAnswerNow
<1> QED BY <1>1, <1>2, <1>3, PTL DEF SpecRecovery

(* What the VFS keeps as a name that does not exist, and vfat_revalidate    *)
(* accepts, is not the name of anything, be it the alias of a new name,     *)
(* that nobody has looked up.                                               *)
THEOREM NegativesTrue == SpecRecovery => [](mounted => NegativeTrue)
<1>1. InitRecovery => Shape /\ SlotsInv /\ NamesInv
  BY NamesInit
<1>2. Shape /\ SlotsInv /\ NamesInv /\ [NextRecovery]_recoveryVars => (Shape /\ SlotsInv /\ NamesInv)'
  BY ShapeStep, SlotsStep, NamesStep
<1>3. Shape /\ SlotsInv /\ NamesInv => (mounted => NegativeTrue)
  BY NegativeNow
<1> QED BY <1>1, <1>2, <1>3, PTL DEF SpecRecovery

-----------------------------------------------------------------------------
(* Every step is a step of DirTree, or changes nothing of it.               *)
GoesOn(o) ==
    /\ o.call = op.call /\ o.d = op.d /\ o.n = op.n /\ o.i = op.i /\ o.over = op.over
    /\ o.pc # "idle"
LEMMA SyncGoesOn ==
    ASSUME NEW o, DOMAIN o = OpFields, GoesOn(o), NEW blocks, NEW ok, ok # "idle", NEW bad
    PROVE  GoesOn(Syncing(o, blocks, ok, bad))
<1> DEFINE r == Syncing(o, blocks, ok, bad)
<1>1. /\ Same(r, o)
      /\ IF setup.dirsync /\ blocks # {}
         THEN r.pc = "sync" /\ r.sync = blocks /\ r.ok = ok /\ r.bad = bad
         ELSE r.pc = ok /\ r.sync = o.sync
  BY SyncingIs
<1> HIDE DEF r
<1>2. r.pc # "idle"
  BY <1>1
<1>3. GoesOn(r)
  BY <1>1, <1>2 DEF GoesOn, Same
<1> QED BY <1>3 DEF r

LEMMA StepGoesOn == ASSUME Shape, Step, ~Return  PROVE GoesOn(op') /\ op.pc # "idle" /\ UNCHANGED <<listed, result>>
<1> USE DEF notes, marks
<1>0. /\ DOMAIN op = OpFields /\ (op.pc = "sync" => op.ok # "idle" /\ op.bad # "idle")
      /\ (op.pc = "clear" => op.after # "idle")
  BY DEF Shape, LabelOf
<1>1. ASSUME SyncOk \/ SyncFail \/ Flush  PROVE GoesOn(op') /\ op.pc # "idle" /\ UNCHANGED <<listed, result>>
  <2>1. CASE SyncOk
    BY <1>0, <2>1 DEF SyncOk, GoesOn, OpFields
  <2>2. CASE SyncFail
    BY <1>0, <2>2 DEF SyncFail, GoesOn, OpFields
  <2>3. CASE Flush
    BY <1>0, <2>3 DEF Flush, GoesOn, OpFields
  <2> QED BY <1>1, <2>1, <2>2, <2>3
<1>2. op.pc # "idle" => GoesOn(op)
  BY DEF GoesOn
<1>3. ASSUME op.pc # "idle", NEW blocks, NEW ok, ok # "idle", NEW bad, op' = Syncing(op, blocks, ok, bad)
      PROVE  GoesOn(op')
  BY <1>0, <1>2, <1>3, SyncGoesOn
<1>4. ASSUME Build \/ Link \/ Kept \/ Added \/ Removed \/ Refused \/ Renamed \/ Count
      PROVE  GoesOn(op') /\ op.pc # "idle" /\ UNCHANGED <<listed, result>>
  <2>1. ASSUME op.pc # "idle", NEW label, label # "idle", Goto(label)  PROVE GoesOn(op')
    BY <1>0, <2>1 DEF Goto, GoesOn, OpFields
  <2>2. CASE Build
    <3>1. op.pc = "build" /\ UNCHANGED <<listed, result>>
      BY <2>2 DEF Build, notes
    <3>2. Goto("refused") \/ \E k, sl : op' = [op EXCEPT !.pc = "fill", !.first = k, !.slots = sl]
      BY <2>2 DEF Build
    <3>3. ASSUME NEW k, NEW sl, op' = [op EXCEPT !.pc = "fill", !.first = k, !.slots = sl]
          PROVE  GoesOn(op')
      BY <1>0, <3>3 DEF GoesOn, OpFields
    <3> QED BY <2>1, <3>1, <3>2, <3>3
  <2>3. CASE Link
    BY <2>1, <2>3 DEF Link
  <2>4. CASE Kept
    BY <2>1, <2>4 DEF Kept
  <2>5. CASE Added
    BY <2>1, <2>5 DEF Added, Done
  <2>6. CASE Removed
    BY <2>1, <2>6 DEF Removed, Done
  <2>7. CASE Refused
    BY <2>1, <2>7 DEF Refused, Done
  <2>8. CASE Renamed
    BY <2>1, <2>8 DEF Renamed, Done
  <2>9. CASE Count
    BY <1>0, <2>9 DEF Count, GoesOn, OpFields
  <2> QED BY <1>4, <2>2, <2>3, <2>4, <2>5, <2>6, <2>7, <2>8, <2>9
<1>5. ASSUME FillLong  PROVE GoesOn(op') /\ op.pc # "idle" /\ UNCHANGED <<listed, result>>
  <2> DEFINE bs == {BlockOf(NewPlace(j)) : j \in LongPart}
             ok == IF Fits THEN "short" ELSE "grow"
  <2>1. op.pc # "idle" /\ UNCHANGED <<listed, result>> /\ op' = Syncing(op, bs, ok, "undo")
    BY <1>5 DEF FillLong, Sync
  <2>2. ok # "idle"
    OBVIOUS
  <2> HIDE DEF bs, ok
  <2> QED BY <1>3, <2>1, <2>2
<1>6. ASSUME FillShort  PROVE GoesOn(op') /\ op.pc # "idle" /\ UNCHANGED <<listed, result>>
  <2> DEFINE bs == {BlockOf(NewPlace(Room))}
  <2>1. op.pc # "idle" /\ UNCHANGED <<listed, result>> /\ op' = Syncing(op, bs, "added", "undo")
    BY <1>6 DEF FillShort, Sync
  <2> HIDE DEF bs
  <2> QED BY <1>3, <2>1
<1>7. ASSUME Grow  PROVE GoesOn(op') /\ op.pc # "idle" /\ UNCHANGED <<listed, result>>
  <2>1. CASE \E c \in FreeCluster : op' = Syncing([op EXCEPT !.grown = c], BlocksOf(c), "link", "undo")
    <3>1. PICK c \in FreeCluster : op' = Syncing([op EXCEPT !.grown = c], BlocksOf(c), "link", "undo")
      BY <2>1
    <3> DEFINE o == [op EXCEPT !.grown = c]
               bs == BlocksOf(c)
    <3>2. DOMAIN o = OpFields /\ GoesOn(o)
      BY <1>0, <1>7 DEF Grow, GoesOn, OpFields
    <3> HIDE DEF o, bs
    <3>3. op' = Syncing(o, bs, "link", "undo")
      BY <3>1 DEF o, bs
    <3>4. GoesOn(op')
      BY <3>2, <3>3, SyncGoesOn
    <3> QED BY <1>7, <3>4 DEF Grow
  <2>2. CASE Goto("undo")
    BY <1>0, <1>7, <2>2 DEF Grow, Goto, GoesOn, OpFields
  <2> QED BY <1>7, <2>1, <2>2 DEF Grow, Sync
<1>8. ASSUME Undo \/ RemoveLongs  PROVE GoesOn(op') /\ op.pc # "idle" /\ UNCHANGED <<listed, result>>
  <2>1. /\ UNCHANGED <<listed, result>> /\ op.pc # "idle"
        /\ \E d, from, to, after : op' = Clearing(d, from, to, after)
    BY <1>8 DEF Undo, RemoveLongs, LinkFails
  <2>2. PICK d, from, to, after : op' = Clearing(d, from, to, after)
    BY <2>1
  <2>3. op' = [op EXCEPT !.pc = "clear", !.cut = [op.cut EXCEPT !.d = d], !.from = from, !.to = to,
                         !.after = after]
    BY <1>0, <2>2 DEF Clearing, OpFields
  <2> QED BY <1>0, <2>1, <2>3 DEF GoesOn, OpFields
<1>9. ASSUME Clear  PROVE GoesOn(op') /\ op.pc # "idle" /\ UNCHANGED <<listed, result>>
  <2>1. op.pc = "clear" /\ UNCHANGED <<listed, result>>
    BY <1>9 DEF Clear
  <2>2. CASE op.from > op.to
    BY <1>0, <1>9, <2>1, <2>2 DEF Clear, Goto, GoesOn, OpFields
  <2>3. CASE ~(op.from > op.to)
    <3> DEFINE part == {k \in op.from..op.to : SameBlock(op.cut.d, k, op.from)}
               o == [op EXCEPT !.from = @ + Cardinality(part)]
               bs == {BlockOf(Place(op.cut.d, op.from))}
    <3>1. op' = Syncing(o, bs, "clear", op.after)
      BY <1>9, <2>3 DEF Clear, Sync
    <3> HIDE DEF part, bs
    <3>2. DOMAIN o = OpFields /\ GoesOn(o)
      BY <1>0, <2>1 DEF GoesOn, OpFields
    <3> HIDE DEF o
    <3> QED BY <2>1, <3>1, <3>2, SyncGoesOn
  <2> QED BY <2>2, <2>3
<1>10. ASSUME RemoveShort  PROVE GoesOn(op') /\ op.pc # "idle" /\ UNCHANGED <<listed, result>>
  <2> DEFINE bad == IF op.undoing THEN "refused" ELSE "kept"
             bs == {BlockOf(InfoPlace(op.cut))}
  <2>1. op.pc # "idle" /\ UNCHANGED <<listed, result>> /\ op' = Syncing(op, bs, "cleared", bad)
    BY <1>10 DEF RemoveShort, Sync
  <2> HIDE DEF bad, bs
  <2> QED BY <1>3, <2>1
<1>11. ASSUME Move  PROVE GoesOn(op') /\ op.pc # "idle" /\ UNCHANGED <<listed, result>>
  <2> DEFINE r == IF op.over = None THEN [op EXCEPT !.new = NewInfo] ELSE op
             bs == {BlockOf(InfoPlace(r.new))}
  <2>1. op.pc # "idle" /\ UNCHANGED <<listed, result>> /\ op' = Syncing(r, bs, "dotdot", "undo_move")
    BY <1>11 DEF Move, Sync
  <2> HIDE DEF bs
  <2>2. DOMAIN r = OpFields /\ GoesOn(r)
    BY <1>0, <2>1 DEF GoesOn, OpFields
  <2> HIDE DEF r
  <2> QED BY <2>1, <2>2, SyncGoesOn
<1>12. ASSUME SetDotDot  PROVE GoesOn(op') /\ op.pc # "idle" /\ UNCHANGED <<listed, result>>
  <2>1. CASE UpdateDotDot
    <3> DEFINE bs == {BlockOf(DotDotPlace)}
    <3>1. op.pc # "idle" /\ UNCHANGED <<listed, result>> /\ op' = Syncing(op, bs, "count", "undo_dotdot")
      BY <1>12, <2>1 DEF SetDotDot, Sync
    <3> HIDE DEF bs
    <3> QED BY <1>3, <3>1
  <2>2. CASE ~UpdateDotDot
    BY <1>0, <1>12, <2>2 DEF SetDotDot, GoesOn, OpFields
  <2> QED BY <2>1, <2>2
<1>13. ASSUME UndoDotDot  PROVE GoesOn(op') /\ op.pc # "idle" /\ UNCHANGED <<listed, result>>
  <2> DEFINE o == [op EXCEPT !.undoing = TRUE]
  <2>1. CASE UpdateDotDot
    <3> DEFINE bs == {BlockOf(DotDotPlace)}
    <3>1. op.pc # "idle" /\ UNCHANGED <<listed, result>> /\ op' = Syncing(o, bs, "undo_move", "undo_move")
      BY <1>13, <2>1 DEF UndoDotDot, Sync
    <3> HIDE DEF bs
    <3>2. DOMAIN o = OpFields /\ GoesOn(o)
      BY <1>0, <3>1 DEF GoesOn, OpFields
    <3> HIDE DEF o
    <3> QED BY <3>1, <3>2, SyncGoesOn
  <2>2. CASE ~UpdateDotDot
    BY <1>0, <1>13, <2>2 DEF UndoDotDot, GoesOn, OpFields
  <2> QED BY <2>1, <2>2
<1>14. ASSUME UndoMove  PROVE GoesOn(op') /\ op.pc # "idle" /\ UNCHANGED <<listed, result>>
  <2>1. CASE op.over # None
    <3> DEFINE bs == IF op.undoing THEN {BlockOf(InfoPlace(op.new))} ELSE {}
    <3>1. op.pc # "idle" /\ UNCHANGED <<listed, result>> /\ op' = Syncing(op, bs, "refused", "refused")
      BY <1>14, <2>1 DEF UndoMove, Sync
    <3> HIDE DEF bs
    <3> QED BY <1>3, <3>1
  <2>2. CASE op.over = None
    BY <1>0, <1>14, <2>2 DEF UndoMove, GoesOn, OpFields
  <2> QED BY <2>1, <2>2
<1> QED BY <1>1, <1>4, <1>5, <1>6, <1>7, <1>8, <1>9, <1>10, <1>11, <1>12, <1>13, <1>14 DEF Step

(* What is asked for.                                                       *)
Asks(o) ==
    /\ o.pc # "idle" /\ o.call \in Calls /\ o.d \in Clusters /\ o.n \in Names
    /\ o.i \in Inodes \cup {None} /\ o.over \in Inodes \cup {None}
LEMMA AskedSome == ASSUME Asks(op')  PROVE Asked' # None
<1>1. Asked' = [call |-> op'.call, dir |-> op'.d, name |-> op'.n, obj |-> op'.i, over |-> op'.over]
  BY DEF Asked, AtRest, Asks
<1> QED BY <1>1, RequestAssumption DEF Asks

LEMMA RequestAsks ==
    ASSUME Aware, Request  PROVE ~broken /\ UNCHANGED <<listed, result, broken>> /\ (op' = op \/ Asks(op'))
<1> USE DEF notes, marks
<1>0. op.pc = "idle"
  BY DEF Request
<1>1. ASSUME NEW e \in Dentries
      PROVE  e.d \in Clusters /\ e.n \in Names /\ (e.obj # None => e.obj \in Inodes)
  <2>1. e.d \in DirsOf(ino) /\ e.n \in Names /\ (e.obj # None => e.obj \in Inodes)
    BY <1>0, DentryTold
  <2>2. Nodes(ino)
    BY <1>0, RestTold
  <2>3. DirsOf(ino) \subseteq Clusters
    BY <2>2, RootAssumption DEF DirsOf, Nodes, Inode
  <2> QED BY <2>1, <2>3
<1>2. ASSUME NEW e \in Dentries, LookupMiss(e)
      PROVE  ~broken /\ UNCHANGED <<listed, result, broken>> /\ op' = op
  BY <1>2 DEF LookupMiss, Idle
<1>3. ASSUME NEW d \in Dirs, ReadOpen(d)  PROVE ~broken /\ UNCHANGED <<listed, result, broken>> /\ op' = op
  BY <1>3 DEF ReadOpen, Idle
<1>4. CASE ReadEntry \/ ReadFull \/ ReadEnd
  BY <1>4 DEF ReadEntry, ReadFull, ReadEnd, Reading, Idle
<1>5. ASSUME NEW i \in Inodes, WriteInode(i) \/ Write(i)
      PROVE  ~broken /\ UNCHANGED <<listed, result, broken>> /\ op' = op
  BY <1>5 DEF WriteInode, Write, Idle
<1>10. ASSUME NEW b \in Blocks, WriteBuffer(b)
       PROVE  ~broken /\ UNCHANGED <<listed, result, broken>> /\ op' = op
  BY <1>10 DEF WriteBuffer
<1>6. ASSUME NEW e \in Dentries, Create(e)  PROVE ~broken /\ UNCHANGED <<listed, result, broken>> /\ Asks(op')
  <2>1. /\ ~broken /\ UNCHANGED <<listed, result, broken>>
        /\ op' = [Resting EXCEPT !.pc = "build", !.call = "create", !.d = e.d, !.n = e.n]
    BY <1>6 DEF Create, Idle, Ask
  <2> QED BY <1>1, <2>1 DEF Asks, Resting, Calls
<1>7. ASSUME NEW e \in Dentries, Mkdir(e)  PROVE ~broken /\ UNCHANGED <<listed, result, broken>> /\ Asks(op')
  <2> DEFINE r == [Resting EXCEPT !.call = "mkdir", !.d = e.d, !.n = e.n]
  <2>1. /\ ~broken /\ UNCHANGED <<listed, result, broken>>
        /\ \/ op' = [r EXCEPT !.pc = "refused"]
           \/ \E c : op' = Syncing([r EXCEPT !.start = c], BlocksOf(c), "build", "refused")
    BY <1>7 DEF Mkdir, Idle, Ask
  <2>2. CASE op' = [r EXCEPT !.pc = "refused"]
    BY <1>1, <2>1, <2>2 DEF Asks, Resting, Calls
  <2>3. ASSUME NEW c, op' = Syncing([r EXCEPT !.start = c], BlocksOf(c), "build", "refused")  PROVE Asks(op')
    <3> DEFINE o == [r EXCEPT !.start = c]
    <3>1. DOMAIN o = OpFields /\ o.call = "mkdir" /\ o.d = e.d /\ o.n = e.n /\ o.i = None /\ o.over = None
      BY DEF Resting, OpFields
    <3> DEFINE bs == BlocksOf(c)
    <3> HIDE DEF o, bs
    <3>3. op' = Syncing(o, bs, "build", "refused")
      BY <2>3 DEF o, bs
    <3>2. Same(op', o) /\ op'.pc # "idle"
      BY <3>1, <3>3, SyncingIs
    <3> QED BY <1>1, <3>1, <3>2 DEF Asks, Same, Calls
  <2> QED BY <2>1, <2>2, <2>3
<1>8. ASSUME NEW e \in Dentries, Unlink(e) \/ Rmdir(e)
      PROVE  ~broken /\ UNCHANGED <<listed, result, broken>> /\ Asks(op')
  <2>1. /\ ~broken /\ UNCHANGED <<listed, result, broken>> /\ e.obj # None
        /\ \E pc \in {"rm", "refused"}, call \in {"unlink", "rmdir"} :
              op' = [Resting EXCEPT !.pc = pc, !.call = call, !.d = e.d, !.n = e.n, !.i = e.obj, !.cut = e.info]
    <3>1. CASE Unlink(e)
      BY <3>1 DEF Unlink, Idle, Ask
    <3>2. CASE Rmdir(e)
      BY <3>2 DEF Rmdir, Idle, Ask
    <3> QED BY <1>8, <3>1, <3>2
  <2>2. PICK pc \in {"rm", "refused"}, call \in {"unlink", "rmdir"} :
           op' = [Resting EXCEPT !.pc = pc, !.call = call, !.d = e.d, !.n = e.n, !.i = e.obj, !.cut = e.info]
    BY <2>1
  <2>3. op'.pc = pc /\ op'.call = call /\ op'.d = e.d /\ op'.n = e.n /\ op'.i = e.obj /\ op'.over = None
    BY <2>2 DEF Resting
  <2> QED BY <1>1, <2>1, <2>3 DEF Asks, Calls
<1>9. ASSUME NEW o \in Dentries, NEW e \in Dentries, Rename(o, e)
      PROVE  ~broken /\ UNCHANGED <<listed, result, broken>> /\ Asks(op')
  <2>1. /\ ~broken /\ UNCHANGED <<listed, result, broken>> /\ o.obj # None
        /\ \E pc \in {"build", "refused", "move"} :
              op' = [Resting EXCEPT !.pc = pc, !.call = "rename", !.d = e.d, !.n = e.n, !.i = o.obj, !.over = e.obj,
                                    !.old = o.info, !.new = e.info]
    BY <1>9 DEF Rename, Idle, Ask
  <2>2. PICK pc \in {"build", "refused", "move"} :
              op' = [Resting EXCEPT !.pc = pc, !.call = "rename", !.d = e.d, !.n = e.n, !.i = o.obj, !.over = e.obj,
                                    !.old = o.info, !.new = e.info]
    BY <2>1
  <2>3. op'.pc = pc /\ op'.call = "rename" /\ op'.d = e.d /\ op'.n = e.n /\ op'.i = o.obj /\ op'.over = e.obj
    BY <2>2 DEF Resting
  <2>4. o.obj \in Inodes /\ e.obj \in Inodes \cup {None}
    BY <1>1, <2>1
  <2> QED BY <1>1, <2>1, <2>3, <2>4 DEF Asks, Calls
<1> QED BY <1>2, <1>3, <1>4, <1>5, <1>6, <1>7, <1>8, <1>9, <1>10 DEF Request

(* The end of an operation.                                                 *)
LEMMA ReturnAnswers ==
    ASSUME Aware, Return, ~broken, Asked # None  PROVE Tree!Refuse \/ Tree!Answer
<1> DEFINE S == Spots(fat, buf, DirsOf(ino))
           P == Spots(fat, buf, PendingOf(op.pc, op))
<1>1. /\ op.pc \in {"ok", "error"} /\ op' = Resting /\ result' = op.pc /\ listed' = Listed /\ ~broken'
      /\ UNCHANGED ~broken
  BY DEF Return, marks
<1>2. Sound(op.pc, op, fat, buf, ino) /\ Known(op.pc, op, S, P, ino, neg, listed)
  BY <1>1, Calmly DEF KnownOn
<1>3. \A d \in DirsOf(ino) : Whole(View(buf, d))
  BY <1>1, <1>2, DirWhole, ViewNow DEF Fill
<1>4. listed' = Entries(S, ino)
  BY <1>1, <1>3, ListedIs
<1>5. /\ Asked.call = op.call /\ Asked.dir = op.d /\ Asked.name = op.n /\ Asked.obj = op.i /\ Asked.over = op.over
      /\ Asked' = None
  BY <1>1, RestingIs DEF Asked, AtRest
<1> HIDE DEF S, P
<1>6. CASE op.pc = "error"
  <2>1. Base(S, ino, neg, listed)
    BY <1>2, <1>6, BaseIs DEF Quiet
  <2>2. listed' = listed
    BY <1>4, <2>1 DEF Base
  <2> QED BY <1>1, <1>5, <1>6, <2>2 DEF Tree!Refuse
<1>7. CASE op.pc = "ok"
  <2>1. Meant(op, listed, listed')
    BY <1>2, <1>4, <1>7, OkIs DEF OkBase
  <2>2. /\ \A x : Tree!Of(x) = OfThem(listed, x)
        /\ \A d, n : Tree!Named(d, n) = {e \in listed : e.dir = d /\ e.name = n}
    BY DEF Tree!Of, Tree!Named, OfThem
  <2> QED BY <1>1, <1>5, <1>7, <2>1, <2>2 DEF Tree!Answer, Meant
<1> QED BY <1>1, <1>6, <1>7

(* An operation that is under way was asked for.                            *)
AskedInv == ~broken /\ op.pc # "idle" => Asked # None

LEMMA TreeStep ==
    ASSUME Shape, SlotsInv, NamesInv, AskedInv, [NextRecovery]_recoveryVars
    PROVE  [Tree!Next]_Tree!vars /\ AskedInv'
<1>1. CASE broken'
  <2>1. Tree!Fail
    BY <1>1 DEF Tree!Fail
  <2> QED BY <1>1, <2>1 DEF Tree!Next, AskedInv
<1>2. ASSUME ~broken', ~broken, UNCHANGED <<listed, result>>, UNCHANGED Asked, UNCHANGED (op.pc = "idle")
      PROVE  [Tree!Next]_Tree!vars /\ AskedInv'
  <2>1. UNCHANGED ~broken
    BY <1>2
  <2>2. UNCHANGED Tree!vars
    BY <1>2, <2>1 DEF Tree!vars
  <2> QED BY <1>2, <2>2 DEF AskedInv
<1>3. ASSUME ~broken', ~broken, UNCHANGED <<listed, result, op>>  PROVE [Tree!Next]_Tree!vars /\ AskedInv'
  <2>1. UNCHANGED Asked
    BY <1>3 DEF Asked, AtRest
  <2> QED BY <1>2, <1>3, <2>1
<1>4. CASE ~broken' /\ Mounted
  <2>1. mounted /\ ~broken
    BY <1>4, BrokenStays DEF Mounted
  <2>2. Aware
    BY <2>1 DEF SlotsInv, NamesInv, Sane, Aware
  <2>3. CASE Step /\ ~Return
    <3>1. GoesOn(op') /\ op.pc # "idle" /\ UNCHANGED <<listed, result>>
      BY <2>3, StepGoesOn
    <3>2. UNCHANGED Asked /\ UNCHANGED (op.pc = "idle")
      BY <3>1 DEF GoesOn, Asked, AtRest
    <3> QED BY <1>2, <1>4, <2>1, <3>1, <3>2
  <2>4. CASE Return
    <3>1. Asked # None
      BY <2>1, <2>4 DEF AskedInv, Return
    <3>2. Tree!Refuse \/ Tree!Answer
      BY <2>1, <2>2, <2>4, <3>1, ReturnAnswers
    <3>3. op'.pc = "idle"
      BY <2>4, RestingIs DEF Return
    <3> QED BY <3>2, <3>3 DEF Tree!Next, AskedInv
  <2>5. CASE Request
    <3>1. ~broken /\ UNCHANGED <<listed, result, broken>> /\ (op' = op \/ Asks(op'))
      BY <2>2, <2>5, RequestAsks
    <3>2. CASE op' = op
      BY <1>3, <1>4, <3>1, <3>2
    <3>3. CASE Asks(op')
      <4>1. Asked' # None
        BY <3>3, AskedSome
      <4>2. Asked = None
        BY <2>5 DEF Request, Asked, AtRest
      <4>3. UNCHANGED <<~broken, listed, result>>
        BY <3>1
      <4>4. Tree!Ask
        BY <3>1, <4>1, <4>2, <4>3 DEF Tree!Ask
      <4> QED BY <4>1, <4>4 DEF Tree!Next, AskedInv
    <3> QED BY <3>1, <3>2, <3>3
  <2>6. CASE \E i \in Inodes : Evict(i)
    <3>1. UNCHANGED <<listed, result, op>>
      BY <2>6 DEF Evict, notes
    <3> QED BY <1>3, <1>4, <2>1, <3>1
  <2> QED BY <1>4, <2>3, <2>4, <2>5, <2>6 DEF Mounted
<1>5. CASE ~broken' /\ (Unmount \/ (\E arg \in Args : Recover(arg)) \/ UNCHANGED recoveryVars)
  <2>1. UNCHANGED <<broken, listed, result, op>>
    BY <1>5 DEF Unmount, Recover, recoveryVars, vars, notes
  <2> QED BY <1>3, <1>5, <2>1
<1>6. CASE Restart
  <2>1. op.pc = "idle" /\ op' = op /\ listed' = {} /\ broken' = FALSE /\ result' = "ok"
    BY <1>6 DEF Restart, AtRest
  <2>2. Asked = None /\ Asked' = None
    BY <2>1 DEF Asked, AtRest
  <2>3. (~broken)' = TRUE
    BY <2>1
  <2>4. Tree!Format
    BY <2>1, <2>2, <2>3 DEF Tree!Format
  <2> QED BY <2>1, <2>4 DEF Tree!Next, AskedInv
<1> QED BY <1>1, <1>4, <1>5, <1>6 DEF NextRecovery

(* The directories keep to what DirTree promises: an operation that returns *)
(* without an error has done what it was asked for, all of it and nothing   *)
(* else, and one that returns with an error has done nothing, as long as no *)
(* write fails that is to undo or to complete an operation.                 *)
THEOREM TreeKept == SpecRecovery => KeepsTree
<1>1. InitRecovery => Shape /\ SlotsInv /\ NamesInv /\ AskedInv
  BY NamesInit, RestingIs DEF InitRecovery, Init, AskedInv
<1>2. InitRecovery => Tree!Init
  BY RestingIs DEF InitRecovery, Init, Tree!Init, Asked, AtRest
<1>3. Shape /\ SlotsInv /\ NamesInv /\ AskedInv /\ [NextRecovery]_recoveryVars
         => (Shape /\ SlotsInv /\ NamesInv /\ AskedInv)'
  BY ShapeStep, SlotsStep, NamesStep, TreeStep
<1>4. Shape /\ SlotsInv /\ NamesInv /\ AskedInv /\ [NextRecovery]_recoveryVars => [Tree!Next]_Tree!vars
  BY TreeStep
<1> QED BY <1>1, <1>2, <1>3, <1>4, PTL DEF SpecRecovery, KeepsTree, Tree!Spec

(* So a name of a directory is listed once, and an object has one name.     *)
THEOREM ListedDistinct == SpecRecovery => []Tree!Distinct
  BY TreeKept, NamesDistinct DEF KeepsTree

-----------------------------------------------------------------------------
(* A directory that is read from any slot on, inside a name too: of the     *)
(* name that is begun in the midst its short slot is found, and all that is *)
(* behind it is found as it is.                                             *)
InName(v, k, at, n) ==
    at \in ShortEntries(v) /\ n \in 1..MaxLongs /\ LongRun(v, at, n) /\ at - n < k /\ k <= at

LEMMA InOrOut ==
    ASSUME NEW v, Whole(v), NEW k \in 1..Len(v) + 1
    PROVE  Outside(v, k) \/ \E at, n : InName(v, k, at, n)
<1>1. IsDirectory(v) /\ DOMAIN v = 1..Len(v) /\ Len(v) \in Nat
  BY WholeTidy DEF IsDirectory
<1>2. \A at \in ShortEntries(v) : at \in 1..Len(v)
  BY <1>1 DEF ShortEntries
<1>3. CASE k \notin DOMAIN v
  BY <1>3 DEF Outside
<1>4. CASE k \in DOMAIN v /\ IsLong(v[k])
  <2>1. PICK at \in ShortEntries(v), n \in 1..MaxLongs : LongRun(v, at, n) /\ at - n <= k /\ k < at
    BY <1>4 DEF Whole, Covered
  <2>2. at \in Int /\ n \in Int /\ k \in Int /\ n # 0
    BY <1>1, <1>2, <1>4 DEF MaxLongs
  <2>3. CASE k = at - n
    <3>1. LongCount(v[k]) = n /\ ~IsShort(v[k])
      BY <1>1, <2>1, <2>2, <2>3, InRun
    <3> QED BY <2>2, <3>1 DEF Outside
  <2>4. CASE k # at - n
    <3>1. at - n < k /\ k <= at
      BY <2>1, <2>2, <2>4
    <3> QED BY <2>1, <3>1 DEF InName
  <2> QED BY <2>3, <2>4
<1>5. CASE k \in DOMAIN v /\ ~IsLong(v[k]) /\ (IsShort(v[k]) => k \in Bare(v))
  BY <1>5 DEF Outside
<1>6. CASE k \in DOMAIN v /\ IsShort(v[k]) /\ k \notin Bare(v)
  <2>1. k \in ShortEntries(v) /\ k # 1 /\ k \in 1..Len(v) /\ IsLong(v[k - 1])
    BY <1>1, <1>6 DEF Bare, ShortEntries
  <2>2. k - 1 \in DOMAIN v /\ k - 1 < k /\ k \in Int
    BY <1>1, <2>1
  <2>3. PICK at \in ShortEntries(v), n \in 1..MaxLongs : LongRun(v, at, n) /\ at - n <= k - 1 /\ k - 1 < at
    BY <2>1, <2>2 DEF Whole, Covered
  <2>4. at \in Int /\ n \in Int
    BY <1>1, <1>2 DEF MaxLongs
  <2>5. ~(k < at)
    <3> SUFFICES ASSUME k < at  PROVE FALSE
      OBVIOUS
    <3>1. at - n <= k
      BY <2>2, <2>3, <2>4
    <3>2. ~IsShort(v[k])
      BY <1>1, <2>2, <2>3, <3>1, InRun
    <3> QED BY <1>6, <3>2
  <2>6. at - n < k /\ k <= at
    BY <2>2, <2>3, <2>4, <2>5
  <2> QED BY <2>3, <2>6 DEF InName
<1> QED BY <1>3, <1>4, <1>5, <1>6, ShortNotLong

LEMMA ReadInside ==
    ASSUME NEW v, Whole(v), NEW k \in 1..Len(v) + 1, NEW at, NEW n, InName(v, k, at, n)
    PROVE  RecordsFrom(v)[k] = StandingFrom(v, at + 1) \cup {PlainAt(at)}
<1> DEFINE found == StandingFrom(v, at + 1) \cup {PlainAt(at)}
           T == {j \in 1..Len(v) : at - n < j /\ j <= at /\ RecordsFrom(v)[j] # found}
<1>1. IsDirectory(v) /\ Tidy(v) /\ DOMAIN v = 1..Len(v) /\ Len(v) \in Nat
  BY WholeTidy DEF IsDirectory
<1>2. at \in 1..Len(v) /\ at \in ShortEntries(v) /\ n \in 1..MaxLongs /\ LongRun(v, at, n) /\ at - n < k /\ k <= at
      /\ IsShort(v[at])
  BY <1>1 DEF InName, ShortEntries
<1>3. ~IsLong(v[at]) /\ at + 1 \in 1..Len(v) + 1 /\ at \in 1..Len(v) + 1 /\ ~(at > Len(v)) /\ n \in Int
  BY <1>1, <1>2, ShortNotLong DEF MaxLongs
<1>4. RecordsFrom(v)[at + 1] = StandingFrom(v, at + 1)
  <2>1. Outside(v, at + 1)
    BY <1>1, <1>2, <1>3, BehindShort
  <2> QED BY <1>1, <1>3, <2>1, ReadOutside
<1>5. RecordsFrom(v)[at] = found
  BY <1>1, <1>2, <1>3, <1>4, ReadSlot DEF ReadAt
<1> HIDE DEF found
<1>6. T = {}
  <2> SUFFICES ASSUME T # {}  PROVE FALSE
    OBVIOUS
  <2>1. PICK j \in T : \A m \in T : j >= m
    <3>1. T \subseteq 1..Len(v)
      OBVIOUS
    <3> HIDE DEF T
    <3> QED BY <1>1, <3>1, Greatest
  <2>2. j \in 1..Len(v) /\ at - n < j /\ j <= at /\ RecordsFrom(v)[j] # found
    OBVIOUS
  <2>3. j # at
    BY <1>5, <2>2
  <2>4. j \in Int /\ at - n <= j /\ j < at /\ j # at - n
    BY <1>2, <1>3, <2>2, <2>3
  <2>5. IsLong(v[j]) /\ LongCount(v[j]) = 0
    BY <1>1, <1>2, <2>4, InRun
  <2>6. RecordsFrom(v)[j] = RecordsFrom(v)[j + 1]
    <3>1. j \in 1..Len(v) + 1 /\ ~(j > Len(v))
      BY <1>1, <2>2
    <3> QED BY <1>1, <2>5, <3>1, ReadSlot DEF ReadAt
  <2>7. j + 1 \in 1..Len(v) /\ at - n < j + 1 /\ j + 1 <= at /\ ~(j >= j + 1)
    BY <1>2, <1>3, <2>2, <2>3
  <2>8. j + 1 \notin T
    BY <2>1, <2>7
  <2> QED BY <2>2, <2>6, <2>7, <2>8
<1>7. k \in 1..Len(v)
  BY <1>2
<1> QED BY <1>2, <1>6, <1>7 DEF found

LEMMA StandingLongs ==
    ASSUME NEW v, IsDirectory(v), NEW r \in Standing(v)
    PROVE  /\ r.at \in ShortEntries(v) /\ r.at \in 1..Len(v) /\ r.longs \in 0..MaxLongs /\ r.longs < r.at
           /\ IF r.longs = 0 THEN r = PlainAt(r.at) ELSE LongRun(v, r.at, r.longs) /\ r.longs \in 1..MaxLongs
<1>1. r.at \in ShortEntries(v) /\ r.at \in 1..Len(v) /\ Len(v) \in Nat
  BY StandingAt DEF IsDirectory
<1>2. CASE r \in {PlainAt(k) : k \in Bare(v)}
  <2>1. PICK k \in Bare(v) : r = PlainAt(k)
    BY <1>2
  <2>2. r.at = k /\ r.longs = 0
    BY <2>1 DEF PlainAt
  <2> QED BY <1>1, <2>1, <2>2 DEF MaxLongs
<1>3. CASE r \in LongNamed(v)
  <2>1. r.longs \in 1..MaxLongs /\ LongRun(v, r.at, r.longs)
    BY <1>3 DEF LongNamed
  <2>2. r.longs \in 0..MaxLongs /\ r.longs # 0
    BY <2>1 DEF MaxLongs
  <2> QED BY <1>1, <2>1, <2>2 DEF LongRun
<1> QED BY <1>2, <1>3 DEF Standing

(* An entry before another is before its long slots too.                    *)
LEMMA BehindName ==
    ASSUME NEW v, IsDirectory(v), NEW s \in Standing(v), NEW q \in ShortEntries(v), q < s.at
    PROVE  q < s.at - s.longs
<1>1. /\ s.at \in ShortEntries(v) /\ s.at \in Int /\ s.longs \in Int /\ q \in Int /\ IsShort(v[q])
      /\ IF s.longs = 0 THEN s = PlainAt(s.at) ELSE LongRun(v, s.at, s.longs) /\ s.longs \in 1..MaxLongs
  <2>1. s.longs \in 0..20
    BY StandingLongs DEF MaxLongs
  <2> QED BY <2>1, StandingLongs DEF ShortEntries, IsDirectory
<1>2. CASE s.longs = 0
  BY <1>1, <1>2
<1>3. CASE s.longs # 0 /\ s.at - s.longs <= q
  <2>1. ~IsShort(v[q])
    BY <1>1, <1>3, InRun
  <2> QED BY <1>1, <2>1
<1> QED BY <1>1, <1>2, <1>3

LEMMA ReadOnward ==
    ASSUME NEW v, Whole(v), NEW k \in 1..Len(v) + 1
    PROVE  /\ \A r \in RecordsFrom(v)[k] :
                 r.at \in ShortEntries(v) /\ r.at >= k /\ r.longs \in Nat /\ r.at - r.longs >= k
           /\ \A q \in ShortEntries(v) : q >= k => \E r \in RecordsFrom(v)[k] : r.at = q
           /\ \A r \in RecordsFrom(v)[k] : \A s \in Standing(v) :
                 s.at = r.at /\ s.at - s.longs >= k => r = s
<1> DEFINE R == RecordsFrom(v)[k]
<1>1. IsDirectory(v) /\ Tidy(v) /\ Records(v) = Standing(v) /\ Len(v) \in Nat /\ k \in Int
  BY WholeTidy DEF IsDirectory
<1>2. \A s \in Standing(v) :
          /\ s.at \in ShortEntries(v) /\ s.at \in Int /\ s.longs \in Nat
          /\ IF s.longs = 0 THEN s = PlainAt(s.at) ELSE LongRun(v, s.at, s.longs) /\ s.longs \in 1..MaxLongs
  <2>1. \A s \in Standing(v) : s.longs \in 0..20
    BY <1>1, StandingLongs DEF MaxLongs
  <2> QED BY <1>1, <2>1, StandingLongs
<1>3. \A q \in ShortEntries(v) : q \in Int /\ IsShort(v[q])
  BY <1>1 DEF ShortEntries, IsDirectory
<1>4. \A q \in ShortEntries(v) : \E r \in Standing(v) : r.at = q
  BY <1>1, ShortRecord
<1>5. ASSUME NEW at, NEW n, InName(v, k, at, n)
      PROVE  /\ \A r \in R : r.at \in ShortEntries(v) /\ r.at >= k /\ r.longs \in Nat /\ r.at - r.longs >= k
             /\ \A q \in ShortEntries(v) : q >= k => \E r \in R : r.at = q
             /\ \A r \in R : \A s \in Standing(v) : s.at = r.at /\ s.at - s.longs >= k => r = s
  <2>1. R = StandingFrom(v, at + 1) \cup {PlainAt(at)}
    BY <1>5, ReadInside
  <2>2. at \in ShortEntries(v) /\ at \in Int /\ n \in 1..MaxLongs /\ n \in Int /\ LongRun(v, at, n) /\ at - n < k /\ k <= at
    BY <1>3, <1>5 DEF InName, MaxLongs
  <2>3. PlainAt(at).at = at /\ PlainAt(at).longs = 0
    BY DEF PlainAt
  <2> HIDE DEF R
  <2>4. \A r \in StandingFrom(v, at + 1) : r \in Standing(v) /\ r.at >= at + 1
    BY DEF StandingFrom
  <2>5. \A r \in StandingFrom(v, at + 1) : r.at - r.longs > at
    <3> TAKE r \in StandingFrom(v, at + 1)
    <3>1. r \in Standing(v) /\ at < r.at /\ r.longs \in Nat /\ r.at \in Int
      BY <1>2, <2>2, <2>4
    <3>2. at < r.at - r.longs
      BY <1>1, <2>2, <3>1, BehindName
    <3> QED BY <2>2, <3>1, <3>2
  <2>6. \A r \in R : r.at \in ShortEntries(v) /\ r.at >= k /\ r.longs \in Nat /\ r.at - r.longs >= k
    <3> TAKE r \in R
    <3>1. CASE r = PlainAt(at)
      BY <1>1, <2>2, <2>3, <3>1
    <3>2. CASE r \in StandingFrom(v, at + 1)
      BY <1>1, <1>2, <2>2, <2>4, <2>5, <3>2
    <3> QED BY <2>1, <3>1, <3>2
  <2>7. ASSUME NEW q \in ShortEntries(v), q >= k  PROVE \E r \in R : r.at = q
    <3>1. CASE q < at
      <4>1. at - n <= q /\ q \in Int
        BY <1>1, <1>3, <2>2, <2>7
      <4>2. ~IsShort(v[q])
        BY <1>1, <2>2, <3>1, <4>1, InRun
      <4> QED BY <1>3, <4>2
    <3>2. CASE q = at
      BY <2>1, <2>3, <3>2
    <3>3. CASE q > at
      <4>1. PICK r \in Standing(v) : r.at = q
        BY <1>4
      <4>2. r \in StandingFrom(v, at + 1)
        BY <1>3, <2>2, <3>3, <4>1 DEF StandingFrom
      <4> QED BY <2>1, <4>1, <4>2
    <3> QED BY <1>3, <2>2, <3>1, <3>2, <3>3
  <2>8. ASSUME NEW r \in R, NEW s \in Standing(v), s.at = r.at, s.at - s.longs >= k  PROVE r = s
    <3>1. CASE r = PlainAt(at)
      <4>1. s.at = at
        BY <2>3, <2>8, <3>1
      <4>2. CASE s.longs = 0
        BY <1>2, <3>1, <4>1, <4>2
      <4>3. CASE s.longs # 0
        <5>1. LongRun(v, at, s.longs) /\ s.longs \in 1..MaxLongs
          BY <1>2, <4>1, <4>3
        <5>2. s.longs = n
          BY <1>1, <2>2, <5>1, OneRun
        <5> QED BY <1>1, <2>2, <2>8, <4>1, <5>2
      <4> QED BY <4>2, <4>3
    <3>2. CASE r \in StandingFrom(v, at + 1)
      BY <1>1, <2>4, <2>8, <3>2, RecordOne
    <3> QED BY <2>1, <3>1, <3>2
  <2> QED BY <2>6, <2>7, <2>8
<1>6. ASSUME \A at, n : ~InName(v, k, at, n)
      PROVE  /\ \A r \in R : r.at \in ShortEntries(v) /\ r.at >= k /\ r.longs \in Nat /\ r.at - r.longs >= k
             /\ \A q \in ShortEntries(v) : q >= k => \E r \in R : r.at = q
             /\ \A r \in R : \A s \in Standing(v) : s.at = r.at /\ s.at - s.longs >= k => r = s
  <2>1. R = StandingFrom(v, k)
    BY <1>1, <1>6, InOrOut, ReadOutside
  <2> HIDE DEF R
  <2>2. \A r \in R : r \in Standing(v) /\ r.at >= k
    BY <2>1 DEF StandingFrom
  <2>3. ASSUME NEW r \in R  PROVE r.at \in ShortEntries(v) /\ r.longs \in Nat /\ r.at - r.longs >= k
    <3>1. r \in Standing(v) /\ r.at >= k /\ r.at \in ShortEntries(v) /\ r.at \in Int /\ r.longs \in Nat
      BY <1>2, <2>2
    <3>2. CASE r.longs = 0
      BY <1>1, <3>1, <3>2
    <3>3. CASE r.longs # 0
      <4>1. LongRun(v, r.at, r.longs) /\ r.longs \in 1..MaxLongs
        BY <1>2, <3>1, <3>3
      <4>2. ~(r.at - r.longs < k)
        BY <1>6, <3>1, <4>1 DEF InName
      <4> QED BY <1>1, <3>1, <4>2
    <3> QED BY <3>2, <3>3
  <2>4. ASSUME NEW q \in ShortEntries(v), q >= k  PROVE \E r \in R : r.at = q
    <3>1. PICK r \in Standing(v) : r.at = q
      BY <1>4
    <3>2. r \in R
      BY <2>1, <2>4, <3>1 DEF StandingFrom
    <3> QED BY <3>1, <3>2
  <2>5. ASSUME NEW r \in R, NEW s \in Standing(v), s.at = r.at  PROVE r = s
    BY <1>1, <2>2, <2>5, RecordOne
  <2> QED BY <2>2, <2>3, <2>4, <2>5
<1> QED BY <1>5, <1>6

-----------------------------------------------------------------------------
(* How many long slots a name has can be told from the name: it is what the *)
(* first of them says.                                                      *)
LongsFor(n) == IF n \in Names THEN Form[n].longs ELSE 0
Numbered(s) == IsLong(s) /\ s.text[1] > LongLast => s.text[1] = LongLast + Form[s.name].longs
Labelled(dev) == \A p \in Places : Numbered(dev[p])

LEMMA LongsAre ==
    ASSUME NEW t, NEW a, Labelled(a), NEW ds, NEW d \in ds, Sorted(Spots(t, a, ds)),
           IsChain(t, d, ChainOf(t, d)), Whole(ViewOf(t, a, d)), NEW r \in Records(ViewOf(t, a, d))
    PROVE  r.longs = LongsFor(NameOf(ViewOf(t, a, d), r))
<1> DEFINE v == ViewOf(t, a, d)
           s == Spot(t, a, d, r.at)
<1>1. IsDirectory(v) /\ r \in Standing(v)
  BY WholeTidy
<1>2. /\ r.at \in ShortEntries(v) /\ r.at \in 1..Len(v) /\ r.longs \in 0..20 /\ r.longs < r.at
      /\ IF r.longs = 0 THEN r = PlainAt(r.at) ELSE LongRun(v, r.at, r.longs) /\ r.longs \in 1..MaxLongs
  BY <1>1, StandingLongs DEF MaxLongs
<1>3. NameAs(s) = NameOf(v, r)
  BY RecordNamed
<1>4. SpotAt(s, t, d, r.at, v) /\ s \in Spots(t, a, ds)
  BY <1>2, SpotIs, SpotsWith
<1>5. s.tie = (IF r.longs > 0 THEN <<r.name>> ELSE <<>>)
  BY <1>4, RecordTie DEF SpotAt
<1>6. LenOf(t, d) \in Nat /\ DOMAIN v = 1..LenOf(t, d) /\ Len(v) = LenOf(t, d)
      /\ \A k \in 1..LenOf(t, d) : v[k] = a[PlaceOf(t, d, k)] /\ PlaceOf(t, d, k) \in Places
  BY ViewIs, PlaceIn
<1> HIDE DEF s, v
<1>7. CASE r.longs = 0
  <2>1. NameAs(s) = ShortName(s.text)
    BY <1>5, <1>7 DEF NameAs
  <2>2. \A x : LongsFor(ShortName(x)) = 0
    BY RootAssumption DEF LongsFor, ShortName
  <2>3. LongsFor(NameOf(v, r)) = 0
    BY <1>3, <2>1, <2>2
  <2> QED BY <1>7, <2>3 DEF v
<1>8. CASE r.longs # 0
  <2>1. PICK n \in Names : s.tie = <<n>>
    <3>1. s.tie # <<>>
      BY <1>2, <1>5, <1>8
    <3> QED BY <1>4, <3>1 DEF Sorted
  <2>2. r.longs > 0 /\ r.longs \in 1..20 /\ r.longs \in 1..MaxLongs /\ LongRun(v, r.at, r.longs)
    BY <1>2, <1>8 DEF MaxLongs
  <2>3. r.name = n /\ NameAs(s) = n
    <3>1. <<r.name>> = <<n>> /\ s.tie[1] = r.name /\ s.tie # <<>>
      BY <1>5, <2>1, <2>2
    <3> QED BY <3>1 DEF NameAs
  <2> DEFINE k == r.at - r.longs
  <2>4. k \in 1..LenOf(t, d) /\ k < r.at /\ k \in Int /\ k <= k
    BY <1>2, <1>6, <2>2
  <2>5. IsLong(v[k]) /\ LongCount(v[k]) = r.longs /\ v[k].name = v[r.at - 1].name
    <3>1. r.at - r.longs <= k
      BY <2>4
    <3> HIDE DEF k
    <3>2. LongCount(v[k]) = (IF k = r.at - r.longs THEN r.longs ELSE 0) /\ IsLong(v[k]) /\ v[k].name = v[r.at - 1].name
      BY <1>1, <1>2, <2>2, <2>4, <3>1, InRun
    <3> QED BY <3>2 DEF k
  <2>6. r.name = v[r.at - 1].name
    <3>1. r \in LongNamed(v)
      BY <1>1, <1>8 DEF Standing, PlainAt
    <3> QED BY <3>1 DEF LongNamed
  <2>7. v[k].text[1] = 64 + r.longs
    BY <2>2, <2>5 DEF LongCount, LongLast, MaxLongs
  <2>8. v[k] = a[PlaceOf(t, d, k)] /\ PlaceOf(t, d, k) \in Places
    BY <1>6, <2>4
  <2>9. v[k].text[1] = 64 + Form[v[k].name].longs
    <3>1. v[k].text[1] > 64
      BY <2>2, <2>7
    <3> QED BY <2>5, <2>8, <3>1 DEF Labelled, Numbered, LongLast
  <2> HIDE DEF k
  <2>10. Form[n].longs \in Int
    BY LongsNat
  <2>11. r.longs = Form[n].longs
    BY <2>2, <2>3, <2>5, <2>6, <2>7, <2>9, <2>10
  <2>12. LongsFor(NameOf(v, r)) = r.longs
    BY <1>3, <2>3, <2>11 DEF LongsFor
  <2> QED BY <2>12 DEF v
<1> QED BY <1>7, <1>8 DEF v

-----------------------------------------------------------------------------
(* A readdir that goes on between operations.  What stays is followed: its  *)
(* entry is where its inode says, or in a rename where the operation found  *)
(* it, and before or behind what was read.                                  *)
HomeAt(label, o) ==
    \/ label \in Adds \cup {"move", "undo", "refused", "error"}
    \/ label \in Cuts /\ o.undoing
    \/ label = "clear" /\ o.after = "refused"
Home(o) == HomeAt(o.pc, o) \/ (o.pc = "sync" /\ (HomeAt(o.ok, o) \/ HomeAt(o.bad, o)))
IsRename(o) == o.pc # "idle" /\ o.call = "rename"
Given(o, i) == IsRename(o) /\ i \in {o.i, o.over}
InPlace(i, d, k, o, t, in) ==
    /\ IsRename(o) /\ i = o.i => o.old.d = d /\ o.old.at = k
    /\ IsRename(o) /\ i = o.over => o.new.d = d /\ o.new.at = k
    /\ (Given(o, i) => Home(o)) /\ in[i] # None /\ in[i].pos # None => in[i].pos = PlaceOf(t, d, k)
Passed(e, k, n, rd) == IF e \in rd.seen THEN k <= rd.at ELSE rd.at < k - n
Follows1(e, o, t, in, rd) ==
    /\ e.obj \in Inodes /\ in[e.obj] # None
    /\ \E k \in 1..LenOf(t, rd.d) : InPlace(e.obj, rd.d, k, o, t, in) /\ Passed(e, k, LongsFor(e.name), rd)
Followed(o, t, in, rd) == \A e \in rd.stay : Follows1(e, o, t, in, rd)
FollowedInv ==
    mounted /\ ~broken =>
        /\ Labelled(buf) /\ Labelled(disk)
        /\ reader.d \in DirsOf(ino) => Followed(op, fat, ino, reader)
        /\ IsRename(op) => op.over # op.i

(* What a reader remembers, whatever fails.                                 *)
ReaderFields == {"d", "at", "stay", "seen", "twice", "missed"}
ReaderShape ==
    /\ DOMAIN reader = ReaderFields /\ reader.at \in Nat
    /\ reader.seen \subseteq reader.stay /\ reader.stay \subseteq listed
    /\ \A e \in reader.stay : e.dir = reader.d
    /\ ListedOnce

(* An entry that is found is that of an inode.                              *)
Tracked(d, rd) ==
    LET v == ViewOf(fat, buf, d)
    IN \A e \in rd.stay :
          /\ e.obj \in Inodes
          /\ \E s \in Records(v) : /\ e = Entry(d, v, s) /\ ino[e.obj] # None /\ ino[e.obj].pos = PlaceOf(fat, d, s.at)
                                   /\ LongsFor(e.name) = s.longs /\ Passed(e, s.at, s.longs, rd)

LEMMA EntryObject ==
    ASSUME NEW d, NEW v, NEW r
    PROVE  LET e == Entry(d, v, r)
           IN /\ e.dir = d /\ e.name = NameOf(v, r) /\ e.obj = HolderOf(ino, PlaceOf(fat, d, r.at))
              /\ e.obj \in Inodes => ino[e.obj] # None /\ ino[e.obj].pos = PlaceOf(fat, d, r.at)
<1>1. Entry(d, v, r).obj = HolderOf(ino, PlaceOf(fat, d, r.at))
  <2>1. \A p : ObjectAt(p) = HolderOf(ino, p)
    BY DEF ObjectAt, At, HolderOf
  <2>2. Entry(d, v, r).obj = ObjectAt(Place(d, r.at))
    BY DEF Entry
  <2> QED BY <2>1, <2>2, PlaceNow
<1>2. HolderOf(ino, PlaceOf(fat, d, r.at)) \in Inodes
        => LET i == HolderOf(ino, PlaceOf(fat, d, r.at)) IN ino[i] # None /\ ino[i].pos = PlaceOf(fat, d, r.at)
  BY InodeAssumption, RootAssumption DEF HolderOf
<1>3. Entry(d, v, r).dir = d /\ Entry(d, v, r).name = NameOf(v, r)
  BY DEF Entry
<1> QED BY <1>1, <1>2, <1>3

LEMMA RecordNow ==
    ASSUME Aware, op.pc = "idle", Labelled(buf), NEW d \in DirsOf(ino),
           NEW r \in Records(ViewOf(fat, buf, d))
    PROVE  LET v == ViewOf(fat, buf, d)
               e == Entry(d, v, r)
           IN /\ Whole(v) /\ r.at \in ShortEntries(v) /\ r.at \in 1..LenOf(fat, d) /\ LongsFor(e.name) = r.longs
              /\ ~IsDots(v[r.at]) =>
                    /\ e \in listed /\ e.obj \in Inodes /\ ino[e.obj] # None
                    /\ ino[e.obj].pos = PlaceOf(fat, d, r.at)
<1> DEFINE v == ViewOf(fat, buf, d)
           S == Spots(fat, buf, DirsOf(ino))
           s == Spot(fat, buf, d, r.at)
           e == Entry(d, v, r)
<1>1. /\ Base(S, ino, neg, listed) /\ Whole(v) /\ IsChain(fat, d, ChainOf(fat, d))
      /\ Sorted(S) /\ Hosted(S, {}, ino, {}) /\ listed = Entries(S, ino)
  BY RestTold DEF Chains, Base
<1>2. r.at \in ShortEntries(v) /\ r.at \in 1..LenOf(fat, d)
  BY <1>1, RecordTie, ViewIs DEF ShortEntries
<1>3. s \in S /\ s.dir = d /\ s.place = PlaceOf(fat, d, r.at) /\ (Dotted(s) <=> IsDots(v[r.at])) /\ NameAs(s) = NameOf(v, r)
  BY <1>1, <1>2, RecordNamed, SpotsWith
<1>4. e.dir = d /\ e.name = NameOf(v, r) /\ e.obj = HolderOf(ino, PlaceOf(fat, d, r.at))
  BY EntryObject
<1>5. LongsFor(e.name) = r.longs
  BY <1>1, <1>4, LongsAre
<1>6. e = EntryAs(s, HolderOf(ino, s.place))
  <2>1. e.obj = ObjectAt(Place(d, r.at))
    BY DEF Entry
  <2> HIDE DEF s
  <2> QED BY <1>3, <1>4, <2>1 DEF Entry, EntryAs
<1> HIDE DEF s, S, v, e
<1>7. ASSUME ~IsDots(v[r.at])
      PROVE  e \in listed /\ e.obj \in Inodes /\ ino[e.obj] # None /\ ino[e.obj].pos = PlaceOf(fat, d, r.at)
  <2>1. ~Dotted(s) /\ s \notin {}
    BY <1>3, <1>7
  <2>2. e.obj \in Inodes /\ ino[e.obj] # None /\ ino[e.obj].pos = s.place
    BY <1>1, <1>3, <1>4, <2>1, Holds
  <2>3. e \in Entries(S, ino)
    BY <1>3, <1>6, <2>1 DEF Entries
  <2> QED BY <1>1, <1>3, <2>2, <2>3
<1> QED BY <1>1, <1>2, <1>5, <1>7 DEF v, e

(* Between operations nothing is on its way, so that what stays is an entry *)
(* of the directory that is read, where its inode says.                     *)
Reads(d, rd) ==
    /\ d \in DirsOf(ino) /\ rd.d = d /\ rd.stay \subseteq listed /\ \A e \in rd.stay : e.dir = d

LEMMA EntryListed ==
    ASSUME Aware, op.pc = "idle", NEW e \in listed
    PROVE  e.dir \in DirsOf(ino) /\ \E r \in Records(ViewOf(fat, buf, e.dir)) :
              e = Entry(e.dir, ViewOf(fat, buf, e.dir), r) /\ ~IsDots(ViewOf(fat, buf, e.dir)[r.at])
<1>1. listed = Entries(Spots(fat, buf, DirsOf(ino)), ino) /\ \A d \in DirsOf(ino) : Whole(ViewOf(fat, buf, d))
  BY RestTold DEF Base
<1>2. \A d : View(buf, d) = ViewOf(fat, buf, d)
  BY ViewNow
<1>3. Listed = listed
  BY <1>1, <1>2, ListedIs
<1>4. PICK d \in DirsOf(ino) : e \in ListedIn(d)
  BY <1>3, DirsNow DEF Listed
<1>5. PICK r \in Records(ViewOf(fat, buf, d)) : e = Entry(d, ViewOf(fat, buf, d), r) /\ ~IsDots(ViewOf(fat, buf, d)[r.at])
  BY <1>2, <1>4 DEF ListedIn
<1>6. e.dir = d
  BY <1>5, EntryObject
<1> QED BY <1>5, <1>6

LEMMA FollowedTracked ==
    ASSUME Aware, op = Resting, Labelled(buf), NEW d, NEW rd, Reads(d, rd)
    PROVE  Followed(op, fat, ino, rd) <=> Tracked(d, rd)
<1> DEFINE v == ViewOf(fat, buf, d)
<1>1. op.pc = "idle" /\ ~IsRename(op) /\ d \in DirsOf(ino) /\ rd.d = d
  BY DEF Resting, IsRename, Reads
<1>2. IsChain(fat, d, ChainOf(fat, d))
  BY <1>1, RestTold DEF Chains
<1>3. ASSUME Followed(op, fat, ino, rd), NEW e \in rd.stay
      PROVE  /\ e.obj \in Inodes
             /\ \E s \in Records(v) : /\ e = Entry(d, v, s) /\ ino[e.obj] # None /\ ino[e.obj].pos = PlaceOf(fat, d, s.at)
                                      /\ LongsFor(e.name) = s.longs /\ Passed(e, s.at, s.longs, rd)
  <2>1. e \in listed /\ e.dir = d
    BY DEF Reads
  <2>2. PICK r \in Records(v) : e = Entry(d, v, r) /\ ~IsDots(v[r.at])
    BY <1>1, <2>1, EntryListed
  <2> HIDE DEF v
  <2>3. /\ r.at \in 1..LenOf(fat, d) /\ LongsFor(e.name) = r.longs /\ e.obj \in Inodes /\ ino[e.obj] # None
        /\ ino[e.obj].pos = PlaceOf(fat, d, r.at)
    BY <1>1, <2>2, RecordNow DEF v
  <2>4. PlaceOf(fat, d, r.at) # None
    BY <1>2, <2>3, PlaceIn, InodeAssumption
  <2>5. PICK k \in 1..LenOf(fat, d) : InPlace(e.obj, d, k, op, fat, ino) /\ Passed(e, k, LongsFor(e.name), rd)
    BY <1>1, <1>3 DEF Followed, Follows1
  <2>6. ino[e.obj].pos = PlaceOf(fat, d, k)
    BY <1>1, <2>3, <2>4, <2>5 DEF InPlace, Given
  <2>7. k = r.at
    BY <1>2, <2>3, <2>6, PlaceOne
  <2> QED BY <2>2, <2>3, <2>5, <2>7
<1>4. ASSUME Tracked(d, rd), NEW e \in rd.stay  PROVE Follows1(e, op, fat, ino, rd)
  <2>1. e.obj \in Inodes
    BY <1>4 DEF Tracked
  <2>2. PICK s \in Records(v) : /\ e = Entry(d, v, s) /\ ino[e.obj] # None /\ ino[e.obj].pos = PlaceOf(fat, d, s.at)
                                /\ LongsFor(e.name) = s.longs /\ Passed(e, s.at, s.longs, rd)
    BY <1>4 DEF Tracked
  <2>3. s.at \in 1..LenOf(fat, d)
    BY <1>1, RecordNow
  <2>4. InPlace(e.obj, d, s.at, op, fat, ino)
    BY <1>1, <2>2 DEF InPlace, Given
  <2>5. Passed(e, s.at, LongsFor(e.name), rd)
    BY <2>2
  <2> QED BY <1>1, <2>1, <2>2, <2>3, <2>4, <2>5 DEF Follows1
<1> QED BY <1>3, <1>4 DEF Followed, Tracked

(* What readdir finds next.                                                 *)
Reader(d) ==
    /\ Aware /\ op = Resting /\ Labelled(buf) /\ ReaderShape /\ reader.d = d /\ d \in DirsOf(ino)
    /\ Tracked(d, reader)

LEMMA NextRead ==
    ASSUME NEW d, Reader(d), NEW v, v = ViewOf(fat, buf, d)
    PROVE  /\ Whole(v) /\ reader.at \in Nat
           /\ NextRecords # {} => NextRecord \in NextRecords /\ \A q \in NextRecords : NextRecord.at <= q.at
           /\ \A r \in NextRecords :
                 r.at \in ShortEntries(v) /\ r.at \in Nat /\ r.longs \in Nat /\ r.at - r.longs > reader.at
           /\ \A q \in ShortEntries(v) : q > reader.at => \E r \in NextRecords : r.at = q
           /\ \A r \in NextRecords : \A s \in Records(v) :
                 s.at = r.at /\ reader.at < s.at - s.longs => r = s
<1>1. Whole(v) /\ IsChain(fat, d, ChainOf(fat, d)) /\ reader.at \in Nat /\ Len(v) \in Nat /\ DOMAIN v = 1..Len(v)
  <2>1. op.pc = "idle"
    BY DEF Reader, Resting
  <2>2. Whole(v) /\ IsChain(fat, d, ChainOf(fat, d))
    BY <2>1, RestTold DEF Reader, Chains
  <2> QED BY <2>2, ViewIs DEF Reader, ReaderShape
<1>2. NextRecords = (IF reader.at >= Len(v) THEN {} ELSE RecordsFrom(v)[reader.at + 1])
  <2>1. View(buf, reader.d) = v
    BY ViewNow DEF Reader
  <2> QED BY <2>1 DEF NextRecords
<1>3. Records(v) = Standing(v)
  BY <1>1, WholeTidy
<1>4. \A q \in ShortEntries(v) : q \in 1..Len(v)
  BY <1>1 DEF ShortEntries
<1>5. CASE reader.at >= Len(v)
  <2>1. NextRecords = {} /\ \A q \in ShortEntries(v) : ~(q > reader.at)
    BY <1>1, <1>2, <1>4, <1>5
  <2> QED BY <1>1, <2>1
<1>6. CASE ~(reader.at >= Len(v))
  <2>1. reader.at + 1 \in 1..Len(v) + 1 /\ NextRecords = RecordsFrom(v)[reader.at + 1]
    BY <1>1, <1>2, <1>6
  <2>2. \A r \in NextRecords :
           r.at \in ShortEntries(v) /\ r.at >= reader.at + 1 /\ r.longs \in Nat /\ r.at - r.longs >= reader.at + 1
    BY <1>1, <2>1, ReadOnward
  <2>3. \A q \in ShortEntries(v) : q >= reader.at + 1 => \E r \in NextRecords : r.at = q
    BY <1>1, <2>1, ReadOnward
  <2>4. \A r \in NextRecords : \A s \in Standing(v) :
           s.at = r.at /\ s.at - s.longs >= reader.at + 1 => r = s
    BY <1>1, <2>1, ReadOnward
  <2>5. \A r \in NextRecords : r.at \in Nat /\ r.at - r.longs > reader.at
    <3> TAKE r \in NextRecords
    <3>1. r.at \in 1..Len(v) /\ r.longs \in Nat /\ r.at - r.longs >= reader.at + 1
      BY <1>4, <2>2
    <3> QED BY <1>1, <3>1
  <2>6. \A q \in ShortEntries(v) : q > reader.at => q >= reader.at + 1
    BY <1>1, <1>4
  <2>7. ASSUME NEW r \in NextRecords, NEW s \in Records(v), s.at = r.at, reader.at < s.at - s.longs  PROVE r = s
    <3>1. s \in Standing(v) /\ s.at \in Nat /\ s.longs \in 0..20
      BY <1>1, <1>3, <2>5, <2>7, StandingLongs, WholeTidy DEF MaxLongs
    <3>2. \A a, b \in Int : a < b => b >= a + 1
      OBVIOUS
    <3>3. reader.at \in Int /\ s.at - s.longs \in Int
      BY <1>1, <3>1
    <3>4. s.at - s.longs >= reader.at + 1
      BY <2>7, <3>2, <3>3
    <3> QED BY <2>4, <2>7, <3>1, <3>4
  <2>8. ASSUME NextRecords # {}
        PROVE  NextRecord \in NextRecords /\ \A q \in NextRecords : NextRecord.at <= q.at
    <3> DEFINE T == {q.at : q \in NextRecords}
    <3>1. T \subseteq Nat /\ T # {}
      BY <2>5, <2>8
    <3>2. PICK k \in T : \A m \in T : k <= m
      <4> HIDE DEF T
      <4> QED BY <3>1, Least
    <3>3. PICK r \in NextRecords : r.at = k
      BY <3>2
    <3>4. \A q \in NextRecords : r.at <= q.at
      BY <3>2, <3>3
    <3> HIDE DEF T
    <3> QED BY <3>3, <3>4 DEF NextRecord
  <2> QED BY <1>1, <2>2, <2>3, <2>5, <2>6, <2>7, <2>8
<1> QED BY <1>5, <1>6

(* An entry that stays, and where its record is.                            *)
RecordOf(d, e, s, rd) ==
    LET v == ViewOf(fat, buf, d)
    IN /\ s \in Records(v) /\ e = Entry(d, v, s) /\ ino[e.obj] # None /\ ino[e.obj].pos = PlaceOf(fat, d, s.at)
       /\ LongsFor(e.name) = s.longs /\ Passed(e, s.at, s.longs, rd)
LEMMA TrackedIs ==
    \A d, rd : Tracked(d, rd) <=> \A e \in rd.stay : e.obj \in Inodes /\ \E s : RecordOf(d, e, s, rd)
  BY DEF Tracked, RecordOf

LEMMA StayRecord ==
    ASSUME NEW d, Reader(d), NEW v, v = ViewOf(fat, buf, d), NEW e, e.obj \in Inodes, NEW s, RecordOf(d, e, s, reader)
    PROVE  /\ s \in Standing(v) /\ s.at \in ShortEntries(v) /\ s.at \in Nat /\ s.longs \in Nat
           /\ e \in reader.seen => s.at <= reader.at
           /\ e \notin reader.seen => reader.at < s.at - s.longs
           /\ \A r \in NextRecords : Entry(d, v, r) = e => r.at = s.at
<1>1. op.pc = "idle" /\ Whole(v) /\ IsDirectory(v) /\ Records(v) = Standing(v) /\ s \in Records(v) /\ d \in DirsOf(ino)
  BY NextRead, WholeTidy DEF Reader, Resting, RecordOf
<1>2. IsChain(fat, d, ChainOf(fat, d))
  BY <1>1, RestTold DEF Reader, Chains
<1>3. s.at \in 1..LenOf(fat, d) /\ s.at \in ShortEntries(v) /\ LenOf(fat, d) \in Nat /\ DOMAIN v = 1..LenOf(fat, d)
  BY <1>1, <1>2, RecordNow, ViewIs DEF Reader
<1>4. s.longs \in 0..20
  BY <1>1, StandingLongs DEF MaxLongs
<1>5. ASSUME NEW r \in NextRecords, Entry(d, v, r) = e  PROVE r.at = s.at
  <2>1. r.at \in 1..LenOf(fat, d)
    BY <1>3, NextRead DEF ShortEntries
  <2>2. ino[e.obj].pos = PlaceOf(fat, d, r.at)
    BY <1>5, EntryObject
  <2> QED BY <1>2, <1>3, <2>1, <2>2, PlaceOne DEF RecordOf
<1> QED BY <1>1, <1>3, <1>4, <1>5 DEF RecordOf, Passed

(* A step of a readdir.                                                     *)
LEMMA ReadOpenRead ==
    ASSUME Aware, op = Resting, Labelled(buf), NEW d \in Dirs, ReadOpen(d)
    PROVE  ReaderShape' /\ reader'.d = d /\ Tracked(d, reader')
<1>1. op.pc = "idle" /\ d \in DirsOf(ino) /\ listed' = listed
  BY DirsNow DEF Resting, ReadOpen, notes
<1>2. /\ DOMAIN reader' = ReaderFields /\ reader'.d = d /\ reader'.at = 0 /\ reader'.stay = ListedIn(d)
      /\ reader'.seen = {} /\ ~reader'.twice /\ ~reader'.missed
  BY DEF ReadOpen, Closed, ReaderFields
<1> DEFINE v == ViewOf(fat, buf, d)
<1>3. ListedIn(d) = {Entry(d, v, r) : r \in {q \in Records(v) : ~IsDots(v[q.at])}}
  BY ViewNow DEF ListedIn
<1>4. Whole(v) /\ IsDirectory(v)
  BY <1>1, RestTold, WholeTidy
<1> HIDE DEF v
<1>5. ASSUME NEW e \in reader'.stay
      PROVE  e.dir = d /\ e \in listed /\ e.obj \in Inodes /\ \E s : RecordOf(d, e, s, reader')
  <2>1. PICK r \in Records(v) : e = Entry(d, v, r) /\ ~IsDots(v[r.at])
    BY <1>2, <1>3
  <2>2. /\ r.at \in ShortEntries(v) /\ LongsFor(e.name) = r.longs
        /\ e \in listed /\ e.obj \in Inodes /\ ino[e.obj] # None /\ ino[e.obj].pos = PlaceOf(fat, d, r.at)
    BY <1>1, <2>1, RecordNow DEF v
  <2>3. 0 < r.at - r.longs
    <3>1. r \in Standing(v) /\ r.at \in 1..Len(v) /\ r.longs \in 0..20 /\ r.longs < r.at
      BY <1>4, <2>1, StandingLongs, WholeTidy DEF MaxLongs
    <3> QED BY <3>1
  <2>4. Passed(e, r.at, r.longs, reader')
    BY <1>2, <2>3 DEF Passed
  <2>5. RecordOf(d, e, r, reader')
    BY <2>1, <2>2, <2>4 DEF RecordOf, v
  <2>6. e.dir = d
    BY <2>1, EntryObject
  <2> QED BY <2>2, <2>5, <2>6
<1>6. Tracked(d, reader')
  BY <1>5, TrackedIs
<1>7. ReaderShape'
  BY <1>1, <1>2, <1>5 DEF ReaderShape, ListedOnce
<1> QED BY <1>2, <1>6, <1>7

LEMMA ReadEntryRead ==
    ASSUME NEW d, Reader(d), ReadEntry
    PROVE  ReaderShape' /\ reader'.d = d /\ Tracked(d, reader')
<1> DEFINE v == ViewOf(fat, buf, d)
           r == NextRecord
           e0 == Entry(d, v, r)
<1>1. Whole(v) /\ reader.at \in Nat /\ NextRecords # {} /\ r \in NextRecords /\ \A q \in NextRecords : r.at <= q.at
  BY NextRead DEF ReadEntry
<1>2. r.at \in ShortEntries(v) /\ r.at \in Nat /\ r.longs \in Nat /\ r.at - r.longs > reader.at /\ r.at > reader.at
  BY <1>1, NextRead
<1>3. reader.d = d /\ ReaderShape /\ Tracked(d, reader)
  BY DEF Reader
<1>4. /\ reader' = [reader EXCEPT !.at = r.at, !.seen = @ \cup ({e0} \cap reader.stay), !.twice = @ \/ e0 \in reader.seen]
      /\ listed' = listed
  <2>1. View(buf, reader.d) = v
    BY <1>3, ViewNow
  <2> QED BY <1>3, <2>1 DEF ReadEntry, notes
<1> HIDE DEF v, r, e0
<1>5. /\ DOMAIN reader' = ReaderFields /\ reader'.d = d /\ reader'.at = r.at /\ reader'.stay = reader.stay
      /\ reader'.seen = reader.seen \cup ({e0} \cap reader.stay)
      /\ reader'.missed = reader.missed
      /\ reader'.twice = (reader.twice \/ e0 \in reader.seen)
  BY <1>3, <1>4 DEF ReaderShape, ReaderFields
<1>6. IsDirectory(v)
  BY <1>1, WholeTidy
<1>7. ASSUME NEW e \in reader.stay, NEW s, RecordOf(d, e, s, reader), e.obj \in Inodes
      PROVE  (e \in reader.seen => e # e0) /\ RecordOf(d, e, s, reader')
  <2>1. /\ s \in Standing(v) /\ s.at \in ShortEntries(v) /\ s.at \in Nat /\ s.longs \in Nat
        /\ e \in reader.seen => s.at <= reader.at
        /\ e \notin reader.seen => reader.at < s.at - s.longs
        /\ e0 = e => r.at = s.at
    BY <1>1, <1>7, StayRecord DEF v, e0
  <2>2. CASE e \in reader.seen
    <3>1. e # e0 /\ s.at <= r.at /\ e \in reader'.seen
      BY <1>1, <1>2, <1>5, <2>1, <2>2
    <3> QED BY <1>5, <1>7, <3>1 DEF RecordOf, Passed
  <2>3. CASE e \notin reader.seen /\ e = e0
    <3>1. s.at <= r.at /\ e \in reader'.seen
      BY <1>2, <1>5, <2>1, <2>3
    <3> QED BY <1>5, <1>7, <2>3, <3>1 DEF RecordOf, Passed
  <2>4. CASE e \notin reader.seen /\ e # e0
    <3>1. s.at > reader.at /\ reader.at < s.at - s.longs
      BY <1>1, <2>1, <2>4
    <3>2. r.at <= s.at
      BY <1>1, <2>1, <3>1, NextRead DEF v
    <3>3. r.at # s.at
      <4> SUFFICES ASSUME r.at = s.at  PROVE FALSE
        OBVIOUS
      <4>1. s \in Records(v) /\ e = Entry(d, v, s)
        BY <1>7 DEF RecordOf, v
      <4>2. r = s
        BY <1>1, <3>1, <4>1, NextRead DEF v
      <4> QED BY <2>4, <4>1, <4>2 DEF e0
    <3>4. r.at < s.at
      BY <1>2, <2>1, <3>2, <3>3
    <3>5. r.at < s.at - s.longs
      BY <1>2, <1>6, <2>1, <3>4, BehindName
    <3>6. e \notin reader'.seen
      BY <1>5, <2>4
    <3> QED BY <1>5, <1>7, <3>5, <3>6 DEF RecordOf, Passed
  <2> QED BY <2>2, <2>3, <2>4
<1>8. \A e \in reader.stay : e.obj \in Inodes /\ \E s : RecordOf(d, e, s, reader)
  BY <1>3, TrackedIs
<1>9. e0 \notin reader.seen
  BY <1>3, <1>7, <1>8 DEF ReaderShape
<1>10. Tracked(d, reader')
  BY <1>5, <1>7, <1>8, TrackedIs
<1>11. ReaderShape'
  BY <1>2, <1>3, <1>4, <1>5, <1>9 DEF ReaderShape, ListedOnce
<1> QED BY <1>5, <1>10, <1>11

LEMMA ReadFullRead ==
    ASSUME NEW d, Reader(d), ReadFull
    PROVE  ReaderShape' /\ reader'.d = d /\ Tracked(d, reader')
<1> DEFINE v == ViewOf(fat, buf, d)
           r == NextRecord
<1>1. Whole(v) /\ reader.at \in Nat /\ NextRecords # {} /\ r \in NextRecords /\ \A q \in NextRecords : r.at <= q.at
  BY NextRead DEF ReadFull
<1>2. r.at \in ShortEntries(v) /\ r.at \in Nat /\ r.longs \in Nat /\ r.at - r.longs > reader.at /\ r.at > reader.at
  BY <1>1, NextRead
<1>3. reader.d = d /\ ReaderShape /\ Tracked(d, reader)
  BY DEF Reader
<1>4. reader' = [reader EXCEPT !.at = r.at - r.longs - 1] /\ listed' = listed
  BY DEF ReadFull, StartOf, notes
<1> HIDE DEF v, r
<1>5. /\ DOMAIN reader' = ReaderFields /\ reader'.d = d /\ reader'.at = r.at - r.longs - 1 /\ reader'.stay = reader.stay
      /\ reader'.seen = reader.seen /\ reader'.missed = reader.missed /\ reader'.twice = reader.twice
  BY <1>3, <1>4 DEF ReaderShape, ReaderFields
<1>6. IsDirectory(v) /\ reader'.at \in Nat /\ reader.at <= reader'.at /\ reader'.at < r.at - r.longs
  BY <1>1, <1>2, <1>5, WholeTidy
<1>7. ASSUME NEW e \in reader.stay, NEW s, RecordOf(d, e, s, reader), e.obj \in Inodes
      PROVE  RecordOf(d, e, s, reader')
  <2>1. /\ s \in Standing(v) /\ s.at \in ShortEntries(v) /\ s.at \in Nat /\ s.longs \in Nat
        /\ e \in reader.seen => s.at <= reader.at
        /\ e \notin reader.seen => reader.at < s.at - s.longs
    BY <1>7, StayRecord DEF v
  <2>2. CASE e \in reader.seen
    <3>1. s.at <= reader'.at
      BY <1>1, <1>6, <2>1, <2>2
    <3> QED BY <1>5, <1>7, <2>2, <3>1 DEF RecordOf, Passed
  <2>3. CASE e \notin reader.seen
    <3>1. s.at > reader.at /\ reader.at < s.at - s.longs
      BY <1>1, <2>1, <2>3
    <3>2. r.at <= s.at
      BY <1>1, <2>1, <3>1, NextRead DEF v
    <3>3. CASE r.at = s.at
      <4>1. s \in Records(v)
        BY <1>7 DEF RecordOf, v
      <4>2. r = s
        BY <1>1, <3>1, <3>3, <4>1, NextRead DEF v
      <4>3. reader'.at < s.at - s.longs
        BY <1>6, <4>2
      <4> QED BY <1>5, <1>7, <2>3, <4>3 DEF RecordOf, Passed
    <3>4. CASE r.at # s.at
      <4>1. r.at < s.at
        BY <1>2, <2>1, <3>2, <3>4
      <4>2. r.at < s.at - s.longs
        BY <1>2, <1>6, <2>1, <4>1, BehindName
      <4>3. reader'.at < s.at - s.longs
        BY <1>2, <1>6, <2>1, <4>2
      <4> QED BY <1>5, <1>7, <2>3, <4>3 DEF RecordOf, Passed
    <3> QED BY <3>3, <3>4
  <2> QED BY <2>2, <2>3
<1>8. \A e \in reader.stay : e.obj \in Inodes /\ \E s : RecordOf(d, e, s, reader)
  BY <1>3, TrackedIs
<1>9. Tracked(d, reader')
  BY <1>5, <1>7, <1>8, TrackedIs
<1>10. ReaderShape'
  BY <1>3, <1>4, <1>5, <1>6 DEF ReaderShape, ListedOnce
<1> QED BY <1>5, <1>9, <1>10

(* At the end nothing that stays is left.                                   *)
LEMMA ReadEndRead ==
    ASSUME NEW d, Reader(d), ReadEnd
    PROVE  ReaderShape' /\ reader'.d = None
<1> DEFINE v == ViewOf(fat, buf, d)
<1>1. NextRecords = {} /\ listed' = listed
      /\ reader' = [Closed EXCEPT !.missed = reader.stay # reader.seen, !.twice = reader.twice]
  BY DEF ReadEnd, notes
<1>2. reader.stay = reader.seen /\ ReaderShape
  <2>1. ASSUME NEW e \in reader.stay, e \notin reader.seen  PROVE FALSE
    <3>1. PICK s : RecordOf(d, e, s, reader) /\ e.obj \in Inodes
      BY TrackedIs DEF Reader
    <3>2. s.at \in ShortEntries(v) /\ s.at \in Nat /\ s.longs \in Nat /\ reader.at < s.at - s.longs
      BY <2>1, <3>1, StayRecord
    <3>3. s.at > reader.at
      BY <3>2 DEF Reader, ReaderShape
    <3>4. \E r \in NextRecords : r.at = s.at
      BY <3>2, <3>3, NextRead
    <3> QED BY <1>1, <3>4
  <2> QED BY <2>1 DEF Reader, ReaderShape
<1>3. /\ DOMAIN reader' = ReaderFields /\ reader'.d = None /\ reader'.at = 0 /\ reader'.stay = {} /\ reader'.seen = {}
      /\ reader'.missed = FALSE /\ reader'.twice = reader.twice
  BY <1>1, <1>2 DEF Closed, ReaderFields
<1> QED BY <1>2, <1>3 DEF ReaderShape, ListedOnce

-----------------------------------------------------------------------------
(* The first long slot of a name says how many there are, whatever step is  *)
(* taken and whatever write fails.                                          *)
LEMMA ShortNumbered == \A s : ~IsLong(s) => Numbered(s)
  BY DEF Numbered
LEMMA LabelledEach ==
    ASSUME NEW dev, \A p \in Places : Numbered(dev[p])  PROVE Labelled(dev)
  BY DEF Labelled
LEMMA LabelledLikes ==
    ASSUME NEW a, NEW b, Likes(a, b), Labelled(a)  PROVE Labelled(b)
<1>1. ASSUME NEW p \in Places  PROVE Numbered(b[p])
  <2>1. b[p].text = a[p].text /\ b[p].attr = a[p].attr /\ b[p].name = a[p].name
    BY DEF Likes, AsIn
  <2>2. Numbered(a[p])
    BY DEF Labelled
  <2> QED BY <2>1, <2>2 DEF Numbered, IsLong
<1> QED BY <1>1, LabelledEach
LEMMA LabelledFrom ==
    ASSUME NEW a, NEW b, NEW bs, Labelled(a), Labelled(b)  PROVE Labelled(From(a, b, bs))
<1>1. \A p \in Places : From(a, b, bs)[p] \in {a[p], b[p]}
  BY DEF From
<1> QED BY <1>1 DEF Labelled
LEMMA LabelledEmptied ==
    ASSUME NEW a, NEW cs, Labelled(a)  PROVE Labelled(Emptied(a, cs))
<1>1. \A p \in Places : Emptied(a, cs)[p] \in {a[p], Zero}
  BY DEF Emptied
<1>2. ~IsLong(Zero)
  BY ZeroSlot, BlankNot
<1> QED BY <1>1, <1>2, ShortNumbered DEF Labelled
LEMMA BuiltNumbered ==
    ASSUME NEW slots, NEW n \in Names, NEW c, Built(slots, n, c), NEW j \in 1..Len(slots)
    PROVE  Numbered(slots[j])
<1>1. PICK a \in ShortTexts, attr \in {"file", "dir"} : slots = BuildSlots(n, a, attr, c)
  BY DEF Built
<1> DEFINE k == Form[n].longs
<1>2. k \in 0..20 /\ Len(slots) = k + 1
  BY BuiltIs DEF MaxLongs
<1>3. slots[j] = IF j <= k THEN Long(n, k + 1 - j, j = 1, a) ELSE Short(a, attr, c)
  BY <1>1, <1>2 DEF BuildSlots
<1> HIDE DEF k
<1>4. CASE ~(j <= k)
  <2>1. ~IsLong(slots[j])
    BY <1>3, <1>4 DEF Short, IsLong
  <2> QED BY <2>1, ShortNumbered
<1>5. CASE j <= k
  <2>1. slots[j].text[1] = (IF j = 1 THEN 64 + (k + 1 - j) ELSE k + 1 - j) /\ slots[j].name = n
    BY <1>3, <1>5 DEF Long, LongLast
  <2>2. slots[j].text[1] > 64 => slots[j].text[1] = 64 + k
    <3>1. CASE j = 1
      <4>1. slots[j].text[1] = 64 + k
        BY <1>2, <2>1, <3>1
      <4> QED BY <4>1
    <3>2. CASE j # 1
      <4>1. slots[j].text[1] = k + 1 - j /\ k \in Int /\ j \in Int /\ k + 1 - j <= 20
        BY <1>2, <2>1, <3>2
      <4> QED BY <4>1
    <3> QED BY <3>1, <3>2
  <2> QED BY <2>1, <2>2 DEF Numbered, LongLast, k
<1> QED BY <1>4, <1>5
LEMMA LabelledWrites ==
    ASSUME NEW t, NEW d, NEW f, NEW slots, NEW n \in Names, NEW c, Built(slots, n, c),
           NEW part \in SUBSET (1..Len(slots)), NEW a, Labelled(a), NEW b, Writes(t, d, f, slots, part, a, b)
    PROVE  Labelled(b)
<1>1. ASSUME NEW p \in Places  PROVE Numbered(b[p])
  <2>1. CASE \A j \in part : p # PlaceOf(t, d, f + j - 1)
    BY <2>1 DEF Writes, Labelled
  <2>2. CASE \E j \in part : p = PlaceOf(t, d, f + j - 1)
    <3>1. PICK j \in part : p = PlaceOf(t, d, f + j - 1)
      BY <2>2
    <3>2. b[p] = slots[j] /\ j \in 1..Len(slots)
      BY <3>1 DEF Writes
    <3> QED BY <3>2, BuiltNumbered
  <2> QED BY <2>1, <2>2
<1> QED BY <1>1, LabelledEach
LEMMA LabelledDeletes ==
    ASSUME NEW a, Device(a), Labelled(a), NEW b,
           \A p \in Places : b[p] \in {a[p], Remains(Deleted(a[p])), Remains(DeletedFirst(a[p]))}
    PROVE  Labelled(b)
<1>1. ASSUME NEW p \in Places  PROVE Numbered(b[p])
  <2>1. IsSlot(a[p]) /\ Numbered(a[p])
    BY DEF Device, Labelled
  <2>2. ~IsLong(Remains(Deleted(a[p]))) /\ ~IsLong(Remains(DeletedFirst(a[p])))
    BY <2>1, DeletedBlank, BlankNot
  <2>3. Numbered(Remains(Deleted(a[p]))) /\ Numbered(Remains(DeletedFirst(a[p])))
    BY <2>2, ShortNumbered
  <2> QED BY <2>1, <2>3
<1> QED BY <1>1, LabelledEach

LabelledBoth == Labelled(buf) /\ Labelled(disk)
LEMMA FillLabelled ==
    ASSUME Aware, Labelled(buf), FillLong \/ FillShort
    PROVE  Labelled(buf')
<1>1. /\ op.pc \in Fill /\ \E part \in SUBSET (1..Room) : Put(part)
  BY DEF FillLong, FillShort, Fill, LongPart, ShortPart
<1>2. PICK part \in SUBSET (1..Room) : Put(part)
  BY <1>1
<1>3. Writes(fat, op.d, op.first, op.slots, part, buf, buf')
  BY <1>1, <1>2, PutWrites DEF Aware
<1>4. op.n \in Names /\ Built(op.slots, op.n, op.start) /\ Room \in 0..Len(op.slots) /\ Len(op.slots) \in Nat
  BY <1>1, FillKnown, RoomIs DEF Aware
<1>5. part \in SUBSET (1..Len(op.slots))
  BY <1>4
<1> QED BY <1>3, <1>4, <1>5, LabelledWrites
LEMMA GrowLabelled ==
    ASSUME Aware, Labelled(buf), Grow
    PROVE  Labelled(buf')
<1>1. op.pc \in Fill /\ (buf' = buf \/ \E c \in FreeCluster : SetSlots(NewEntries(c)))
  BY DEF Grow, Fill
<1>2. op.n \in Names /\ Built(op.slots, op.n, op.start) /\ Room \in 0..Len(op.slots) /\ Len(op.slots) \in Nat
  BY <1>1, FillKnown, RoomIs DEF Aware
<1>3. ASSUME NEW c \in FreeCluster, SetSlots(NewEntries(c))  PROVE Labelled(buf')
  <2> DEFINE x == NewEntries(c)
  <2>1. \A p \in {c} \X (1..Spc) : ZeroedCluster(c)[p] = Zero
    BY DEF ZeroedCluster
  <2>2. DOMAIN x = DOMAIN ZeroedCluster(c) /\ DOMAIN ZeroedCluster(c) = {c} \X (1..Spc)
    BY DEF NewEntries, ZeroedCluster
  <2>3. \A p \in DOMAIN x : x[p] = IF p[2] <= Len(op.slots) - Room THEN op.slots[Room + p[2]] ELSE Zero
    BY <2>1, <2>2 DEF NewEntries
  <2> HIDE DEF x
  <2>4. ASSUME NEW p \in DOMAIN x  PROVE Numbered(x[p])
    <3>1. p[2] \in 1..Spc
      BY <2>2
    <3>2. CASE p[2] <= Len(op.slots) - Room
      <4>1. p[2] \in Nat /\ p[2] >= 1
        BY <3>1, SpcNat
      <4>2. Room + p[2] \in 1..Len(op.slots)
        BY <1>2, <3>2, <4>1
      <4> QED BY <1>2, <2>3, <3>2, <4>2, BuiltNumbered
    <3>3. CASE ~(p[2] <= Len(op.slots) - Room)
      BY <2>3, <3>3, ShortNumbered, ZeroSlot, BlankNot
    <3> QED BY <3>2, <3>3
  <2>5. buf' = [p \in Places |-> IF p \in DOMAIN x THEN x[p] ELSE buf[p]]
    BY <1>3 DEF SetSlots, x
  <2>6. ASSUME NEW p \in Places  PROVE Numbered(buf'[p])
    BY <2>4, <2>5 DEF Labelled
  <2> QED BY <2>6, LabelledEach
<1> QED BY <1>1, <1>3
LEMMA MkdirLabelled ==
    ASSUME Aware, Labelled(buf), NEW e, Mkdir(e)  PROVE Labelled(buf')
<1>1. buf' = buf \/ \E c : SetSlots(NewDir(c, e.d))
  BY DEF Mkdir
<1>2. ASSUME NEW c, SetSlots(NewDir(c, e.d))  PROVE Labelled(buf')
  <2> DEFINE x == NewDir(c, e.d)
  <2>1. DOMAIN x = {c} \X (1..Spc) /\ \A p \in {c} \X (1..Spc) : ~IsLong(x[p])
    BY NewDirIs
  <2> HIDE DEF x
  <2>2. buf' = [p \in Places |-> IF p \in DOMAIN x THEN x[p] ELSE buf[p]]
    BY <1>2 DEF SetSlots, x
  <2>3. ASSUME NEW p \in Places  PROVE Numbered(buf'[p])
    BY <2>1, <2>2, ShortNumbered DEF Labelled
  <2> QED BY <2>3, LabelledEach
<1> QED BY <1>1, <1>2
LEMMA DeleteLabelled ==
    ASSUME Aware, Labelled(buf), Clear \/ RemoveShort  PROVE Labelled(buf')
<1>1. /\ Device(buf)
      /\ \/ buf' = buf \/ \E ks : DeleteSlots(ks, Deleted) \/ DeleteSlots(ks, DeletedFirst)
  BY DEF Clear, RemoveShort, Aware, Sane, Core, Typed
<1>2. ASSUME NEW ks, DeleteSlots(ks, Deleted) \/ DeleteSlots(ks, DeletedFirst)
      PROVE \A p \in Places : buf'[p] \in {buf[p], Remains(Deleted(buf[p])), Remains(DeletedFirst(buf[p]))}
  <2> DEFINE Q == {Place(op.cut.d, k) : k \in ks}
  <2>1. \/ buf' = [p \in Places |-> IF p \in Q THEN Remains(Deleted(buf[p])) ELSE buf[p]]
        \/ buf' = [p \in Places |-> IF p \in Q THEN Remains(DeletedFirst(buf[p])) ELSE buf[p]]
    BY <1>2 DEF DeleteSlots, SetSlots
  <2> HIDE DEF Q
  <2> QED BY <2>1
<1> QED BY <1>1, <1>2, LabelledDeletes
LEMMA StartLabelled ==
    ASSUME NEW a, Device(a), Labelled(a), NEW p, NEW c  PROVE Labelled(StartAt(a, p, c))
  BY StartSet, LabelledLikes
LEMMA SyncLabelled ==
    ASSUME LabelledBoth, SyncOk \/ SyncFail \/ Flush  PROVE LabelledBoth'
<1>1. Labelled(buf) /\ Labelled(disk)
  BY DEF LabelledBoth
<1>2. CASE SyncOk \/ Flush
  <2>1. PICK bs : disk' = From(buf, disk, bs) /\ buf' = buf
    BY <1>2 DEF SyncOk, Flush
  <2>2. Labelled(disk')
    BY <1>1, <2>1, LabelledFrom
  <2> QED BY <1>1, <2>1, <2>2 DEF LabelledBoth
<1>3. CASE SyncFail
  <2>1. PICK bs, cs : disk' = From(buf, disk, bs) /\ buf' = From(disk, buf, cs)
    BY <1>3 DEF SyncFail
  <2>2. Labelled(disk') /\ Labelled(buf')
    BY <1>1, <2>1, LabelledFrom
  <2> QED BY <2>2 DEF LabelledBoth
<1> QED BY <1>2, <1>3
LEMMA StepLabelled ==
    ASSUME Aware, LabelledBoth, Step  PROVE LabelledBoth'
<1>1. Labelled(buf) /\ Labelled(disk) /\ Device(buf) /\ Device(disk)
  BY DEF LabelledBoth, Aware, Sane, Core, Typed
<1>2. CASE SyncOk \/ SyncFail \/ Flush
  BY <1>2, SyncLabelled
<1>3. CASE FillLong \/ FillShort \/ Grow
  <2>1. disk' = disk
    BY <1>3 DEF FillLong, FillShort, Grow
  <2>2. Labelled(buf')
    BY <1>1, <1>3, FillLabelled, GrowLabelled
  <2> QED BY <1>1, <2>1, <2>2 DEF LabelledBoth
<1>4. CASE Clear \/ RemoveShort
  <2>1. disk' = disk
    BY <1>4 DEF Clear, RemoveShort
  <2>2. Labelled(buf')
    BY <1>1, <1>4, DeleteLabelled
  <2> QED BY <1>1, <2>1, <2>2 DEF LabelledBoth
<1>5. CASE Undo \/ Refused
  <2>1. PICK cs : Forgotten(cs)
    BY <1>5 DEF Undo, Refused
  <2>2. buf' = Emptied(buf, cs) /\ disk' = Emptied(disk, cs)
    BY <2>1 DEF Forgotten, Emptied
  <2>3. Labelled(Emptied(buf, cs)) /\ Labelled(Emptied(disk, cs))
    BY <1>1, LabelledEmptied
  <2> QED BY <2>2, <2>3 DEF LabelledBoth
<1>6. CASE Move \/ SetDotDot \/ UndoDotDot \/ UndoMove
  <2> DEFINE Starts == disk' = disk /\ (buf' = buf \/ \E p, c : buf' = StartAt(buf, p, c))
  <2>a. ASSUME Move  PROVE Starts
    BY <2>a DEF Move, WriteEntry, StartAt
  <2>b. ASSUME SetDotDot  PROVE Starts
    BY <2>b DEF SetDotDot, StartAt
  <2>c. ASSUME UndoDotDot  PROVE Starts
    BY <2>c DEF UndoDotDot, StartAt
  <2>d. ASSUME UndoMove  PROVE Starts
    BY <2>d DEF UndoMove, WriteEntry, StartAt
  <2>1. Starts
    BY <1>6, <2>a, <2>b, <2>c, <2>d
  <2>2. \A p, c : Labelled(StartAt(buf, p, c))
    BY <1>1, StartLabelled
  <2>3. Labelled(buf')
    BY <1>1, <2>1, <2>2
  <2> QED BY <1>1, <2>1, <2>3 DEF LabelledBoth
<1>7. CASE Build \/ Link \/ RemoveLongs \/ Kept \/ Added \/ Removed \/ Count \/ Renamed \/ Return
  <2>1. buf' = buf /\ disk' = disk
    BY <1>7 DEF Build, Link, RemoveLongs, Kept, Added, Removed, Count, Renamed, Return, volume
  <2> QED BY <1>1, <2>1 DEF LabelledBoth
<1> QED BY <1>2, <1>3, <1>4, <1>5, <1>6, <1>7 DEF Step
LEMMA RequestLabelled ==
    ASSUME Aware, LabelledBoth, Request  PROVE LabelledBoth'
<1>1. Labelled(buf) /\ Labelled(disk) /\ Device(buf) /\ Device(disk)
  BY DEF LabelledBoth, Aware, Sane, Core, Typed
<1>2. \A p, c : Labelled(StartAt(buf, p, c))
  BY <1>1, StartLabelled
<1>3. ASSUME NEW e, Mkdir(e)  PROVE LabelledBoth'
  <2>1. disk' = disk
    BY <1>3 DEF Mkdir
  <2>2. Labelled(buf')
    BY <1>1, <1>3, MkdirLabelled
  <2> QED BY <1>1, <2>1, <2>2 DEF LabelledBoth
<1>4. ASSUME NEW i \in Inodes, WriteInode(i) \/ Write(i)  PROVE LabelledBoth'
  <2>1. disk' = disk /\ (buf' = buf \/ \E p, c : buf' = StartAt(buf, p, c))
    BY <1>4 DEF WriteInode, Write, WriteEntry, StartAt
  <2>2. Labelled(buf') /\ Labelled(disk')
    BY <1>1, <1>2, <2>1
  <2> QED BY <2>2 DEF LabelledBoth
<1>7. ASSUME NEW b \in Blocks, WriteBuffer(b)  PROVE LabelledBoth'
  <2>1. \/ disk' = From(buf, disk, {b}) /\ buf' = buf
        \/ buf' = From(disk, buf, {b}) /\ disk' = disk
    BY <1>7 DEF WriteBuffer
  <2>2. Labelled(buf') /\ Labelled(disk')
    BY <1>1, <2>1, LabelledFrom
  <2> QED BY <2>2 DEF LabelledBoth
<1>5. ASSUME buf' = buf, disk' = disk  PROVE LabelledBoth'
  BY <1>1, <1>5 DEF LabelledBoth
<1>6. \/ \E e \in Dentries : Mkdir(e)
      \/ \E i \in Inodes : WriteInode(i) \/ Write(i)
      \/ \E b \in Blocks : WriteBuffer(b)
      \/ buf' = buf /\ disk' = disk
  BY DEF Request, LookupMiss, Create, Unlink, Rmdir, Rename, ReadOpen, ReadEntry, ReadFull, ReadEnd, volume
<1> QED BY <1>3, <1>4, <1>5, <1>6, <1>7
LEMMA EvictLabelled ==
    ASSUME LabelledBoth, NEW i, Evict(i)  PROVE LabelledBoth'
<1>1. PICK cs : Forgotten(cs)
  BY DEF Evict
<1>2. buf' = Emptied(buf, cs) /\ disk' = Emptied(disk, cs)
  BY <1>1 DEF Forgotten, Emptied
<1>3. Labelled(Emptied(buf, cs)) /\ Labelled(Emptied(disk, cs))
  BY LabelledEmptied DEF LabelledBoth
<1> QED BY <1>2, <1>3 DEF LabelledBoth
LEMMA FormatLabelled ==
    Labelled(EmptyRoot)
<1>1. ASSUME NEW p \in Places  PROVE Numbered(EmptyRoot[p])
  <2>1. EmptyRoot[p] = [Zero EXCEPT !.text = <<86, 79, 76>>, !.attr = "label"] \/ EmptyRoot[p] = Zero
    BY DEF EmptyRoot
  <2>2. ~IsLong([Zero EXCEPT !.text = <<86, 79, 76>>, !.attr = "label"]) /\ ~IsLong(Zero)
    BY DEF Zero, IsLong
  <2> QED BY <2>1, <2>2, ShortNumbered
<1> QED BY <1>1, LabelledEach
-----------------------------------------------------------------------------
(* A step of an operation leaves what is known of where its inodes are, or  *)
(* is past the point where an entry that stays could be theirs.             *)
Continues(o, r) ==
    /\ r.pc # "idle" /\ r.call = o.call /\ r.i = o.i /\ r.over = o.over /\ r.old = o.old
    /\ o.over # None => r.new = o.new
Onward(o, r) == Continues(o, r) /\ (o.call = "rename" /\ Home(r) => Home(o))

LEMMA SyncHome ==
    ASSUME NEW o, DOMAIN o = OpFields, o.pc # "idle", NEW blocks, NEW ok, ok \notin {"idle", "sync"}, NEW bad,
           NEW r, r = Syncing(o, blocks, ok, bad)
    PROVE  Continues(o, r) /\ (Home(r) => HomeAt(ok, o) \/ HomeAt(bad, o))
<1>1. /\ Same(r, o)
      /\ IF setup.dirsync /\ blocks # {}
         THEN r.pc = "sync" /\ r.sync = blocks /\ r.ok = ok /\ r.bad = bad
         ELSE r.pc = ok /\ r.sync = o.sync
  BY SyncingIs
<1>2. Continues(o, r)
  BY <1>1 DEF Continues, Same
<1>3. \A label : HomeAt(label, r) <=> HomeAt(label, o)
  BY <1>1 DEF HomeAt, Same
<1>4. ~HomeAt("sync", r)
  BY DEF HomeAt, Adds, Cuts
<1>5. r.pc # "sync" => r.pc = ok
  BY <1>1
<1>6. r.pc = "sync" => r.ok = ok /\ r.bad = bad
  BY <1>1
<1>7. Home(r) => HomeAt(ok, r) \/ HomeAt(bad, r)
  BY <1>4, <1>5, <1>6 DEF Home
<1> QED BY <1>2, <1>3, <1>7

LEMMA AtHome ==
    ASSUME NEW o, NEW r, Continues(o, r), Home(o)  PROVE Onward(o, r)
  BY DEF Onward

LEMMA SyncOnward == ASSUME Aware, SyncOk \/ SyncFail \/ Flush  PROVE Onward(op, op')
<1>1. op.pc = "sync" /\ op.ok # "idle" /\ op.bad # "idle" /\ DOMAIN op = OpFields
  BY DEF SyncOk, SyncFail, Flush, Aware, Sane, Shape
<1>2. \/ op' = [op EXCEPT !.pc = op.ok, !.sync = {}]
      \/ op' = [op EXCEPT !.pc = op.bad, !.sync = {}]
      \/ \E bs : op' = [op EXCEPT !.sync = bs]
  <2>1. CASE SyncOk
    BY <2>1 DEF SyncOk
  <2>2. CASE SyncFail
    BY <2>2 DEF SyncFail
  <2>3. CASE Flush
    <3>1. PICK b : op' = [op EXCEPT !.sync = @ \ {b}]
      BY <2>3 DEF Flush
    <3> QED BY <3>1
  <2> QED BY <2>1, <2>2, <2>3
<1>3. /\ op'.pc \in {op.pc, op.ok, op.bad} /\ op'.ok = op.ok /\ op'.bad = op.bad
      /\ op'.undoing = op.undoing /\ op'.after = op.after /\ op'.call = op.call /\ op'.i = op.i
      /\ op'.over = op.over /\ op'.old = op.old /\ op'.new = op.new
  BY <1>1, <1>2 DEF OpFields
<1>4. Continues(op, op')
  BY <1>1, <1>3 DEF Continues
<1>5. \A label : HomeAt(label, op') <=> HomeAt(label, op)
  BY <1>3 DEF HomeAt
<1>6. Home(op') => Home(op)
  BY <1>1, <1>3, <1>5 DEF Home
<1> QED BY <1>4, <1>6 DEF Onward

(* What an operation knows at a label of its own.                           *)
LEMMA AtLabel ==
    ASSUME Aware, op.pc # "sync"
    PROVE  Knows(op.pc, op, fat, ino) /\ DOMAIN op = OpFields /\ DOMAIN op.cut = InfoFields
  BY Calm DEF Aware, Sane, Resolved, Sound, Shape

LEMMA GotoOnward ==
    ASSUME Aware, op.pc # "idle", NEW label, label \notin {"idle", "sync"}, Goto(label), HomeAt(label, op) => Home(op)
    PROVE  Onward(op, op')
<1>1. DOMAIN op = OpFields
  BY DEF Aware, Sane, Shape
<1>2. Same(op', op) /\ op'.pc = label
  BY <1>1, GotoIs
<1>3. Continues(op, op')
  BY <1>2 DEF Continues, Same
<1>4. HomeAt(label, op') <=> HomeAt(label, op)
  BY <1>2 DEF HomeAt, Same
<1> QED BY <1>2, <1>3, <1>4 DEF Onward, Home

(* An addition has done nothing yet with the inodes of a rename.            *)
LEMMA AddsOnward ==
    ASSUME Aware, Build \/ FillLong \/ FillShort \/ Grow \/ Link \/ Undo  PROVE Onward(op, op')
<1>1. op.pc \in Adds \cup {"undo"} /\ op.pc # "idle" /\ op.pc # "sync" /\ DOMAIN op = OpFields
  BY DEF Build, FillLong, FillShort, Grow, Link, Undo, LinkFails, Adds, Aware, Sane, Shape
<1>2. Home(op)
  BY <1>1 DEF Home, HomeAt
<1>3. CASE Build
  <2>1. Goto("refused") \/ \E k, sl : op' = [op EXCEPT !.pc = "fill", !.first = k, !.slots = sl]
    BY <1>3 DEF Build
  <2>2. ASSUME NEW k, NEW sl, op' = [op EXCEPT !.pc = "fill", !.first = k, !.slots = sl]
        PROVE  Continues(op, op')
    BY <1>1, <2>2 DEF Continues, OpFields
  <2> QED BY <1>1, <1>2, <2>1, <2>2, AtHome, GotoOnward
<1>4. CASE FillLong
  <2> DEFINE bs == {BlockOf(NewPlace(j)) : j \in LongPart}
             ok == IF Fits THEN "short" ELSE "grow"
  <2>1. op' = Syncing(op, bs, ok, "undo") /\ ok \notin {"idle", "sync"}
    BY <1>4 DEF FillLong, Sync
  <2> HIDE DEF bs, ok
  <2> QED BY <1>1, <1>2, <2>1, SyncHome, AtHome
<1>5. CASE FillShort
  <2>1. op' = Syncing(op, {BlockOf(NewPlace(Room))}, "added", "undo")
    BY <1>5 DEF FillShort, Sync
  <2> QED BY <1>1, <1>2, <2>1, SyncHome, AtHome
<1>6. CASE Grow
  <2>1. CASE \E c \in FreeCluster : op' = Syncing([op EXCEPT !.grown = c], BlocksOf(c), "link", "undo")
    <3>1. PICK c \in FreeCluster : op' = Syncing([op EXCEPT !.grown = c], BlocksOf(c), "link", "undo")
      BY <2>1
    <3> DEFINE o == [op EXCEPT !.grown = c]
               bs == BlocksOf(c)
    <3>2. DOMAIN o = OpFields /\ o.pc # "idle" /\ Continues(op, o)
      BY <1>1 DEF Continues, OpFields
    <3> HIDE DEF o, bs
    <3>3. op' = Syncing(o, bs, "link", "undo")
      BY <3>1 DEF o, bs
    <3>4. Continues(o, op')
      BY <3>2, <3>3, SyncHome
    <3>5. Continues(op, op')
      BY <3>2, <3>4 DEF Continues
    <3> QED BY <1>2, <3>5, AtHome
  <2>2. CASE Goto("undo")
    BY <1>1, <1>2, <2>2, GotoOnward
  <2> QED BY <1>6, <2>1, <2>2 DEF Grow, Sync
<1>7. CASE Link
  BY <1>1, <1>2, <1>7, GotoOnward DEF Link
<1>8. CASE Undo
  <2>1. op' = Clearing(op.d, op.first, op.first + Room - 1, "refused")
    BY <1>8 DEF Undo
  <2>2. Continues(op, op')
    BY <2>1, ClearingIs DEF Continues, Aware, Sane
  <2> QED BY <1>2, <2>2, AtHome
<1> QED BY <1>3, <1>4, <1>5, <1>6, <1>7, <1>8

(* What is removed is the new entry of a rename that goes back, or else the *)
(* rename is past the point where its inodes have moved.                    *)
LEMMA CutsOnward ==
    ASSUME Aware, Clear \/ RemoveShort \/ RemoveLongs \/ Kept  PROVE Onward(op, op')
<1>1. /\ op.pc \in {"clear", "rm", "cleared", "kept"} /\ op.pc # "idle" /\ op.pc # "sync"
      /\ Knows(op.pc, op, fat, ino) /\ DOMAIN op = OpFields /\ DOMAIN op.cut = InfoFields
  BY AtLabel DEF Clear, RemoveShort, RemoveLongs, Kept
<1>2. CASE Clear
  <2>1. op.pc = "clear" /\ op.after \in {"refused", "removed"} /\ (op.after = "removed" => ~op.undoing)
    BY <1>1, <1>2 DEF Clear, Knows
  <2>2. op.after = "refused" => Home(op)
    BY <2>1 DEF Home, HomeAt
  <2>3. op.after = "removed" => ~HomeAt("removed", op) /\ ~HomeAt("clear", op)
    BY <2>1 DEF HomeAt, Adds, Cuts
  <2>4. CASE op.from > op.to
    BY <1>1, <1>2, <2>1, <2>2, <2>3, <2>4, GotoOnward DEF Clear
  <2>5. CASE ~(op.from > op.to)
    <3> DEFINE part == {k \in op.from..op.to : SameBlock(op.cut.d, k, op.from)}
               o == [op EXCEPT !.from = @ + Cardinality(part)]
               bs == {BlockOf(Place(op.cut.d, op.from))}
    <3>1. op' = Syncing(o, bs, "clear", op.after)
      BY <1>2, <2>5 DEF Clear, Sync
    <3> HIDE DEF part, bs
    <3>2. DOMAIN o = OpFields /\ o.pc # "idle" /\ Continues(op, o) /\ o.undoing = op.undoing /\ o.after = op.after
      BY <1>1 DEF Continues, OpFields
    <3> HIDE DEF o
    <3>3. Continues(o, op') /\ (Home(op') => HomeAt("clear", o) \/ HomeAt(op.after, o))
      BY <3>1, <3>2, SyncHome
    <3>4. \A label : HomeAt(label, o) <=> HomeAt(label, op)
      BY <3>2 DEF HomeAt
    <3>5. Continues(op, op')
      BY <3>2, <3>3 DEF Continues
    <3> QED BY <2>1, <2>2, <2>3, <3>3, <3>4, <3>5 DEF Onward
  <2> QED BY <2>4, <2>5
<1>3. CASE RemoveShort
  <2> DEFINE bad == IF op.undoing THEN "refused" ELSE "kept"
             bs == {BlockOf(InfoPlace(op.cut))}
  <2>1. op.pc = "rm" /\ op' = Syncing(op, bs, "cleared", bad)
    BY <1>3 DEF RemoveShort, Sync
  <2>2. ~op.undoing => ~HomeAt("cleared", op) /\ ~HomeAt(bad, op)
    BY DEF HomeAt, Adds, Cuts
  <2>3. op.undoing => Home(op)
    BY <2>1 DEF Home, HomeAt, Cuts
  <2> HIDE DEF bad, bs
  <2>4. Continues(op, op') /\ (Home(op') => HomeAt("cleared", op) \/ HomeAt(bad, op))
    BY <1>1, <2>1, SyncHome
  <2> QED BY <2>2, <2>3, <2>4 DEF Onward
<1>4. CASE RemoveLongs
  <2> DEFINE after == IF op.undoing THEN "refused" ELSE "removed"
  <2>1. op.pc = "cleared" /\ \E d, from, to : op' = Clearing(d, from, to, after)
    BY <1>4 DEF RemoveLongs
  <2> HIDE DEF after
  <2>2. Continues(op, op') /\ op'.pc = "clear" /\ op'.undoing = op.undoing /\ op'.after = after
    BY <2>1, ClearingIs DEF Continues, Aware, Sane
  <2>3. Home(op') => op.undoing
    BY <2>2 DEF Home, HomeAt, Adds, Cuts, after
  <2>4. op.undoing => Home(op)
    BY <2>1 DEF Home, HomeAt, Cuts
  <2> QED BY <2>2, <2>3, <2>4 DEF Onward
<1>5. CASE Kept
  <2>1. op.pc = "kept" /\ op.call = "rename" => Goto("undo_dotdot") /\ ~HomeAt("undo_dotdot", op)
    BY <1>5 DEF Kept, HomeAt, Adds, Cuts
  <2>2. CASE op.call = "rename"
    BY <1>1, <1>5, <2>1, <2>2, GotoOnward DEF Kept
  <2>3. CASE op.call # "rename"
    <3>1. Goto("refused")
      BY <1>5, <2>3 DEF Kept
    <3>2. Same(op', op) /\ op'.pc = "refused"
      BY <1>1, <3>1, GotoIs
    <3> QED BY <2>3, <3>2 DEF Onward, Continues, Same
  <2> QED BY <2>2, <2>3
<1> QED BY <1>2, <1>3, <1>4, <1>5

LEMMA EndsOnward ==
    ASSUME Aware, Added \/ Removed \/ Refused \/ Renamed  PROVE Onward(op, op')
<1>1. op.pc # "idle" /\ op.pc # "sync"
  BY DEF Added, Removed, Refused, Renamed
<1>2. CASE Added \/ Removed \/ Renamed
  <2>1. Goto("ok")
    BY <1>2 DEF Added, Removed, Renamed, Done
  <2>2. ~HomeAt("ok", op)
    BY DEF HomeAt, Adds, Cuts
  <2> QED BY <1>1, <2>1, <2>2, GotoOnward
<1>3. CASE Refused
  <2>1. op.pc = "refused" /\ Goto("error")
    BY <1>3 DEF Refused, Done
  <2>2. Home(op)
    BY <2>1 DEF Home, HomeAt
  <2> QED BY <1>1, <2>1, <2>2, GotoOnward
<1> QED BY <1>2, <1>3

(* The middle of a rename.                                                  *)
Midway == {"dotdot", "count", "undo_dotdot", "undo_move"}
LEMMA MidwayAway == ASSUME NEW label \in Midway, NEW o  PROVE ~HomeAt(label, o)
  BY DEF Midway, HomeAt, Adds, Cuts
LEMMA MovesOnward ==
    ASSUME Aware, SetDotDot \/ Count \/ UndoDotDot  PROVE Onward(op, op')
<1>1. /\ op.pc \in {"dotdot", "count", "undo_dotdot"} /\ op.pc # "idle" /\ op.pc # "sync"
      /\ Knows(op.pc, op, fat, ino) /\ DOMAIN op = OpFields /\ DOMAIN op.cut = InfoFields
  BY AtLabel DEF SetDotDot, Count, UndoDotDot
<1>2. ASSUME op.pc \in {"dotdot", "count"}, op' = [op EXCEPT !.pc = "rm", !.cut = op.old]
      PROVE  Onward(op, op')
  <2>1. ~op.undoing
    BY <1>1, <1>2 DEF Knows
  <2>2. Continues(op, op') /\ op'.pc = "rm" /\ ~op'.undoing
    BY <1>1, <1>2, <2>1 DEF Continues, OpFields
  <2>3. ~Home(op')
    BY <2>2 DEF Home, HomeAt, Adds, Cuts
  <2> QED BY <2>2, <2>3 DEF Onward
<1>3. CASE SetDotDot
  <2>1. CASE UpdateDotDot
    <3>1. op' = Syncing(op, {BlockOf(DotDotPlace)}, "count", "undo_dotdot")
      BY <1>3, <2>1 DEF SetDotDot, Sync
    <3>2. ~HomeAt("count", op) /\ ~HomeAt("undo_dotdot", op)
      BY MidwayAway DEF Midway
    <3> QED BY <1>1, <3>1, <3>2, SyncHome DEF Onward
  <2>2. CASE ~UpdateDotDot
    BY <1>2, <1>3, <2>2 DEF SetDotDot
  <2> QED BY <2>1, <2>2
<1>4. CASE Count
  BY <1>2, <1>4 DEF Count
<1>5. CASE UndoDotDot
  <2> DEFINE o == [op EXCEPT !.undoing = TRUE]
  <2>1. DOMAIN o = OpFields /\ o.pc # "idle" /\ Continues(op, o)
    BY <1>1 DEF Continues, OpFields
  <2>2. \A x : ~HomeAt("undo_move", x)
    BY MidwayAway DEF Midway
  <2>3. CASE UpdateDotDot
    <3> DEFINE bs == {BlockOf(DotDotPlace)}
    <3>1. op' = Syncing(o, bs, "undo_move", "undo_move")
      BY <1>5, <2>3 DEF UndoDotDot, Sync
    <3> HIDE DEF o, bs
    <3>2. Continues(o, op') /\ ~Home(op')
      BY <2>1, <2>2, <3>1, SyncHome
    <3>3. Continues(op, op')
      BY <2>1, <3>2 DEF Continues
    <3> QED BY <3>2, <3>3 DEF Onward
  <2>4. CASE ~UpdateDotDot
    <3>1. op' = [op EXCEPT !.undoing = TRUE, !.pc = "undo_move"]
      BY <1>5, <2>4 DEF UndoDotDot
    <3>2. Continues(op, op') /\ op'.pc = "undo_move"
      BY <1>1, <3>1 DEF Continues, OpFields
    <3> QED BY <2>2, <3>2 DEF Onward, Home
  <2> QED BY <2>3, <2>4
<1> QED BY <1>3, <1>4, <1>5

(* The inodes have moved, and move back.                                    *)
LEMMA MoveOnward == ASSUME Aware, Move  PROVE Continues(op, op') /\ ~Home(op')
<1> DEFINE r == IF op.over = None THEN [op EXCEPT !.new = NewInfo] ELSE op
           bs == {BlockOf(InfoPlace(r.new))}
<1>1. op.pc # "idle" /\ op' = Syncing(r, bs, "dotdot", "undo_move")
  BY DEF Move, Sync
<1>2. DOMAIN r = OpFields /\ r.pc # "idle" /\ Continues(op, r)
  BY <1>1 DEF Continues, OpFields, Aware, Sane, Shape
<1> HIDE DEF r, bs
<1>3. ~HomeAt("dotdot", r) /\ ~HomeAt("undo_move", r)
  BY MidwayAway DEF Midway
<1>4. Continues(r, op') /\ ~Home(op')
  BY <1>1, <1>2, <1>3, SyncHome
<1>5. Continues(op, op')
  BY <1>2, <1>4 DEF Continues
<1> QED BY <1>4, <1>5
LEMMA BackOnward == ASSUME Aware, UndoMove  PROVE Continues(op, op')
<1>1. op.pc = "undo_move" /\ DOMAIN op = OpFields
  BY DEF UndoMove, Aware, Sane, Shape
<1>2. CASE op.over # None
  <2> DEFINE bs == IF op.undoing THEN {BlockOf(InfoPlace(op.new))} ELSE {}
  <2>1. op' = Syncing(op, bs, "refused", "refused")
    BY <1>2 DEF UndoMove, Sync
  <2> HIDE DEF bs
  <2> QED BY <1>1, <2>1, SyncHome
<1>3. CASE op.over = None
  BY <1>1, <1>3 DEF UndoMove, Continues, OpFields
<1> QED BY <1>2, <1>3

-----------------------------------------------------------------------------
(* What becomes of an inode, so that its entry stays followed: it keeps its *)
(* place or loses it, or it is one that a rename moves, or takes back.      *)
Keeps(i, o, r, u, in, kin) ==
    /\ kin[i] # None
    /\ \/ kin[i].pos \in {None, in[i].pos} /\ (Given(o, i) /\ Home(r) => Home(o))
       \/ Given(r, i) /\ ~Home(r)
       \/ Given(r, i) /\ kin[i].pos = IF i = r.i THEN PlaceOf(u, r.old.d, r.old.at)
                                      ELSE PlaceOf(u, r.new.d, r.new.at)
Longer(t, u, d) ==
    \A k \in 1..LenOf(t, d) : k \in 1..LenOf(u, d) /\ PlaceOf(u, d, k) = PlaceOf(t, d, k)
Accords(o, r) ==
    /\ IsRename(o) <=> IsRename(r)
    /\ IsRename(o) => /\ r.i = o.i /\ r.over = o.over /\ r.old = o.old
                      /\ o.over # None => r.new = o.new

LEMMA FollowedOn ==
    ASSUME NEW o, NEW t, NEW in, NEW rd, Followed(o, t, in, rd), NEW r, Accords(o, r),
           NEW u, Longer(t, u, rd.d), NEW kin,
           \A e \in rd.stay : e.obj \in Inodes /\ in[e.obj] # None => Keeps(e.obj, o, r, u, in, kin)
    PROVE  Followed(r, u, kin, rd)
<1> SUFFICES ASSUME NEW e \in rd.stay  PROVE Follows1(e, r, u, kin, rd)
  BY DEF Followed
<1>1. e.obj \in Inodes /\ in[e.obj] # None
  BY DEF Followed, Follows1
<1>2. PICK k \in 1..LenOf(t, rd.d) : InPlace(e.obj, rd.d, k, o, t, in) /\ Passed(e, k, LongsFor(e.name), rd)
  BY DEF Followed, Follows1
<1> DEFINE i == e.obj
<1>3. i \in Inodes /\ i # None /\ in[i] # None /\ InPlace(i, rd.d, k, o, t, in) /\ Keeps(i, o, r, u, in, kin)
  BY <1>1, <1>2, RootAssumption
<1> HIDE DEF i
<1>4. k \in 1..LenOf(u, rd.d) /\ PlaceOf(u, rd.d, k) = PlaceOf(t, rd.d, k)
  BY DEF Longer
<1>5. IsRename(r) /\ i = r.i => r.old.d = rd.d /\ r.old.at = k
  BY <1>3 DEF InPlace, Accords
<1>6. IsRename(r) /\ i = r.over => r.new.d = rd.d /\ r.new.at = k
  BY <1>3 DEF InPlace, Accords
<1>7. ASSUME (Given(r, i) => Home(r)) /\ kin[i] # None /\ kin[i].pos # None
      PROVE  kin[i].pos = PlaceOf(u, rd.d, k)
  <2>1. CASE kin[i].pos \in {None, in[i].pos} /\ (Given(o, i) /\ Home(r) => Home(o))
    <3>1. Given(o, i) => Home(o)
      BY <1>7, <2>1 DEF Given, Accords
    <3> QED BY <1>3, <1>4, <1>7, <2>1, <3>1 DEF InPlace
  <2>2. CASE Given(r, i) /\ ~Home(r)
    BY <1>7, <2>2
  <2>3. CASE Given(r, i) /\ kin[i].pos = IF i = r.i THEN PlaceOf(u, r.old.d, r.old.at)
                                         ELSE PlaceOf(u, r.new.d, r.new.at)
    BY <1>5, <1>6, <2>3 DEF Given
  <2> QED BY <1>3, <2>1, <2>2, <2>3 DEF Keeps
<1>8. InPlace(i, rd.d, k, r, u, kin)
  BY <1>5, <1>6, <1>7 DEF InPlace
<1> QED BY <1>2, <1>3, <1>4, <1>8 DEF Follows1, Keeps, i

(* What the steps of an operation do to the inodes.                         *)
KeepsAll == \A i \in Inodes : ino[i] # None => Keeps(i, op, op', fat', ino, ino')
LEMMA SameKeeps ==
    ASSUME Onward(op, op'), \A i \in Inodes : ino[i] # None => ino'[i] # None /\ ino'[i].pos \in {None, ino[i].pos}
    PROVE  KeepsAll
  BY DEF KeepsAll, Keeps, Onward, Given, IsRename

LEMMA MoveKeeps == ASSUME Aware, Move  PROVE KeepsAll /\ Akin(ino, ino')
<1> DEFINE l == op.pc
           ds == DirsOf(ino)
<1>1. l = "move" \/ (l = "added" /\ op.call = "rename")
  BY DEF Move
<1>2. /\ Resolved /\ Sound(l, op, fat, buf, ino) /\ Nodes(ino) /\ Device(buf)
      /\ KnownOn(l, op, fat, buf, ino, neg, listed)
  BY <1>1, Calmly DEF Resolved, Typed
<1>3. /\ op.call = "rename" /\ op.i \in Inodes /\ ino[op.i] # None /\ op.over # op.i
      /\ op.over # None => op.over \in Inodes /\ ino[op.over] # None /\ Points(op.new, fat, ds)
      /\ (l = "move" <=> op.over # None) /\ (l = "added" <=> op.over = None)
  BY <1>1, <1>2 DEF Sound, Knows, Moves, Adds, Rests, KnownOn, Known, Renames
<1>4. Points(MoveTo, fat, ds)
  <2>1. CASE op.over = None
    <3>1. Stands(NewInfoOf(op), fat, buf, ds) /\ Owned(l, op, fat, ino)
      BY <1>1, <1>2, <1>3, <2>1 DEF Sound, Fit, Renaming
    <3>2. MoveTo = NewInfoOf(op)
      BY <2>1 DEF MoveTo, NewInfo, NewInfoOf, LastOf
    <3> HIDE DEF l, ds
    <3>3. Points(NewInfoOf(op), fat, DirsOf(ino))
      BY <1>2, <3>1, StandsPoints DEF ds
    <3> QED BY <3>2, <3>3 DEF ds
  <2>2. CASE op.over # None
    BY <1>3, <2>2 DEF MoveTo
  <2> QED BY <2>1, <2>2
<1>5. InfoPlace(MoveTo) \in Places
  BY <1>2, <1>4, PointsPlace, PlaceNow DEF InfoPlace, Sound
<1>6. Akin(ino, ino') /\ Shifts(op, ino, ino', InfoPlace(MoveTo))
  BY <1>3, <1>5, MoveShifts DEF Aware
<1>7. Continues(op, op') /\ ~Home(op')
  BY MoveOnward
<1>8. ASSUME NEW i \in Inodes, ino[i] # None  PROVE Keeps(i, op, op', fat', ino, ino')
  <2>1. CASE i \in {op.i, op.over}
    <3>1. Given(op', i) /\ ino'[i] # None
      BY <1>3, <1>6, <1>7, <1>8, <2>1 DEF Given, IsRename, Continues, Shifts
    <3> QED BY <1>7, <3>1 DEF Keeps
  <2>2. CASE i \notin {op.i, op.over}
    <3>1. ino'[i] # None /\ ino'[i].pos = ino[i].pos
      BY <1>6, <1>8, <2>2 DEF Shifts
    <3> QED BY <1>7, <3>1 DEF Keeps
  <2> QED BY <2>1, <2>2
<1> QED BY <1>6, <1>8 DEF KeepsAll

LEMMA BackKeeps == ASSUME Aware, UndoMove  PROVE KeepsAll /\ Akin(ino, ino')
<1> DEFINE p == PlaceOf(fat, op.new.d, op.new.at)
           q == PlaceOf(fat, op.old.d, op.old.at)
           back == PlacedAt(ino, op.i, q)
<1>1. op.pc = "undo_move" /\ fat' = fat
  BY DEF UndoMove
<1>2. Sound("undo_move", op, fat, buf, ino) /\ Nodes(ino) /\ KnownOn("undo_move", op, fat, buf, ino, neg, listed)
  BY <1>1, Calmly DEF Resolved, Typed
<1>3. /\ op.call = "rename" /\ op.i \in Inodes /\ ino[op.i] # None /\ op.over # op.i /\ Points(op.old, fat, DirsOf(ino))
      /\ op.over # None => op.over \in Inodes /\ ino[op.over] # None /\ Points(op.new, fat, DirsOf(ino))
  BY <1>2 DEF Sound, Knows, Moves, Rests, KnownOn, Known, Renames
<1>4. q \in Places /\ (op.over # None => p \in Places)
  BY <1>2, <1>3, PointsPlace DEF Sound
<1>5. InfoPlace(op.new) = p /\ InfoPlace(op.old) = q
  BY PlaceNow DEF InfoPlace
<1>6. ino' = IF op.over = None THEN back ELSE PlacedAt(back, op.over, p)
  BY <1>5 DEF UndoMove, PlacedAt
<1> HIDE DEF p, q
<1>7. /\ Akin(ino, back) /\ Nodes(back) /\ back[op.i].pos = q /\ \A i \in Inodes : i # op.i => back[i] = ino[i]
      /\ \A i \in Inodes : ino[i] # None => back[i] # None
  BY <1>2, <1>3, <1>4, Placed, PlacedPos DEF Akin
<1> HIDE DEF back
<1>11. Akin(ino, ino')
  <2>1. op.over # None => Akin(back, PlacedAt(back, op.over, p))
    BY <1>3, <1>4, <1>7, Placed
  <2> QED BY <1>6, <1>7, <2>1, AkinTwice
<1>8. \A i \in Inodes : ino[i] # None =>
         /\ ino'[i] # None
         /\ ino'[i].pos = IF i = op.i THEN q ELSE IF i = op.over THEN p ELSE ino[i].pos
  <2>1. CASE op.over = None
    BY <1>3, <1>6, <1>7, <2>1, RootAssumption
  <2>2. CASE op.over # None
    <3>1. back[op.over] # None
      BY <1>3, <1>7, <2>2
    <3>2. /\ ino'[op.over].pos = p /\ \A i \in Inodes : i # op.over => ino'[i] = back[i]
          /\ \A i \in Inodes : back[i] # None => ino'[i] # None
      BY <1>3, <1>4, <1>6, <1>7, <2>2, <3>1, Placed, PlacedPos DEF Akin
    <3> QED BY <1>3, <1>7, <3>2
  <2> QED BY <2>1, <2>2
<1>9. Continues(op, op')
  BY BackOnward
<1>10. ASSUME NEW i \in Inodes, ino[i] # None  PROVE Keeps(i, op, op', fat', ino, ino')
  <2>1. CASE i \in {op.i, op.over}
    <3>1. Given(op', i) /\ ino'[i] # None
      BY <1>3, <1>8, <1>9, <1>10, <2>1 DEF Given, IsRename, Continues
    <3>2. op'.i = op.i /\ op'.old = op.old /\ (i = op.over => op'.new = op.new)
      BY <1>9, <1>10, <2>1, RootAssumption DEF Continues
    <3>3. ino'[i].pos = IF i = op'.i THEN PlaceOf(fat', op'.old.d, op'.old.at)
                                     ELSE PlaceOf(fat', op'.new.d, op'.new.at)
      BY <1>1, <1>8, <1>10, <2>1, <3>2 DEF p, q
    <3> QED BY <3>1, <3>3 DEF Keeps
  <2>2. CASE i \notin {op.i, op.over}
    <3>1. ino'[i] # None /\ ino'[i].pos = ino[i].pos
      BY <1>8, <1>10, <2>2
    <3> QED BY <2>2, <3>1 DEF Keeps, Given
  <2> QED BY <2>1, <2>2
<1> QED BY <1>10, <1>11 DEF KeepsAll

LEMMA EndsKeeps == ASSUME Aware, Added \/ Removed \/ Renamed  PROVE KeepsAll
<1> SUFFICES \A i \in Inodes : ino[i] # None => ino'[i] # None /\ ino'[i].pos \in {None, ino[i].pos}
  BY EndsOnward, SameKeeps
<1>1. op.pc # "sync"
  BY DEF Added, Removed, Renamed
<1>2. Knows(op.pc, op, fat, ino) /\ Nodes(ino)
  BY <1>1, AtLabel, Calmly DEF Resolved, Typed
<1>3. CASE Added
  <2>1. \E j \in Inodes : ino[j] = None
    BY <1>2, <1>3 DEF Added, Knows, Adds
  <2>2. NewInode \in Inodes /\ ino[NewInode] = None
    BY <2>1 DEF NewInode, Unused
  <2>3. \A i \in Inodes : i # NewInode => ino'[i] = ino[i]
    BY <1>2, <1>3 DEF Added, Nodes
  <2> QED BY <2>2, <2>3
<1>4. CASE Removed
  <2>1. op.i \in Inodes /\ ino[op.i] # None
    BY <1>2, <1>4 DEF Removed, Knows, Rests
  <2>2. ino[op.i] \in Inode
    BY <1>2, <2>1 DEF Nodes
  <2>3. ino' = [ino EXCEPT ![op.i].pos = None, ![op.i].linked = FALSE]
    BY <1>4 DEF Removed
  <2>4. ino'[op.i] \in Inode /\ ino'[op.i].pos = None /\ \A i \in Inodes : i # op.i => ino'[i] = ino[i]
    BY <1>2, <2>1, <2>2, <2>3 DEF Nodes, Inode
  <2> QED BY <2>4, InodeAssumption
<1>5. CASE Renamed
  <2>1. CASE op.over = None
    BY <1>5, <2>1 DEF Renamed
  <2>2. CASE op.over # None
    <3>1. op.over \in Inodes /\ ino[op.over] # None
      BY <1>2, <1>5, <2>2 DEF Renamed, Knows, Rests
    <3>2. ino[op.over] \in Inode /\ ino' = [ino EXCEPT ![op.over].linked = FALSE]
      BY <1>2, <1>5, <2>2, <3>1 DEF Nodes, Renamed
    <3>3. /\ ino'[op.over] \in Inode /\ ino'[op.over].pos = ino[op.over].pos
          /\ \A i \in Inodes : i # op.over => ino'[i] = ino[i]
      BY <1>2, <3>1, <3>2 DEF Nodes, Inode
    <3> QED BY <3>3, InodeAssumption
  <2> QED BY <2>1, <2>2
<1> QED BY <1>3, <1>4, <1>5

LEMMA StepKeeps == ASSUME Aware, Step, ~Return  PROVE KeepsAll /\ Accords(op, op')
<1>1. op.pc # "idle"
  BY StepGoesOn DEF Aware, Sane
<1>2. CASE Move
  BY <1>1, <1>2, MoveKeeps, MoveOnward DEF Accords, Continues, IsRename
<1>3. CASE UndoMove
  BY <1>1, <1>3, BackKeeps, BackOnward DEF Accords, Continues, IsRename
<1>4. CASE Added \/ Removed \/ Renamed
  BY <1>1, <1>4, EndsKeeps, EndsOnward DEF Accords, Onward, Continues, IsRename
<1>5. ASSUME ino' = ino, Onward(op, op')  PROVE KeepsAll /\ Accords(op, op')
  BY <1>1, <1>5, SameKeeps DEF Accords, Onward, Continues, IsRename
<1>6. CASE SyncOk \/ SyncFail \/ Flush
  <2>1. ino' = ino
    BY <1>6 DEF SyncOk, SyncFail, Flush
  <2> QED BY <1>5, <1>6, <2>1, SyncOnward
<1>7. CASE Build \/ FillLong \/ FillShort \/ Grow \/ Link \/ Undo
  <2>1. ino' = ino
    BY <1>7 DEF Build, FillLong, FillShort, Grow, Link, Undo
  <2> QED BY <1>5, <1>7, <2>1, AddsOnward
<1>8. CASE Clear \/ RemoveShort \/ RemoveLongs \/ Kept
  <2>1. ino' = ino
    BY <1>8 DEF Clear, RemoveShort, RemoveLongs, Kept
  <2> QED BY <1>5, <1>8, <2>1, CutsOnward
<1>9. CASE Refused
  <2>1. ino' = ino
    BY <1>9 DEF Refused
  <2> QED BY <1>5, <1>9, <2>1, EndsOnward
<1>10. CASE SetDotDot \/ Count \/ UndoDotDot
  <2>1. ino' = ino
    BY <1>10 DEF SetDotDot, Count, UndoDotDot
  <2> QED BY <1>5, <1>10, <2>1, MovesOnward
<1> QED BY <1>2, <1>3, <1>4, <1>6, <1>7, <1>8, <1>9, <1>10 DEF Step

(* A directory keeps its slots where they are, and may get more of them.    *)
LEMMA LongerSame ==
    ASSUME NEW t, NEW u, NEW d, ChainOf(u, d) = ChainOf(t, d)  PROVE Longer(t, u, d)
BY PlaceSame DEF Longer

LEMMA LongerFreed ==
    ASSUME NEW t, NEW heads, Chains(t, heads), NEW g, g = None \/ g \in heads,
           NEW d \in heads, d # g, NEW u, \A c \in Clusters \ {g} : u[c] = t[c]
    PROVE  Longer(t, u, d)
<1>1. IsChain(t, d, ChainOf(t, d)) /\ ClustersOf(t, d) \subseteq Clusters
  BY ChainCells DEF Chains
<1>2. g \notin ClustersOf(t, d)
  <2>1. CASE g = None
    BY <1>1, <2>1, RootAssumption
  <2>2. CASE g \in heads
    <3>1. g \in ClustersOf(t, g) /\ ClustersOf(t, d) \cap ClustersOf(t, g) = {}
      BY <2>2, ChainCells DEF Chains
    <3> QED BY <3>1
  <2> QED BY <2>1, <2>2
<1>3. \A c \in ClustersOf(t, d) : u[c] = t[c]
  BY <1>1, <1>2
<1>4. ChainOf(u, d) = ChainOf(t, d)
  BY <1>1, <1>3, ChainStays
<1> QED BY <1>4, LongerSame

LEMMA DirsIn ==
    ASSUME NEW label, NEW o, NEW t, NEW in, Owned(label, o, t, in), Nodes(in), NEW d \in DirsOf(in)
    PROVE  /\ Chains(t, HeadsOf(label, o, in)) /\ d \in HeadsOf(label, o, in)
           /\ d \notin PendingOf(label, o) \cup GrownOf(label, o)
<1>1. d \in {Root} \cup StartsOf(in)
  BY DirsStart
<1> QED BY <1>1 DEF HeadsOf, Owned

LEMMA StepLonger ==
    ASSUME Aware, Step, NEW d \in DirsOf(ino)  PROVE Longer(fat, fat', d)
<1>1. CASE fat' = fat
  BY <1>1, LongerSame
<1>2. CASE Grow /\ fat' # fat
  <2>1. op.pc = "grow" /\ \E c \in FreeCluster : fat' = [fat EXCEPT ![c] = "eof"]
    BY <1>2 DEF Grow
  <2>2. PICK c \in FreeCluster : fat' = [fat EXCEPT ![c] = "eof"]
    BY <2>1
  <2>3. Resolved /\ Sound("grow", op, fat, buf, ino) /\ Nodes(ino) /\ Table(fat)
    BY <2>1, Calmly DEF Resolved, Typed, Table
  <2>4. Chains(fat, HeadsOf("grow", op, ino)) /\ d \in HeadsOf("grow", op, ino)
    BY <2>3, DirsIn DEF Sound
  <2>5. c \in Clusters /\ NewAt(fat, fat', c)
    BY <2>2, <2>3, FreeIs, FreeTaken DEF Table
  <2>6. NewRead(fat, fat', c, HeadsOf("grow", op, ino))
    BY <2>3, <2>4, <2>5, NewViews
  <2> QED BY <2>4, <2>6, LongerSame DEF NewRead
<1>3. CASE Link
  <2>1. CASE d = op.d
    <3>1. LenOf(fat', d) = LenOf(fat, d) + Spc /\ LenOf(fat, d) \in Nat /\ Spc \in Nat
          /\ \A k \in 1..LenOf(fat, d) : PlaceOf(fat', d, k) = PlaceOf(fat, d, k)
      BY <1>3, <2>1, LinkRead DEF Aware
    <3>2. \A k \in 1..LenOf(fat, d) : k \in 1..LenOf(fat', d)
      BY <3>1
    <3> QED BY <3>1, <3>2 DEF Longer
  <2>2. CASE d # op.d
    BY <1>3, <2>2, LinkRead, LongerSame DEF Aware
  <2> QED BY <2>1, <2>2
<1>4. CASE Undo
  <2> DEFINE g == op.grown
  <2>1. op.pc \in {"undo", "link"} /\ fat' = IF g = None THEN fat ELSE [fat EXCEPT ![g] = "free"]
    BY <1>4 DEF Undo, LinkFails
  <2>2. Resolved /\ Sound(op.pc, op, fat, buf, ino) /\ Nodes(ino) /\ Table(fat)
    BY <2>1, Calmly DEF Resolved, Typed, Table
  <2>3. GrownOf(op.pc, op) = IF g = None THEN {} ELSE {g}
    BY <2>1 DEF GrownOf
  <2> DEFINE heads == HeadsOf(op.pc, op, ino)
  <2>4. Chains(fat, heads) /\ d \in heads /\ d \notin GrownOf(op.pc, op)
    BY <2>2, DirsIn DEF Sound
  <2>5. g = None \/ g \in heads
    BY <2>3 DEF HeadsOf
  <2>6. d # g
    BY <2>3, <2>4, <2>2, DirsStart, RootAssumption DEF StartsOf
  <2>7. \A c \in Clusters \ {g} : fat'[c] = fat[c]
    BY <2>1, <2>2 DEF Table
  <2> HIDE DEF heads, g
  <2> QED BY <2>4, <2>5, <2>6, <2>7, LongerFreed
<1>5. CASE Refused
  <2> DEFINE g == op.start
             heads == HeadsOf("refused", op, ino)
  <2>1. op.pc = "refused" /\ (fat' = fat \/ (g # None /\ fat' = [fat EXCEPT ![g] = "free"]))
    BY <1>5 DEF Refused
  <2>2. Resolved /\ Sound("refused", op, fat, buf, ino) /\ Nodes(ino) /\ Table(fat)
    BY <2>1, Calmly DEF Resolved, Typed, Table
  <2>3. PendingOf("refused", op) = IF g = None THEN {} ELSE {g}
    BY DEF PendingOf, Rests
  <2>4. Chains(fat, heads) /\ d \in heads /\ d \notin PendingOf("refused", op)
    BY <2>2, DirsIn DEF Sound
  <2>5. g = None \/ g \in heads
    BY <2>3 DEF HeadsOf
  <2>6. d # g
    BY <2>3, <2>4, <2>2, DirsStart, RootAssumption DEF StartsOf
  <2>7. \A c \in Clusters \ {g} : fat'[c] = fat[c]
    BY <2>1, <2>2 DEF Table
  <2> HIDE DEF heads, g
  <2> QED BY <2>4, <2>5, <2>6, <2>7, LongerFreed
<1>6. Grow \/ Link \/ Undo \/ Refused \/ fat' = fat
  BY DEF Step, SyncOk, SyncFail, Flush, Build, FillLong, FillShort, Clear, RemoveShort, RemoveLongs, Kept,
         Added, Removed, Move, SetDotDot, Count, Renamed, UndoDotDot, UndoMove, Return, volume
<1> QED BY <1>1, <1>2, <1>3, <1>4, <1>5, <1>6

(* A directory that is there after a step was there before, or is new and   *)
(* nothing of it was ever listed.                                           *)
LEMMA DirsFewer ==
    ASSUME \A i \in Inodes : ino'[i] # None /\ ino'[i].linked =>
              ino[i] # None /\ ino[i].linked /\ ino[i].dir = ino'[i].dir /\ ino[i].start = ino'[i].start
    PROVE  DirsOf(ino') \subseteq DirsOf(ino)
BY DEF DirsOf

LEMMA AddedUnread ==
    ASSUME Aware, Added, NEW e \in listed  PROVE e.dir \in DirsOf(ino)
<1> DEFINE S == Spots(fat, buf, DirsOf(ino))
           P == Spots(fat, buf, PendingOf("added", op))
<1>1. op.pc = "added" /\ op.call \in {"create", "mkdir"}
  BY DEF Added
<1>2. Sound("added", op, fat, buf, ino) /\ Known("added", op, S, P, ino, neg, listed)
  BY <1>1, Calmly DEF KnownOn
<1>3. op.n \in Names
  BY <1>2 DEF Sound, Knows, Rests
<1> HIDE DEF P
<1>4. PICK s : AddedBase(op, S, P, s, ino, neg, listed)
  BY <1>1, <1>2, <1>3, AddedKnows
<1>5. listed = Entries(S \ {s}, ino)
  BY <1>4 DEF AddedBase, Base
<1>6. PICK r \in S : e = EntryAs(r, HolderOf(ino, r.place))
  BY <1>5 DEF Entries
<1>7. r.dir \in DirsOf(ino)
  BY SpotsHave
<1> QED BY <1>6, <1>7 DEF EntryAs

LEMMA StepDirs ==
    ASSUME Aware, Step, ~Return
    PROVE  DirsOf(ino') \subseteq DirsOf(ino) \/ \A e \in listed : e.dir \in DirsOf(ino)
<1>1. CASE ino' = ino
  BY <1>1
<1>2. CASE Added
  BY <1>2, AddedUnread
<1>3. CASE Move \/ UndoMove
  BY <1>3, MoveKeeps, BackKeeps, AkinSame
<1>4. CASE Removed \/ Renamed
  <2>1. Knows(op.pc, op, fat, ino) /\ Nodes(ino)
    <3>1. op.pc # "sync"
      BY <1>4 DEF Removed, Renamed
    <3> QED BY <3>1, AtLabel, Calmly DEF Resolved, Typed
  <2> DEFINE x == IF Removed THEN op.i ELSE op.over
  <2>2. x = None \/ (x \in Inodes /\ ino[x] \in Inode)
    BY <1>4, <2>1 DEF Removed, Renamed, Knows, Rests, Nodes
  <2>3. \A i \in Inodes : i # x => ino'[i] = ino[i]
    <3>1. CASE Removed
      BY <2>1, <3>1 DEF Removed, Nodes
    <3>2. CASE ~Removed
      BY <1>4, <2>1, <3>2 DEF Renamed, Nodes
    <3> QED BY <3>1, <3>2
  <2>4. x # None => ~ino'[x].linked
    <3>1. CASE Removed
      BY <2>1, <2>2, <3>1, RootAssumption DEF Removed, Nodes, Inode
    <3>2. CASE ~Removed
      BY <1>4, <2>1, <2>2, <3>2, RootAssumption DEF Renamed, Nodes, Inode
    <3> QED BY <3>1, <3>2
  <2> HIDE DEF x
  <2>5. \A i \in Inodes : ino'[i] # None /\ ino'[i].linked => ino'[i] = ino[i]
    BY <2>2, <2>3, <2>4, RootAssumption
  <2> QED BY <2>5, DirsFewer
<1>5. ino' = ino \/ Added \/ Move \/ UndoMove \/ Removed \/ Renamed
  BY DEF Step, SyncOk, SyncFail, Flush, Build, FillLong, FillShort, Grow, Link, Undo, Clear, RemoveShort,
         RemoveLongs, Kept, Refused, SetDotDot, Count, UndoDotDot
<1> QED BY <1>1, <1>2, <1>3, <1>4, <1>5

LEMMA StepFollowed ==
    ASSUME Aware, ReaderShape, Step, ~Return, reader.d \in DirsOf(ino) => Followed(op, fat, ino, reader)
    PROVE  reader' = reader /\ (reader'.d \in DirsOf(ino') => Followed(op', fat', ino', reader'))
<1>1. reader' = reader
  BY DEF Step, SyncOk, SyncFail, Flush, Build, FillLong, FillShort, Grow, Link, Undo, Clear, RemoveShort,
         RemoveLongs, Kept, Refused, SetDotDot, Count, UndoDotDot, Added, Move, UndoMove, Removed, Renamed, Done
<1>2. CASE reader.d \in DirsOf(ino)
  <2>1. KeepsAll /\ Accords(op, op') /\ Longer(fat, fat', reader.d)
    BY <1>2, StepKeeps, StepLonger
  <2>2. \A i \in Inodes : ino[i] # None => Keeps(i, op, op', fat', ino, ino')
    BY <2>1 DEF KeepsAll
  <2>3. Followed(op', fat', ino', reader)
    BY <1>2, <2>1, <2>2, FollowedOn
  <2> QED BY <1>1, <2>3
<1>3. CASE reader.d \notin DirsOf(ino) /\ reader.d \in DirsOf(ino')
  <2>1. \A e \in reader.stay : e \in listed /\ e.dir \notin DirsOf(ino)
    BY <1>3 DEF ReaderShape
  <2>2. reader.stay = {}
    BY <1>3, <2>1, StepDirs
  <2> QED BY <1>1, <2>2 DEF Followed
<1> QED BY <1>1, <1>2, <1>3

(* Between operations.                                                      *)
LEMMA RestFollowed ==
    ASSUME op = Resting, ~IsRename(op'), reader' = reader, Followed(op, fat, ino, reader),
           Longer(fat, fat', reader.d),
           \A e \in reader.stay : e.obj \in Inodes /\ ino[e.obj] # None =>
              ino'[e.obj] # None /\ ino'[e.obj].pos = ino[e.obj].pos
    PROVE  Followed(op', fat', ino', reader')
<1>1. ~IsRename(op)
  BY DEF IsRename, Resting
<1>2. Accords(op, op')
  BY <1>1 DEF Accords
<1>3. \A e \in reader.stay : e.obj \in Inodes /\ ino[e.obj] # None => Keeps(e.obj, op, op', fat', ino, ino')
  BY <1>1 DEF Keeps, Given
<1> QED BY <1>2, <1>3, FollowedOn

LEMMA NewLonger ==
    ASSUME Aware, op.pc = "idle", NEW c \in FreeCluster, fat' = [fat EXCEPT ![c] = "eof"], NEW d \in DirsOf(ino)
    PROVE  Longer(fat, fat', d)
<1>1. /\ Chains(fat, HeadsOf("idle", op, ino)) /\ d \in HeadsOf("idle", op, ino)
  BY RestTold
<1>2. c \in Clusters /\ fat[c] = "free" /\ Table(fat)
  BY FreeIs, Calm DEF Aware, Resolved, Typed, Table
<1>3. NewAt(fat, fat', c)
  BY <1>2, FreeTaken DEF Table
<1>4. NewRead(fat, fat', c, HeadsOf("idle", op, ino))
  BY <1>1, <1>2, <1>3, NewViews
<1> QED BY <1>1, <1>4, LongerSame DEF NewRead

LEMMA AskedCalmly ==
    ASSUME Aware, op = Resting, NEW e \in Dentries, LookupMiss(e) \/ Create(e) \/ Mkdir(e) \/ Unlink(e) \/ Rmdir(e)
    PROVE  ~IsRename(op') /\ reader' = reader /\ ino' = ino /\ \A d \in DirsOf(ino) : Longer(fat, fat', d)
<1>1. op.pc = "idle"
  BY DEF Resting
<1>2. CASE LookupMiss(e)
  BY <1>1, <1>2, LongerSame DEF LookupMiss, volume, IsRename
<1>3. CASE Create(e)
  <2>1. op' = [Resting EXCEPT !.pc = "build", !.call = "create", !.d = e.d, !.n = e.n]
        /\ reader' = reader /\ ino' = ino /\ fat' = fat
    BY <1>3 DEF Create, Ask, volume
  <2> QED BY <2>1, LongerSame DEF IsRename, Resting
<1>4. CASE Unlink(e) \/ Rmdir(e)
  <2>1. /\ \E pc, call : /\ call # "rename"
                         /\ op' = [Resting EXCEPT !.pc = pc, !.call = call, !.d = e.d, !.n = e.n, !.i = e.obj, !.cut = e.info]
        /\ reader' = reader /\ ino' = ino /\ fat' = fat
    BY <1>4 DEF Unlink, Rmdir, Ask, volume
  <2> QED BY <2>1, LongerSame DEF IsRename, Resting
<1>5. CASE Mkdir(e)
  <2> DEFINE r == [Resting EXCEPT !.call = "mkdir", !.d = e.d, !.n = e.n]
  <2>1. reader' = reader /\ ino' = ino
    BY <1>5 DEF Mkdir, Ask
  <2>2. \/ op' = [r EXCEPT !.pc = "refused"] /\ fat' = fat
        \/ \E c \in FreeCluster : /\ op' = Syncing([r EXCEPT !.start = c], BlocksOf(c), "build", "refused")
                                  /\ fat' = [fat EXCEPT ![c] = "eof"]
    BY <1>5 DEF Mkdir, Ask
  <2>3. CASE op' = [r EXCEPT !.pc = "refused"] /\ fat' = fat
    BY <2>1, <2>3, LongerSame DEF IsRename, Resting
  <2>4. ASSUME NEW c \in FreeCluster, op' = Syncing([r EXCEPT !.start = c], BlocksOf(c), "build", "refused"),
               fat' = [fat EXCEPT ![c] = "eof"]
        PROVE  ~IsRename(op') /\ \A d \in DirsOf(ino) : Longer(fat, fat', d)
    <3> DEFINE o == [r EXCEPT !.start = c]
               bs == BlocksOf(c)
    <3>1. DOMAIN o = OpFields /\ o.call = "mkdir"
      BY DEF Resting, OpFields
    <3>2. op' = Syncing(o, bs, "build", "refused")
      BY <2>4
    <3> HIDE DEF o, bs
    <3>3. op'.call = "mkdir"
      BY <3>1, <3>2, SyncingIs DEF Same
    <3> QED BY <1>1, <2>4, <3>3, NewLonger DEF IsRename
  <2> QED BY <2>1, <2>2, <2>3, <2>4
<1> QED BY <1>2, <1>3, <1>4, <1>5

LEMMA WritesCalmly ==
    ASSUME Aware, op = Resting, NEW i \in Inodes, WriteInode(i) \/ Write(i)
    PROVE  /\ ~IsRename(op') /\ reader' = reader /\ DirsOf(ino') \subseteq DirsOf(ino)
           /\ \A d \in DirsOf(ino) : Longer(fat, fat', d)
           /\ \A j \in Inodes : ino[j] # None => ino'[j] # None /\ ino'[j].pos = ino[j].pos
<1>1. op.pc = "idle" /\ ~IsRename(op) /\ op' = op /\ reader' = reader /\ Nodes(ino) /\ i \in Linked
  BY RestTold DEF Resting, IsRename, WriteInode, Write
<1>2. ino[i] \in Inode /\ ino[i].linked
  BY <1>1 DEF Nodes, Linked
<1>3. CASE WriteInode(i)
  <2>1. ino' = [ino EXCEPT ![i].dirty = FALSE] /\ fat' = fat
    BY <1>3 DEF WriteInode
  <2>2. /\ ino'[i] \in Inode /\ ino'[i].pos = ino[i].pos /\ ino'[i].start = ino[i].start
        /\ ino'[i].dir = ino[i].dir /\ \A j \in Inodes : j # i => ino'[j] = ino[j]
    BY <1>1, <1>2, <2>1 DEF Nodes, Inode
  <2>3. ino'[i] # None /\ ino[i] # None
    BY <1>2, <2>2, InodeAssumption
  <2>4. DirsOf(ino') \subseteq DirsOf(ino)
    BY <1>2, <2>2, <2>3, DirsFewer
  <2> QED BY <1>1, <2>1, <2>2, <2>3, <2>4, LongerSame
<1>4. CASE Write(i)
  <2>1. ~ino[i].dir /\ ino[i].start = None
    BY <1>4 DEF Write
  <2>2. PICK c \in FreeCluster : /\ fat' = [fat EXCEPT ![c] = "eof"]
                                 /\ ino' = [ino EXCEPT ![i].start = c, ![i].dirty = TRUE]
    BY <1>4 DEF Write
  <2>3. c \in Clusters
    BY FreeIs
  <2>4. /\ ino'[i].pos = ino[i].pos /\ ino'[i].dir = ino[i].dir /\ ino'[i] \in Inode
        /\ \A j \in Inodes : j # i => ino'[j] = ino[j]
    <3> DEFINE dirty == TRUE
    <3>1. dirty \in BOOLEAN
      OBVIOUS
    <3>2. ino' = [ino EXCEPT ![i].start = c, ![i].dirty = dirty]
      BY <2>2
    <3> HIDE DEF dirty
    <3> QED BY <1>1, <1>2, <2>3, <3>1, <3>2 DEF Nodes, Inode
  <2>5. ino'[i] # None /\ ino[i] # None
    BY <1>2, <2>4, InodeAssumption
  <2>6. DirsOf(ino') \subseteq DirsOf(ino)
    BY <2>1, <2>4 DEF DirsOf
  <2> QED BY <1>1, <2>2, <2>4, <2>5, <2>6, NewLonger
<1> QED BY <1>3, <1>4

(* A rename begins: its dentries are where the inodes say.                  *)
LEMMA OnePlace ==
    ASSUME Aware, op.pc = "idle", NEW d \in DirsOf(ino), NEW k \in ShortEntries(ViewOf(fat, buf, d)),
           NEW s \in Spots(fat, buf, DirsOf(ino)), s.place = PlaceOf(fat, d, k)
    PROVE  s.dir = d /\ s.at = k
<1>1. Sorted(Spots(fat, buf, DirsOf(ino)))
  BY RestTold DEF Base
<1>3. Spot(fat, buf, d, k) \in Spots(fat, buf, DirsOf(ino))
  BY SpotsWith
<1>4. /\ Spot(fat, buf, d, k).place = PlaceOf(fat, d, k) /\ Spot(fat, buf, d, k).dir = d
      /\ Spot(fat, buf, d, k).at = k
  BY DEF Spot
<1>5. s = Spot(fat, buf, d, k)
  BY <1>1, <1>3, <1>4 DEF Sorted
<1> QED BY <1>4, <1>5

LEMMA RenameFollowed ==
    ASSUME Aware, op = Resting, Labelled(buf), Reads(reader.d, reader), Followed(op, fat, ino, reader),
           NEW o \in Dentries, NEW e \in Dentries, Rename(o, e)
    PROVE  Followed(op', fat', ino', reader')
<1> DEFINE d == reader.d
<1>1. op.pc = "idle" /\ Tracked(d, reader) /\ d \in DirsOf(ino)
  BY FollowedTracked DEF Resting, Reads
<1>2. /\ fat' = fat /\ ino' = ino /\ reader' = reader /\ o.obj # None
      /\ \E pc \in {"build", "refused", "move"} :
            op' = [Resting EXCEPT !.pc = pc, !.call = "rename", !.d = e.d, !.n = e.n, !.i = o.obj, !.over = e.obj,
                                  !.old = o.info, !.new = e.info]
  BY DEF Rename, Ask, volume
<1>3. /\ op'.pc \in {"build", "refused", "move"} /\ op'.i = o.obj /\ op'.over = e.obj
      /\ op'.old = o.info /\ op'.new = e.info
  BY <1>2 DEF Resting
<1>4. Home(op')
  BY <1>3 DEF Home, HomeAt, Adds
<1> SUFFICES ASSUME NEW x \in reader.stay  PROVE Follows1(x, op', fat, ino, reader)
  BY <1>2 DEF Followed
<1>5. x.obj \in Inodes
  BY <1>1 DEF Tracked
<1>6. PICK s \in Records(ViewOf(fat, buf, d)) :
         /\ ino[x.obj] # None /\ ino[x.obj].pos = PlaceOf(fat, d, s.at)
         /\ LongsFor(x.name) = s.longs /\ Passed(x, s.at, s.longs, reader)
  BY <1>1 DEF Tracked
<1> HIDE DEF d
<1>7. s.at \in ShortEntries(ViewOf(fat, buf, d)) /\ s.at \in 1..LenOf(fat, d)
  BY <1>1, RecordNow
<1>8. ASSUME x.obj = o.obj  PROVE o.info.d = d /\ o.info.at = s.at
  <2>1. PICK r \in Spots(fat, buf, DirsOf(ino)) : IsAt(r, o.info) /\ ino[x.obj].pos = r.place
    BY <1>1, <1>2, <1>8, DentryTold
  <2>2. r.place = PlaceOf(fat, d, s.at)
    BY <1>6, <2>1
  <2>3. r.dir = d /\ r.at = s.at
    BY <1>1, <1>7, <2>2, OnePlace
  <2> QED BY <2>1, <2>3 DEF IsAt
<1>9. ASSUME x.obj = e.obj  PROVE e.info.d = d /\ e.info.at = s.at
  <2>1. PICK r \in Spots(fat, buf, DirsOf(ino)) : IsAt(r, e.info) /\ ino[x.obj].pos = r.place
    BY <1>1, <1>5, <1>9, DentryTold, RootAssumption
  <2>2. r.place = PlaceOf(fat, d, s.at)
    BY <1>6, <2>1
  <2>3. r.dir = d /\ r.at = s.at
    BY <1>1, <1>7, <2>2, OnePlace
  <2> QED BY <2>1, <2>3 DEF IsAt
<1>10. InPlace(x.obj, d, s.at, op', fat, ino)
  BY <1>3, <1>4, <1>6, <1>8, <1>9 DEF InPlace
<1> QED BY <1>5, <1>6, <1>7, <1>10 DEF Follows1, d

(* What goes for good has no entry.                                         *)
LEMMA EvictFollowed ==
    ASSUME Aware, op = Resting, Labelled(buf), ReaderShape,
           reader.d \in DirsOf(ino) => Followed(op, fat, ino, reader), NEW i \in Inodes, Evict(i)
    PROVE  reader'.d \in DirsOf(ino') => Followed(op', fat', ino', reader')
<1> DEFINE d == reader.d
           s == ino[i].start
           cs == IF s = None THEN {} ELSE ClustersOf(fat, s)
           heads == HeadsOf("idle", op, ino)
<1>1. /\ op' = op /\ reader' = reader /\ ino[i] # None /\ ~ino[i].linked /\ ino' = [ino EXCEPT ![i] = None]
      /\ fat' = [c \in Clusters |-> IF c \in cs THEN "free" ELSE fat[c]]
  <2>1. \A c : Chained(c) = ClustersOf(fat, c)
    BY ChainNow DEF Chained, ClustersOf
  <2> QED BY <2>1 DEF Evict
<1>2. op.pc = "idle" /\ ~IsRename(op')
  BY <1>1 DEF Resting, IsRename
<1>3. /\ Sound("idle", op, fat, buf, ino) /\ Nodes(ino) /\ Hosted(Spots(fat, buf, DirsOf(ino)), {}, ino, {})
  BY <1>2, RestTold DEF Base
<1>4. ino[i].pos = None
  BY <1>1, <1>3 DEF Hosted
<1>5. ino'[i] = None /\ \A j \in Inodes : j # i => ino'[j] = ino[j]
  BY <1>1, <1>3 DEF Nodes
<1>6. DirsOf(ino') \subseteq DirsOf(ino)
  BY <1>5, DirsFewer
<1> SUFFICES ASSUME d \in DirsOf(ino)  PROVE Followed(op', fat', ino', reader')
  BY <1>1, <1>6
<1>7. listed' = listed /\ Reads(d, reader)
  BY DEF Reads, ReaderShape, Evict, notes
<1>8. Tracked(d, reader)
  BY <1>7, FollowedTracked
<1>9. \A e \in reader.stay : e.obj # i
  <2> SUFFICES ASSUME NEW e \in reader.stay, e.obj = i  PROVE FALSE
    OBVIOUS
  <2>1. PICK r \in Records(ViewOf(fat, buf, d)) : ino[i].pos = PlaceOf(fat, d, r.at)
    BY <1>8 DEF Tracked
  <2>2. r.at \in 1..LenOf(fat, d)
    BY <1>2, RecordNow
  <2>3. IsChain(fat, d, ChainOf(fat, d))
    BY <1>2, RestTold DEF Chains
  <2> QED BY <1>4, <2>1, <2>2, <2>3, PlaceIn, InodeAssumption
<1>10. Longer(fat, fat', d)
  <2>1. Chains(fat, heads) /\ d \in heads
    BY <1>3, DirsIn DEF Sound
  <2>2. s # None => s \in heads /\ s # d
    <3>1. s # None => s \in StartsOf(ino)
      BY <1>1 DEF StartsOf
    <3>2. ASSUME s # None, s = d  PROVE FALSE
      <4>1. s # Root
        BY <1>3, <3>1, <3>2 DEF Sound, Owned
      <4>2. PICK j \in Inodes : ino[j] # None /\ ino[j].linked /\ ino[j].start = s
        BY <3>2, <4>1 DEF DirsOf
      <4> QED BY <1>1, <1>3, <3>2, <4>2 DEF Sound, Owned
    <3> QED BY <3>1, <3>2 DEF HeadsOf
  <2> HIDE DEF heads, s, d
  <2>3. ClustersOf(fat, d) \subseteq Clusters /\ ClustersOf(fat, d) \cap cs = {}
    BY <2>1, <2>2, ChainCells DEF Chains
  <2> HIDE DEF cs
  <2>4. \A c \in ClustersOf(fat, d) : fat'[c] = fat[c]
    BY <1>1, <2>3
  <2>5. ChainOf(fat', d) = ChainOf(fat, d)
    BY <2>1, <2>4, ChainStays DEF Chains
  <2> QED BY <2>5, LongerSame
<1>11. \A e \in reader.stay : e.obj \in Inodes /\ ino[e.obj] # None =>
          ino'[e.obj] # None /\ ino'[e.obj].pos = ino[e.obj].pos
  BY <1>5, <1>9
<1> QED BY <1>1, <1>2, <1>10, <1>11, RestFollowed

LEMMA RequestFollowed ==
    ASSUME Aware, Request, Labelled(buf), ReaderShape, reader.d \in DirsOf(ino) => Followed(op, fat, ino, reader)
    PROVE  /\ ReaderShape' /\ (reader'.d \in DirsOf(ino') => Followed(op', fat', ino', reader'))
           /\ IsRename(op') => op'.over # op'.i
<1> DEFINE d == reader.d
           StaysFollowed == reader'.d \in DirsOf(ino') => Followed(op', fat', ino', reader')
<1>1. op.pc = "idle" /\ op = Resting /\ ~IsRename(op) /\ listed' = listed /\ Nodes(ino)
  BY RequestAsks, RestTold DEF Request, IsRename, Aware, Sane, Shape
<1>2. d \in DirsOf(ino) => Reads(d, reader) /\ Tracked(d, reader) /\ Reader(d)
  <2>1. d \in DirsOf(ino) => Reads(d, reader)
    BY DEF Reads, ReaderShape
  <2>2. d \in DirsOf(ino) => Tracked(d, reader)
    BY <1>1, <2>1, FollowedTracked
  <2> QED BY <1>1, <2>1, <2>2 DEF Reader
<1>3. reader' = reader => ReaderShape'
  BY <1>1 DEF ReaderShape, ListedOnce
<1>4. ASSUME NEW c \in DirsOf(ino), ReaderShape', reader'.d = c, Tracked(c, reader'), UNCHANGED <<fat, ino, op>>
      PROVE  ReaderShape' /\ StaysFollowed /\ (IsRename(op') => op'.over # op'.i)
  <2>1. Reads(c, reader')
    BY <1>1, <1>4 DEF Reads, ReaderShape
  <2>2. Followed(op, fat, ino, reader')
    BY <1>1, <1>4, <2>1, FollowedTracked
  <2> QED BY <1>1, <1>4, <2>2
<1> HIDE DEF StaysFollowed
<1>5. ASSUME NEW e \in Dentries, LookupMiss(e) \/ Create(e) \/ Mkdir(e) \/ Unlink(e) \/ Rmdir(e)
      PROVE  ReaderShape' /\ StaysFollowed /\ (IsRename(op') => op'.over # op'.i)
  <2>1. ~IsRename(op') /\ reader' = reader /\ ino' = ino /\ (d \in DirsOf(ino) => Longer(fat, fat', d))
    BY <1>1, <1>5, AskedCalmly
  <2>2. StaysFollowed
    BY <1>1, <2>1, RestFollowed DEF StaysFollowed
  <2> QED BY <1>3, <2>1, <2>2
<1>6. ASSUME NEW i \in Inodes, WriteInode(i) \/ Write(i)
      PROVE  ReaderShape' /\ StaysFollowed /\ (IsRename(op') => op'.over # op'.i)
  <2>1. /\ ~IsRename(op') /\ reader' = reader /\ DirsOf(ino') \subseteq DirsOf(ino)
        /\ d \in DirsOf(ino) => Longer(fat, fat', d)
        /\ \A j \in Inodes : ino[j] # None => ino'[j] # None /\ ino'[j].pos = ino[j].pos
    BY <1>1, <1>6, WritesCalmly
  <2>2. StaysFollowed
    BY <1>1, <2>1, RestFollowed DEF StaysFollowed
  <2> QED BY <1>3, <2>1, <2>2
<1>11. ASSUME NEW b \in Blocks, WriteBuffer(b)
       PROVE  ReaderShape' /\ StaysFollowed /\ (IsRename(op') => op'.over # op'.i)
  <2>1. UNCHANGED <<fat, ino, op, reader>>
    BY <1>11 DEF WriteBuffer
  <2>2. StaysFollowed
    BY <2>1 DEF StaysFollowed
  <2> QED BY <1>1, <1>3, <2>1, <2>2
<1>7. ASSUME NEW o \in Dentries, NEW e \in Dentries, Rename(o, e)
      PROVE  ReaderShape' /\ StaysFollowed /\ (IsRename(op') => op'.over # op'.i)
  <2>1. /\ fat' = fat /\ ino' = ino /\ reader' = reader /\ e.obj # o.obj
        /\ \E pc : op' = [Resting EXCEPT !.pc = pc, !.call = "rename", !.d = e.d, !.n = e.n, !.i = o.obj, !.over = e.obj,
                                         !.old = o.info, !.new = e.info]
    BY <1>7 DEF Rename, Ask, volume
  <2>2. op'.over # op'.i
    BY <2>1 DEF Resting
  <2>3. StaysFollowed
    BY <1>1, <1>2, <1>7, <2>1, RenameFollowed DEF StaysFollowed
  <2> QED BY <1>3, <2>1, <2>2, <2>3
<1>8. ASSUME NEW c \in Dirs, ReadOpen(c)
      PROVE  ReaderShape' /\ StaysFollowed /\ (IsRename(op') => op'.over # op'.i)
  <2>1. UNCHANGED <<fat, ino, op>> /\ c \in DirsOf(ino)
    BY <1>8, DirsNow DEF ReadOpen, volume
  <2>2. ReaderShape' /\ reader'.d = c /\ Tracked(c, reader')
    BY <1>1, <1>8, ReadOpenRead
  <2> QED BY <1>4, <2>1, <2>2
<1>9. CASE ReadEntry \/ ReadFull
  <2>1. UNCHANGED <<fat, ino, op>> /\ d \in DirsOf(ino)
    BY <1>9, DirsNow DEF ReadEntry, ReadFull, Reading, volume
  <2> HIDE DEF d
  <2>2. ReaderShape' /\ reader'.d = d /\ Tracked(d, reader')
    BY <1>2, <1>9, <2>1, ReadEntryRead, ReadFullRead
  <2> QED BY <1>4, <2>1, <2>2 DEF StaysFollowed
<1>10. CASE ReadEnd
  <2>1. UNCHANGED <<fat, ino, op>> /\ d \in DirsOf(ino)
    BY <1>10, DirsNow DEF ReadEnd, Reading, volume
  <2>2. None \notin DirsOf(ino)
    <3>1. DirsOf(ino) \subseteq {Root} \cup StartsOf(ino)
      BY <1>1, DirsStart
    <3> QED BY <3>1, RootAssumption DEF StartsOf
  <2> HIDE DEF d
  <2>3. ReaderShape' /\ reader'.d = None
    BY <1>2, <1>10, <2>1, ReadEndRead
  <2> QED BY <1>1, <2>1, <2>2, <2>3 DEF StaysFollowed
<1> QED BY <1>5, <1>6, <1>7, <1>8, <1>9, <1>10, <1>11 DEF Request, StaysFollowed

(* An operation returns: what it has moved is not listed as it was.         *)
LEMMA ReturnMeans ==
    ASSUME Aware, Return  PROVE op.pc = "ok" => Meant(op, listed, listed')
<1> DEFINE S == Spots(fat, buf, DirsOf(ino))
           P == Spots(fat, buf, PendingOf(op.pc, op))
<1>1. op.pc \in {"ok", "error"} /\ listed' = Listed
  BY DEF Return
<1>2. Sound(op.pc, op, fat, buf, ino) /\ Known(op.pc, op, S, P, ino, neg, listed)
  BY <1>1, Calmly DEF KnownOn
<1>3. \A d \in DirsOf(ino) : Whole(View(buf, d))
  BY <1>1, <1>2, DirWhole, ViewNow DEF Fill
<1>4. listed' = Entries(S, ino)
  BY <1>1, <1>3, ListedIs
<1> HIDE DEF S, P
<1> QED BY <1>2, <1>4, OkIs DEF OkBase

LEMMA MovedUnlisted ==
    ASSUME Aware, Return, ~broken, DistinctInv, op.pc = "ok", IsRename(op), op.over # op.i,
           NEW e \in listed \cap listed', e.obj \in Inodes
    PROVE  e.obj \notin {op.i, op.over}
<1> SUFFICES ASSUME e.obj \in {op.i, op.over}  PROVE FALSE
  OBVIOUS
<1>1. Meant(op, listed, listed') /\ op.call = "rename"
  BY ReturnMeans DEF IsRename
<1>2. CASE op.over = None
  <2>1. e.obj = op.i
    BY <1>2, RootAssumption
  <2>2. e = [dir |-> op.d, name |-> op.n, obj |-> op.i]
    BY <1>1, <1>2, <2>1 DEF Meant, OfThem
  <2>3. e.dir = op.d /\ e.name = op.n
    BY <2>2
  <2>4. {x \in listed : x.dir = op.d /\ x.name = op.n} = {}
    BY <1>1, <1>2 DEF Meant
  <2> QED BY <2>3, <2>4
<1>3. CASE op.over # None
  <2>1. PICK x \in OfThem(listed, {op.over}) : e = [dir |-> x.dir, name |-> x.name, obj |-> op.i]
    BY <1>1, <1>3 DEF Meant, OfThem
  <2>2. x \in listed /\ x.obj = op.over /\ e.dir = x.dir /\ e.name = x.name /\ e.obj = op.i
    BY <2>1 DEF OfThem
  <2>3. x = e
    BY <2>2 DEF DistinctInv, Tree!Distinct
  <2> QED BY <2>2, <2>3
<1> QED BY <1>2, <1>3

LEMMA ReturnShape ==
    ASSUME Return, ReaderShape
    PROVE  /\ ReaderShape' /\ reader'.d = reader.d /\ reader'.at = reader.at
           /\ reader'.stay = reader.stay \cap listed' /\ reader'.seen = reader.seen \cap listed'
<1>1. /\ reader' = [reader EXCEPT !.stay = @ \cap listed', !.seen = @ \cap listed']
      /\ DOMAIN reader = ReaderFields
  BY DEF Return, ReaderShape
<1>2. /\ DOMAIN reader' = ReaderFields /\ reader'.d = reader.d /\ reader'.at = reader.at
      /\ reader'.stay = reader.stay \cap listed' /\ reader'.seen = reader.seen \cap listed'
      /\ reader'.twice = reader.twice /\ reader'.missed = reader.missed
  BY <1>1 DEF ReaderFields
<1> QED BY <1>2 DEF ReaderShape, ListedOnce

LEMMA ReturnFollowed ==
    ASSUME Aware, Return, ~broken, ReaderShape, DistinctInv, IsRename(op) => op.over # op.i,
           reader.d \in DirsOf(ino) => Followed(op, fat, ino, reader)
    PROVE  ReaderShape' /\ (reader'.d \in DirsOf(ino') => Followed(op', fat', ino', reader'))
<1> DEFINE d == reader.d
<1>1. /\ op' = Resting /\ ino' = ino /\ fat' = fat /\ op.pc \in {"ok", "error"}
      /\ ReaderShape' /\ reader'.d = d /\ reader'.at = reader.at
      /\ reader'.stay = reader.stay \cap listed' /\ reader'.seen = reader.seen \cap listed'
  BY ReturnShape DEF Return, volume
<1> SUFFICES ASSUME d \in DirsOf(ino), NEW e \in reader.stay \cap listed'
             PROVE  Follows1(e, Resting, fat, ino, reader')
  BY <1>1 DEF Followed
<1>2. e.obj \in Inodes /\ ino[e.obj] # None /\ e \in listed
  BY DEF Followed, Follows1, ReaderShape
<1>3. PICK k \in 1..LenOf(fat, d) : InPlace(e.obj, d, k, op, fat, ino) /\ Passed(e, k, LongsFor(e.name), reader)
  BY DEF Followed, Follows1
<1>4. Given(op, e.obj) => Home(op)
  <2>1. CASE op.pc = "error"
    BY <2>1 DEF Home, HomeAt
  <2>2. CASE op.pc = "ok"
    BY <1>2, <2>2, MovedUnlisted DEF Given
  <2> QED BY <1>1, <2>1, <2>2
<1>5. ~IsRename(Resting)
  BY DEF IsRename, Resting
<1>6. InPlace(e.obj, d, k, Resting, fat, ino)
  BY <1>3, <1>4, <1>5 DEF InPlace, Given
<1>7. Passed(e, k, LongsFor(e.name), reader')
  BY <1>1, <1>3 DEF Passed
<1> QED BY <1>1, <1>2, <1>6, <1>7 DEF Follows1

-----------------------------------------------------------------------------
(* Every step, and what follows.                                            *)
LEMMA RequestUnbroken == ASSUME Request  PROVE ~broken
  BY DEF Request, LookupMiss, Create, Mkdir, Unlink, Rmdir, Rename, WriteInode, Write, WriteBuffer,
         ReadOpen, ReadEntry, ReadFull, ReadEnd, Reading, Idle

LEMMA ShapeKept ==
    ASSUME ReaderShape, UNCHANGED <<reader, listed>>  PROVE ReaderShape'
  BY DEF ReaderShape, ListedOnce

LEMMA ReaderStep ==
    ASSUME Shape, SlotsInv, NamesInv, ReaderShape, FollowedInv, [NextRecovery]_recoveryVars
    PROVE  ReaderShape'
<1>1. CASE Mounted
  <2>1. CASE Step /\ ~Return
    <3>1. reader' = reader
      BY <2>1 DEF Step, SyncOk, SyncFail, Flush, Build, FillLong, FillShort, Grow, Link, Undo, Clear, RemoveShort,
         RemoveLongs, Kept, Refused, SetDotDot, Count, UndoDotDot, Added, Move, UndoMove, Removed, Renamed, Done
    <3>2. listed' = listed
      BY <2>1, StepGoesOn
    <3> QED BY <3>1, <3>2, ShapeKept
  <2>2. CASE Return
    BY <2>2, ReturnShape
  <2>3. CASE Request
    <3>1. mounted /\ ~broken
      BY <1>1, <2>3, RequestUnbroken DEF Mounted
    <3>2. Aware
      BY <3>1 DEF SlotsInv, NamesInv, Sane, Aware
    <3>3. Labelled(buf) /\ (reader.d \in DirsOf(ino) => Followed(op, fat, ino, reader))
      BY <3>1 DEF FollowedInv
    <3> QED BY <2>3, <3>2, <3>3, RequestFollowed
  <2>4. CASE \E i \in Inodes : Evict(i)
    BY <2>4, ShapeKept DEF Evict, notes
  <2> QED BY <1>1, <2>1, <2>2, <2>3, <2>4 DEF Mounted
<1>2. CASE Restart
  <2>1. reader' = Closed /\ listed' = {}
    BY <1>2 DEF Restart
  <2> QED BY <2>1 DEF ReaderShape, ReaderFields, ListedOnce, Closed
<1>3. CASE Unmount \/ (\E arg \in Args : Recover(arg)) \/ UNCHANGED recoveryVars
  <2>1. UNCHANGED <<reader, listed>>
    BY <1>3 DEF Unmount, Recover, recoveryVars, vars, notes
  <2> QED BY <2>1, ShapeKept
<1> QED BY <1>1, <1>2, <1>3 DEF NextRecovery

LEMMA FollowedStep ==
    ASSUME Shape, SlotsInv, NamesInv, DistinctInv, ReaderShape, FollowedInv, [NextRecovery]_recoveryVars
    PROVE  FollowedInv'
<1> DEFINE There == reader'.d \in DirsOf(ino') => Followed(op', fat', ino', reader')
           Over == IsRename(op') => op'.over # op'.i
<1> HIDE DEF There, Over
<1> SUFFICES ASSUME mounted', ~broken'  PROVE LabelledBoth' /\ There /\ Over
  BY DEF FollowedInv, LabelledBoth, There, Over
<1>1. CASE Mounted
  <2>1. mounted /\ ~broken
    BY <1>1, BrokenStays DEF Mounted
  <2>2. Aware
    BY <2>1 DEF SlotsInv, NamesInv, Sane, Aware
  <2>3. /\ LabelledBoth /\ Labelled(buf) /\ (reader.d \in DirsOf(ino) => Followed(op, fat, ino, reader))
        /\ IsRename(op) => op.over # op.i
    BY <2>1 DEF FollowedInv, LabelledBoth
  <2>4. CASE Step /\ ~Return
    <3>1. Accords(op, op')
      BY <2>2, <2>4, StepKeeps
    <3>2. Over
      BY <2>3, <3>1 DEF Accords, Over
    <3>3. There
      BY <2>2, <2>3, <2>4, StepFollowed DEF There
    <3> QED BY <2>2, <2>3, <2>4, <3>2, <3>3, StepLabelled
  <2>5. CASE Return
    <3>1. There
      BY <2>1, <2>2, <2>3, <2>5, ReturnFollowed DEF There
    <3>2. Over
      BY <2>5 DEF Return, Over, IsRename, Resting
    <3>3. Step
      BY <2>5 DEF Step
    <3> QED BY <2>2, <2>3, <3>1, <3>2, <3>3, StepLabelled
  <2>6. CASE Request
    <3>1. There /\ Over
      BY <2>2, <2>3, <2>6, RequestFollowed DEF There, Over
    <3> QED BY <2>2, <2>3, <2>6, <3>1, RequestLabelled
  <2>7. ASSUME NEW i \in Inodes, Evict(i)  PROVE LabelledBoth' /\ There /\ Over
    <3>1. op = Resting /\ op' = op
      BY <2>7 DEF Evict, Shape
    <3>2. There
      BY <2>2, <2>3, <2>7, <3>1, EvictFollowed DEF There
    <3>3. Over
      BY <2>3, <3>1 DEF Over
    <3> QED BY <2>3, <2>7, <3>2, <3>3, EvictLabelled
  <2> QED BY <1>1, <2>4, <2>5, <2>6, <2>7 DEF Mounted
<1>2. CASE Restart
  <2>1. /\ op' = Resting /\ buf' = EmptyRoot /\ disk' = EmptyRoot /\ reader' = Closed
    BY <1>2 DEF Restart, AtRest, Shape
  <2>2. LabelledBoth'
    BY <2>1, FormatLabelled DEF LabelledBoth, Labelled
  <2>3. There
    BY <2>1 DEF There, Followed, Closed
  <2>4. Over
    BY <2>1 DEF Over, IsRename, Resting
  <2> QED BY <2>2, <2>3, <2>4
<1>3. CASE UNCHANGED recoveryVars
  <2>1. mounted /\ ~broken /\ UNCHANGED <<op, fat, buf, disk, ino, reader>>
    BY <1>3 DEF recoveryVars, vars, volume, notes
  <2> QED BY <2>1 DEF FollowedInv, LabelledBoth, There, Over
<1> QED BY <1>1, <1>2, <1>3 DEF NextRecovery, Unmount, Recover

LEMMA ReadInit == ASSUME InitRecovery  PROVE DistinctInv /\ ReaderShape /\ FollowedInv
<1>1. /\ op = Resting /\ buf = EmptyRoot /\ disk = EmptyRoot /\ reader = Closed /\ listed = {}
  BY DEF InitRecovery, Init
<1>2. DistinctInv
  BY <1>1 DEF DistinctInv, Tree!Distinct
<1>3. ReaderShape
  BY <1>1 DEF ReaderShape, ReaderFields, ListedOnce, Closed
<1>4. FollowedInv
  BY <1>1, FormatLabelled DEF FollowedInv, Followed, Closed, IsRename, Resting
<1> QED BY <1>2, <1>3, <1>4

(* A readdir in several calls, with additions, removals, renames, evictions *)
(* and failing writes between them, lists no entry twice and misses none    *)
(* that is there from its first call to its last, wherever the caller's     *)
(* buffer ends: vfat_readdir and fat_dir_emit's positions.                  *)
THEOREM ReadOnce == SpecRecovery => []ListedOnce
<1> DEFINE KnownInv == Shape /\ SlotsInv /\ NamesInv /\ AskedInv
           Inv == KnownInv /\ DistinctInv /\ ReaderShape /\ FollowedInv
<1>1. InitRecovery => Inv
  BY NamesInit, ReadInit, RestingIs DEF InitRecovery, Init, AskedInv
<1>2. Inv /\ [NextRecovery]_recoveryVars => Inv'
  <2> SUFFICES ASSUME Inv, [NextRecovery]_recoveryVars  PROVE Inv'
    OBVIOUS
  <2>1. KnownInv'
    BY ShapeStep, SlotsStep, NamesStep, TreeStep
  <2>2. [Tree!Next]_Tree!vars
    BY TreeStep
  <2>3. DistinctInv'
    BY <2>2, DistinctStep
  <2>4. ReaderShape'
    BY ReaderStep
  <2>5. FollowedInv'
    BY FollowedStep
  <2> QED BY <2>1, <2>3, <2>4, <2>5
<1>3. Inv => ListedOnce
  BY DEF ReaderShape
<1> QED BY <1>1, <1>2, <1>3, PTL DEF SpecRecovery
=============================================================================
