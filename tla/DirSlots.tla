------------------------------ MODULE DirSlots ------------------------------
(***************************************************************************)
(* The slots of a FAT directory: how a name is laid out in them, how they  *)
(* are read back as records, and what a deletion leaves (dir.c and         *)
(* namei_vfat.c of kernel_camp/fat_log_module_practice).  No state.        *)
(*                                                                         *)
(* The 11 bytes of a short name are NameLen characters, and the first byte *)
(* of every slot is the first of them, as in the code: it holds the number *)
(* of a long-name slot, 0 in a slot never used, DELETED_FLAG in a deleted  *)
(* one.  The 13 characters of a long-name slot are the name they belong    *)
(* to; a checksum is the short name it was made from.                      *)
(***************************************************************************)
EXTENDS Integers, Sequences, FiniteSets

CONSTANTS
    Names,      \* names as users write them (one for all spellings of a name)
    Form,       \* for each name: its long slots, whether its short name has a
                \* numeric tail, and the short names tried for it, in order
    None

NameLen == 3
DELETED_FLAG == 229
LongLast == 64          \* the bit 0x40 of the first long slot
MaxLongs == 20

Dot == <<46, 32, 32>>
DotDot == <<46, 46, 32>>

(* What vfat_create_shortname gives: no short name begins with the mark of  *)
(* a free slot (5 stands for a first character 229), and none is . or ..,   *)
(* since it skips dots.  Two names without long slots differ in it.         *)
ShortTexts ==
    {a \in [1..NameLen -> 0..255] : a[1] \notin {0, DELETED_FLAG} /\ a \notin {Dot, DotDot}}
ASSUME FormAssumption ==
    \A n \in Names : /\ Form[n].longs \in 0..MaxLongs
                     /\ Form[n].alias \in Seq(ShortTexts) /\ Form[n].alias # <<>>
                     /\ Form[n].longs = 0 =>         \* it is its short name
                           ~Form[n].tail /\ \A m \in Names : Form[m].longs = 0
                                                  /\ Form[m].alias[1] = Form[n].alias[1] => m = n

Zero == [text |-> <<0, 0, 0>>, attr |-> "none", name |-> None, sum |-> None, start |-> None]
Short(a, attr, c) == [text |-> a, attr |-> attr, name |-> None, sum |-> None, start |-> c]
Long(n, i, last, a) ==
    [text |-> <<IF last THEN LongLast + i ELSE i, 108, 0>>, attr |-> "ext",
     name |-> n, sum |-> a, start |-> None]

IsFree(s) == s.text[1] \in {0, DELETED_FLAG}
IsLong(s) == s.attr = "ext" /\ s.text[1] # DELETED_FLAG
IsShort(s) == ~IsFree(s) /\ s.attr \in {"file", "dir"}     \* not a volume label
IsDots(s) == s.text \in {Dot, DotDot}

(* vfat_build_slots: the long slots from the last part to the first, then   *)
(* the short one.                                                           *)
BuildSlots(n, a, attr, c) ==
    LET k == Form[n].longs
    IN [j \in 1..k + 1 |-> IF j <= k THEN Long(n, k + 1 - j, j = 1, a) ELSE Short(a, attr, c)]

-----------------------------------------------------------------------------
(* fat_get_short_entry and its users.                                       *)
ShortEntries(v) == {k \in DOMAIN v : IsShort(v[k])}
ShortNames(v) == {v[k].text : k \in ShortEntries(v)}                 \* fat_scan
DirEmpty(v) == \A k \in ShortEntries(v) : IsDots(v[k])
Subdirs(v) == Cardinality({k \in ShortEntries(v) : v[k].attr = "dir"})
DotDotEntry(v) == CHOOSE k \in ShortEntries(v) : v[k].text = DotDot
ScanLogstart(v, c) == {k \in ShortEntries(v) : v[k].start = c}

(* vfat_create_shortname: a name without a tail must be free, or else it is *)
(* -EEXIST (None); with one, the first that is free, of as many as Form has *)
(* (the code goes on to tails made from the time).                          *)
FirstAliasAlways(n, v) == Form[n].alias[1]                       \* mutant
CreateShortname(n, v) ==
    LET alias == Form[n].alias
        unused == {j \in DOMAIN alias : alias[j] \notin ShortNames(v)}
    IN IF ~Form[n].tail THEN (IF 1 \in unused THEN alias[1] ELSE None)
       ELSE IF unused = {} THEN None
       ELSE alias[CHOOSE j \in unused : \A m \in unused : j <= m]

-----------------------------------------------------------------------------
LongCount(s) == IF s.text[1] \in LongLast + 1 .. LongLast + MaxLongs
                THEN s.text[1] - LongLast ELSE 0
LongId(s) == IF s.text[1] >= LongLast THEN s.text[1] - LongLast ELSE s.text[1]

(* fat_parse_long: how many slots from k on belong together.                *)
Follows(v, k, m) ==
    /\ v[k + m].attr = "ext"
    /\ LongId(v[k + m]) = LongCount(v[k]) - m
    /\ v[k + m].sum = v[k].sum
RunLength(v, k) ==
    CHOOSE j \in 1..LongCount(v[k]) :
        /\ \A m \in 1..j - 1 : k + m <= Len(v) /\ Follows(v, k, m)
        /\ \/ j = LongCount(v[k]) \/ k + j > Len(v) \/ ~Follows(v, k, j)

LongName(v, k, n) == IF \A m \in k..k + n - 1 : v[m].name = v[k].name THEN v[k].name ELSE None

(* A record: where its short slot is, and the long slots and the long name  *)
(* it has.  RecordsFrom(v)[k] is what the loop of fat_search_long and of    *)
(* __fat_readdir meets from slot k on.                                      *)
RecordsFrom(v) ==
    LET Plain(k) == [at |-> k, longs |-> 0, name |-> None]
        rec[k \in 1..Len(v) + 1] ==
            IF k > Len(v) THEN {}
            ELSE IF ~IsLong(v[k])
                 THEN rec[k + 1] \cup (IF IsShort(v[k]) THEN {Plain(k)} ELSE {})
            ELSE IF LongCount(v[k]) = 0 THEN rec[k + 1]
            ELSE LET n == LongCount(v[k])
                     e == k + RunLength(v, k)
                 IN IF e > Len(v) THEN {}
                    ELSE IF e < k + n \/ IsLong(v[e]) THEN rec[e]
                    ELSE IF ~IsShort(v[e]) THEN rec[e + 1]
                    ELSE IF v[e].text # v[k].sum THEN rec[e + 1] \cup {Plain(e)}
                    ELSE rec[e + 1] \cup {[at |-> e, longs |-> n, name |-> LongName(v, k, n)]}
    IN rec
Records(v) == RecordsFrom(v)[1]

(* fat_search_long: the record that answers to a name, by its short name or *)
(* its long one.                                                            *)
Answers(v, r, n) ==
    \/ ~Form[n].tail /\ v[r.at].text = Form[n].alias[1]
    \/ r.longs > 0 /\ r.name = n
SearchLong(v, n) == {r \in Records(v) : Answers(v, r, n)}
FirstOf(records) == CHOOSE r \in records : \A q \in records : r.at <= q.at

(* The name a record is listed by; None if it is a mere alias.              *)
NameOf(v, r) ==
    IF r.longs > 0 THEN r.name
    ELSE IF \E n \in Names : Form[n].longs = 0 /\ Form[n].alias[1] = v[r.at].text
    THEN CHOOSE n \in Names : Form[n].longs = 0 /\ Form[n].alias[1] = v[r.at].text
    ELSE None

-----------------------------------------------------------------------------
(* fat_add_entries, first stage: the first run of nr free slots, or the run *)
(* at the end if there is none; max is FAT_MAX_DIR_SIZE in slots, and a     *)
(* scan that comes to slot max gives up.  None is -ENOSPC.                  *)
FreeRun(v, nr, max) ==
    LET run == {k \in 1..Len(v) - nr + 1 :
                   k + nr - 1 < max /\ \A m \in k..k + nr - 1 : IsFree(v[m])}
        taken == {k \in DOMAIN v : ~IsFree(v[k])}
    IN IF run # {} THEN CHOOSE k \in run : \A m \in run : k <= m
       ELSE IF Len(v) >= max THEN None
       ELSE IF taken = {} THEN 1
       ELSE 1 + CHOOSE k \in taken : \A m \in taken : k >= m

(* fat_remove_entries shifts the name to the right over its last character  *)
(* and puts the flag before it; __fat_remove_entries only puts the flag.    *)
Deleted(s) == [s EXCEPT !.text = [@ EXCEPT ![1] = DELETED_FLAG]]
DeletedFirst(s) == [s EXCEPT !.text = <<DELETED_FLAG>> \o SubSeq(@, 1, NameLen - 1)]

(* fat_recovery.c shifts it back; the last character stays in both places.  *)
ShiftedBack(s) == [s EXCEPT !.text = Tail(@) \o <<32>>]           \* mutant
Restored(s) == [s EXCEPT !.text = Tail(@) \o <<@[NameLen]>>]

-----------------------------------------------------------------------------
(* What the slots of a directory may be.  The n long slots of a name are    *)
(* those of vfat_build_slots, with the checksum of the short one at the end.*)
LongRun(v, at, n) ==
    /\ n < at
    /\ \A j \in 1..n : /\ v[at - j].attr = "ext"
                       /\ v[at - j].text[1] = IF j = n THEN LongLast + j ELSE j
                       /\ v[at - j].sum = v[at].text
                       /\ v[at - j].name = v[at - 1].name

(* A long-name slot is part of a name, or it is a stray: the slots after it *)
(* lead to a free slot, or to the end, before there is a short one.  Only   *)
(* names are in a whole directory, names and strays in a tidy one.          *)
Covered(v, k) ==
    \E at \in ShortEntries(v), n \in 1..MaxLongs : LongRun(v, at, n) /\ at - n <= k /\ k < at
Stray(v, k) ==
    \E b \in k..Len(v) : /\ b = Len(v) \/ IsFree(v[b + 1])
                         /\ \A m \in k + 1..b : IsLong(v[m]) /\ LongCount(v[m]) = 0

IsDirectory(v) ==
    Len(v) \in Nat /\ DOMAIN v = 1..Len(v) /\ \A k \in DOMAIN v : v[k].text[1] \in Nat
Tidy(v) == \A k \in DOMAIN v : IsLong(v[k]) => Covered(v, k) \/ Stray(v, k)
Whole(v) == IsDirectory(v) /\ \A k \in DOMAIN v : IsLong(v[k]) => Covered(v, k)
=============================================================================
