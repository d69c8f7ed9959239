----------------------------- MODULE DirProofs -----------------------------
(***************************************************************************)
(* What the slots of a directory are read as while names are added and     *)
(* removed, what the slots of a new entry are and the short name of a      *)
(* deleted one, for any directory and any characters.                      *)
(***************************************************************************)
EXTENDS DirSlots, SequenceTheorems, WellFoundedInduction, TLAPS

-----------------------------------------------------------------------------
(* Choices of the least and the greatest.                                   *)

LEMMA Least == ASSUME NEW T, T \subseteq Nat, T # {} PROVE \E k \in T : \A m \in T : k <= m
<1> DEFINE Less == OpToRel(<, Nat)
<1>1. IsWellFoundedOn(Less, Nat)
  BY NatLessThanWellFounded
<1>2. \A m, k \in Nat : <<m, k>> \in Less <=> m < k
  BY DEF OpToRel
<1> HIDE DEF Less
<1>3. PICK k \in T : \A m \in T : ~(<<m, k>> \in Less)
  BY <1>1, WFMin
<1>4. \A m \in T : k <= m
  <2> SUFFICES ASSUME NEW m \in T PROVE k <= m
    OBVIOUS
  <2>1. m \in Nat /\ k \in Nat
    OBVIOUS
  <2>2. ~(m < k)
    BY <1>2, <1>3, <2>1, Zenon
  <2> QED BY <2>1, <2>2
<1> QED BY <1>4

LEMMA Greatest ==
    ASSUME NEW N \in Nat, NEW T, T \subseteq 1..N, T # {}
    PROVE  \E k \in T : \A m \in T : k >= m
<1> DEFINE Mirrored == {N - m : m \in T}
<1>1. Mirrored \subseteq Nat /\ Mirrored # {}
  <2>1. \A m \in T : N - m \in Nat
    OBVIOUS
  <2>2. PICK m \in T : TRUE
    OBVIOUS
  <2> QED BY <2>1, <2>2
<1>2. PICK j \in Mirrored : \A m \in Mirrored : j <= m
  <2> HIDE DEF Mirrored
  <2> QED BY <1>1, Least
<1>3. PICK k \in T : j = N - k
  OBVIOUS
<1>4. \A m \in T : N - k <= N - m
  BY <1>2, <1>3
<1> QED BY <1>4

(* A new entry gets a short name that no entry of the directory has,        *)
(* whatever is in it (vfat_create_shortname).                              *)
LEMMA AliasUnused ==
    ASSUME NEW n, NEW v, DOMAIN Form[n].alias \subseteq Nat, CreateShortname(n, v) # None
    PROVE  CreateShortname(n, v) \notin ShortNames(v)
<1> DEFINE alias == Form[n].alias
           unused == {j \in DOMAIN alias : alias[j] \notin ShortNames(v)}
<1>1. CASE ~Form[n].tail
  <2>1. CreateShortname(n, v) = IF 1 \in unused THEN alias[1] ELSE None
    BY <1>1 DEF CreateShortname
  <2> QED BY <2>1
<1>2. CASE Form[n].tail
  <2>1. /\ unused # {}
        /\ CreateShortname(n, v) = alias[CHOOSE j \in unused : \A m \in unused : j <= m]
    BY <1>2 DEF CreateShortname
  <2>2. unused \subseteq Nat
    OBVIOUS
  <2>3. (CHOOSE j \in unused : \A m \in unused : j <= m) \in unused
    <3> HIDE DEF unused
    <3> QED BY <2>1, <2>2, Least
  <2> QED BY <2>1, <2>3
<1> QED BY <1>1, <1>2

LEMMA AliasIn ==
    ASSUME NEW n \in Names, NEW v, CreateShortname(n, v) # None
    PROVE  CreateShortname(n, v) \in ShortTexts
<1> DEFINE alias == Form[n].alias
           unused == {j \in DOMAIN alias : alias[j] \notin ShortNames(v)}
<1>1. alias \in Seq(ShortTexts) /\ alias # <<>>
  BY FormAssumption
<1>2. DOMAIN alias \subseteq Nat /\ \A j \in DOMAIN alias : alias[j] \in ShortTexts
  BY <1>1, LenProperties
<1>3. CASE ~Form[n].tail
  <2>1. CreateShortname(n, v) = IF 1 \in unused THEN alias[1] ELSE None
    BY <1>3 DEF CreateShortname
  <2>2. CreateShortname(n, v) = alias[1] /\ 1 \in unused
    BY <2>1
  <2> QED BY <1>2, <2>2
<1>4. CASE Form[n].tail
  <2>1. /\ unused # {}
        /\ CreateShortname(n, v) = alias[CHOOSE j \in unused : \A m \in unused : j <= m]
    BY <1>4 DEF CreateShortname
  <2>2. unused \subseteq Nat
    BY <1>2
  <2>3. (CHOOSE j \in unused : \A m \in unused : j <= m) \in unused
    <3> HIDE DEF unused
    <3> QED BY <2>1, <2>2, Least
  <2>4. \A j \in unused : alias[j] \in ShortTexts
    BY <1>2
  <2> HIDE DEF unused
  <2> QED BY <2>1, <2>3, <2>4
<1> QED BY <1>3, <1>4

(* fat_add_entries overwrites no entry: of the slots from the one it found  *)
(* on, as many as it needs are free, or all that the directory has.         *)
THEOREM FreeRunFree ==
    ASSUME NEW v, Len(v) \in Nat, DOMAIN v = 1..Len(v), NEW nr \in Nat \ {0}, NEW max \in Nat,
           FreeRun(v, nr, max) # None,
           NEW m \in DOMAIN v, FreeRun(v, nr, max) <= m, m < FreeRun(v, nr, max) + nr
    PROVE  IsFree(v[m])
<1> DEFINE run == {k \in 1..Len(v) - nr + 1 :
                      k + nr - 1 < max /\ \A j \in k..k + nr - 1 : IsFree(v[j])}
           taken == {k \in DOMAIN v : ~IsFree(v[k])}
           first == FreeRun(v, nr, max)
<1>1. CASE run # {}
  <2>1. first = CHOOSE k \in run : \A j \in run : k <= j
    BY <1>1 DEF FreeRun
  <2>2. run \subseteq Nat
    OBVIOUS
  <2>3. first \in run
    <3> HIDE DEF run, first
    <3> QED BY <1>1, <2>1, <2>2, Least
  <2>4. m \in first..first + nr - 1
    BY <2>3
  <2> HIDE DEF first
  <2> QED BY <2>3, <2>4
<1>2. CASE run = {}
  <2>1. first = IF taken = {} THEN 1 ELSE 1 + CHOOSE k \in taken : \A j \in taken : k >= j
    BY <1>2 DEF FreeRun
  <2>2. CASE taken = {}
    BY <2>2
  <2>3. CASE taken # {}
    <3> DEFINE last == CHOOSE k \in taken : \A j \in taken : k >= j
    <3>1. taken \subseteq 1..Len(v)
      OBVIOUS
    <3>2. last \in taken /\ \A j \in taken : last >= j
      <4> HIDE DEF taken
      <4> QED BY <2>3, <3>1, Greatest
    <3>3. first = 1 + last
      BY <2>1, <2>3
    <3>4. first <= m /\ m \in Int
      OBVIOUS
    <3> HIDE DEF first, last
    <3>5. last < m
      BY <3>1, <3>2, <3>3, <3>4
    <3> QED BY <3>2, <3>5
  <2> QED BY <2>2, <2>3
<1> QED BY <1>1, <1>2

LEMMA FreeRunIn ==
    ASSUME NEW v, Len(v) \in Nat, DOMAIN v = 1..Len(v), NEW nr \in Nat \ {0}, NEW max \in Nat,
           FreeRun(v, nr, max) # None
    PROVE  FreeRun(v, nr, max) \in 1..Len(v) + 1
<1> DEFINE run == {k \in 1..Len(v) - nr + 1 :
                      k + nr - 1 < max /\ \A j \in k..k + nr - 1 : IsFree(v[j])}
           taken == {k \in DOMAIN v : ~IsFree(v[k])}
           first == FreeRun(v, nr, max)
<1>1. CASE run # {}
  <2>1. first = CHOOSE k \in run : \A j \in run : k <= j
    BY <1>1 DEF FreeRun
  <2>2. run \subseteq Nat
    OBVIOUS
  <2>3. first \in run
    <3> HIDE DEF run, first
    <3> QED BY <1>1, <2>1, <2>2, Least
  <2>4. run \subseteq 1..Len(v) + 1
    OBVIOUS
  <2> HIDE DEF run, first
  <2>5. first \in 1..Len(v) + 1
    BY <2>3, <2>4
  <2> QED BY <2>5 DEF first
<1>2. CASE run = {}
  <2>1. first = IF taken = {} THEN 1 ELSE 1 + CHOOSE k \in taken : \A j \in taken : k >= j
    BY <1>2 DEF FreeRun
  <2>2. CASE taken = {}
    BY <2>1, <2>2
  <2>3. CASE taken # {}
    <3> DEFINE last == CHOOSE k \in taken : \A j \in taken : k >= j
    <3>1. taken \subseteq 1..Len(v)
      OBVIOUS
    <3>2. last \in taken
      <4> HIDE DEF taken
      <4> QED BY <2>3, <3>1, Greatest
    <3>3. last \in 1..Len(v) /\ first = 1 + last
      BY <2>1, <2>3, <3>1, <3>2
    <3> HIDE DEF first, last
    <3>4. first \in 1..Len(v) + 1
      BY <3>3
    <3> QED BY <3>4 DEF first
  <2> QED BY <2>2, <2>3
<1> QED BY <1>1, <1>2

-----------------------------------------------------------------------------
(* Deleting a name and recovering it gives the name again just if its last  *)
(* character is there twice: fat_remove_entries drops it and fat_recovery.c *)
(* has no other to put there than the one before it.                        *)
THEOREM RecoveredName ==
    ASSUME NEW Others, NEW a \in Nat, NEW b \in Nat, NEW c \in Nat,
           NEW s \in [text : Seq(Nat), attr : Others, name : Others, sum : Others, start : Others],
           s.text = <<a, b, c>>
    PROVE  Restored(DeletedFirst(s)) = s <=> b = c
<1> DEFINE t == DeletedFirst(s)
           shifted == <<DELETED_FLAG>> \o SubSeq(<<a, b, c>>, 1, 2)
           back == Tail(shifted) \o <<shifted[3]>>
<1>1. SubSeq(<<a, b, c>>, 1, 2) = <<a, b>>
  <2> DEFINE q == SubSeq(<<a, b, c>>, 1, 2)
  <2>1. q \in Seq(Nat) /\ Len(q) = 2 /\ q[1] = a /\ q[2] = b
    <3>1. \A i \in 1..2 : <<a, b, c>>[i] \in Nat
      OBVIOUS
    <3> QED BY <3>1, SubSeqProperties
  <2>2. <<a, b>> \in Seq(Nat) /\ Len(<<a, b>>) = 2
    OBVIOUS
  <2> HIDE DEF q
  <2>3. \A i \in 1..Len(q) : q[i] = <<a, b>>[i]
    BY <2>1
  <2> QED BY <2>1, <2>2, <2>3, SeqEqual DEF q
<1>2. shifted = <<DELETED_FLAG, a, b>>
  <2>1. <<DELETED_FLAG>> \in Seq(Nat) /\ <<a, b>> \in Seq(Nat)
    BY DEF DELETED_FLAG
  <2>2. shifted \in Seq(Nat) /\ Len(shifted) = 3
           /\ shifted[1] = DELETED_FLAG /\ shifted[2] = a /\ shifted[3] = b
    BY <1>1, <2>1, ConcatProperties
  <2> HIDE DEF shifted
  <2>3. \A i \in 1..Len(shifted) : shifted[i] = <<DELETED_FLAG, a, b>>[i]
    BY <2>2
  <2>4. <<DELETED_FLAG, a, b>> \in Seq(Nat) /\ Len(<<DELETED_FLAG, a, b>>) = 3
    BY DEF DELETED_FLAG
  <2> QED BY <2>2, <2>3, <2>4, SeqEqual
<1>3. back = <<a, b, b>>
  <2> HIDE DEF shifted
  <2>1. shifted \in Seq(Nat) /\ shifted # << >> /\ Len(shifted) = 3
           /\ shifted[2] = a /\ shifted[3] = b
    BY <1>2 DEF DELETED_FLAG
  <2> DEFINE rest == Tail(shifted)
             last == <<shifted[3]>>
  <2>2. rest \in Seq(Nat) /\ Len(rest) = 2 /\ \A i \in 1..Len(rest) : rest[i] = shifted[i + 1]
    <3>1. /\ rest \in Seq(Nat)
          /\ Len(rest) = Len(shifted) - 1
          /\ \A i \in 1..Len(rest) : rest[i] = shifted[i + 1]
      BY <2>1, HeadTailProperties
    <3> HIDE DEF rest
    <3> QED BY <2>1, <3>1
  <2>3. last \in Seq(Nat) /\ Len(last) = 1 /\ last[1] = b
    BY <2>1
  <2>4. back \in Seq(Nat) /\ Len(back) = 3 /\ back[1] = a /\ back[2] = b /\ back[3] = b
    <3> HIDE DEF rest, last
    <3>1. rest[1] = a /\ rest[2] = b
      BY <2>1, <2>2
    <3>2. /\ rest \o last \in Seq(Nat)
          /\ Len(rest \o last) = Len(rest) + Len(last)
          /\ \A i \in 1..Len(rest) + Len(last) :
                (rest \o last)[i] = IF i <= Len(rest) THEN rest[i] ELSE last[i - Len(rest)]
      BY <2>2, <2>3, ConcatProperties, Zenon
    <3>3. back = rest \o last
      BY DEF rest, last
    <3> HIDE DEF back
    <3> QED BY <2>2, <2>3, <3>1, <3>2, <3>3
  <2> HIDE DEF back
  <2>5. \A i \in 1..Len(back) : back[i] = <<a, b, b>>[i]
    BY <2>4
  <2>6. <<a, b, b>> \in Seq(Nat) /\ Len(<<a, b, b>>) = 3
    OBVIOUS
  <2> QED BY <2>4, <2>5, <2>6, SeqEqual
<1>4. t = [s EXCEPT !.text = shifted]
  BY DEF DeletedFirst, NameLen
<1>5. Restored(t) = [s EXCEPT !.text = back]
  BY <1>4 DEF Restored, NameLen
<1> HIDE DEF t, shifted, back
<1>6. [s EXCEPT !.text = back] = s <=> back = s.text
  OBVIOUS
<1>7. <<a, b, b>> = <<a, b, c>> <=> b = c
  OBVIOUS
<1> QED BY <1>3, <1>5, <1>6, <1>7 DEF t
-----------------------------------------------------------------------------
(* How a directory is read.  ReadAt is what the loop of fat_search_long and *)
(* of __fat_readdir makes of slot k, given what it makes of those behind.   *)

IsRunLength(v, k, j) ==
    /\ \A m \in 1..j - 1 : k + m <= Len(v) /\ Follows(v, k, m)
    /\ \/ j = LongCount(v[k]) \/ k + j > Len(v) \/ ~Follows(v, k, j)

PlainAt(k) == [at |-> k, longs |-> 0, name |-> None]
LongAt(v, k, e) ==
    [at |-> e, longs |-> LongCount(v[k]), name |-> LongName(v, k, LongCount(v[k]))]
ReadLong(v, rec, k, e) ==
    IF e > Len(v) THEN {}
    ELSE IF e < k + LongCount(v[k]) \/ IsLong(v[e]) THEN rec[e]
    ELSE IF ~IsShort(v[e]) THEN rec[e + 1]
    ELSE IF v[e].text # v[k].sum THEN rec[e + 1] \cup {PlainAt(e)}
    ELSE rec[e + 1] \cup {LongAt(v, k, e)}
ReadAt(v, rec, k) ==
    IF k > Len(v) THEN {}
    ELSE IF ~IsLong(v[k]) THEN rec[k + 1] \cup (IF IsShort(v[k]) THEN {PlainAt(k)} ELSE {})
    ELSE IF LongCount(v[k]) = 0 THEN rec[k + 1]
    ELSE ReadLong(v, rec, k, k + RunLength(v, k))

LEMMA LongCountNat == ASSUME NEW v, IsDirectory(v), NEW k \in DOMAIN v
                      PROVE  LongCount(v[k]) \in 0..MaxLongs
<1>1. v[k].text[1] \in Nat
  BY DEF IsDirectory
<1> QED BY <1>1 DEF LongCount, LongLast, MaxLongs

LEMMA RunLengthIs ==
    ASSUME NEW v, IsDirectory(v), NEW k \in DOMAIN v, LongCount(v[k]) # 0
    PROVE  RunLength(v, k) \in 1..LongCount(v[k]) /\ IsRunLength(v, k, RunLength(v, k))
<1> DEFINE n == LongCount(v[k])
           stops == {j \in 1..n : j = n \/ k + j > Len(v) \/ ~Follows(v, k, j)}
<1>1. n \in Nat /\ n > 0
  BY LongCountNat DEF MaxLongs
<1>2. n \in stops /\ stops \subseteq Nat
  BY <1>1
<1>3. PICK j \in stops : \A m \in stops : j <= m
  <2> HIDE DEF stops
  <2> QED BY <1>2, Least
<1>4. IsRunLength(v, k, j)
  <2>1. ASSUME NEW m \in 1..j - 1  PROVE k + m <= Len(v) /\ Follows(v, k, m)
    <3>1. m \in 1..n /\ j \in Nat /\ m \in Nat /\ ~(j <= m)
      BY <1>1
    <3>2. m \notin stops
      BY <1>3, <3>1
    <3>3. ~(k + m > Len(v)) /\ Follows(v, k, m)
      BY <3>1, <3>2
    <3>4. k \in Nat /\ Len(v) \in Nat
      BY DEF IsDirectory
    <3> QED BY <3>1, <3>3, <3>4
  <2> QED BY <2>1 DEF IsRunLength
<1>5. \E i \in 1..n : IsRunLength(v, k, i)
  BY <1>4
<1>6. RunLength(v, k) = CHOOSE i \in 1..n : IsRunLength(v, k, i)
  BY DEF RunLength, IsRunLength
<1> HIDE DEF n
<1> QED BY <1>5, <1>6 DEF n

LEMMA RecordsFromIs ==
    \A v : RecordsFrom(v) = CHOOSE rec : rec = [k \in 1..Len(v) + 1 |-> ReadAt(v, rec, k)]
  BY DEF RecordsFrom, ReadAt, ReadLong, PlainAt, LongAt

(* What is read from a slot on depends on what is read from later ones.     *)
LEMMA ReadLater ==
    ASSUME NEW v, IsDirectory(v), NEW k \in 1..Len(v) + 1, NEW f, NEW g,
           \A m \in k + 1..Len(v) + 1 : f[m] = g[m]
    PROVE  ReadAt(v, f, k) = ReadAt(v, g, k)
<1>0. Len(v) \in Nat /\ k \in Nat
  BY DEF IsDirectory
<1>1. CASE k > Len(v)
  BY <1>1 DEF ReadAt
<1>2. CASE k <= Len(v) /\ LongCount(v[k]) = 0
  <2>1. f[k + 1] = g[k + 1]
    BY <1>0, <1>2
  <2> QED BY <1>2, <2>1, <1>0 DEF ReadAt
<1>3. CASE k <= Len(v) /\ ~IsLong(v[k])
  <2>1. f[k + 1] = g[k + 1]
    BY <1>0, <1>3
  <2> QED BY <1>3, <2>1, <1>0 DEF ReadAt
<1>4. CASE k <= Len(v) /\ LongCount(v[k]) # 0 /\ IsLong(v[k])
  <2> DEFINE e == k + RunLength(v, k)
  <2>1. k \in DOMAIN v
    BY <1>0, <1>4 DEF IsDirectory
  <2>2. e \in Nat /\ e > k
    BY <1>0, <1>4, <2>1, RunLengthIs, LongCountNat DEF MaxLongs
  <2>3. ~(e > Len(v)) => f[e] = g[e] /\ f[e + 1] = g[e + 1]
    BY <1>0, <2>2
  <2>4. ReadAt(v, f, k) = ReadLong(v, f, k, e) /\ ReadAt(v, g, k) = ReadLong(v, g, k, e)
    BY <1>0, <1>4 DEF ReadAt
  <2> HIDE DEF e
  <2>5. CASE e > Len(v)
    BY <2>4, <2>5 DEF ReadLong
  <2>6. CASE ~(e > Len(v))
    <3>1. f[e] = g[e] /\ f[e + 1] = g[e + 1]
      BY <2>3, <2>6
    <3> DEFINE early == e < k + LongCount(v[k]) \/ IsLong(v[e])
               short == IsShort(v[e])
               other == v[e].text # v[k].sum
    <3>2. CASE early
      BY <2>4, <2>6, <3>1, <3>2 DEF ReadLong
    <3>3. CASE ~early /\ ~short
      BY <2>4, <2>6, <3>1, <3>3 DEF ReadLong
    <3>4. CASE ~early /\ short /\ other
      BY <2>4, <2>6, <3>1, <3>4 DEF ReadLong
    <3>5. CASE ~early /\ short /\ ~other
      BY <2>4, <2>6, <3>1, <3>5 DEF ReadLong
    <3> QED BY <3>2, <3>3, <3>4, <3>5
  <2> QED BY <2>5, <2>6
<1> QED BY <1>0, <1>1, <1>2, <1>3, <1>4

LEMMA ReadSlot ==
    ASSUME NEW v, IsDirectory(v), NEW k \in 1..Len(v) + 1
    PROVE  RecordsFrom(v)[k] = ReadAt(v, RecordsFrom(v), k)
<1> DEFINE N == Len(v) + 1
           Right(f, j) == \A m \in j..N : f[m] = ReadAt(v, f, m)
           T == {j \in 1..N : \A f : ~Right(f, j)}
<1>0. N \in Nat /\ N >= 1
  BY DEF IsDirectory
<1>1. T = {}
  <2> SUFFICES ASSUME T # {} PROVE FALSE
    OBVIOUS
  <2>1. PICK j \in T : \A m \in T : j >= m
    <3>1. T \subseteq 1..N
      OBVIOUS
    <3> HIDE DEF T, N
    <3> QED BY <1>0, <3>1, Greatest
  <2>2. \E f : Right(f, j + 1)
    <3>1. CASE j = N
      <4>1. j + 1..N = {}
        BY <1>0, <3>1
      <4> QED BY <4>1
    <3>2. CASE j # N
      <4>1. j + 1 \in 1..N /\ ~(j >= j + 1)
        BY <1>0, <3>2
      <4>2. j + 1 \notin T
        BY <2>1, <4>1
      <4> QED BY <4>1, <4>2
    <3> QED BY <3>1, <3>2
  <2>3. PICK f : Right(f, j + 1)
    BY <2>2
  <2> DEFINE g == [m \in 1..N |-> IF m = j THEN ReadAt(v, f, j) ELSE f[m]]
  <2>4. ASSUME NEW m \in j..N  PROVE g[m] = ReadAt(v, g, m)
    <3>1. m \in 1..N
      BY <1>0
    <3>2. \A i \in m + 1..N : f[i] = g[i]
      BY <1>0, <3>1
    <3>3. ReadAt(v, f, m) = ReadAt(v, g, m)
      <4> HIDE DEF g
      <4> QED BY <3>1, <3>2, ReadLater
    <3>4. g[m] = ReadAt(v, f, m)
      <4>1. CASE m = j
        BY <3>1, <4>1
      <4>2. CASE m # j
        <5>1. m \in j + 1..N
          BY <1>0, <4>2
        <5>2. f[m] = ReadAt(v, f, m)
          BY <2>3, <5>1
        <5> QED BY <3>1, <4>2, <5>2
      <4> QED BY <4>1, <4>2
    <3> QED BY <3>3, <3>4
  <2>5. Right(g, j)
    BY <2>4
  <2> QED BY <2>1, <2>5
<1>2. 1 \in 1..N
  BY <1>0
<1>3. PICK f : Right(f, 1)
  BY <1>1, <1>2
<1> DEFINE g == [m \in 1..N |-> f[m]]
<1>4. g = [m \in 1..N |-> ReadAt(v, g, m)]
  <2>1. ASSUME NEW m \in 1..N  PROVE f[m] = ReadAt(v, g, m)
    <3>1. \A i \in m + 1..N : f[i] = g[i]
      BY <1>0
    <3>2. ReadAt(v, f, m) = ReadAt(v, g, m)
      <4> HIDE DEF g
      <4> QED BY <3>1, ReadLater
    <3> QED BY <1>3, <3>2
  <2> QED BY <2>1
<1>5. \E rec : rec = [m \in 1..N |-> ReadAt(v, rec, m)]
  BY <1>4
<1>6. RecordsFrom(v) = [m \in 1..N |-> ReadAt(v, RecordsFrom(v), m)]
  <2> DEFINE r == RecordsFrom(v)
  <2>1. r = CHOOSE rec : rec = [m \in 1..N |-> ReadAt(v, rec, m)]
    BY RecordsFromIs
  <2> HIDE DEF r
  <2>2. r = [m \in 1..N |-> ReadAt(v, r, m)]
    BY <1>5, <2>1
  <2> QED BY <2>2 DEF r
<1> QED BY <1>6

-----------------------------------------------------------------------------
(* What a directory holds: its short slots, each with the long ones that    *)
(* belong to it.                                                            *)

Bare(v) == {k \in ShortEntries(v) : k = 1 \/ ~IsLong(v[k - 1])}
LongNamed(v) ==
    {r \in [at : ShortEntries(v), longs : 1..MaxLongs, name : {v[k].name : k \in DOMAIN v}] :
        LongRun(v, r.at, r.longs) /\ r.name = v[r.at - 1].name}
Standing(v) == {PlainAt(k) : k \in Bare(v)} \cup LongNamed(v)

(* The names from slot k on, and the slots that are not inside a name.      *)
StandingFrom(v, k) == {r \in Standing(v) : r.at >= k}
Outside(v, k) ==
    k \in DOMAIN v => /\ IsLong(v[k]) => LongCount(v[k]) # 0 \/ Stray(v, k)
                      /\ IsShort(v[k]) => k \in Bare(v)

LEMMA ShortNotLong == ASSUME NEW s, IsShort(s)  PROVE ~IsLong(s)
  BY DEF IsShort, IsLong

LEMMA InRun ==
    ASSUME NEW v, IsDirectory(v), NEW at \in ShortEntries(v), NEW n \in 1..MaxLongs,
           LongRun(v, at, n), NEW k \in Int, at - n <= k, k < at
    PROVE  /\ at \in 1..Len(v) /\ k \in 1..Len(v)
           /\ IsLong(v[k]) /\ ~IsShort(v[k]) /\ ~IsFree(v[k])
           /\ v[k].sum = v[at].text /\ v[k].name = v[at - 1].name
           /\ LongCount(v[k]) = (IF k = at - n THEN n ELSE 0)
           /\ LongId(v[k]) = at - k
<1>1. at \in 1..Len(v) /\ Len(v) \in Nat /\ n \in 1..20
  BY DEF ShortEntries, IsDirectory, MaxLongs
<1> DEFINE j == at - k
<1>2. j \in 1..n /\ j \in 1..20 /\ k = at - j /\ (j = n <=> k = at - n) /\ k \in 1..Len(v)
  BY <1>1 DEF LongRun
<1> HIDE DEF j
<1>3. /\ v[at - j].attr = "ext" /\ v[at - j].sum = v[at].text
      /\ v[at - j].name = v[at - 1].name
      /\ v[at - j].text[1] = IF j = n THEN LongLast + j ELSE j
  BY <1>2 DEF LongRun
<1>4. v[k].attr = "ext" /\ v[k].text[1] = (IF k = at - n THEN LongLast + n ELSE j)
  BY <1>2, <1>3
<1> DEFINE t == v[k].text[1]
<1>5. t = (IF j = n THEN 64 + n ELSE j) /\ t \in 1..84
  <2>1. t = (IF j = n THEN 64 + n ELSE j)
    BY <1>2, <1>4, Zenon DEF LongLast
  <2> HIDE DEF t
  <2>2. j \in 1..20 /\ n \in 1..20
    BY <1>1, <1>2
  <2> QED BY <2>1, <2>2
<1> HIDE DEF t
<1>6. IsLong(v[k]) /\ ~IsShort(v[k]) /\ ~IsFree(v[k])
  <2>1. t \notin {0, 229}
    BY <1>5
  <2> QED BY <1>4, <2>1 DEF IsLong, IsShort, IsFree, DELETED_FLAG, t
<1>7. LongCount(v[k]) = (IF k = at - n THEN n ELSE 0) /\ LongId(v[k]) = j
  <2>1. CASE j = n
    <3>1. t = 64 + n /\ t \in 65..84 /\ t >= 64 /\ t - 64 = n
      BY <1>1, <1>5, <2>1
    <3> QED BY <1>2, <2>1, <3>1 DEF LongCount, LongId, LongLast, MaxLongs, t
  <2>2. CASE j # n
    <3>1. t = j /\ t \notin 65..84 /\ ~(t >= 64)
      BY <1>2, <1>5, <2>2
    <3> QED BY <1>2, <2>2, <3>1 DEF LongCount, LongId, LongLast, MaxLongs, t
  <2> QED BY <2>1, <2>2
<1> QED BY <1>1, <1>2, <1>3, <1>6, <1>7 DEF j

LEMMA OneRun ==
    ASSUME NEW v, IsDirectory(v), NEW at \in ShortEntries(v),
           NEW m \in 1..MaxLongs, LongRun(v, at, m), NEW n \in 1..MaxLongs, LongRun(v, at, n)
    PROVE  m = n
<1>0. at \in Nat /\ m \in 1..20 /\ n \in 1..20
  BY DEF ShortEntries, IsDirectory, MaxLongs
<1>1. CASE m < n
  <2>1. at - n <= at - m /\ at - m < at /\ at - m # at - n /\ at - m <= at - m /\ at - m \in Int
    BY <1>0, <1>1
  <2>2. LongCount(v[at - m]) = 0 /\ LongCount(v[at - m]) = m
    BY <2>1, InRun
  <2> QED BY <1>0, <2>2
<1>2. CASE n < m
  <2>1. at - m <= at - n /\ at - n < at /\ at - n # at - m /\ at - n <= at - n /\ at - n \in Int
    BY <1>0, <1>2
  <2>2. LongCount(v[at - n]) = 0 /\ LongCount(v[at - n]) = n
    BY <2>1, InRun
  <2> QED BY <1>0, <2>2
<1> QED BY <1>0, <1>1, <1>2

(* Where the records of a directory are.                                    *)
LEMMA StandingAt ==
    ASSUME NEW v, IsDirectory(v), NEW r \in Standing(v)
    PROVE  r.at \in ShortEntries(v) /\ r.at \in 1..Len(v)
<1>1. \A k \in ShortEntries(v) : k \in 1..Len(v)
  BY DEF ShortEntries, IsDirectory
<1>2. \A k \in Bare(v) : k \in ShortEntries(v)
  BY DEF Bare
<1>3. r.at \in ShortEntries(v)
  BY <1>2 DEF Standing, PlainAt, LongNamed
<1> QED BY <1>1, <1>3

LEMMA SameFrom ==
    ASSUME NEW v, IsDirectory(v), NEW k \in Nat, NEW m \in Nat, k <= m,
           \A i \in k..m - 1 : ~IsShort(v[i])
    PROVE  StandingFrom(v, k) = StandingFrom(v, m)
<1> SUFFICES ASSUME NEW r \in Standing(v)  PROVE r.at >= k <=> r.at >= m
  BY DEF StandingFrom
<1>1. r.at \in Nat /\ IsShort(v[r.at])
  BY StandingAt DEF ShortEntries
<1> QED BY <1>1

LEMMA FromEnd ==
    ASSUME NEW v, IsDirectory(v), NEW k \in Nat, k > Len(v)  PROVE StandingFrom(v, k) = {}
<1> SUFFICES ASSUME NEW r \in Standing(v), r.at >= k PROVE FALSE
  BY DEF StandingFrom
<1>1. r.at \in 1..Len(v) /\ Len(v) \in Nat
  BY StandingAt DEF IsDirectory
<1> QED BY <1>1

(* Behind a slot that is not a long one nothing is inside a name.           *)
LEMMA BehindShort ==
    ASSUME NEW v, IsDirectory(v), Tidy(v), NEW k \in DOMAIN v, ~IsLong(v[k])
    PROVE  Outside(v, k + 1)
<1> SUFFICES ASSUME k + 1 \in DOMAIN v
             PROVE  /\ IsLong(v[k + 1]) => LongCount(v[k + 1]) # 0 \/ Stray(v, k + 1)
                    /\ IsShort(v[k + 1]) => k + 1 \in Bare(v)
  BY DEF Outside
<1>0. k \in 1..Len(v) /\ Len(v) \in Nat
  BY DEF IsDirectory
<1>1. ASSUME IsLong(v[k + 1]), ~Stray(v, k + 1)  PROVE LongCount(v[k + 1]) # 0
  <2>1. PICK at \in ShortEntries(v), n \in 1..MaxLongs :
            LongRun(v, at, n) /\ at - n <= k + 1 /\ k + 1 < at
    BY <1>1 DEF Tidy, Covered
  <2>2. at \in Int /\ n \in 1..20
    BY DEF ShortEntries, IsDirectory, MaxLongs
  <2>3. ~(at - n <= k)
    <3> SUFFICES ASSUME at - n <= k PROVE FALSE
      OBVIOUS
    <3>1. k < at /\ k \in Int
      BY <1>0, <2>1, <2>2
    <3>2. IsLong(v[k])
      BY <2>1, <3>1, InRun
    <3> QED BY <3>2
  <2>4. k + 1 = at - n
    BY <1>0, <2>1, <2>2, <2>3
  <2>5. LongCount(v[k + 1]) = n
    BY <1>0, <2>1, <2>2, <2>4, InRun
  <2> QED BY <2>2, <2>5
<1>2. ASSUME IsShort(v[k + 1])  PROVE k + 1 \in Bare(v)
  BY <1>0, <1>2 DEF Bare, ShortEntries
<1> QED BY <1>1, <1>2

(* A slot that is not a long one is an entry of its own, or nothing.        *)
LEMMA ReadShort ==
    ASSUME NEW v, IsDirectory(v), NEW k \in DOMAIN v, ~IsLong(v[k]), Outside(v, k),
           RecordsFrom(v)[k + 1] = StandingFrom(v, k + 1)
    PROVE  RecordsFrom(v)[k] = StandingFrom(v, k)
<1>0. k \in 1..Len(v) /\ Len(v) \in Nat /\ k \in 1..Len(v) + 1 /\ ~(k > Len(v))
  BY DEF IsDirectory
<1>1. RecordsFrom(v)[k] = StandingFrom(v, k + 1) \cup (IF IsShort(v[k]) THEN {PlainAt(k)} ELSE {})
  BY <1>0, ReadSlot DEF ReadAt
<1>2. CASE ~IsShort(v[k])
  <2>1. \A i \in k..(k + 1) - 1 : ~IsShort(v[i])
    BY <1>0, <1>2
  <2>2. StandingFrom(v, k) = StandingFrom(v, k + 1)
    BY <1>0, <2>1, SameFrom
  <2> QED BY <1>1, <1>2, <2>2
<1>3. CASE IsShort(v[k])
  <2>1. k \in Bare(v)
    BY <1>3 DEF Outside
  <2>2. PlainAt(k) \in StandingFrom(v, k)
    <3>1. PlainAt(k) \in Standing(v)
      BY <2>1 DEF Standing
    <3> QED BY <1>0, <3>1 DEF StandingFrom, PlainAt
  <2>3. ASSUME NEW r \in LongNamed(v), r.at = k  PROVE FALSE
    <3>1. r.at \in ShortEntries(v) /\ r.longs \in 1..MaxLongs /\ LongRun(v, r.at, r.longs)
      BY DEF LongNamed
    <3> DEFINE n == r.longs
    <3>2. n \in 1..20 /\ n < k /\ n \in 1..MaxLongs /\ LongRun(v, k, n)
      BY <2>3, <3>1 DEF MaxLongs, LongRun
    <3> HIDE DEF n
    <3>3. k - n <= k - 1 /\ k - 1 < k /\ k - 1 \in Int /\ k # 1
      BY <1>0, <3>2
    <3>4. k \in ShortEntries(v)
      BY <2>3, <3>1
    <3>5. IsLong(v[k - 1])
      BY <3>2, <3>3, <3>4, InRun
    <3> QED BY <2>1, <3>3, <3>5 DEF Bare
  <2>4. ASSUME NEW r \in Standing(v), r.at >= k  PROVE r.at >= k + 1 \/ r = PlainAt(k)
    <3>1. r.at \in 1..Len(v)
      BY StandingAt
    <3>2. CASE r.at = k
      <4>1. r \notin LongNamed(v)
        BY <2>3, <3>2
      <4>2. PICK i \in Bare(v) : r = PlainAt(i)
        BY <4>1 DEF Standing
      <4> QED BY <3>2, <4>2 DEF PlainAt
    <3>3. CASE r.at # k
      BY <1>0, <2>4, <3>1, <3>3
    <3> QED BY <3>2, <3>3
  <2>5. ASSUME NEW r \in Standing(v), r.at >= k + 1  PROVE r.at >= k
    <3>1. r.at \in 1..Len(v)
      BY StandingAt
    <3> QED BY <1>0, <2>5, <3>1
  <2>6. StandingFrom(v, k) = StandingFrom(v, k + 1) \cup {PlainAt(k)}
    BY <2>2, <2>4, <2>5 DEF StandingFrom
  <2> QED BY <1>1, <1>3, <2>6
<1> QED BY <1>2, <1>3

(* The first slot of a name: all its long slots belong together, and the    *)
(* short one behind them has their checksum.                                *)
LEMMA ReadName ==
    ASSUME NEW v, IsDirectory(v), NEW at \in ShortEntries(v), NEW n \in 1..MaxLongs,
           LongRun(v, at, n), RecordsFrom(v)[at + 1] = StandingFrom(v, at + 1)
    PROVE  RecordsFrom(v)[at - n] = StandingFrom(v, at - n)
<1> DEFINE k == at - n
           new == [at |-> at, longs |-> n, name |-> v[at - 1].name]
<1>0. /\ at \in 1..Len(v) /\ Len(v) \in Nat /\ n \in 1..20
      /\ k \in 1..Len(v) + 1 /\ ~(k > Len(v)) /\ k \in DOMAIN v /\ k + n = at /\ k < at
  <2>1. /\ at \in 1..Len(v) /\ Len(v) \in Nat /\ n \in 1..20 /\ n < at
        /\ DOMAIN v = 1..Len(v)
    BY DEF ShortEntries, IsDirectory, MaxLongs, LongRun
  <2> QED BY <2>1
<1>1. \A i \in k..at - 1 :
          /\ IsLong(v[i]) /\ ~IsShort(v[i]) /\ v[i].sum = v[at].text /\ v[i].name = v[at - 1].name
          /\ LongCount(v[i]) = (IF i = k THEN n ELSE 0) /\ LongId(v[i]) = at - i
          /\ v[i].attr = "ext"
  <2>1. ASSUME NEW i \in k..at - 1
        PROVE  /\ IsLong(v[i]) /\ ~IsShort(v[i]) /\ v[i].sum = v[at].text
               /\ v[i].name = v[at - 1].name
               /\ LongCount(v[i]) = (IF i = k THEN n ELSE 0) /\ LongId(v[i]) = at - i
    <3>1. i \in Int /\ at - n <= i /\ i < at
      BY <1>0
    <3> QED BY <3>1, InRun
  <2> QED BY <2>1 DEF IsLong
<1>2. k \in k..at - 1 /\ at - 1 \in k..at - 1
  BY <1>0
<1>3. IsLong(v[k]) /\ LongCount(v[k]) = n /\ v[k].sum = v[at].text
  BY <1>1, <1>2
<1>4. RunLength(v, k) = n
  <2> DEFINE j == RunLength(v, k)
  <2>1. j \in 1..n /\ IsRunLength(v, k, j)
    BY <1>0, <1>3, RunLengthIs
  <2> HIDE DEF j
  <2>2. ASSUME j # n  PROVE FALSE
    <3>1. k + j \in k..at - 1 /\ ~(k + j > Len(v)) /\ at - (k + j) = n - j
      BY <1>0, <2>1, <2>2
    <3>2. Follows(v, k, j)
      BY <1>1, <1>3, <3>1 DEF Follows
    <3> QED BY <1>3, <2>1, <2>2, <3>1, <3>2 DEF IsRunLength
  <2> QED BY <2>2 DEF j
<1>5. IsShort(v[at]) /\ ~IsLong(v[at])
  BY ShortNotLong DEF ShortEntries
<1>6. LongAt(v, k, at) = new
  <2>1. \A i \in k..k + n - 1 : v[i].name = v[at - 1].name
    BY <1>0, <1>1
  <2>2. v[k].name = v[at - 1].name
    BY <1>1, <1>2
  <2>3. LongName(v, k, n) = v[at - 1].name
    BY <2>1, <2>2 DEF LongName
  <2> QED BY <1>3, <2>3 DEF LongAt
<1>7. RecordsFrom(v)[k] = StandingFrom(v, at + 1) \cup {new}
  <2> HIDE DEF new
  <2>1. RecordsFrom(v)[k] = ReadLong(v, RecordsFrom(v), k, k + n)
    <3> HIDE DEF k
    <3>1. RecordsFrom(v)[k] = ReadAt(v, RecordsFrom(v), k)
      BY <1>0, ReadSlot
    <3>2. LongCount(v[k]) # 0
      BY <1>0, <1>3
    <3> QED BY <1>0, <1>3, <1>4, <3>1, <3>2 DEF ReadAt
  <2>2. RecordsFrom(v)[k] = ReadLong(v, RecordsFrom(v), k, at)
    <3> HIDE DEF k
    <3> QED BY <1>0, <2>1
  <2>3. ~(at > Len(v)) /\ ~(at < k + n)
    BY <1>0
  <2> HIDE DEF k
  <2> QED BY <1>3, <1>5, <1>6, <2>2, <2>3 DEF ReadLong
<1>8. StandingFrom(v, k) = StandingFrom(v, at + 1) \cup {new}
  <2>1. StandingFrom(v, k) = StandingFrom(v, at)
    <3>1. k \in Nat /\ at \in Nat /\ k <= at
      BY <1>0
    <3> HIDE DEF k
    <3> QED BY <1>1, <3>1, SameFrom
  <2>2. new \in Standing(v)
    <3>1. v[at - 1].name \in {v[i].name : i \in DOMAIN v}
      BY <1>0, <1>2 DEF IsDirectory
    <3>2. new \in LongNamed(v)
      BY <3>1 DEF LongNamed
    <3> QED BY <3>2 DEF Standing
  <2>3. ASSUME NEW r \in Standing(v), r.at >= at  PROVE r.at >= at + 1 \/ r = new
    <3>1. r.at \in 1..Len(v)
      BY StandingAt
    <3>2. CASE r.at = at
      <4>1. at \notin Bare(v)
        <5>1. at # 1 /\ IsLong(v[at - 1])
          BY <1>0, <1>1, <1>2
        <5> QED BY <5>1 DEF Bare
      <4>2. r \in LongNamed(v)
        BY <3>2, <4>1 DEF Standing, PlainAt
      <4>3. /\ r = [at |-> r.at, longs |-> r.longs, name |-> r.name]
            /\ r.longs \in 1..MaxLongs /\ LongRun(v, at, r.longs) /\ r.name = v[at - 1].name
        BY <3>2, <4>2 DEF LongNamed
      <4>4. r.longs = n
        <5> DEFINE m == r.longs
        <5>1. m \in 1..MaxLongs /\ LongRun(v, at, m)
          BY <4>3
        <5> HIDE DEF m
        <5>2. m = n
          BY <5>1, OneRun
        <5> QED BY <5>2 DEF m
      <4> QED BY <3>2, <4>3, <4>4
    <3>3. CASE r.at # at
      BY <1>0, <2>3, <3>1, <3>3
    <3> QED BY <3>2, <3>3
  <2>4. ASSUME NEW r \in Standing(v), r.at >= at + 1  PROVE r.at >= at
    <3>1. r.at \in 1..Len(v)
      BY StandingAt
    <3> QED BY <1>0, <2>4, <3>1
  <2>5. StandingFrom(v, at) = StandingFrom(v, at + 1) \cup {new}
    <3>1. new.at >= at
      BY <1>0
    <3> HIDE DEF new
    <3> QED BY <2>2, <2>3, <2>4, <3>1 DEF StandingFrom
  <2> QED BY <2>1, <2>5
<1> QED BY <1>7, <1>8

(* Slots that lead to a free slot, or to the end, are no name.              *)
LEMMA ReadStray ==
    ASSUME NEW v, IsDirectory(v), Tidy(v), NEW k \in DOMAIN v, IsLong(v[k]), Stray(v, k),
           \A m \in k + 1..Len(v) + 1 :
               Outside(v, m) => RecordsFrom(v)[m] = StandingFrom(v, m)
    PROVE  RecordsFrom(v)[k] = StandingFrom(v, k)
<1>0. /\ k \in 1..Len(v) /\ Len(v) \in Nat /\ k \in 1..Len(v) + 1 /\ ~(k > Len(v))
      /\ DOMAIN v = 1..Len(v)
  BY DEF IsDirectory
<1>1. PICK b \in k..Len(v) : /\ b = Len(v) \/ IsFree(v[b + 1])
                             /\ \A m \in k + 1..b : IsLong(v[m]) /\ LongCount(v[m]) = 0
  BY DEF Stray
<1>2. b \in 1..Len(v) /\ k <= b
  BY <1>0
<1>2b. b < Len(v) => IsFree(v[b + 1])
  <2>1. b \in Int /\ Len(v) \in Int
    BY <1>0, <1>2
  <2>2. \A x, y \in Int : x < y => x # y
    OBVIOUS
  <2>3. b < Len(v) => b # Len(v)
    BY <2>1, <2>2, Zenon
  <2> QED BY <1>1, <2>3, Zenon
<1>3. \A m \in k..b : ~IsShort(v[m])
  <2>1. \A m \in k..b : m = k \/ m \in k + 1..b
    BY <1>0, <1>2
  <2> QED BY <1>1, <2>1, ShortNotLong
<1>4. b < Len(v) => ~IsShort(v[b + 1])
  BY <1>2b DEF IsShort
<1>5. ASSUME NEW m \in k + 1..b  PROVE Outside(v, m)
  <2>1. Stray(v, m)
    <3>1. b \in m..Len(v) /\ m + 1..b \subseteq k + 1..b
      BY <1>0, <1>2
    <3> QED BY <1>1, <3>1 DEF Stray
  <2>2. IsLong(v[m])
    BY <1>1
  <2> QED BY <2>1, <2>2, ShortNotLong DEF Outside
<1>6. Outside(v, b + 1)
  <2> SUFFICES ASSUME b + 1 \in DOMAIN v, IsLong(v[b + 1])
               PROVE  LongCount(v[b + 1]) # 0 \/ Stray(v, b + 1)
    <3>1. b + 1 \in DOMAIN v => b < Len(v)
      BY <1>0, <1>2
    <3> QED BY <1>4, <3>1 DEF Outside
  <2>0. b < Len(v) /\ b + 1 \in Int
    <3>1. b + 1 \in 1..Len(v)
      BY <1>0, Zenon
    <3> QED BY <1>0, <1>2, <3>1
  <2>1. IsFree(v[b + 1])
    BY <1>2b, <2>0
  <2>2. ~Covered(v, b + 1)
    BY <2>0, <2>1, InRun DEF Covered
  <2> QED BY <2>2 DEF Tidy
(* The parser stops among the strays, or right behind them.                 *)
<1>7. ASSUME NEW e \in k + 1..b + 1
      PROVE  /\ StandingFrom(v, k) = StandingFrom(v, e)
             /\ e <= Len(v) => RecordsFrom(v)[e] = StandingFrom(v, e)
  <2>1. k \in Nat /\ e \in Nat /\ k <= e /\ \A i \in k..e - 1 : ~IsShort(v[i])
    <3>1. k \in Nat /\ e \in Nat /\ k <= e /\ k..e - 1 \subseteq k..b
      BY <1>0, <1>2
    <3> QED BY <1>3, <3>1
  <2>2. StandingFrom(v, k) = StandingFrom(v, e)
    BY <2>1, SameFrom
  <2>3. Outside(v, e)
    <3>1. e = b + 1 \/ e \in k + 1..b
      BY <1>0, <1>2
    <3> QED BY <1>5, <1>6, <3>1
  <2>4. e \in k + 1..Len(v) + 1
    BY <1>0, <1>2
  <2> QED BY <2>2, <2>3, <2>4
<1>8. CASE LongCount(v[k]) = 0
  <2>1. RecordsFrom(v)[k] = RecordsFrom(v)[k + 1]
    BY <1>0, <1>8, ReadSlot DEF ReadAt
  <2>2. k + 1 \in k + 1..b + 1
    BY <1>0, <1>2
  <2>3. CASE k + 1 <= Len(v)
    BY <1>7, <2>1, <2>2, <2>3
  <2>4. CASE ~(k + 1 <= Len(v))
    <3>1. k + 1 \in 1..Len(v) + 1 /\ k + 1 > Len(v) /\ k + 1 \in Nat
      BY <1>0, <2>4
    <3>2. RecordsFrom(v)[k + 1] = {}
      BY <3>1, ReadSlot DEF ReadAt
    <3>3. StandingFrom(v, k + 1) = {}
      BY <3>1, FromEnd
    <3> QED BY <1>7, <2>1, <2>2, <3>2, <3>3
  <2> QED BY <2>3, <2>4
<1>9. CASE LongCount(v[k]) # 0
  <2> DEFINE n == LongCount(v[k])
             j == RunLength(v, k)
             e == k + j
  <2>1. n \in 1..20 /\ j \in 1..n /\ IsRunLength(v, k, j)
    BY <1>9, LongCountNat, RunLengthIs DEF MaxLongs
  <2>2. RecordsFrom(v)[k] = ReadLong(v, RecordsFrom(v), k, e)
    <3>1. RecordsFrom(v)[k] = ReadAt(v, RecordsFrom(v), k)
      BY <1>0, ReadSlot
    <3> QED BY <1>0, <1>9, <3>1 DEF ReadAt
  <2> HIDE DEF j, n
  <2>3. e \in k + 1..b + 1
    <3> SUFFICES ASSUME e > b + 1 PROVE FALSE
      BY <1>0, <1>2, <2>1
    <3> DEFINE m == b + 1 - k
    <3>1. m \in 1..j - 1 /\ k + m = b + 1 /\ m < n
      BY <1>0, <1>2, <2>1
    <3>2. b + 1 <= Len(v) /\ Follows(v, k, m)
      <4> HIDE DEF m
      <4>1. k + m <= Len(v) /\ Follows(v, k, m)
        BY <2>1, <3>1 DEF IsRunLength
      <4> QED BY <3>1, <4>1
    <3>3. IsFree(v[b + 1])
      <4>1. b < Len(v)
        BY <1>0, <1>2, <3>2
      <4> QED BY <1>2b, <4>1
    <3>4. LongId(v[b + 1]) \in 1..19
      <4> HIDE DEF m
      <4>1. LongId(v[k + m]) = n - m
        BY <3>2 DEF Follows, n
      <4>2. n - m \in 1..19
        BY <2>1, <3>1
      <4> QED BY <3>1, <4>1, <4>2
    <3>5. LongId(v[b + 1]) = 0 \/ LongId(v[b + 1]) = 165
      BY <3>3 DEF IsFree, LongId, LongLast, DELETED_FLAG
    <3>6. \A x \in 1..19 : x # 0 /\ x # 165
      OBVIOUS
    <3> QED BY <3>4, <3>5, <3>6, Zenon
  <2>4. e \in Nat
    BY <1>0, <2>3
  <2> HIDE DEF e
  <2>5. CASE e > Len(v)
    <3>1. StandingFrom(v, e) = {}
      BY <2>4, <2>5, FromEnd
    <3>2. RecordsFrom(v)[k] = {}
      BY <2>2, <2>5 DEF ReadLong
    <3> QED BY <1>7, <2>3, <3>1, <3>2
  <2>6. CASE ~(e > Len(v)) /\ (e < k + LongCount(v[k]) \/ IsLong(v[e]))
    <3>1. RecordsFrom(v)[k] = RecordsFrom(v)[e]
      BY <2>2, <2>6 DEF ReadLong
    <3>2. e <= Len(v)
      BY <1>0, <2>4, <2>6
    <3> QED BY <1>7, <2>3, <3>1, <3>2
  <2>7. CASE ~(e > Len(v)) /\ ~(e < k + LongCount(v[k]) \/ IsLong(v[e]))
    <3>1. e = b + 1 /\ e \in DOMAIN v /\ b < Len(v)
      <4>1. e \notin k + 1..b
        BY <1>1, <2>7
      <4> QED BY <1>0, <1>2, <2>3, <2>4, <2>7, <4>1
    <3>2. ~IsShort(v[e]) /\ ~IsLong(v[e])
      BY <1>4, <2>7, <3>1
    <3>3. RecordsFrom(v)[k] = RecordsFrom(v)[e + 1]
      BY <2>2, <2>7, <3>2 DEF ReadLong
    <3>4. Outside(v, e + 1)
      BY <3>1, <3>2, BehindShort
    <3>5. e + 1 \in k + 1..Len(v) + 1
      BY <1>0, <1>2, <2>3, <3>1
    <3>6. RecordsFrom(v)[e + 1] = StandingFrom(v, e + 1)
      BY <3>4, <3>5
    <3>7. StandingFrom(v, e) = StandingFrom(v, e + 1)
      <4>1. \A i \in e..(e + 1) - 1 : ~IsShort(v[i])
        BY <2>4, <3>2
      <4>2. e + 1 \in Nat /\ e <= e + 1
        BY <2>4
      <4> QED BY <2>4, <4>1, <4>2, SameFrom
    <3> QED BY <1>7, <2>3, <3>3, <3>6, <3>7
  <2> QED BY <2>5, <2>6, <2>7
<1> QED BY <1>8, <1>9

(* From a slot that is not inside a name, all that is behind it is read.    *)
LEMMA ReadOutside ==
    ASSUME NEW v, IsDirectory(v), Tidy(v), NEW j \in 1..Len(v) + 1, Outside(v, j)
    PROVE  RecordsFrom(v)[j] = StandingFrom(v, j)
<1> DEFINE N == Len(v) + 1
           T == {k \in 1..N : Outside(v, k) /\ RecordsFrom(v)[k] # StandingFrom(v, k)}
<1>0. Len(v) \in Nat /\ DOMAIN v = 1..Len(v) /\ N \in Nat
  BY DEF IsDirectory
<1>1. T = {}
  <2> SUFFICES ASSUME T # {} PROVE FALSE
    OBVIOUS
  <2>1. PICK k \in T : \A m \in T : k >= m
    <3>1. T \subseteq 1..N
      OBVIOUS
    <3> HIDE DEF T, N
    <3> QED BY <1>0, <3>1, Greatest
  <2>2. ASSUME NEW m \in k + 1..Len(v) + 1, Outside(v, m)
        PROVE  RecordsFrom(v)[m] = StandingFrom(v, m)
    <3>1. m \in 1..N /\ ~(k >= m)
      BY <1>0
    <3>2. m \notin T
      BY <2>1, <3>1
    <3> QED BY <2>2, <3>1, <3>2
  <2>3. Outside(v, k) /\ k \in 1..N
    OBVIOUS
  <2>4. CASE k > Len(v)
    <3>1. RecordsFrom(v)[k] = {}
      BY <2>3, <2>4, ReadSlot DEF ReadAt
    <3>2. StandingFrom(v, k) = {}
      BY <1>0, <2>3, <2>4, FromEnd
    <3> QED BY <3>1, <3>2
  <2>5. CASE k <= Len(v) /\ ~IsLong(v[k])
    <3>1. k \in DOMAIN v /\ k + 1 \in k + 1..Len(v) + 1
      BY <1>0, <2>3, <2>5
    <3>2. Outside(v, k + 1)
      BY <2>5, <3>1, BehindShort
    <3>3. RecordsFrom(v)[k + 1] = StandingFrom(v, k + 1)
      BY <2>2, <3>1, <3>2
    <3>4. RecordsFrom(v)[k] = StandingFrom(v, k)
      BY <2>3, <2>5, <3>1, <3>3, ReadShort
    <3> QED BY <3>4
  <2>6. CASE k <= Len(v) /\ IsLong(v[k]) /\ Stray(v, k)
    <3>1. k \in DOMAIN v
      BY <1>0, <2>3, <2>6
    <3>2. RecordsFrom(v)[k] = StandingFrom(v, k)
      <4> HIDE DEF T
      <4> QED BY <2>2, <2>6, <3>1, ReadStray
    <3> QED BY <3>2
  <2>7. CASE k <= Len(v) /\ IsLong(v[k]) /\ ~Stray(v, k)
    <3>1. k \in DOMAIN v /\ LongCount(v[k]) # 0 /\ Covered(v, k)
      BY <1>0, <2>3, <2>7 DEF Outside, Tidy
    <3>2. PICK at \in ShortEntries(v), n \in 1..MaxLongs :
              LongRun(v, at, n) /\ at - n <= k /\ k < at
      BY <3>1 DEF Covered
    <3>3. at \in 1..Len(v) /\ k = at - n
      <4>1. at \in 1..Len(v) /\ k \in Int
        BY <1>0, <2>3 DEF ShortEntries
      <4>2. LongCount(v[k]) = (IF k = at - n THEN n ELSE 0)
        BY <3>2, <4>1, InRun
      <4> QED BY <3>1, <4>1, <4>2
    <3>4. at + 1 \in k + 1..Len(v) + 1 /\ at \in DOMAIN v
      BY <1>0, <2>3, <3>2, <3>3
    <3>5. ~IsLong(v[at])
      BY ShortNotLong DEF ShortEntries
    <3>6. RecordsFrom(v)[at + 1] = StandingFrom(v, at + 1)
      BY <2>2, <3>4, <3>5, BehindShort
    <3>7. RecordsFrom(v)[at - n] = StandingFrom(v, at - n)
      BY <3>2, <3>6, ReadName
    <3> QED BY <3>3, <3>7
  <2> QED BY <1>0, <2>3, <2>4, <2>5, <2>6, <2>7
<1> QED BY <1>1

(* What the loop of fat_search_long and of __fat_readdir finds in a         *)
(* directory in which every long-name slot is part of a name or a stray:    *)
(* each name once, whole, at its short slot, and nothing else.              *)
THEOREM DirectoryRead ==
    ASSUME NEW v, IsDirectory(v), Tidy(v)
    PROVE  Records(v) = Standing(v)
<1>0. Len(v) \in Nat /\ DOMAIN v = 1..Len(v)
  BY DEF IsDirectory
<1>2. Outside(v, 1)
  <2> SUFFICES ASSUME 1 \in DOMAIN v
               PROVE  /\ IsLong(v[1]) => LongCount(v[1]) # 0 \/ Stray(v, 1)
                      /\ IsShort(v[1]) => 1 \in Bare(v)
    BY DEF Outside
  <2>1. IsShort(v[1]) => 1 \in Bare(v)
    BY DEF Bare, ShortEntries
  <2>2. ASSUME IsLong(v[1]), ~Stray(v, 1)  PROVE LongCount(v[1]) # 0
    <3>1. PICK at \in ShortEntries(v), n \in 1..MaxLongs :
              LongRun(v, at, n) /\ at - n <= 1 /\ 1 < at
      BY <2>2 DEF Tidy, Covered
    <3>2. LongCount(v[1]) = (IF 1 = at - n THEN n ELSE 0)
      BY <3>1, InRun
    <3>3. at \in Int /\ n \in 1..20 /\ n < at
      BY <1>0, <3>1 DEF ShortEntries, MaxLongs, LongRun
    <3> QED BY <3>1, <3>2, <3>3
  <2> QED BY <2>1, <2>2
<1>3. 1 \in 1..Len(v) + 1
  BY <1>0
<1>4. RecordsFrom(v)[1] = StandingFrom(v, 1)
  BY <1>2, <1>3, ReadOutside
<1>5. StandingFrom(v, 1) = Standing(v)
  <2>1. \A r \in Standing(v) : r.at >= 1
    BY StandingAt
  <2> QED BY <2>1 DEF StandingFrom
<1> QED BY <1>4, <1>5 DEF Records

-----------------------------------------------------------------------------
(* Writing and deleting a name.  The slots of one are p..q; the directory u *)
(* or w has nothing there (Blank), or some of its long slots, or all of it. *)

Blank(s) == IsFree(s) /\ ~IsLong(s)
Blanked(v, p, q) == \A i \in p..q : i \in DOMAIN v => Blank(v[i])
LongPiece(v, p, q, i) ==
    i < q /\ IsLong(v[i]) /\ LongId(v[i]) = q - i /\ (i # p => LongCount(v[i]) = 0)
Half(v, p, q) == \A i \in p..q : i \in DOMAIN v => Blank(v[i]) \/ LongPiece(v, p, q, i)
Full(v, p, q) ==
    /\ q \in ShortEntries(v)
    /\ IF p = q THEN q \in Bare(v) ELSE q - p \in 1..MaxLongs /\ LongRun(v, q, q - p)
Piece(v, p, q) ==
    \A i \in p..q : i \in DOMAIN v =>
        Blank(v[i]) \/ LongPiece(v, p, q, i) \/ (i = q /\ IsShort(v[i]))

(* Elsewhere they are the same, but one may be longer by free slots.        *)
Agree(u, w, p, q) ==
    \A i \in (DOMAIN u \cup DOMAIN w) \ (p..q) :
        IF i \in DOMAIN u THEN IF i \in DOMAIN w THEN u[i] = w[i] ELSE Blank(u[i])
        ELSE Blank(w[i])
Run(p, q) == p \in Nat /\ q \in Nat /\ 1 <= p /\ p <= q

LEMMA BlankNot == ASSUME NEW s, Blank(s)  PROVE ~IsShort(s) /\ ~IsLong(s)
  BY DEF Blank, IsShort

LEMMA AgreeTurned == ASSUME NEW u, NEW w, NEW p, NEW q, Agree(u, w, p, q)  PROVE Agree(w, u, p, q)
  BY DEF Agree

LEMMA WholeTidy == ASSUME NEW v, Whole(v)  PROVE IsDirectory(v) /\ Tidy(v) /\ Records(v) = Standing(v)
<1>1. IsDirectory(v) /\ Tidy(v)
  BY DEF Whole, Tidy
<1> QED BY <1>1, DirectoryRead

LEMMA HalfPiece ==
    ASSUME NEW v, NEW p, NEW q  PROVE (Blanked(v, p, q) => Half(v, p, q)) /\ (Half(v, p, q) => Piece(v, p, q))
  BY DEF Blanked, Half, Piece

LEMMA FullPiece ==
    ASSUME NEW v, IsDirectory(v), NEW p, NEW q, Run(p, q), Full(v, p, q)  PROVE Piece(v, p, q)
<1> SUFFICES ASSUME NEW i \in p..q, i \in DOMAIN v, i # q  PROVE LongPiece(v, p, q, i)
  BY DEF Piece, Full, ShortEntries
<1>1. /\ p \in Nat /\ q \in Nat /\ i \in Int /\ i < q /\ p <= i
      /\ q - (q - p) <= i /\ (i = q - (q - p) <=> i = p) /\ p # q
  BY DEF Run
<1>2. q - p \in 1..MaxLongs /\ LongRun(v, q, q - p) /\ q \in ShortEntries(v)
  BY <1>1 DEF Full
<1>3. IsLong(v[i]) /\ LongId(v[i]) = q - i /\ LongCount(v[i]) = (IF i = q - (q - p) THEN q - p ELSE 0)
  BY <1>1, <1>2, InRun
<1> QED BY <1>1, <1>3 DEF LongPiece

(* A name elsewhere has no slot in p..q.                                    *)
LEMMA RunApart ==
    ASSUME NEW v, IsDirectory(v), NEW p, NEW q, Run(p, q), Piece(v, p, q),
           NEW at \in ShortEntries(v), at \notin p..q, NEW n \in 1..MaxLongs, LongRun(v, at, n),
           NEW i \in Int, at - n <= i, i < at
    PROVE  i \notin p..q
<1> SUFFICES ASSUME i \in p..q PROVE FALSE
  OBVIOUS
<1>1. i \in DOMAIN v /\ IsLong(v[i]) /\ ~IsShort(v[i]) /\ LongId(v[i]) = at - i /\ at \in Int
  <2>1. /\ at \in 1..Len(v) /\ i \in 1..Len(v)
        /\ IsLong(v[i]) /\ ~IsShort(v[i]) /\ LongId(v[i]) = at - i
    BY InRun
  <2> QED BY <2>1 DEF IsDirectory
<1>2. LongPiece(v, p, q, i)
  BY <1>1, BlankNot DEF Piece
<1>3. at - i = q - i /\ q \in Int /\ p \in Int /\ p <= q
  BY <1>1, <1>2 DEF LongPiece, Run
<1> QED BY <1>1, <1>3

LEMMA RunStays ==
    ASSUME NEW u, NEW w, IsDirectory(u), IsDirectory(w), NEW p, NEW q, Run(p, q),
           Piece(u, p, q), Agree(u, w, p, q),
           NEW at \in ShortEntries(u), at \notin p..q
    PROVE  /\ at \in ShortEntries(w)
           /\ \A n \in 1..MaxLongs : LongRun(u, at, n) =>
                LongRun(w, at, n) /\ w[at - 1].name = u[at - 1].name
           /\ at \in Bare(u) /\ Piece(w, p, q) => at \in Bare(w)
<1>1. at \in DOMAIN u /\ IsShort(u[at])
  BY DEF ShortEntries
<1>2. at \in DOMAIN w /\ u[at] = w[at]
  BY <1>1, BlankNot DEF Agree
<1>3. at \in ShortEntries(w)
  BY <1>1, <1>2 DEF ShortEntries
<1>4. at \in 1..Len(u) /\ at \in 1..Len(w) /\ Len(u) \in Nat /\ Len(w) \in Nat
  BY <1>1, <1>2 DEF IsDirectory
<1>5. ASSUME NEW n \in 1..MaxLongs, LongRun(u, at, n)
      PROVE  LongRun(w, at, n) /\ w[at - 1].name = u[at - 1].name
  <2>0. n \in 1..20
    BY DEF MaxLongs
  <2>1. ASSUME NEW j \in 1..n  PROVE u[at - j] = w[at - j]
    <3>1. at - j \in Int /\ at - n <= at - j /\ at - j < at
      BY <1>4, <2>0
    <3>2. at - j \notin p..q
      BY <1>5, <3>1, RunApart
    <3>3. at - j \in 1..Len(u)
      BY <1>5, <3>1, InRun
    <3>4. at - j \in 1..Len(w)
      BY <1>4, <3>1, <3>3
    <3>5. at - j \in DOMAIN u /\ at - j \in DOMAIN w
      BY <3>3, <3>4 DEF IsDirectory
    <3> QED BY <3>2, <3>5 DEF Agree
  <2>2. 1 \in 1..n
    BY <2>0
  <2> QED BY <1>2, <1>5, <2>1, <2>2 DEF LongRun
<1>6. ASSUME at \in Bare(u), Piece(w, p, q)  PROVE at \in Bare(w)
  <2>1. CASE at = 1
    BY <1>3, <2>1 DEF Bare
  <2>2. CASE at # 1
    <3>1. at - 1 \in DOMAIN u /\ at - 1 \in DOMAIN w
      <4>1. at - 1 \in 1..Len(u) /\ at - 1 \in 1..Len(w)
        BY <1>4, <2>2
      <4> QED BY <4>1 DEF IsDirectory
    <3>2. CASE at - 1 \notin p..q
      <4>1. u[at - 1] = w[at - 1]
        BY <3>1, <3>2 DEF Agree
      <4> QED BY <1>3, <1>6, <2>2, <4>1 DEF Bare
    <3>3. CASE at - 1 \in p..q
      <4>1. ~(at - 1 < q)
        BY <1>4, <3>3 DEF Run
      <4>2. ~IsLong(w[at - 1])
        BY <1>6, <3>1, <3>3, <4>1, BlankNot, ShortNotLong DEF Piece, LongPiece
      <4> QED BY <1>3, <4>2 DEF Bare
    <3> QED BY <3>2, <3>3
  <2> QED BY <2>1, <2>2
<1> QED BY <1>3, <1>5, <1>6

(* So both hold the same names elsewhere.                                   *)
LEMMA KeptElsewhere ==
    ASSUME NEW u, NEW w, IsDirectory(u), IsDirectory(w), NEW p, NEW q, Run(p, q),
           Piece(u, p, q), Piece(w, p, q), Agree(u, w, p, q),
           NEW r \in Standing(u), r.at \notin p..q
    PROVE  r \in Standing(w)
<1>1. r.at \in ShortEntries(u)
  BY StandingAt
<1>2. CASE r \in LongNamed(u)
  <2> DEFINE n == r.longs
  <2>1. /\ r = [at |-> r.at, longs |-> n, name |-> r.name] /\ n \in 1..MaxLongs
        /\ LongRun(u, r.at, n) /\ r.name = u[r.at - 1].name
    BY <1>2 DEF LongNamed
  <2> HIDE DEF n
  <2>2. r.at \in ShortEntries(w) /\ LongRun(w, r.at, n) /\ w[r.at - 1].name = r.name
    BY <1>1, <2>1, RunStays
  <2>3. r.at - 1 \in DOMAIN w
    <3>1. n < r.at /\ n \in 1..20 /\ r.at \in 1..Len(w) /\ Len(w) \in Nat
      BY <2>1, <2>2 DEF LongRun, MaxLongs, ShortEntries, IsDirectory
    <3>2. r.at - 1 \in 1..Len(w)
      BY <3>1
    <3> QED BY <3>2 DEF IsDirectory
  <2>4. r \in [at : ShortEntries(w), longs : 1..MaxLongs, name : {w[k].name : k \in DOMAIN w}]
    BY <2>1, <2>2, <2>3
  <2>5. r.longs = n
    BY DEF n
  <2> QED BY <2>2, <2>4, <2>5 DEF LongNamed, Standing
<1>3. CASE r \notin LongNamed(u)
  <2>1. PICK k \in Bare(u) : r = PlainAt(k)
    BY <1>3 DEF Standing
  <2>2. r.at = k
    BY <2>1 DEF PlainAt
  <2>3. k \in Bare(w)
    BY <1>1, <2>2, RunStays
  <2> QED BY <2>1, <2>3 DEF Standing
<1> QED BY <1>2, <1>3

LEMMA SameElsewhere ==
    ASSUME NEW u, NEW w, IsDirectory(u), IsDirectory(w), NEW p, NEW q, Run(p, q),
           Piece(u, p, q), Piece(w, p, q), Agree(u, w, p, q)
    PROVE  {r \in Standing(u) : r.at \notin p..q} = {r \in Standing(w) : r.at \notin p..q}
  BY KeptElsewhere, AgreeTurned

(* There is no name in p..q unless all of it is there.                      *)
LEMMA NoneInHalf ==
    ASSUME NEW v, IsDirectory(v), NEW p, NEW q, Half(v, p, q), NEW r \in Standing(v)
    PROVE  r.at \notin p..q
<1>1. r.at \in DOMAIN v /\ IsShort(v[r.at])
  BY StandingAt DEF ShortEntries
<1> QED BY <1>1, BlankNot, ShortNotLong DEF Half, LongPiece

(* What is found where all of a name is there: that name.                   *)
NameAt(v, p, q) == IF p = q THEN PlainAt(q) ELSE [at |-> q, longs |-> q - p, name |-> v[q - 1].name]

LEMMA ShortInFull ==
    ASSUME NEW v, IsDirectory(v), NEW p, NEW q, Run(p, q), Full(v, p, q),
           NEW at \in ShortEntries(v), at \in p..q
    PROVE  at = q
<1>1. at \in DOMAIN v /\ IsShort(v[at])
  BY DEF ShortEntries
<1> QED BY <1>1, FullPiece, BlankNot, ShortNotLong DEF Piece, LongPiece

LEMMA LongInFull ==
    ASSUME NEW v, IsDirectory(v), NEW p, NEW q, Run(p, q), Full(v, p, q),
           NEW n \in 1..MaxLongs, LongRun(v, q, n)
    PROVE  p # q /\ n = q - p
<1>1. q \in ShortEntries(v) /\ q \in Int /\ n \in 1..20 /\ n < q
  BY DEF Full, Run, MaxLongs, LongRun
<1>2. q - 1 \in Int /\ q - n <= q - 1 /\ q - 1 < q /\ q # 1
  BY <1>1
<1>3. IsLong(v[q - 1])
  BY <1>1, <1>2, InRun
<1>4. p # q
  BY <1>2, <1>3 DEF Full, Bare
<1>5. q - p \in 1..MaxLongs /\ LongRun(v, q, q - p)
  BY <1>4 DEF Full
<1> QED BY <1>1, <1>4, <1>5, OneRun

LEMMA OneInFull ==
    ASSUME NEW v, IsDirectory(v), NEW p, NEW q, Run(p, q), Full(v, p, q)
    PROVE  {r \in Standing(v) : r.at \in p..q} = {NameAt(v, p, q)}
<1>0. p \in Nat /\ q \in Nat /\ 1 <= p /\ p <= q /\ q \in p..q /\ q \in ShortEntries(v)
  BY DEF Run, Full
<1>1. NameAt(v, p, q) \in Standing(v)
  <2>1. CASE p = q
    BY <2>1 DEF NameAt, Full, Standing
  <2>2. CASE p # q
    <3>1. q - p \in 1..MaxLongs /\ LongRun(v, q, q - p)
      BY <2>2 DEF Full
    <3>2. q - 1 \in DOMAIN v
      <4>1. q \in 1..Len(v) /\ Len(v) \in Nat /\ q # 1
        BY <1>0, <2>2 DEF ShortEntries, IsDirectory
      <4>2. q - 1 \in 1..Len(v)
        BY <4>1
      <4> QED BY <4>2 DEF IsDirectory
    <3>3. NameAt(v, p, q) \in LongNamed(v)
      BY <1>0, <2>2, <3>1, <3>2 DEF NameAt, LongNamed
    <3> QED BY <3>3 DEF Standing
  <2> QED BY <2>1, <2>2
<1>2. NameAt(v, p, q).at = q
  BY DEF NameAt, PlainAt
<1>3. ASSUME NEW r \in Standing(v), r.at \in p..q  PROVE r = NameAt(v, p, q)
  <2>1. r.at = q
    BY <1>3, StandingAt, ShortInFull
  <2>2. CASE r \in LongNamed(v)
    <3> DEFINE n == r.longs
    <3>1. /\ r = [at |-> q, longs |-> n, name |-> r.name] /\ n \in 1..MaxLongs
          /\ LongRun(v, q, n) /\ r.name = v[q - 1].name
      BY <2>1, <2>2 DEF LongNamed
    <3> HIDE DEF n
    <3>2. p # q /\ n = q - p
      BY <3>1, LongInFull
    <3> QED BY <3>1, <3>2 DEF NameAt
  <2>3. CASE r \notin LongNamed(v)
    <3>1. PICK k \in Bare(v) : r = PlainAt(k)
      BY <2>3 DEF Standing
    <3>2. q \in Bare(v) /\ r = PlainAt(q)
      BY <2>1, <3>1 DEF PlainAt
    <3>3. p = q
      <4> SUFFICES ASSUME p # q PROVE FALSE
        OBVIOUS
      <4>1. q - p \in 1..MaxLongs /\ LongRun(v, q, q - p)
        BY DEF Full
      <4>2. q - 1 \in Int /\ q - (q - p) <= q - 1 /\ q - 1 < q /\ q # 1
        BY <1>0
      <4>3. IsLong(v[q - 1])
        BY <1>0, <4>1, <4>2, InRun
      <4> QED BY <3>2, <4>2, <4>3 DEF Bare
    <3> QED BY <3>2, <3>3 DEF NameAt
  <2> QED BY <2>2, <2>3
<1> QED BY <1>0, <1>1, <1>2, <1>3

(* A long slot elsewhere stays part of its name.                            *)
LEMMA CoveredElsewhere ==
    ASSUME NEW u, NEW w, Whole(u), IsDirectory(w), NEW p, NEW q, Run(p, q),
           Half(u, p, q) \/ Full(u, p, q), Agree(u, w, p, q),
           NEW k \in DOMAIN w, k \notin p..q, IsLong(w[k])
    PROVE  Covered(w, k)
<1>0. IsDirectory(u) /\ Piece(u, p, q)
  BY HalfPiece, FullPiece DEF Whole
<1>1. k \in DOMAIN u /\ u[k] = w[k]
  BY BlankNot DEF Agree
<1>2. PICK at \in ShortEntries(u), n \in 1..MaxLongs : LongRun(u, at, n) /\ at - n <= k /\ k < at
  BY <1>1 DEF Whole, Covered
<1>3. at \notin p..q
  <2> SUFFICES ASSUME at \in p..q PROVE FALSE
    OBVIOUS
  <2>1. at \in DOMAIN u /\ IsShort(u[at])
    BY DEF ShortEntries
  <2>2. ~Half(u, p, q)
    BY <2>1, BlankNot, ShortNotLong DEF Half, LongPiece
  <2>3. Full(u, p, q) /\ at = q
    BY <1>0, <2>2, ShortInFull
  <2>4. n = q - p
    BY <1>0, <1>2, <2>3, LongInFull
  <2>5. p \in Int /\ q \in Int /\ q - (q - p) <= k /\ k < q /\ k \in Int
    BY <1>1, <1>0, <1>2, <2>3, <2>4 DEF Run, IsDirectory
  <2>6. k \in p..q
    BY <2>5
  <2> QED BY <2>6
<1>4. at \in ShortEntries(w) /\ LongRun(w, at, n)
  BY <1>0, <1>2, <1>3, RunStays
<1> QED BY <1>2, <1>4 DEF Covered

(* Half of a name are strays, and no name.                                  *)
LEMMA HalfStrays ==
    ASSUME NEW v, IsDirectory(v), NEW p, NEW q, Run(p, q), Half(v, p, q),
           NEW k \in p..q, k \in DOMAIN v, IsLong(v[k])
    PROVE  Stray(v, k)
<1> DEFINE N == Len(v)
           S == {i \in k + 1..N + 1 : i = N + 1 \/ Blank(v[i])}
<1>0. /\ N \in Nat /\ DOMAIN v = 1..N /\ k \in 1..N /\ k \in Int
      /\ p \in Nat /\ q \in Nat /\ 1 <= p /\ p <= q /\ p <= k
  BY DEF IsDirectory, Run
<1>1. k < q
  BY BlankNot DEF Half, LongPiece
<1>2. N + 1 \in S /\ S \subseteq Nat
  BY <1>0
<1>3. PICK e \in S : \A m \in S : e <= m
  <2> HIDE DEF S
  <2> QED BY <1>2, Least
<1>4. e \in k + 1..N + 1 /\ (e = N + 1 \/ Blank(v[e])) /\ e <= N + 1
  BY <1>0, <1>2, <1>3
<1>5. e <= q
  <2>1. CASE q <= N
    <3>1. q \in p..q /\ q \in DOMAIN v /\ q \in k + 1..N + 1
      BY <1>0, <1>1, <2>1
    <3>2. ~LongPiece(v, p, q, q)
      BY <1>0 DEF LongPiece
    <3>3. Blank(v[q])
      BY <3>1, <3>2 DEF Half
    <3> QED BY <1>3, <3>1, <3>3
  <2>2. CASE ~(q <= N)
    BY <1>0, <1>4, <2>2
  <2> QED BY <2>1, <2>2
<1> DEFINE b == e - 1
<1>6. b \in k..N /\ b \in Int /\ b + 1 = e
  BY <1>0, <1>4
<1>7. b = N \/ IsFree(v[b + 1])
  <2>1. e = N + 1 => b = N
    BY <1>0, <1>4
  <2>2. Blank(v[e]) => IsFree(v[b + 1])
    BY <1>6 DEF Blank
  <2> QED BY <1>4, <2>1, <2>2
<1> HIDE DEF b
<1>8. ASSUME NEW m \in k + 1..b  PROVE IsLong(v[m]) /\ LongCount(v[m]) = 0
  <2>1. m \in p..q /\ m \in 1..N /\ m \in k + 1..N + 1 /\ ~(e <= m) /\ m # p /\ ~(m = N + 1)
    BY <1>0, <1>4, <1>5, <1>6
  <2>2. ~Blank(v[m])
    <3>1. m \notin S
      BY <1>3, <2>1
    <3> QED BY <2>1, <3>1
  <2>3. m \in DOMAIN v
    BY <1>0, <2>1
  <2> QED BY <2>1, <2>2, <2>3 DEF Half, LongPiece
<1> QED BY <1>6, <1>7, <1>8 DEF Stray

LEMMA HalfNames ==
    ASSUME NEW u, NEW w, Whole(u), IsDirectory(w), NEW p, NEW q, Run(p, q),
           Half(u, p, q) \/ Full(u, p, q), Half(w, p, q), Agree(u, w, p, q)
    PROVE  Tidy(w) /\ Records(w) = {r \in Records(u) : r.at \notin p..q}
<1>0. IsDirectory(u) /\ Piece(u, p, q) /\ Piece(w, p, q) /\ Records(u) = Standing(u)
  BY HalfPiece, FullPiece, WholeTidy DEF Whole
<1>1. Tidy(w)
  BY HalfStrays, CoveredElsewhere DEF Tidy
<1>2. Records(w) = Standing(w)
  BY <1>1, DirectoryRead
<1>3. Standing(w) = {r \in Standing(w) : r.at \notin p..q}
  BY NoneInHalf
<1>4. {r \in Standing(u) : r.at \notin p..q} = {r \in Standing(w) : r.at \notin p..q}
  BY <1>0, SameElsewhere
<1> QED BY <1>0, <1>1, <1>2, <1>3, <1>4

LEMMA BlankedWhole ==
    ASSUME NEW u, NEW w, Whole(u), IsDirectory(w), NEW p, NEW q, Run(p, q),
           Half(u, p, q) \/ Full(u, p, q), Blanked(w, p, q), Agree(u, w, p, q)
    PROVE  Whole(w)
  BY CoveredElsewhere, BlankNot DEF Whole, Blanked

LEMMA FullNames ==
    ASSUME NEW u, NEW w, Whole(u), IsDirectory(w), NEW p, NEW q, Run(p, q),
           Blanked(u, p, q), Full(w, p, q), Agree(u, w, p, q)
    PROVE  Whole(w) /\ Records(w) = Records(u) \cup {NameAt(w, p, q)}
<1>0. /\ IsDirectory(u) /\ Piece(u, p, q) /\ Piece(w, p, q) /\ Half(u, p, q)
      /\ Records(u) = Standing(u)
  BY HalfPiece, FullPiece, WholeTidy DEF Whole
<1>1. Whole(w)
  <2> SUFFICES ASSUME NEW k \in DOMAIN w, IsLong(w[k])  PROVE Covered(w, k)
    BY DEF Whole
  <2>1. CASE k \notin p..q
    BY <1>0, <2>1, CoveredElsewhere
  <2>2. CASE k \in p..q
    <3>1. q \in ShortEntries(w) /\ k # q
      BY ShortNotLong DEF Full, ShortEntries
    <3>2. p \in Int /\ q \in Int /\ k \in Int /\ k < q /\ p # q /\ q - (q - p) <= k
      BY <2>2, <3>1 DEF Run
    <3>3. q - p \in 1..MaxLongs /\ LongRun(w, q, q - p)
      BY <3>2 DEF Full
    <3> QED BY <3>1, <3>2, <3>3 DEF Covered
  <2> QED BY <2>1, <2>2
<1>2. Records(w) = Standing(w)
  BY <1>1, WholeTidy
<1>3. {r \in Standing(u) : r.at \notin p..q} = {r \in Standing(w) : r.at \notin p..q}
  BY <1>0, SameElsewhere
<1>4. Standing(u) = {r \in Standing(u) : r.at \notin p..q}
  BY <1>0, NoneInHalf
<1>5. {r \in Standing(w) : r.at \in p..q} = {NameAt(w, p, q)}
  BY OneInFull
<1> QED BY <1>0, <1>1, <1>2, <1>3, <1>4, <1>5

-----------------------------------------------------------------------------
(* The slots that vfat_build_slots gives for a name.                        *)
Writable(n, a, attr) ==
    Form[n].longs \in 0..MaxLongs /\ a \in ShortTexts /\ attr \in {"file", "dir"}
New(n, p) == [at |-> p + Form[n].longs, longs |-> Form[n].longs,
              name |-> IF Form[n].longs = 0 THEN None ELSE n]

LEMMA BuiltSlot ==
    ASSUME NEW n, NEW a, NEW attr, NEW c, Writable(n, a, attr), NEW j \in 1..Form[n].longs + 1
    PROVE  BuildSlots(n, a, attr, c)[j] =
               IF j <= Form[n].longs THEN Long(n, Form[n].longs + 1 - j, j = 1, a)
               ELSE Short(a, attr, c)
  BY DEF BuildSlots

LEMMA BuiltLong ==
    ASSUME NEW n, NEW a, NEW attr, NEW c, Writable(n, a, attr), NEW j \in 1..Form[n].longs,
           NEW s, s = BuildSlots(n, a, attr, c)[j]
    PROVE  /\ s.attr = "ext" /\ s.name = n /\ s.sum = a
           /\ s.text[1] = (IF j = 1 THEN LongLast + Form[n].longs ELSE Form[n].longs + 1 - j)
           /\ IsLong(s) /\ LongId(s) = Form[n].longs + 1 - j
           /\ j # 1 => LongCount(s) = 0
<1> DEFINE k == Form[n].longs
<1>1. k \in 0..20 /\ j \in 1..k /\ j \in 1..k + 1 /\ j <= k /\ k + 1 - j \in 1..20
      /\ (j = 1 => k + 1 - j = k)
  BY DEF Writable, MaxLongs
<1>2. s = Long(n, k + 1 - j, j = 1, a)
  <2> HIDE DEF k
  <2>1. j \in 1..Form[n].longs + 1 /\ j <= Form[n].longs
    BY <1>1 DEF k
  <2> QED BY <2>1, BuiltSlot DEF k
<1> HIDE DEF k
<1>3. /\ s.attr = "ext" /\ s.name = n /\ s.sum = a
      /\ s.text[1] = (IF j = 1 THEN LongLast + (k + 1 - j) ELSE k + 1 - j)
  BY <1>2 DEF Long
<1>4. s.text[1] = (IF j = 1 THEN LongLast + k ELSE k + 1 - j)
  BY <1>1, <1>3
<1>5. IsLong(s)
  BY <1>1, <1>3, <1>4 DEF IsLong, LongLast, DELETED_FLAG
<1>6. LongId(s) = k + 1 - j
  BY <1>1, <1>4 DEF LongId, LongLast
<1>7. j # 1 => LongCount(s) = 0
  BY <1>1, <1>4 DEF LongCount, LongLast, MaxLongs
<1> QED BY <1>3, <1>4, <1>5, <1>6, <1>7 DEF k

LEMMA BuiltShort ==
    ASSUME NEW n, NEW a, NEW attr, NEW c, Writable(n, a, attr),
           NEW s, s = BuildSlots(n, a, attr, c)[Form[n].longs + 1]
    PROVE  s.text = a /\ IsShort(s)
<1>1. Form[n].longs + 1 \in 1..Form[n].longs + 1 /\ ~(Form[n].longs + 1 <= Form[n].longs)
  BY DEF Writable, MaxLongs
<1>2. s = Short(a, attr, c)
  BY <1>1, BuiltSlot
<1> QED BY <1>2 DEF Short, IsShort, IsFree, Writable, ShortTexts

LEMMA FreeBlank ==
    ASSUME NEW v, Whole(v), NEW p, NEW q, \A i \in p..q : i \in DOMAIN v => IsFree(v[i])
    PROVE  Blanked(v, p, q)
<1> SUFFICES ASSUME NEW i \in p..q, i \in DOMAIN v, IsLong(v[i])  PROVE FALSE
  BY DEF Blanked, Blank
<1>1. Covered(v, i) /\ IsFree(v[i]) /\ i \in Int
  BY DEF Whole, IsDirectory
<1>2. PICK at \in ShortEntries(v), n \in 1..MaxLongs : LongRun(v, at, n) /\ at - n <= i /\ i < at
  BY <1>1 DEF Covered
<1> QED BY <1>1, <1>2, InRun DEF Whole

LEMMA WrittenFull ==
    ASSUME NEW v, NEW w, Whole(v), IsDirectory(w),
           NEW n, NEW a, NEW attr, NEW c, Writable(n, a, attr), NEW p \in Nat \ {0},
           Blanked(v, p, p + Form[n].longs), Agree(v, w, p, p + Form[n].longs),
           \A j \in 1..Form[n].longs + 1 :
               p + j - 1 \in DOMAIN w /\ w[p + j - 1] = BuildSlots(n, a, attr, c)[j]
    PROVE  /\ Full(w, p, p + Form[n].longs)
           /\ NameAt(w, p, p + Form[n].longs) = New(n, p)
<1> DEFINE k == Form[n].longs
           q == p + k
<1>0. k \in 0..20 /\ q \in Nat /\ p <= q /\ q - p = k /\ p \in Nat /\ 1 <= p /\ p + (k + 1) - 1 = q
  BY DEF Writable, MaxLongs
<1>1. q \in DOMAIN w /\ w[q] = BuildSlots(n, a, attr, c)[k + 1]
  <2>1. k + 1 \in 1..k + 1
    BY <1>0
  <2> HIDE DEF q
  <2> QED BY <1>0, <2>1
<1>2. w[q].text = a /\ q \in ShortEntries(w)
  <2> HIDE DEF q
  <2> QED BY <1>1, BuiltShort DEF ShortEntries
<1>3. ASSUME NEW j \in 1..k
      PROVE  /\ w[q - j].attr = "ext" /\ w[q - j].sum = w[q].text /\ w[q - j].name = n
             /\ w[q - j].text[1] = (IF j = k THEN LongLast + j ELSE j)
  <2> DEFINE i == k + 1 - j
  <2>1. /\ i \in 1..k /\ i \in 1..k + 1 /\ p + i - 1 = q - j /\ (i = 1 <=> j = k)
        /\ k + 1 - i = j
    BY <1>0
  <2> HIDE DEF i, q
  <2>2. w[q - j] = BuildSlots(n, a, attr, c)[i]
    BY <2>1
  <2>3. /\ w[q - j].attr = "ext" /\ w[q - j].name = n /\ w[q - j].sum = a
        /\ w[q - j].text[1] = (IF i = 1 THEN LongLast + k ELSE k + 1 - i)
    BY <2>1, <2>2, BuiltLong
  <2>4. w[q - j].text[1] = (IF j = k THEN LongLast + j ELSE j)
    BY <2>1, <2>3
  <2> QED BY <1>2, <2>3, <2>4
<1>4. CASE k = 0
  <2>1. p = q
    BY <1>0, <1>4
  <2>2. ASSUME q # 1, IsLong(w[q - 1])  PROVE FALSE
    <3>1. q - 1 \in DOMAIN w /\ q - 1 \notin p..q
      <4>1. q \in 1..Len(w) /\ Len(w) \in Nat /\ DOMAIN w = 1..Len(w)
        BY <1>1 DEF IsDirectory
      <4> HIDE DEF q
      <4>2. q - 1 \in 1..Len(w)
        BY <2>2, <4>1
      <4>3. q - 1 \notin p..q
        BY <1>0, <2>1, <2>2
      <4> QED BY <4>1, <4>2, <4>3
    <3> HIDE DEF q
    <3>2. q - 1 \in DOMAIN v /\ IsLong(v[q - 1])
      BY <2>2, <3>1, BlankNot DEF Agree, q
    <3>3. PICK at \in ShortEntries(v), m \in 1..MaxLongs :
              LongRun(v, at, m) /\ at - m <= q - 1 /\ q - 1 < at
      BY <3>2 DEF Whole, Covered
    <3>4. at \in DOMAIN v /\ at \in Int /\ IsShort(v[at]) /\ m \in 1..20
      BY DEF ShortEntries, Whole, IsDirectory, MaxLongs
    <3>5. CASE at = q
      <4>1. at \in p..q
        BY <1>0, <3>5
      <4> QED BY <3>4, <4>1, BlankNot DEF Blanked, q
    <3>6. CASE at # q
      <4>1. at - m <= q /\ q < at /\ q \in Int /\ q \in p..q
        BY <1>0, <3>3, <3>4, <3>6
      <4>2. IsLong(v[q]) /\ q \in DOMAIN v
        BY <3>3, <4>1, InRun DEF Whole, IsDirectory
      <4> QED BY <4>1, <4>2, BlankNot DEF Blanked, q
    <3> QED BY <3>5, <3>6
  <2>3. q \in Bare(w)
    BY <1>2, <2>2 DEF Bare
  <2>4. New(n, p) = PlainAt(q)
    BY <1>4 DEF New, PlainAt
  <2> QED BY <1>2, <2>1, <2>3, <2>4 DEF Full, NameAt
<1>5. CASE k # 0
  <2>1. p # q /\ k \in 1..MaxLongs /\ k < q /\ 1 \in 1..k
    BY <1>0, <1>5 DEF MaxLongs
  <2>2. w[q - 1].name = n
    BY <1>3, <2>1
  <2>3. LongRun(w, q, k)
    BY <1>3, <2>1, <2>2 DEF LongRun
  <2>4. Full(w, p, q)
    <3> HIDE DEF q
    <3> QED BY <1>0, <1>2, <2>1, <2>3 DEF Full
  <2>5. NameAt(w, p, q) = [at |-> q, longs |-> k, name |-> n]
    <3> HIDE DEF q
    <3> QED BY <1>0, <2>1, <2>2 DEF NameAt
  <2>6. New(n, p) = [at |-> q, longs |-> k, name |-> n]
    BY <1>5 DEF New
  <2> QED BY <2>4, <2>5, <2>6
<1> QED BY <1>4, <1>5

LEMMA WrittenRun ==
    ASSUME NEW n, NEW a, NEW attr, Writable(n, a, attr), NEW p \in Nat \ {0}
    PROVE  Run(p, p + Form[n].longs)
<1>1. Form[n].longs \in 0..20
  BY DEF Writable, MaxLongs
<1> QED BY <1>1 DEF Run

(* A name that is written into free slots of a directory without strays,    *)
(* one that has grown by free slots too, is read back as it was written,    *)
(* and nothing else is read differently (fat_add_entries,                   *)
(* vfat_build_slots, fat_search_long).                                      *)
THEOREM NameAdded ==
    ASSUME NEW v, NEW w, Whole(v), IsDirectory(w),
           NEW n, NEW a, NEW attr, NEW c, Writable(n, a, attr), NEW p \in Nat \ {0},
           \A i \in p..p + Form[n].longs : i \in DOMAIN v => IsFree(v[i]),
           Agree(v, w, p, p + Form[n].longs),
           \A j \in 1..Form[n].longs + 1 :
               p + j - 1 \in DOMAIN w /\ w[p + j - 1] = BuildSlots(n, a, attr, c)[j]
    PROVE  Whole(w) /\ Records(w) = Records(v) \cup {New(n, p)}
<1>1. Blanked(v, p, p + Form[n].longs)
  BY FreeBlank
<1>2. Full(w, p, p + Form[n].longs) /\ NameAt(w, p, p + Form[n].longs) = New(n, p)
  BY <1>1, WrittenFull
<1>3. Run(p, p + Form[n].longs)
  BY WrittenRun
<1> QED BY <1>1, <1>2, <1>3, FullNames

(* While its slots reach the disk or the buffers in any order, the short    *)
(* one last, nobody sees a new name or misses an old one, be it in the      *)
(* directory or, before a new cluster is linked, cut off by its end.        *)
THEOREM NothingHalfAdded ==
    ASSUME NEW v, NEW w, Whole(v), IsDirectory(w),
           NEW n, NEW a, NEW attr, NEW c, Writable(n, a, attr), NEW p \in Nat \ {0},
           \A i \in p..p + Form[n].longs : i \in DOMAIN v => IsFree(v[i]),
           Agree(v, w, p, p + Form[n].longs),
           \A j \in 1..Form[n].longs + 1 : p + j - 1 \in DOMAIN w =>
               \/ Blank(w[p + j - 1])
               \/ j <= Form[n].longs /\ w[p + j - 1] = BuildSlots(n, a, attr, c)[j]
    PROVE  Records(w) = Records(v)
<1> DEFINE k == Form[n].longs
           q == p + k
<1>0. k \in 0..20 /\ q \in Nat /\ p <= q /\ p \in Nat
  BY DEF Writable, MaxLongs
<1>1. Blanked(v, p, q)
  BY FreeBlank
<1>2. Run(p, q)
  BY WrittenRun
<1>3. ASSUME NEW i \in p..q, i \in DOMAIN w  PROVE Blank(w[i]) \/ LongPiece(w, p, q, i)
  <2> DEFINE j == i - p + 1
  <2>1. j \in 1..k + 1 /\ p + j - 1 = i /\ i \in Int /\ (j = 1 <=> i = p) /\ k + 1 - j = q - i
    BY <1>0
  <2>2. Blank(w[i]) \/ (j <= k /\ w[i] = BuildSlots(n, a, attr, c)[j])
    <3> HIDE DEF j, q
    <3>1. p + j - 1 \in DOMAIN w /\ w[p + j - 1] = w[i]
      BY <1>3, <2>1
    <3> QED BY <2>1, <3>1
  <2>3. CASE j <= k /\ w[i] = BuildSlots(n, a, attr, c)[j]
    <3>1. j \in 1..k /\ i < q
      BY <1>0, <2>1, <2>3
    <3> HIDE DEF j, q
    <3>2. IsLong(w[i]) /\ LongId(w[i]) = k + 1 - j /\ (j # 1 => LongCount(w[i]) = 0)
      BY <2>3, <3>1, BuiltLong
    <3> QED BY <2>1, <3>1, <3>2 DEF LongPiece
  <2> QED BY <2>2, <2>3
<1> HIDE DEF q
<1>4. Half(w, p, q) /\ Half(v, p, q)
  BY <1>1, <1>3, HalfPiece DEF Half
<1>5. Records(w) = {r \in Records(v) : r.at \notin p..q}
  BY <1>2, <1>4, HalfNames DEF q
<1>6. \A r \in Records(v) : r.at \notin p..q
  BY <1>4, WholeTidy, NoneInHalf
<1> QED BY <1>5, <1>6

LEMMA RecordFull ==
    ASSUME NEW v, Whole(v), NEW r \in Records(v)
    PROVE  /\ Run(r.at - r.longs, r.at) /\ Full(v, r.at - r.longs, r.at)
           /\ NameAt(v, r.at - r.longs, r.at) = r
<1>0. IsDirectory(v) /\ r \in Standing(v)
  BY WholeTidy
<1>1. r.at \in ShortEntries(v) /\ r.at \in 1..Len(v) /\ Len(v) \in Nat
  BY <1>0, StandingAt DEF IsDirectory
<1>2. CASE r \in LongNamed(v)
  <2> DEFINE n == r.longs
             q == r.at
  <2>1. /\ r = [at |-> q, longs |-> n, name |-> r.name] /\ n \in 1..MaxLongs
        /\ LongRun(v, q, n) /\ r.name = v[q - 1].name
    BY <1>2 DEF LongNamed
  <2>2. n \in 1..20 /\ n < q /\ q \in Nat
    BY <1>1, <2>1 DEF MaxLongs, LongRun
  <2> HIDE DEF n, q
  <2>3. q - n \in Nat /\ 1 <= q - n /\ q - n <= q /\ q - n # q /\ q - (q - n) = n
    BY <2>2
  <2>4. Run(q - n, q)
    BY <2>2, <2>3 DEF Run
  <2>5. Full(v, q - n, q)
    BY <1>1, <2>1, <2>3 DEF Full, q
  <2>6. NameAt(v, q - n, q) = r
    BY <2>1, <2>3 DEF NameAt
  <2> QED BY <2>4, <2>5, <2>6 DEF q, n
<1>3. CASE r \notin LongNamed(v)
  <2>1. PICK k \in Bare(v) : r = PlainAt(k)
    BY <1>0, <1>3 DEF Standing
  <2>2. r.at = k /\ r.longs = 0
    BY <2>1 DEF PlainAt
  <2>3. k - 0 = k /\ Run(k, k)
    BY <1>1, <2>2 DEF Run
  <2>4. Full(v, k, k) /\ NameAt(v, k, k) = r
    BY <1>1, <2>1, <2>2 DEF Full, NameAt
  <2> QED BY <2>2, <2>3, <2>4
<1> QED BY <1>2, <1>3

(* When all slots of a name are freed, that name is gone and every other is *)
(* read as before (fat_remove_entries and __fat_remove_entries).            *)
THEOREM NameRemoved ==
    ASSUME NEW v, NEW w, Whole(v), IsDirectory(w), NEW r \in Records(v),
           Agree(v, w, r.at - r.longs, r.at),
           \A i \in r.at - r.longs..r.at : i \in DOMAIN w => Blank(w[i])
    PROVE  Whole(w) /\ Records(w) = Records(v) \ {r}
<1> DEFINE p == r.at - r.longs
           q == r.at
<1>1. Run(p, q) /\ Full(v, p, q) /\ NameAt(v, p, q) = r
  BY RecordFull
<1>2. Blanked(w, p, q)
  BY DEF Blanked
<1> HIDE DEF p, q
<1>3. Agree(v, w, p, q) /\ Half(w, p, q)
  BY <1>2, HalfPiece DEF p, q
<1>4. Whole(w)
  BY <1>1, <1>2, <1>3, BlankedWhole
<1>5. Records(w) = {s \in Records(v) : s.at \notin p..q}
  BY <1>1, <1>3, HalfNames
<1>6. {s \in Records(v) : s.at \in p..q} = {r}
  BY <1>1, WholeTidy, OneInFull
<1> QED BY <1>4, <1>5, <1>6

(* The name is gone for everybody as soon as its short slot is, whichever   *)
(* of its long slots are still there.                                       *)
THEOREM NothingHalfRemoved ==
    ASSUME NEW v, NEW w, Whole(v), IsDirectory(w), NEW r \in Records(v),
           Agree(v, w, r.at - r.longs, r.at),
           \A i \in r.at - r.longs..r.at : i \in DOMAIN w =>
               Blank(w[i]) \/ (i < r.at /\ i \in DOMAIN v /\ w[i] = v[i])
    PROVE  Records(w) = Records(v) \ {r}
<1> DEFINE p == r.at - r.longs
           q == r.at
<1>1. Run(p, q) /\ Full(v, p, q) /\ NameAt(v, p, q) = r
  BY RecordFull
<1>2. Agree(v, w, p, q)
  OBVIOUS
<1>3. \A i \in p..q : i \in DOMAIN w => Blank(w[i]) \/ (i < q /\ i \in DOMAIN v /\ w[i] = v[i])
  OBVIOUS
<1> HIDE DEF p, q
<1>4. Piece(v, p, q) /\ q \in Int
  BY <1>1, FullPiece DEF Whole, Run
<1>5. ASSUME NEW i \in p..q, i \in DOMAIN w, ~Blank(w[i])  PROVE LongPiece(w, p, q, i)
  <2>1. i < q /\ i \in DOMAIN v /\ w[i] = v[i] /\ i \in Int
    BY <1>3, <1>5
  <2>2. LongPiece(v, p, q, i)
    BY <1>4, <1>5, <2>1 DEF Piece
  <2> QED BY <2>1, <2>2 DEF LongPiece
<1>6. Half(w, p, q)
  BY <1>5 DEF Half
<1>7. Records(w) = {s \in Records(v) : s.at \notin p..q}
  BY <1>1, <1>2, <1>6, HalfNames
<1>8. {s \in Records(v) : s.at \in p..q} = {r}
  BY <1>1, WholeTidy, OneInFull
<1> QED BY <1>7, <1>8

-----------------------------------------------------------------------------
(* A directory while a name in slots p..q is added or removed, as what it   *)
(* would be without anything there.                                         *)
Wiped(v, p, q) == [k \in DOMAIN v |-> IF k \in p..q THEN Zero ELSE v[k]]

LEMMA ZeroBlank == Blank(Zero) /\ Zero.text[1] = 0
  BY DEF Blank, IsFree, IsLong, Zero

LEMMA WipedIs ==
    ASSUME NEW v, IsDirectory(v), NEW p, NEW q
    PROVE  /\ IsDirectory(Wiped(v, p, q)) /\ Blanked(Wiped(v, p, q), p, q)
           /\ Agree(v, Wiped(v, p, q), p, q) /\ Agree(Wiped(v, p, q), v, p, q)
<1> DEFINE w == Wiped(v, p, q)
<1>1. DOMAIN w = DOMAIN v /\ \A k \in DOMAIN v : w[k] = IF k \in p..q THEN Zero ELSE v[k]
  BY DEF Wiped
<1>2. Len(v) \in Nat /\ DOMAIN v = 1..Len(v) /\ \A k \in DOMAIN v : v[k].text[1] \in Nat
  BY DEF IsDirectory
<1>3. Len(w) = Len(v)
  <2>1. w \in [1..Len(v) -> {w[k] : k \in 1..Len(v)}]
    BY <1>2 DEF Wiped
  <2>2. w \in Seq({w[k] : k \in 1..Len(v)})
    BY <1>2, <2>1, SeqDef
  <2> HIDE DEF w
  <2> QED BY <1>1, <1>2, <2>2, LenProperties
<1> HIDE DEF w
<1>4. IsDirectory(w)
  BY <1>1, <1>2, <1>3, ZeroBlank DEF IsDirectory
<1>5. Blanked(w, p, q)
  BY <1>1, ZeroBlank DEF Blanked
<1>6. Agree(v, w, p, q) /\ Agree(w, v, p, q)
  BY <1>1 DEF Agree
<1> QED BY <1>4, <1>5, <1>6 DEF w

LEMMA WipedWhole ==
    ASSUME NEW v, Whole(v), NEW p, NEW q, Run(p, q), Half(v, p, q) \/ Full(v, p, q)
    PROVE  Whole(Wiped(v, p, q))
<1>1. IsDirectory(v)
  BY DEF Whole
<1> QED BY <1>1, WipedIs, BlankedWhole

LEMMA HalfTidy ==
    ASSUME NEW v, IsDirectory(v), NEW p, NEW q, Run(p, q), Whole(Wiped(v, p, q)), Half(v, p, q)
    PROVE  Tidy(v)
<1>1. Half(Wiped(v, p, q), p, q)
  BY WipedIs, HalfPiece
<1> QED BY <1>1, WipedIs, HalfNames

LEMMA BlankedIs ==
    ASSUME NEW v, IsDirectory(v), NEW p, NEW q, Run(p, q), Whole(Wiped(v, p, q)), Blanked(v, p, q)
    PROVE  Whole(v)
<1>1. Half(Wiped(v, p, q), p, q)
  BY WipedIs, HalfPiece
<1> QED BY <1>1, WipedIs, BlankedWhole

(* What is in those slots does not matter to what it would be without.      *)
LEMMA WipedSame ==
    ASSUME NEW v, NEW w, DOMAIN w = DOMAIN v, NEW p, NEW q,
           \A k \in DOMAIN v : k \notin p..q => w[k] = v[k]
    PROVE  Wiped(w, p, q) = Wiped(v, p, q)
  BY DEF Wiped

-----------------------------------------------------------------------------
(* A name on its way out of a directory: slots of from..to may be left.     *)
Removing(v, p, q, from, to) ==
    /\ Run(p, q) /\ from \in Int /\ to \in Int /\ p <= from /\ to <= q /\ to <= Len(v)
    /\ Whole(Wiped(v, p, q)) /\ Half(v, p, q)
    /\ \A k \in p..q : k \in DOMAIN v /\ k \notin from..to => Blank(v[k])

LEMMA RemovingTidy ==
    ASSUME NEW v, IsDirectory(v), NEW p, NEW q, NEW from, NEW to, Removing(v, p, q, from, to)
    PROVE  Tidy(v)
  BY HalfTidy DEF Removing

LEMMA RemovingDone ==
    ASSUME NEW v, IsDirectory(v), NEW p, NEW q, NEW from, NEW to, Removing(v, p, q, from, to), from > to
    PROVE  Whole(v)
<1>1. \A k : k \notin from..to
  BY DEF Removing
<1>2. Blanked(v, p, q)
  BY <1>1 DEF Removing, Blanked
<1> QED BY <1>2, BlankedIs DEF Removing

(* __fat_remove_entries frees more of them.                                 *)
LEMMA RemovingMore ==
    ASSUME NEW v, NEW w, NEW p, NEW q, NEW from, NEW to, Removing(v, p, q, from, to),
           Len(w) = Len(v), DOMAIN w = DOMAIN v, NEW ks \in SUBSET (from..to),
           \A k \in DOMAIN v : IF k \in ks THEN Blank(w[k]) ELSE w[k] = v[k],
           NEW then \in Int, from <= then, \A k \in from..then - 1 : k \in ks
    PROVE  Removing(w, p, q, then, to)
<1>1. /\ p \in Nat /\ q \in Nat /\ from \in Int /\ to \in Int /\ p <= from /\ to <= q
  BY DEF Removing, Run
<1>2. ks \subseteq p..q
  BY <1>1
<1>3. Wiped(w, p, q) = Wiped(v, p, q)
  BY <1>2, WipedSame
<1>4. Half(w, p, q)
  BY DEF Removing, Half, LongPiece
<1>5. ASSUME NEW k \in p..q, k \in DOMAIN w, k \notin then..to  PROVE Blank(w[k])
  <2>1. CASE k \in ks
    BY <1>5, <2>1
  <2>2. CASE k \notin ks
    <3>1. k \notin from..to
      BY <1>1, <1>5, <2>2
    <3> QED BY <1>5, <2>2, <3>1 DEF Removing
  <2> QED BY <2>1, <2>2
<1> QED BY <1>1, <1>3, <1>4, <1>5 DEF Removing

(* fat_remove_entries begins it with the short slot.                        *)
LEMMA RemovingBegun ==
    ASSUME NEW v, NEW w, Whole(v), NEW r \in Standing(v), Len(w) = Len(v), DOMAIN w = DOMAIN v,
           NEW ks \in SUBSET (r.at - r.longs..r.at), r.at \in ks,
           \A k \in DOMAIN v : IF k \in ks THEN Blank(w[k]) ELSE w[k] = v[k],
           NEW to \in Int, to <= r.at, \A k \in to + 1..r.at : k \in ks
    PROVE  Removing(w, r.at - r.longs, r.at, r.at - r.longs, to)
<1> DEFINE p == r.at - r.longs
           q == r.at
<1>1. r \in Records(v) /\ IsDirectory(v)
  BY WholeTidy
<1>2. Run(p, q) /\ Full(v, p, q)
  BY <1>1, RecordFull
<1>3. q \in 1..Len(v) /\ Len(v) \in Nat
  BY <1>1, StandingAt DEF IsDirectory
<1> HIDE DEF p, q
<1>4. p \in Nat /\ q \in Nat /\ p <= q /\ 1 <= p
  BY <1>2 DEF Run
<1>5. Wiped(w, p, q) = Wiped(v, p, q) /\ Whole(Wiped(v, p, q))
  <2>1. \A k \in DOMAIN v : k \notin p..q => w[k] = v[k]
    BY DEF p, q
  <2> QED BY <1>2, <2>1, WipedSame, WipedWhole
<1>6. ASSUME NEW i \in p..q, i \in DOMAIN w  PROVE Blank(w[i]) \/ LongPiece(w, p, q, i)
  <2>1. CASE i \in ks
    BY <1>6, <2>1
  <2>2. CASE i \notin ks
    <3>1. w[i] = v[i] /\ i # q
      BY <1>6, <2>2 DEF q
    <3>2. i < q /\ p < q /\ i \in Int
      BY <1>4, <3>1
    <3>3. q - p \in 1..MaxLongs /\ LongRun(v, q, q - p) /\ q \in ShortEntries(v)
      BY <1>2, <1>4, <3>2 DEF Full
    <3>4. q - (q - p) <= i /\ (i = q - (q - p) => i = p)
      BY <1>4
    <3>5. IsLong(v[i]) /\ LongId(v[i]) = q - i /\ LongCount(v[i]) = IF i = q - (q - p) THEN q - p ELSE 0
      BY <1>1, <3>2, <3>3, <3>4, InRun
    <3>6. i # p => LongCount(v[i]) = 0
      BY <3>4, <3>5
    <3> QED BY <3>1, <3>2, <3>5, <3>6 DEF LongPiece
  <2> QED BY <2>1, <2>2
<1>7. Half(w, p, q)
  BY <1>6 DEF Half
<1>8. ASSUME NEW k \in p..q, k \in DOMAIN w, k \notin p..to  PROVE Blank(w[k])
  <2>1. k \in to + 1..q
    BY <1>4, <1>8
  <2> QED BY <1>8, <2>1 DEF q
<1>9. p <= p /\ to <= q /\ to <= Len(v) /\ p \in Int
  BY <1>3, <1>4 DEF q
<1>10. Removing(w, p, q, p, to)
  BY <1>2, <1>5, <1>7, <1>8, <1>9 DEF Removing
<1> QED BY <1>10 DEF p, q

-----------------------------------------------------------------------------
(* A name on its way into a directory: of its slots, from p on, some are    *)
(* there, but not the short one.  The first cluster of a slot is left out.  *)
AsIn(s, x) == s.text = x.text /\ s.attr = x.attr /\ s.name = x.name /\ s.sum = x.sum
Begun(v, p, slots) ==
    /\ Whole(Wiped(v, p, p + Len(slots) - 1))
    /\ \A k \in DOMAIN v : k \in p..p + Len(slots) - 1 =>
          Blank(v[k]) \/ (k < p + Len(slots) - 1 /\ AsIn(v[k], slots[k - p + 1]))
Built(slots, n, c) ==
    \E a \in ShortTexts, attr \in {"file", "dir"} : slots = BuildSlots(n, a, attr, c)

LEMMA BuiltIs ==
    ASSUME NEW slots, NEW n \in Names, NEW c, Built(slots, n, c)
    PROVE  /\ Len(slots) = Form[n].longs + 1 /\ Form[n].longs \in 0..MaxLongs
           /\ Form[n].longs \in Nat /\ Len(slots) \in Nat /\ Len(slots) >= 1
           /\ \E a, attr : Writable(n, a, attr) /\ slots = BuildSlots(n, a, attr, c)
<1>1. Form[n].longs \in 0..MaxLongs
  BY FormAssumption
<1>2. PICK a \in ShortTexts, attr \in {"file", "dir"} : slots = BuildSlots(n, a, attr, c)
  BY DEF Built
<1>3. Writable(n, a, attr)
  BY <1>1, <1>2 DEF Writable
<1>4. Form[n].longs \in Nat
  BY <1>1 DEF MaxLongs
<1> DEFINE k == Form[n].longs
           S == {slots[j] : j \in 1..k + 1}
<1>5. slots \in [1..k + 1 -> S]
  BY <1>2 DEF BuildSlots
<1> HIDE DEF S
<1>6. slots \in Seq(S) /\ DOMAIN slots = 1..k + 1
  BY <1>4, <1>5, SeqDef
<1>7. Len(slots) = k + 1
  BY <1>4, <1>6, LenProperties
<1>8. Len(slots) \in Nat /\ Len(slots) >= 1
  BY <1>4, <1>7
<1> QED BY <1>1, <1>2, <1>3, <1>4, <1>7, <1>8

LEMMA BegunHalf ==
    ASSUME NEW v, IsDirectory(v), NEW p \in Nat \ {0}, NEW slots, NEW n \in Names, NEW c, Built(slots, n, c),
           Begun(v, p, slots)
    PROVE  LET q == p + Len(slots) - 1 IN Run(p, q) /\ Half(v, p, q) /\ Tidy(v)
<1> DEFINE q == p + Len(slots) - 1
           k == Form[n].longs
<1>1. PICK a, attr : Writable(n, a, attr) /\ slots = BuildSlots(n, a, attr, c)
  BY BuiltIs
<1>2. Len(slots) = k + 1 /\ k \in Nat
  BY BuiltIs
<1>3. q = p + k /\ Run(p, q) /\ q \in Nat
  BY <1>2 DEF Run
<1>4. ASSUME NEW i \in p..q, i \in DOMAIN v, ~Blank(v[i])  PROVE LongPiece(v, p, q, i)
  <2> DEFINE s == slots[i - p + 1]
  <2>1. i < q /\ AsIn(v[i], s)
    BY <1>4 DEF Begun
  <2>2. i - p + 1 \in 1..k /\ (i - p + 1 = 1 => i = p) /\ k + 1 - (i - p + 1) = q - i
    BY SMTT(30), <1>2, <1>3, <2>1
  <2>3. /\ IsLong(s) /\ LongId(s) = k + 1 - (i - p + 1)
        /\ i - p + 1 # 1 => LongCount(s) = 0
    BY <1>1, <2>2, BuiltLong
  <2> HIDE DEF s
  <2>4. IsLong(v[i]) /\ LongId(v[i]) = LongId(s) /\ LongCount(v[i]) = LongCount(s)
    BY <2>1, <2>3 DEF AsIn, IsLong, LongId, LongCount
  <2> QED BY <2>1, <2>2, <2>3, <2>4 DEF LongPiece
<1>5. Half(v, p, q)
  BY <1>4 DEF Half
<1>6. Whole(Wiped(v, p, q))
  BY DEF Begun
<1> HIDE DEF q
<1>7. Tidy(v)
  BY <1>3, <1>5, <1>6, HalfTidy
<1> QED BY <1>3, <1>5, <1>7 DEF q

(* fat_add_entries has found free slots.                                    *)
LEMMA BegunFree ==
    ASSUME NEW v, Whole(v), NEW p \in Nat \ {0}, NEW slots, NEW n \in Names, NEW c, Built(slots, n, c),
           \A i \in p..p + Len(slots) - 1 : i \in DOMAIN v => IsFree(v[i])
    PROVE  Begun(v, p, slots)
<1> DEFINE q == p + Len(slots) - 1
<1>1. Run(p, q)
  <2>1. Len(slots) \in Nat /\ Len(slots) >= 1
    BY BuiltIs
  <2> QED BY <2>1 DEF Run
<1>2. Blanked(v, p, q)
  BY FreeBlank
<1>3. Half(v, p, q)
  BY <1>2, HalfPiece
<1> HIDE DEF q
<1>4. Whole(Wiped(v, p, q))
  BY <1>1, <1>3, WipedWhole
<1> QED BY <1>2, <1>4 DEF Begun, Blanked, q

LEMMA BegunMore ==
    ASSUME NEW v, NEW w, NEW p, NEW slots, Begun(v, p, slots), DOMAIN w = DOMAIN v,
           \A k \in DOMAIN v :
               \/ w[k] = v[k]
               \/ k \in p..p + Len(slots) - 1 /\ k < p + Len(slots) - 1 /\ w[k] = slots[k - p + 1]
    PROVE  Begun(w, p, slots)
<1>1. Wiped(w, p, p + Len(slots) - 1) = Wiped(v, p, p + Len(slots) - 1)
  BY WipedSame
<1> QED BY <1>1 DEF Begun, AsIn

(* The addition is given up: what is there has to be removed.               *)
LEMMA BegunUndone ==
    ASSUME NEW v, IsDirectory(v), NEW p \in Nat \ {0}, NEW slots, NEW n \in Names, NEW c, Built(slots, n, c),
           Begun(v, p, slots), NEW to \in Int, to <= p + Len(slots) - 1, to <= Len(v),
           to = p + Len(slots) - 1 \/ to = Len(v)
    PROVE  Removing(v, p, p + Len(slots) - 1, p, to)
<1> DEFINE q == p + Len(slots) - 1
<1>1. Run(p, q) /\ Half(v, p, q) /\ Whole(Wiped(v, p, q))
  BY BegunHalf DEF Begun
<1>2. DOMAIN v = 1..Len(v)
  BY DEF IsDirectory
<1>7. Len(v) \in Nat
  BY DEF IsDirectory
<1>3. Len(slots) \in Nat
  BY BuiltIs
<1>4. \A k \in p..q : k \in DOMAIN v => k \in p..to
  <2> SUFFICES ASSUME NEW k \in p..q, k \in DOMAIN v  PROVE k <= to
    OBVIOUS
  <2>1. k \in 1..Len(v)
    BY <1>2, Zenon
  <2>2. Len(v) \in Int
    BY <1>7
  <2>3. k \in Int /\ k <= q /\ k <= Len(v)
    BY <1>3, <2>1, <2>2
  <2> QED BY <2>3
<1>5. p \in Int /\ p <= p /\ to <= q
  OBVIOUS
<1> HIDE DEF q
<1>6. Removing(v, p, q, p, to)
  BY <1>1, <1>4, <1>5 DEF Removing
<1> QED BY <1>6 DEF q

(* All of the slots are there; the directory may have grown by free ones.   *)
HasAll(w, p, slots) == \A j \in 1..Len(slots) : p + j - 1 \in DOMAIN w /\ w[p + j - 1] = slots[j]

LEMMA BegunDone ==
    ASSUME NEW v, NEW w, IsDirectory(v), IsDirectory(w),
           NEW p \in Nat \ {0}, NEW slots, NEW n \in Names, NEW c, Built(slots, n, c), Begun(v, p, slots),
           Agree(v, w, p, p + Len(slots) - 1), HasAll(w, p, slots)
    PROVE  LET q == p + Len(slots) - 1 IN Whole(w) /\ Full(w, p, q) /\ q - p = Len(slots) - 1
<1> DEFINE q == p + Len(slots) - 1
           k == Form[n].longs
           u == Wiped(v, p, q)
<1>1. PICK a, attr : Writable(n, a, attr) /\ slots = BuildSlots(n, a, attr, c)
  BY BuiltIs
<1>2. Len(slots) = k + 1 /\ k \in Nat
  BY BuiltIs
<1>3. q = p + k /\ Run(p, q) /\ q - p = Len(slots) - 1
  BY <1>2 DEF Run
<1>4. Whole(u) /\ Blanked(u, p, q)
  BY WipedIs DEF Begun
<1>5. Agree(u, w, p, q)
  BY DEF Agree, Wiped
<1>6. \A j \in 1..k + 1 : p + j - 1 \in DOMAIN w /\ w[p + j - 1] = BuildSlots(n, a, attr, c)[j]
  BY <1>1, <1>2 DEF HasAll
<1> HIDE DEF q, u, k
<1>7. Blanked(u, p, p + k) /\ Agree(u, w, p, p + k)
  BY <1>3, <1>4, <1>5
<1>8. Full(w, p, p + k)
  BY <1>1, <1>4, <1>6, <1>7, WrittenFull DEF k
<1>9. Full(w, p, q)
  BY <1>3, <1>8
<1>10. Whole(w)
  BY <1>3, <1>4, <1>5, <1>9, FullNames
<1> QED BY <1>3, <1>9, <1>10 DEF q

-----------------------------------------------------------------------------
(* A name that is there, as a fat_slot_info has it.                         *)
Has(v, x) == \E r \in Standing(v) : r.at = x.at /\ r.longs = x.longs

LEMMA HasElsewhere ==
    ASSUME NEW u, NEW w, IsDirectory(u), IsDirectory(w), NEW p, NEW q, Run(p, q),
           Half(u, p, q), Half(w, p, q) \/ Full(w, p, q), Agree(u, w, p, q), NEW x, Has(u, x)
    PROVE  Has(w, x)
<1>1. PICK r \in Standing(u) : r.at = x.at /\ r.longs = x.longs
  BY DEF Has
<1>2. r.at \notin p..q
  BY NoneInHalf
<1>3. Piece(u, p, q) /\ Piece(w, p, q)
  BY HalfPiece, FullPiece
<1>4. r \in Standing(w)
  BY <1>2, <1>3, KeptElsewhere
<1> QED BY <1>1, <1>4 DEF Has

LEMMA HasNew ==
    ASSUME NEW v, IsDirectory(v), NEW p, NEW q, Run(p, q), Full(v, p, q),
           NEW x, x.at = q, x.longs = q - p
    PROVE  Has(v, x)
<1>1. NameAt(v, p, q) \in Standing(v)
  BY OneInFull
<1>2. NameAt(v, p, q).at = q /\ NameAt(v, p, q).longs = q - p
  BY DEF NameAt, PlainAt, Run
<1> QED BY <1>1, <1>2 DEF Has

-----------------------------------------------------------------------------
(* The first cluster of a slot is not part of its name.                     *)
Alike(v, w) ==
    /\ DOMAIN w = DOMAIN v /\ Len(w) = Len(v)
    /\ \A k \in DOMAIN v : /\ w[k].text = v[k].text /\ w[k].attr = v[k].attr
                           /\ w[k].name = v[k].name /\ w[k].sum = v[k].sum

LEMMA AlikeSlots ==
    ASSUME NEW v, NEW w, IsDirectory(v), Alike(v, w)
    PROVE  /\ IsDirectory(w) /\ ShortEntries(w) = ShortEntries(v)
           /\ \A k \in DOMAIN v : IsLong(w[k]) <=> IsLong(v[k])
           /\ \A at \in DOMAIN v, n \in 1..MaxLongs : LongRun(w, at, n) <=> LongRun(v, at, n)
<1>1. IsDirectory(w)
  BY DEF IsDirectory, Alike
<1>2. ShortEntries(w) = ShortEntries(v) /\ \A k \in DOMAIN v : IsLong(w[k]) <=> IsLong(v[k])
  BY DEF Alike, ShortEntries, IsShort, IsFree, IsLong
<1>3. ASSUME NEW at \in DOMAIN v, NEW n \in 1..MaxLongs, n < at
      PROVE  at \in 1..Len(v) /\ \A j \in 1..n : at - j \in DOMAIN v /\ at - 1 \in DOMAIN v
  <2>1. at \in 1..Len(v) /\ DOMAIN v = 1..Len(v) /\ Len(v) \in Nat /\ n \in Nat
    BY DEF IsDirectory, MaxLongs
  <2> QED BY <1>3, <2>1
<1>4. ASSUME NEW at \in DOMAIN v, NEW n \in 1..MaxLongs
      PROVE  LongRun(w, at, n) <=> LongRun(v, at, n)
  <2>1. CASE n < at
    <3>1. \A j \in 1..n : at - j \in DOMAIN v /\ at - 1 \in DOMAIN v
      BY <1>3, <2>1
    <3> QED BY <2>1, <3>1 DEF LongRun, Alike
  <2>2. CASE ~(n < at)
    BY <2>2 DEF LongRun
  <2> QED BY <2>1, <2>2
<1> QED BY <1>1, <1>2, <1>4

LEMMA AlikeWhole ==
    ASSUME NEW v, NEW w, Whole(v), Alike(v, w)
    PROVE  Whole(w)
<1>1. IsDirectory(v) /\ IsDirectory(w) /\ DOMAIN w = DOMAIN v
  BY AlikeSlots DEF Whole, Alike
<1>2. ASSUME NEW k \in DOMAIN w, IsLong(w[k])  PROVE Covered(w, k)
  <2>1. IsLong(v[k]) /\ k \in DOMAIN v
    BY <1>1, <1>2, AlikeSlots
  <2>2. PICK at \in ShortEntries(v), n \in 1..MaxLongs : LongRun(v, at, n) /\ at - n <= k /\ k < at
    BY <2>1 DEF Whole, Covered
  <2>3. at \in DOMAIN v
    BY DEF ShortEntries
  <2>4. at \in ShortEntries(w) /\ LongRun(w, at, n)
    BY <1>1, <2>2, <2>3, AlikeSlots
  <2> QED BY <2>2, <2>4 DEF Covered
<1> QED BY <1>1, <1>2 DEF Whole

LEMMA AlikeTidy ==
    ASSUME NEW v, NEW w, IsDirectory(v), Tidy(v), Alike(v, w)
    PROVE  Tidy(w)
<1>1. DOMAIN v = 1..Len(v) /\ Len(v) \in Nat /\ DOMAIN w = DOMAIN v /\ Len(w) = Len(v)
  BY DEF IsDirectory, Alike
<1>2. ASSUME NEW k \in DOMAIN w, IsLong(w[k])  PROVE Covered(w, k) \/ Stray(w, k)
  <2>1. IsLong(v[k]) /\ k \in DOMAIN v
    BY <1>1, <1>2, AlikeSlots
  <2>2. CASE Covered(v, k)
    <3>1. PICK at \in ShortEntries(v), n \in 1..MaxLongs : LongRun(v, at, n) /\ at - n <= k /\ k < at
      BY <2>2 DEF Covered
    <3>2. at \in DOMAIN v
      BY DEF ShortEntries
    <3>3. at \in ShortEntries(w) /\ LongRun(w, at, n)
      BY <3>1, <3>2, AlikeSlots
    <3> QED BY <3>1, <3>3 DEF Covered
  <2>3. CASE Stray(v, k)
    <3>1. PICK b \in k..Len(v) : /\ b = Len(v) \/ IsFree(v[b + 1])
                                 /\ \A m \in k + 1..b : IsLong(v[m]) /\ LongCount(v[m]) = 0
      BY <2>3 DEF Stray
    <3>2. k \in Int /\ 1 <= k /\ b \in Int /\ k <= b /\ b <= Len(v) /\ Len(v) \in Int
      <4>1. k \in 1..Len(v) /\ Len(v) \in Nat
        BY <1>1, <2>1
      <4>2. k \in Int
        BY <4>1
      <4> QED BY <3>1, <4>1, <4>2
    <3>3. b # Len(v) => b + 1 \in DOMAIN v
      <4>1. b # Len(v) => b + 1 \in 1..Len(v)
        BY <3>2
      <4> QED BY <1>1, <4>1
    <3>4. b = Len(w) \/ IsFree(w[b + 1])
      BY <1>1, <3>1, <3>3 DEF IsFree, Alike
    <3>5. ASSUME NEW m \in k + 1..b  PROVE IsLong(w[m]) /\ LongCount(w[m]) = 0
      <4>0. m \in 1..Len(v)
        BY <3>2
      <4>1. m \in DOMAIN v
        BY <1>1, <4>0
      <4> QED BY <3>1, <4>1 DEF Alike, IsLong, LongCount
    <3> QED BY <1>1, <3>1, <3>4, <3>5 DEF Stray
  <2> QED BY <2>1, <2>2, <2>3 DEF Tidy
<1> QED BY <1>2 DEF Tidy

LEMMA AlikeBegun ==
    ASSUME NEW v, NEW w, IsDirectory(v), Alike(v, w), NEW p, NEW slots, Begun(v, p, slots)
    PROVE  Begun(w, p, slots)
<1> DEFINE q == p + Len(slots) - 1
           x == Wiped(v, p, q)
           y == Wiped(w, p, q)
<1>1. /\ DOMAIN w = DOMAIN v
      /\ \A k \in DOMAIN v : AsIn(w[k], v[k]) /\ (IsLong(w[k]) <=> IsLong(v[k]))
                             /\ (IsFree(w[k]) <=> IsFree(v[k]))
  BY AlikeSlots DEF Alike, AsIn, IsFree
<1>2. IsDirectory(x) /\ IsDirectory(y) /\ IsDirectory(w)
  BY AlikeSlots, WipedIs
<1>3. Alike(x, y)
  <2>1. Len(x) = Len(y)
    <3>1. DOMAIN x = DOMAIN y /\ DOMAIN x = 1..Len(x) /\ DOMAIN y = 1..Len(y)
          /\ Len(x) \in Nat /\ Len(y) \in Nat
      BY <1>1, <1>2 DEF IsDirectory, Wiped
    <3> HIDE DEF x, y
    <3>2. \A m, n \in Nat : 1..m = 1..n => m = n
      OBVIOUS
    <3> QED BY <3>1, <3>2
  <2> QED BY <1>1, <2>1 DEF Alike, AsIn, Wiped
<1>4. Whole(y)
  BY <1>3, AlikeWhole DEF Begun
<1>5. ASSUME NEW k \in DOMAIN w, k \in p..q
      PROVE  Blank(w[k]) \/ (k < q /\ AsIn(w[k], slots[k - p + 1]))
  BY <1>1, <1>5 DEF Begun, Blank, AsIn
<1> QED BY <1>4, <1>5 DEF Begun

LEMMA AlikeHas ==
    ASSUME NEW v, NEW w, IsDirectory(v), Alike(v, w), NEW x, Has(v, x)
    PROVE  Has(w, x)
<1>1. PICK r \in Standing(v) : r.at = x.at /\ r.longs = x.longs
  BY DEF Has
<1>2. r.at \in 1..Len(v) /\ r.at \in ShortEntries(v) /\ DOMAIN v = 1..Len(v) /\ Len(v) \in Nat
  BY StandingAt DEF IsDirectory
<1>3. r.at \in ShortEntries(w) /\ DOMAIN w = DOMAIN v
  BY <1>2, AlikeSlots DEF Alike
<1>4. CASE r \in LongNamed(v)
  <2>1. r.longs \in 1..MaxLongs /\ LongRun(v, r.at, r.longs) /\ r.name = v[r.at - 1].name
        /\ r = [at |-> r.at, longs |-> r.longs, name |-> r.name]
    BY <1>4 DEF LongNamed
  <2>2. LongRun(w, r.at, r.longs)
    BY <1>2, <2>1, AlikeSlots
  <2>3. r.at - 1 \in DOMAIN v
    <3>1. r.longs \in Nat /\ r.longs >= 1 /\ r.longs < r.at
      BY <2>1 DEF LongRun, MaxLongs
    <3> QED BY <1>2, <3>1
  <2>4. w[r.at - 1].name = v[r.at - 1].name
    BY <2>3 DEF Alike
  <2>5. r.name \in {w[k].name : k \in DOMAIN w}
    BY <1>3, <2>1, <2>3, <2>4
  <2>6. r \in LongNamed(w)
    BY <1>3, <2>1, <2>2, <2>4, <2>5 DEF LongNamed
  <2> QED BY <1>1, <2>6 DEF Has, Standing
<1>5. CASE r \in {PlainAt(k) : k \in Bare(v)}
  <2>1. r.at \in Bare(v) /\ r = PlainAt(r.at)
    BY <1>5 DEF PlainAt
  <2>2. r.at = 1 \/ r.at - 1 \in DOMAIN v
    BY <1>2
  <2>3. r.at \in Bare(w)
    BY <1>3, <2>1, <2>2, AlikeSlots DEF Bare
  <2> QED BY <1>1, <2>1, <2>3 DEF Has, Standing
<1> QED BY <1>4, <1>5 DEF Standing
=============================================================================
