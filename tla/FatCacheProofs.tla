--------------------------- MODULE FatCacheProofs ---------------------------
(***************************************************************************)
(* Theorems about FatCache.  nr_caches stays right for every number of     *)
(* threads, which is what tells when fat_cache_add has a run to overwrite. *)
(* With one reader beside the writer, what the cache says of the chain is  *)
(* what the table says; FatCacheStale.cfg shows why not with two.          *)
(***************************************************************************)
EXTENDS FatCache, FiniteSetTheorems, SequenceTheorems, TLAPS

(* The types that the argument needs; TypeOK says more of the values.       *)
AnyRun == [f : Int, d : Int, n : Int]
Cid    == [id : Int, f : Int, d : Int, n : Int]
Place  == [target : Int, fclus : Int, dclus : Int, cid : Cid]
CacheType ==
    /\ fat \in [Clusters -> Int] /\ iStart \in Int /\ size \in Int /\ new \in Int
    /\ lru \in Seq(AnyRun) /\ nrCaches \in Int /\ validId \in Int
    /\ pc \in [Threads -> PCs]
    /\ loc \in [Threads -> Place]

Allocating == {t \in Threads : pc[t] = "alloc"}
CountInv   == CacheType /\ IsFiniteSet(Threads) /\ CountsPlaces

LEMMA Numbers == EOF \in Int /\ FREE \in Int /\ VALID \in Int /\ Clusters \subseteq Int
  BY TableAssumption DEF EOF, FREE, VALID, Clusters

LEMMA NowherePlace == Nowhere \in Place /\ NoRun \in Cid
  BY Numbers DEF Nowhere, NoRun, Place, Cid

-----------------------------------------------------------------------------
(* The list.                                                                *)

(* Taking one run out and putting one in front keeps the length.            *)
LEMMA FrontLen ==
  ASSUME lru \in Seq(AnyRun), NEW i \in DOMAIN lru, NEW run \in AnyRun
  PROVE  ToFront(i, run) \in Seq(AnyRun) /\ Len(ToFront(i, run)) = Len(lru)
<1> DEFINE a == SubSeq(lru, 1, i - 1)  b == SubSeq(lru, i + 1, Len(lru))
<1>1. i \in 1..Len(lru) /\ Len(lru) \in Nat
  BY LenProperties
<1>2. a \in Seq(AnyRun) /\ Len(a) = i - 1
  BY <1>1, SubSeqProperties
<1>3. b \in Seq(AnyRun) /\ Len(b) = Len(lru) - i
  BY <1>1, SubSeqProperties
<1>4. a \o b \in Seq(AnyRun) /\ Len(a \o b) = Len(lru) - 1
  <2> HIDE DEF a, b
  <2>1. a \o b \in Seq(AnyRun) /\ Len(a \o b) = Len(a) + Len(b)
    BY <1>2, <1>3, ConcatProperties
  <2> QED BY <1>1, <1>2, <1>3, <2>1
<1>5. <<run>> \in Seq(AnyRun) /\ Len(<<run>>) = 1
  OBVIOUS
<1>6. ToFront(i, run) = <<run>> \o (a \o b)
  BY DEF ToFront, RemoveAt
<1> HIDE DEF a, b
<1> QED BY <1>1, <1>4, <1>5, <1>6, ConcatProperties

(* The last run is overwritten: the length stays.                           *)
LEMMA EvictLen ==
  ASSUME lru \in Seq(AnyRun), lru # <<>>, NEW run \in AnyRun
  PROVE  /\ <<run>> \o Front(lru) \in Seq(AnyRun)
         /\ Len(<<run>> \o Front(lru)) = Len(lru)
<1>1. Len(lru) \in Nat /\ Len(lru) > 0
  BY LenProperties, EmptySeq
<1>2. \A k \in 1..(Len(lru) - 1) : lru[k] \in AnyRun
  BY <1>1, ElementOfSeq
<1>4. Front(lru) \in Seq(AnyRun) /\ Len(Front(lru)) = Len(lru) - 1
  <2> DEFINE m == Len(lru) - 1
  <2>1. m \in Int /\ m >= 0 /\ Front(lru) = SubSeq(lru, 1, m)
    BY <1>1 DEF Front
  <2>2. \A k \in 1..m : lru[k] \in AnyRun
    BY <1>2
  <2> HIDE DEF m
  <2>3. SubSeq(lru, 1, m) \in Seq(AnyRun) /\ Len(SubSeq(lru, 1, m)) = m
    BY <2>1, <2>2, SubSeqProperties
  <2> QED BY <2>1, <2>3 DEF m
<1>3. <<run>> \in Seq(AnyRun) /\ Len(<<run>>) = 1
  OBVIOUS
<1> QED BY <1>1, <1>3, <1>4, ConcatProperties

(* A run is added.                                                          *)
LEMMA AddLen ==
  ASSUME lru \in Seq(AnyRun), NEW run \in AnyRun
  PROVE  <<run>> \o lru \in Seq(AnyRun) /\ Len(<<run>> \o lru) = Len(lru) + 1
<1>1. <<run>> \in Seq(AnyRun) /\ Len(<<run>>) = 1
  OBVIOUS
<1> QED BY <1>1, ConcatProperties, LenProperties

LEMMA MergeLen ==
  ASSUME CacheType, NEW cid \in Cid, Merge(cid)
  PROVE  lru' \in Seq(AnyRun) /\ Len(lru') = Len(lru)
<1>1. PICK i \in Same(cid) :
        lru' = ToFront(i, [lru[i] EXCEPT !.n = IF cid.n > @ THEN cid.n ELSE @])
  BY DEF Merge
<1>2. i \in DOMAIN lru /\ lru \in Seq(AnyRun)
  BY DEF Same, CacheType
<1>3. lru[i] \in AnyRun
  BY <1>2, ElementOfSeq, LenProperties
<1>4. [lru[i] EXCEPT !.n = IF cid.n > @ THEN cid.n ELSE @] \in AnyRun
  BY <1>3 DEF AnyRun, Cid
<1> QED BY <1>1, <1>2, <1>4, FrontLen

LEMMA HitPlaceType ==
  ASSUME CacheType, NEW hit \in AnyRun, NEW target \in Int
  PROVE  HitPlace(hit, target) \in Place
<1> DEFINE offset == IF Covers(hit, target) THEN target - hit.f ELSE hit.n
           cid    == [id |-> validId, f |-> hit.f, d |-> hit.d, n |-> hit.n]
<1>1. hit.f \in Int /\ hit.d \in Int /\ hit.n \in Int /\ validId \in Int
  BY DEF CacheType, AnyRun
<1>2. offset \in Int
  BY <1>1
<1>3. cid \in Cid
  BY <1>1 DEF Cid
<1>4. HitPlace(hit, target) = [target |-> target, fclus |-> hit.f + offset,
                               dclus |-> hit.d + offset, cid |-> cid]
  BY DEF HitPlace
<1> HIDE DEF offset, cid
<1>5. hit.f + offset \in Int /\ hit.d + offset \in Int
  BY <1>1, <1>2
<1> QED BY <1>3, <1>4, <1>5 DEF Place

(* A lookup only moves a run to the front, and leaves a thread on a place.  *)
LEMMA LookupLen ==
  ASSUME CacheType, NEW t \in Threads, NEW target \in Int, NEW after \in PCs,
         after # "alloc", Lookup(t, target, after)
  PROVE  /\ lru' \in Seq(AnyRun) /\ Len(lru') = Len(lru)
         /\ loc' \in [Threads -> Place]
         /\ \E l \in PCs : l # "alloc" /\ pc' = [pc EXCEPT ![t] = l]
<1> DEFINE start == [Nowhere EXCEPT !.target = target, !.dclus = iStart]
<1>1. start \in Place
  BY NowherePlace DEF CacheType, Nowhere, Place
<1>2. \E l \in PCs : l # "alloc" /\ pc' = [pc EXCEPT ![t] = l]
  <2>1. pc' = [pc EXCEPT ![t] = after] \/ pc' = [pc EXCEPT ![t] = "walk"]
    BY DEF Lookup
  <2>2. "walk" \in PCs /\ "walk" # "alloc"
    BY DEF PCs
  <2> QED BY <2>1, <2>2, Zenon
<1>3. CASE loc' = [loc EXCEPT ![t] = start] /\ UNCHANGED lru
  BY <1>1, <1>2, <1>3 DEF CacheType
<1>4. CASE \E i \in DOMAIN lru : /\ loc' = [loc EXCEPT ![t] = HitPlace(lru[i], target)]
                                /\ lru' = ToFront(i, lru[i])
  <2>1. PICK i \in DOMAIN lru : /\ loc' = [loc EXCEPT ![t] = HitPlace(lru[i], target)]
                               /\ lru' = ToFront(i, lru[i])
    BY <1>4
  <2>2. lru[i] \in AnyRun
    BY ElementOfSeq, LenProperties DEF CacheType
  <2>3. HitPlace(lru[i], target) \in Place
    BY <2>2, HitPlaceType
  <2>4. loc' \in [Threads -> Place]
    BY <2>1, <2>3 DEF CacheType
  <2>5. lru' \in Seq(AnyRun) /\ Len(lru') = Len(lru)
    BY <2>1, <2>2, FrontLen DEF CacheType
  <2> QED BY <1>2, <2>4, <2>5
<1> QED BY <1>3, <1>4 DEF Lookup

-----------------------------------------------------------------------------
(* The threads that are allocating.                                         *)

LEMMA SameAllocating ==
  ASSUME CacheType, NEW t \in Threads, NEW l \in PCs, l # "alloc", pc[t] # "alloc",
         pc' = [pc EXCEPT ![t] = l]
  PROVE  Allocating' = Allocating /\ pc' \in [Threads -> PCs]
  BY DEF CacheType, Allocating

LEMMA JoinsAllocating ==
  ASSUME CacheType, IsFiniteSet(Threads), NEW t \in Threads, pc[t] # "alloc",
         pc' = [pc EXCEPT ![t] = "alloc"]
  PROVE  /\ Cardinality(Allocating') = Cardinality(Allocating) + 1
         /\ pc' \in [Threads -> PCs]
<1>1. IsFiniteSet(Allocating) /\ t \notin Allocating
  BY FS_Subset DEF Allocating
<1>2. Allocating' = Allocating \cup {t}
  BY DEF CacheType, Allocating
<1>3. Cardinality(Allocating \cup {t}) = Cardinality(Allocating) + 1
  BY <1>1, FS_AddElement
<1> QED BY <1>2, <1>3 DEF CacheType, PCs

LEMMA LeavesAllocating ==
  ASSUME CacheType, IsFiniteSet(Threads), NEW t \in Threads, pc[t] = "alloc",
         NEW l \in PCs, l # "alloc", pc' = [pc EXCEPT ![t] = l]
  PROVE  /\ Cardinality(Allocating') = Cardinality(Allocating) - 1
         /\ pc' \in [Threads -> PCs]
<1>1. IsFiniteSet(Allocating) /\ t \in Allocating
  BY FS_Subset DEF Allocating
<1>2. Allocating' = Allocating \ {t}
  BY DEF CacheType, Allocating
<1>3. Cardinality(Allocating \ {t}) = Cardinality(Allocating) - 1
  BY <1>1, FS_RemoveElement
<1> QED BY <1>2, <1>3 DEF CacheType

(* fat_get_cluster returns to a caller that does not allocate.              *)
LEMMA ReturnPlace ==
  ASSUME CacheType, NEW t \in Threads, Return(t)
  PROVE  /\ \E l \in PCs : l # "alloc" /\ pc' = [pc EXCEPT ![t] = l]
         /\ loc' \in [Threads -> Place]
<1>1. t \in Readers \/ t = Writer
  BY DEF Threads
<1>2. t \in Readers => t # Writer
  BY ThreadAssumption
<1>3. After(t) \in {"idle", "link", "cut"}
  BY <1>1, <1>2 DEF After
<1>4. After(t) \in PCs /\ After(t) # "alloc"
  BY <1>3 DEF PCs
<1>5. pc' = [pc EXCEPT ![t] = After(t)]
  BY DEF Return
<1>6. loc' \in [Threads -> Place]
  BY NowherePlace DEF Return, CacheType
<1> QED BY <1>4, <1>5, <1>6

LEMMA RunTyped ==
  ASSUME CacheType, NEW t \in Threads
  PROVE  loc[t] \in Place /\ loc[t].cid \in Cid /\ Run(loc[t].cid) \in AnyRun
  BY DEF CacheType, Place, Cid, AnyRun, Run

LEMMA StepPlace ==
  ASSUME NEW p \in Place, NEW d \in Int, NEW cid \in Cid
  PROVE  [p EXCEPT !.fclus = @ + 1, !.dclus = d, !.cid = cid] \in Place
<1>1. p.fclus + 1 \in Int
  BY DEF Place
<1> QED BY <1>1 DEF Place

LEMMA EntryInt == ASSUME CacheType, NEW t \in Threads PROVE Entry(t) \in Int
  BY Numbers DEF CacheType, Entry, Place

-----------------------------------------------------------------------------
(* The places of the cache.                                                 *)

(* A step that takes or gives back no place: the list keeps its length and  *)
(* nobody begins or ends an allocation.                                     *)
LEMMA NoPlace ==
  ASSUME CountInv, NEW t \in Threads, NEW l \in PCs, l # "alloc", pc[t] # "alloc",
         pc' = [pc EXCEPT ![t] = l], lru' \in Seq(AnyRun), Len(lru') = Len(lru),
         UNCHANGED nrCaches
  PROVE  CountsPlaces' /\ pc' \in [Threads -> PCs]
  BY SameAllocating DEF CountInv, CacheType, CountsPlaces, Allocating

LEMMA CountInit == IsFiniteSet(Readers) /\ Init => CountInv
<1> SUFFICES ASSUME IsFiniteSet(Readers), Init PROVE CountInv
  OBVIOUS
<1>1. IsFiniteSet(Threads)
  BY FS_AddElement DEF Threads
<1>2. CacheType
  BY Numbers, NowherePlace DEF Init, CacheType, PCs, FREE, VALID
<1>3. {t \in Threads : pc[t] = "alloc"} = {}
  BY DEF Init
<1>4. CountsPlaces
  <2>1. Len(lru) = 0 /\ nrCaches = 0
    BY DEF Init
  <2>2. Cardinality({t \in Threads : pc[t] = "alloc"}) = 0
    BY <1>3, FS_EmptySet
  <2> QED BY <2>1, <2>2 DEF CountsPlaces
<1> QED BY <1>1, <1>2, <1>4 DEF CountInv

(* A read, a walk, and an addition that needs no place of its own.          *)
LEMMA CountWalk ==
  ASSUME CountInv, NEW t \in Threads,
         Read(t) \/ WalkStep(t) \/ AddRefused(t) \/ AddMerge(t) \/ AddEvict(t)
  PROVE  CountInv'
<1> USE DEF CountInv
<1>1. CASE Read(t)
  <2>1. PICK target \in 1..(size - 1) : Lookup(t, target, "idle")
    BY <1>1 DEF Read
  <2>2. target \in Int /\ "idle" \in PCs /\ pc[t] # "alloc"
    BY <1>1 DEF Read, CacheType, PCs
  <2>3. /\ lru' \in Seq(AnyRun) /\ Len(lru') = Len(lru) /\ loc' \in [Threads -> Place]
        /\ \E l \in PCs : l # "alloc" /\ pc' = [pc EXCEPT ![t] = l]
    BY <2>1, <2>2, LookupLen
  <2>4. CountsPlaces' /\ pc' \in [Threads -> PCs]
    BY <1>1, <2>2, <2>3, NoPlace DEF Read
  <2> QED BY <1>1, <2>3, <2>4 DEF Read, CacheType, table
<1>2. CASE WalkStep(t)
  <2>1. pc[t] = "walk" /\ UNCHANGED <<table, cache, new>>
    BY <1>2 DEF WalkStep
  <2>2. CASE pc' = [pc EXCEPT ![t] = "idle"] /\ loc' = [loc EXCEPT ![t] = Nowhere]
    <3>1. CountsPlaces' /\ pc' \in [Threads -> PCs]
      BY <2>1, <2>2, NoPlace DEF PCs, CacheType, cache
    <3>2. loc' \in [Threads -> Place]
      BY <2>2, NowherePlace DEF CacheType
    <3> QED BY <2>1, <3>1, <3>2 DEF CacheType, table, cache
  <2>3. CASE /\ loc' = [loc EXCEPT ![t] = [loc[t] EXCEPT !.fclus = @ + 1, !.dclus = Entry(t),
                            !.cid = Extended(loc[t].cid, loc[t].fclus + 1, Entry(t))]]
             /\ UNCHANGED pc
    <3> DEFINE x == Extended(loc[t].cid, loc[t].fclus + 1, Entry(t))
    <3>1. loc[t] \in Place /\ loc[t].cid \in Cid /\ Entry(t) \in Int
      BY RunTyped, EntryInt
    <3>2. loc[t].fclus \in Int
      BY <3>1 DEF Place
    <3>3. x \in Cid
      BY <3>1, <3>2, Numbers DEF Extended, Cid
    <3> HIDE DEF x
    <3>4. [loc[t] EXCEPT !.fclus = @ + 1, !.dclus = Entry(t), !.cid = x] \in Place
      BY <3>1, <3>2, <3>3, StepPlace
    <3>5. loc' = [loc EXCEPT ![t] = [loc[t] EXCEPT !.fclus = @ + 1, !.dclus = Entry(t),
                                                  !.cid = x]]
      BY <2>3 DEF x
    <3>6. loc' \in [Threads -> Place]
      BY <3>4, <3>5 DEF CacheType
    <3> QED BY <2>1, <2>3, <3>6 DEF CacheType, CountsPlaces, table, cache
  <2> QED BY <1>2, <2>2, <2>3 DEF WalkStep
<1>3. CASE AddRefused(t)
  <2>1. /\ \E l \in PCs : l # "alloc" /\ pc' = [pc EXCEPT ![t] = l]
        /\ loc' \in [Threads -> Place]
    BY <1>3, ReturnPlace DEF AddRefused
  <2>2. pc[t] # "alloc" /\ UNCHANGED <<table, cache, new>>
    BY <1>3 DEF AddRefused, Ended
  <2>3. CountsPlaces' /\ pc' \in [Threads -> PCs]
    BY <2>1, <2>2, NoPlace DEF CacheType, cache
  <2> QED BY <2>1, <2>2, <2>3 DEF CacheType, table, cache
<1>4. CASE AddMerge(t)
  <2>1. /\ \E l \in PCs : l # "alloc" /\ pc' = [pc EXCEPT ![t] = l]
        /\ loc' \in [Threads -> Place]
    BY <1>4, ReturnPlace DEF AddMerge
  <2>2. pc[t] # "alloc" /\ UNCHANGED <<table, nrCaches, validId, new>>
    BY <1>4 DEF AddMerge, Ended
  <2>3. lru' \in Seq(AnyRun) /\ Len(lru') = Len(lru)
    BY <1>4, RunTyped, MergeLen DEF AddMerge
  <2>4. CountsPlaces' /\ pc' \in [Threads -> PCs]
    BY <2>1, <2>2, <2>3, NoPlace
  <2> QED BY <2>1, <2>2, <2>3, <2>4 DEF CacheType, table
<1>5. CASE AddEvict(t)
  <2>1. /\ \E l \in PCs : l # "alloc" /\ pc' = [pc EXCEPT ![t] = l]
        /\ loc' \in [Threads -> Place]
    BY <1>5, ReturnPlace DEF AddEvict
  <2>2. pc[t] # "alloc" /\ UNCHANGED <<table, nrCaches, validId, new>>
    BY <1>5 DEF AddEvict, Adding, Ended
  <2>3. lru' \in Seq(AnyRun) /\ Len(lru') = Len(lru)
    BY <1>5, RunTyped, EvictLen DEF AddEvict, CacheType
  <2>4. CountsPlaces' /\ pc' \in [Threads -> PCs]
    BY <2>1, <2>2, <2>3, NoPlace
  <2> QED BY <2>1, <2>2, <2>3, <2>4 DEF CacheType, table
<1> QED BY <1>1, <1>2, <1>3, <1>4, <1>5

(* The two halves of an addition, with the allocation between them.         *)
LEMMA CountAdd ==
  ASSUME CountInv, NEW t \in Threads, AddRoom(t) \/ AddInsert(t) \/ AddNoMemory(t)
  PROVE  CountInv'
<1> USE DEF CountInv
<1>0. Cardinality(Allocating) \in Nat /\ Len(lru) \in Nat
  BY FS_Subset, FS_CardinalityType, LenProperties DEF Allocating, CacheType
<1>1. CASE AddRoom(t)
  <2>1. /\ pc[t] # "alloc" /\ pc' = [pc EXCEPT ![t] = "alloc"] /\ nrCaches' = nrCaches + 1
        /\ UNCHANGED <<table, lru, validId, loc, new>>
    BY <1>1 DEF AddRoom, Adding, Ended
  <2>2. Cardinality(Allocating') = Cardinality(Allocating) + 1 /\ pc' \in [Threads -> PCs]
    BY <2>1, JoinsAllocating
  <2>3. CountsPlaces'
    BY <1>0, <2>1, <2>2 DEF CountsPlaces, Allocating
  <2> QED BY <2>1, <2>2, <2>3 DEF CacheType, table
<1>2. ASSUME pc[t] = "alloc", Return(t)
      PROVE  /\ Cardinality(Allocating') = Cardinality(Allocating) - 1
             /\ pc' \in [Threads -> PCs] /\ loc' \in [Threads -> Place]
  BY <1>2, ReturnPlace, LeavesAllocating
<1>3. CASE AddInsert(t)
  <2>1. /\ Cardinality(Allocating') = Cardinality(Allocating) - 1
        /\ pc' \in [Threads -> PCs] /\ loc' \in [Threads -> Place]
    BY <1>2, <1>3 DEF AddInsert
  <2>2. UNCHANGED <<table, validId, new>>
    BY <1>3 DEF AddInsert
  <2>3. CASE lru' = <<Run(loc[t].cid)>> \o lru /\ UNCHANGED nrCaches
    <3>1. lru' \in Seq(AnyRun) /\ Len(lru') = Len(lru) + 1
      BY <2>3, RunTyped, AddLen DEF CacheType
    <3>2. CountsPlaces'
      BY <1>0, <2>1, <2>3, <3>1 DEF CountsPlaces, Allocating
    <3> QED BY <2>1, <2>2, <2>3, <3>1, <3>2 DEF CacheType, table
  <2>4. CASE Merge(loc[t].cid) /\ nrCaches' = nrCaches - 1
    <3>1. lru' \in Seq(AnyRun) /\ Len(lru') = Len(lru)
      BY <2>4, RunTyped, MergeLen
    <3>2. CountsPlaces'
      BY <1>0, <2>1, <2>4, <3>1 DEF CountsPlaces, Allocating
    <3> QED BY <2>1, <2>2, <2>4, <3>1, <3>2 DEF CacheType, table
  <2> QED BY <1>3, <2>3, <2>4 DEF AddInsert
<1>4. CASE AddNoMemory(t)
  <2>1. /\ Cardinality(Allocating') = Cardinality(Allocating) - 1
        /\ pc' \in [Threads -> PCs] /\ loc' \in [Threads -> Place]
    BY <1>2, <1>4 DEF AddNoMemory
  <2>2. nrCaches' = nrCaches - 1 /\ UNCHANGED <<table, lru, validId, new>>
    BY <1>4 DEF AddNoMemory
  <2>3. CountsPlaces'
    BY <1>0, <2>1, <2>2 DEF CountsPlaces, Allocating
  <2> QED BY <2>1, <2>2, <2>3 DEF CacheType, table
<1> QED BY <1>1, <1>3, <1>4

(* The steps of the writer.                                                 *)
LEMMA CountWrite ==
  ASSUME CountInv, NEW t \in Threads,
         Append1(t) \/ Link(t) \/ Truncate(t) \/ Inval(t) \/ FreeAll(t) \/ SeekEnd(t) \/ Cut(t)
  PROVE  CountInv'
<1> USE DEF CountInv
<1>0. EOF \in Int /\ FREE \in Int /\ Clusters \subseteq Int /\ Nowhere \in Place
  BY Numbers, NowherePlace
<1>1. CASE Append1(t)
  <2>1. PICK c \in Free :
         /\ fat' = [fat EXCEPT ![c] = EOF]
         /\ IF iStart = 0
            THEN /\ iStart' = c /\ size' = 1
                 /\ UNCHANGED <<lru, pc, loc, new>>
            ELSE /\ new' = c
                 /\ Lookup(t, EOF, "link")
                 /\ UNCHANGED <<iStart, size>>
    BY <1>1 DEF Append1
  <2>2. c \in Int /\ fat' \in [Clusters -> Int]
    BY <1>0, <2>1 DEF CacheType, Free
  <2>3. pc[t] # "alloc" /\ UNCHANGED <<nrCaches, validId>>
    BY <1>1 DEF Append1
  <2>4. CASE iStart = 0
    BY <2>1, <2>2, <2>3, <2>4 DEF CacheType, CountsPlaces
  <2>5. CASE iStart # 0
    <3>1. Lookup(t, EOF, "link") /\ "link" \in PCs
      BY <2>1, <2>5 DEF PCs
    <3>2. /\ lru' \in Seq(AnyRun) /\ Len(lru') = Len(lru) /\ loc' \in [Threads -> Place]
          /\ \E l \in PCs : l # "alloc" /\ pc' = [pc EXCEPT ![t] = l]
      BY <1>0, <3>1, LookupLen
    <3>3. CountsPlaces' /\ pc' \in [Threads -> PCs]
      BY <2>3, <3>2, NoPlace
    <3> QED BY <2>1, <2>2, <2>3, <2>5, <3>2, <3>3 DEF CacheType
  <2> QED BY <2>4, <2>5
<1>2. CASE Link(t)
  <2>1. /\ pc[t] # "alloc" /\ pc' = [pc EXCEPT ![t] = "idle"] /\ UNCHANGED <<iStart, cache>>
        /\ fat' = [fat EXCEPT ![loc[t].dclus] = new] /\ size' = size + 1 /\ new' = 0
        /\ loc' = [loc EXCEPT ![t] = Nowhere]
    BY <1>2 DEF Link
  <2>2. CountsPlaces' /\ pc' \in [Threads -> PCs]
    BY <2>1, NoPlace DEF PCs, CacheType, cache
  <2>3. fat' \in [Clusters -> Int]
    BY <2>1 DEF CacheType
  <2>4. loc' \in [Threads -> Place]
    BY <1>0, <2>1 DEF CacheType
  <2> QED BY <2>1, <2>2, <2>3, <2>4 DEF CacheType, cache
<1>3. CASE Truncate(t)
  <2>1. /\ pc[t] # "alloc" /\ pc' = [pc EXCEPT ![t] = "inval"] /\ size' \in Int
        /\ UNCHANGED <<fat, iStart, cache, loc, new>>
    BY <1>3 DEF Truncate, CacheType
  <2>2. CountsPlaces' /\ pc' \in [Threads -> PCs]
    BY <2>1, NoPlace DEF PCs, CacheType, cache
  <2> QED BY <2>1, <2>2 DEF CacheType, cache
<1>4. CASE Inval(t)
  <2>1. /\ pc[t] # "alloc" /\ pc' = [pc EXCEPT ![t] = "free"] /\ UNCHANGED <<table, loc, new>>
        /\ lru' = <<>> /\ nrCaches' = nrCaches - Len(lru) /\ validId' = NextId
    BY <1>4 DEF Inval
  <2>2. Allocating' = Allocating /\ pc' \in [Threads -> PCs]
    BY <2>1, SameAllocating DEF PCs
  <2>3. lru' \in Seq(AnyRun) /\ Len(lru') = 0 /\ Len(lru) \in Nat
    BY <2>1, LenProperties DEF CacheType
  <2>4. Cardinality(Allocating) \in Nat
    BY FS_Subset, FS_CardinalityType DEF Allocating
  <2>5. CountsPlaces'
    <3>1. nrCaches = Len(lru) + Cardinality(Allocating)
      BY DEF CountsPlaces, Allocating
    <3>2. nrCaches' = Len(lru') + Cardinality(Allocating')
      BY <2>1, <2>2, <2>3, <2>4, <3>1
    <3> QED BY <3>2 DEF CountsPlaces, Allocating
  <2>6. validId' \in Int
    BY <2>1 DEF NextId, CacheType, VALID
  <2> QED BY <2>1, <2>2, <2>3, <2>5, <2>6 DEF CacheType, table
<1>5. CASE FreeAll(t)
  <2>1. /\ pc[t] # "alloc" /\ pc' = [pc EXCEPT ![t] = "idle"] /\ iStart' = 0
        /\ UNCHANGED <<size, cache, loc, new>>
        /\ fat' = [c \in Clusters |-> IF \E k \in 0..MaxLen : c = Nth(k) THEN FREE ELSE fat[c]]
    BY <1>5 DEF FreeAll
  <2>2. CountsPlaces' /\ pc' \in [Threads -> PCs]
    BY <2>1, NoPlace DEF PCs, CacheType, cache
  <2>3. fat' \in [Clusters -> Int]
    BY <1>0, <2>1 DEF CacheType
  <2> QED BY <2>1, <2>2, <2>3 DEF CacheType, cache
<1>6. CASE SeekEnd(t)
  <2>1. /\ pc[t] # "alloc" /\ Lookup(t, size - 1, "cut") /\ "cut" \in PCs /\ size - 1 \in Int
        /\ UNCHANGED <<table, nrCaches, validId, new>>
    BY <1>6 DEF SeekEnd, CacheType, PCs
  <2>2. /\ lru' \in Seq(AnyRun) /\ Len(lru') = Len(lru) /\ loc' \in [Threads -> Place]
        /\ \E l \in PCs : l # "alloc" /\ pc' = [pc EXCEPT ![t] = l]
    BY <2>1, LookupLen
  <2>3. CountsPlaces' /\ pc' \in [Threads -> PCs]
    BY <2>1, <2>2, NoPlace
  <2> QED BY <2>1, <2>2, <2>3 DEF CacheType, table
<1>7. CASE Cut(t)
  <2>1. /\ pc[t] # "alloc" /\ pc' = [pc EXCEPT ![t] = "idle"]
        /\ loc' = [loc EXCEPT ![t] = Nowhere] /\ UNCHANGED <<iStart, size, cache, new>>
        /\ fat' = [c \in Clusters |-> IF c = loc[t].dclus THEN EOF
                                  ELSE IF \E k \in size..MaxLen : c = Nth(k) THEN FREE
                                  ELSE fat[c]]
    BY <1>7 DEF Cut
  <2>2. CountsPlaces' /\ pc' \in [Threads -> PCs]
    BY <2>1, NoPlace DEF PCs, CacheType, cache
  <2>3. fat' \in [Clusters -> Int]
    BY <1>0, <2>1 DEF CacheType
  <2> QED BY <1>0, <2>1, <2>2, <2>3 DEF CacheType, cache
<1> QED BY <1>1, <1>2, <1>3, <1>4, <1>5, <1>6, <1>7

LEMMA CountNext == CountInv /\ [Next]_vars => CountInv'
<1>1. CountInv /\ UNCHANGED vars => CountInv'
  BY DEF vars, table, cache, CountInv, CacheType, CountsPlaces
<1>2. CountInv /\ Next => CountInv'
  BY CountWalk, CountAdd, CountWrite DEF Next
<1> QED BY <1>1, <1>2

(* nr_caches counts the runs in the list and the places of the threads that *)
(* are allocating, for any number of readers: fat_cache_add gives back what *)
(* it takes, across invalidations that come in between.                     *)
THEOREM PlacesCounted == ASSUME IsFiniteSet(Readers) PROVE Spec => []CountsPlaces
<1>1. Init => CountInv
  BY CountInit
<1>2. CountInv => CountsPlaces
  BY DEF CountInv
<1> QED BY <1>1, <1>2, CountNext, PTL DEF Spec

(* As long as no more threads than FAT_MAX_CACHE can map one file together, *)
(* fat_cache_add finds a run to overwrite whenever it finds no room.        *)
THEOREM VictimFound ==
  ASSUME IsFiniteSet(Readers), Cardinality(Threads) <= MaxCache
  PROVE  Spec => []VictimExists
<1>1. CountInv => VictimExists
  <2> SUFFICES ASSUME CountInv, NEW t \in Threads, Adding(t), ~HasRoom
               PROVE  lru # <<>>
    BY DEF VictimExists
  <2>1. IsFiniteSet(Threads) /\ Cardinality(Threads) \in Nat
    BY FS_CardinalityType DEF CountInv
  <2>2. Allocating \subseteq Threads \ {t}
    BY DEF Allocating, Adding, Ended
  <2>3. Cardinality(Threads \ {t}) = Cardinality(Threads) - 1 /\ IsFiniteSet(Threads \ {t})
    BY <2>1, FS_RemoveElement
  <2>4. Cardinality(Allocating) <= Cardinality(Threads) - 1 /\ Cardinality(Allocating) \in Nat
    BY <2>2, <2>3, FS_Subset, FS_CardinalityType
  <2>5. nrCaches >= MaxCache
    BY CacheAssumption DEF HasRoom, CountInv, CacheType
  <2>6. Len(lru) > 0
    BY <2>1, <2>4, <2>5, CacheAssumption, LenProperties
       DEF CountInv, CacheType, CountsPlaces, Allocating
  <2> QED BY <2>6
<1>2. Init => CountInv
  BY CountInit
<1> QED BY <1>1, <1>2, CountNext, PTL DEF Spec

-----------------------------------------------------------------------------
(* The clusters of the file. Nth is a function by recursion: that one       *)
(* exists which follows the rule, and that what holds along it is shown by  *)
(* going from each cluster to the next, is proved here from the             *)
(* cardinality of finite sets.                                              *)

(* What holds of 0, and of n + 1 when it holds of n, holds of every number: *)
(* else n -> n + 1 would map a finite set into itself without 0.            *)
LEMMA Steps ==
  ASSUME NEW S \in SUBSET Nat, 0 \in S, \A n \in S : n + 1 \in S
  PROVE  S = Nat
<1> SUFFICES ASSUME NEW N \in Nat, N \notin S PROVE FALSE
  OBVIOUS
<1> DEFINE B == S \cap (0..N)
           f == [n \in B |-> n + 1]
<1>1. IsFiniteSet(B)
  <2>1. 0 \in Int /\ N \in Int /\ B \in SUBSET (0..N)
    OBVIOUS
  <2>2. IsFiniteSet(0..N)
    BY <2>1, FS_Interval
  <2> HIDE DEF B
  <2> QED BY <2>1, <2>2, FS_Subset
<1>2. Cardinality(B) \in Nat /\ IsFiniteSet(B \ {0}) /\ Cardinality(B \ {0}) = Cardinality(B) - 1
  <2>1. 0 \in B
    OBVIOUS
  <2> HIDE DEF B
  <2> QED BY <1>1, <2>1, FS_RemoveElement, FS_CardinalityType
<1>3. f \in [B -> B \ {0}]
  BY Z3
<1>4. \E x, y \in B : x # y /\ f[x] = f[y]
  <2> HIDE DEF B, f
  <2> QED BY <1>1, <1>2, <1>3, FS_PigeonHole
<1> QED BY <1>4

(* The cluster after c, and the first n steps of the chain that begins at s. *)
Successor(f, c) == IF c \in Clusters THEN f[c] ELSE EOF
Follows(f, s, w, n) == w[0] = s /\ \A j \in 0..(n - 1) : w[j + 1] = Successor(f, w[j])

LEMMA FollowsOnce ==
  ASSUME NEW f, NEW s, NEW n \in Nat, NEW v, NEW w, Follows(f, s, v, n), Follows(f, s, w, n)
  PROVE  \A j \in 0..n : v[j] = w[j]
<1> DEFINE S == {j \in Nat : j <= n => v[j] = w[j]}
<1>1. 0 \in S
  BY DEF Follows
<1>2. ASSUME NEW j \in S PROVE j + 1 \in S
  BY <1>2 DEF Follows
<1>3. S = Nat
  BY <1>1, <1>2, Steps
<1> QED BY <1>3

LEMMA FollowsExists ==
  ASSUME NEW f, NEW s
  PROVE  \A n \in Nat : \E w \in [0..n -> {s, EOF} \cup {f[c] : c \in Clusters}] : Follows(f, s, w, n)
<1> DEFINE T == {s, EOF} \cup {f[c] : c \in Clusters}
           S == {n \in Nat : \E w \in [0..n -> T] : Follows(f, s, w, n)}
<1>1. 0 \in S
  <2> DEFINE w == [j \in 0..0 |-> s]
  <2>1. w \in [0..0 -> T] /\ Follows(f, s, w, 0)
    BY DEF Follows
  <2> QED BY <2>1
<1>2. ASSUME NEW n \in S PROVE n + 1 \in S
  <2>1. PICK v \in [0..n -> T] : Follows(f, s, v, n)
    OBVIOUS
  <2> DEFINE w == [j \in 0..(n + 1) |-> IF j <= n THEN v[j] ELSE Successor(f, v[n])]
  <2>2. Successor(f, v[n]) \in T
    BY DEF Successor
  <2> HIDE DEF T
  <2>3. w \in [0..(n + 1) -> T]
    BY <2>1, <2>2
  <2>4. Follows(f, s, w, n + 1)
    BY <2>1 DEF Follows
  <2> QED BY <2>3, <2>4
<1>3. S = Nat
  <2> HIDE DEF S
  <2> QED BY <1>1, <1>2, Steps DEF S
<1> QED BY <1>3

(* The chain is what all its beginnings agree on.                           *)
Chain(f, s) == [n \in Nat |-> (CHOOSE w : Follows(f, s, w, n))[n]]

LEMMA ChainFollows ==
  ASSUME NEW f, NEW s
  PROVE  /\ Chain(f, s)[0] = s
         /\ \A n \in Nat : Chain(f, s)[n + 1] = Successor(f, Chain(f, s)[n])
<1> DEFINE W(n) == CHOOSE w : Follows(f, s, w, n)
<1>1. \A n \in Nat : Follows(f, s, W(n), n)
  BY FollowsExists
<1>2. \A n \in Nat : Chain(f, s)[n] = W(n)[n]
  BY DEF Chain
<1>3. ASSUME NEW n \in Nat PROVE Chain(f, s)[n + 1] = Successor(f, Chain(f, s)[n])
  <2> HIDE DEF W
  <2>1. Follows(f, s, W(n + 1), n + 1) /\ Follows(f, s, W(n + 1), n) /\ Follows(f, s, W(n), n)
    BY <1>1 DEF Follows
  <2>2. W(n + 1)[n] = W(n)[n]
    BY <2>1, FollowsOnce
  <2>3. W(n + 1)[n + 1] = Successor(f, W(n + 1)[n])
    BY <2>1 DEF Follows
  <2> QED BY <1>2, <2>2, <2>3
<1>4. Chain(f, s)[0] = s
  <2> HIDE DEF W
  <2> QED BY <1>1, <1>2 DEF Follows
<1> QED BY <1>3, <1>4

(* Nth, of any table and first cluster, so that it can be read before and   *)
(* after a step: the recursive function of its definition is that chain.    *)
Walked(f, s, k) ==
    LET follow[j \in Nat] == IF j = 0 THEN s
                             ELSE LET c == follow[j - 1]
                                  IN  IF c \in Clusters THEN f[c] ELSE EOF
    IN  follow[k]

LEMMA WalkedFollows ==
  ASSUME NEW f, NEW s
  PROVE  /\ Walked(f, s, 0) = s
         /\ \A n \in Nat : Walked(f, s, n + 1) = Successor(f, Walked(f, s, n))
<1> DEFINE P(g) == g = [j \in Nat |-> IF j = 0 THEN s
                             ELSE LET c == g[j - 1]
                                  IN  IF c \in Clusters THEN f[c] ELSE EOF]
           h == CHOOSE g : P(g)
           g0 == Chain(f, s)
<1>1. P(g0)
  <2>1. g0 = [j \in Nat |-> g0[j]]
    BY DEF Chain
  <2>2. \A j \in Nat : g0[j] = IF j = 0 THEN s ELSE Successor(f, g0[j - 1])
    <3> SUFFICES ASSUME NEW j \in Nat, j # 0 PROVE g0[j] = Successor(f, g0[j - 1])
      BY ChainFollows
    <3>1. j - 1 \in Nat /\ (j - 1) + 1 = j
      OBVIOUS
    <3> HIDE DEF g0
    <3> QED BY <3>1, ChainFollows DEF g0
  <2> HIDE DEF g0
  <2> QED BY <2>1, <2>2 DEF Successor
<1>2. P(h)
  BY <1>1
<1>3. \A n : Walked(f, s, n) = h[n]
  BY DEF Walked
<1> HIDE DEF h
<1>4. h[0] = s
  BY <1>2
<1>5. ASSUME NEW n \in Nat PROVE h[n + 1] = Successor(f, h[n])
  BY <1>2 DEF Successor
<1> QED BY <1>3, <1>4, <1>5

LEMMA NthWalked ==
  /\ \A n : Nth(n) = Walked(fat, iStart, n)
  /\ \A n : Nth(n)' = Walked(fat', iStart', n)
  BY DEF Nth, Walked

-----------------------------------------------------------------------------
(* The inductive invariant, with one reader beside the writer.              *)

(* The writer is between the invalidation and the cut of a truncation.      *)
Cutting == pc[Writer] \in {"free", "cut"} \/ (pc[Writer] \in {"walk", "alloc"} /\ new = 0)
Shrinking == Cutting \/ pc[Writer] = "inval"

file == [k \in Nat |-> Nth(k)]

ValueInv ==
    /\ fat \in [Clusters -> Clusters \cup {FREE, EOF}]
    /\ iStart \in Clusters \cup {0} /\ new \in Clusters \cup {0}
    /\ size \in 0..MaxLen
    /\ nrCaches <= MaxCache /\ validId \in 1..MaxId

(* Where the threads may be: new is on its way between the allocation and   *)
(* the link, and its entry ends the chain it will be the last of.           *)
PhaseInv ==
    /\ \A r \in Readers : pc[r] \in {"idle", "walk", "alloc"}
    /\ new # 0 => pc[Writer] \in {"walk", "alloc", "link"} /\ fat[new] = EOF /\ size < MaxLen
    /\ pc[Writer] = "link" => new # 0
    /\ pc[Writer] = "inval" => validId < MaxId
    /\ Cutting /\ pc[Writer] # "free" => size > 0

(* The file has L clusters, all different; the last one has the end mark.   *)
FileInv(L) ==
    /\ L \in 0..MaxLen /\ (L = 0 <=> iStart = 0)
    /\ \A k \in 0..(L - 1) : file[k] \in Clusters /\ file[k] # new
    /\ L > 0 => file[L] = EOF
    /\ \A j, k \in 0..(L - 1) : file[j] = file[k] => j = k
    /\ IF Shrinking THEN size < L ELSE L = size

(* A run of the cache is a run of the chain, and of what the cut leaves.    *)
RunRight(run, L) ==
    /\ run.f \in Nat \ {0} /\ run.n \in Nat /\ run.f + run.n < L
    /\ \A k \in 0..run.n : file[run.f + k] = run.d + k
    /\ Cutting => run.f + run.n < size

Starts == {lru[i].f : i \in DOMAIN lru}
ListInv(L) ==
    /\ \A i \in DOMAIN lru : RunRight(lru[i], L)
    /\ \A i, j \in DOMAIN lru : lru[i].f = lru[j].f => i = j

(* A thread stands on the chain, and is on its way to a cluster that stays. *)
Stands(t, L) ==
    /\ file[loc[t].fclus] = loc[t].dclus
    /\ loc[t].fclus \in 0..(L - 1) /\ loc[t].fclus <= loc[t].target
Aims(t, L) ==
    /\ t \in Readers => loc[t].target < size
    /\ t = Writer =>
         /\ loc[t].target = IF new # 0 THEN EOF ELSE size - 1
         /\ pc[t] # "walk" => loc[t].fclus = IF new # 0 THEN L - 1 ELSE size - 1

(* The run a walk carries is right as long as fat_cache_add would accept    *)
(* it. A copy of a run in the cache goes back to the cache only in place of *)
(* another run: it never waits for an allocation.                           *)
Carries(t, L) ==
    LET cid == loc[t].cid IN
    /\ cid.f = -1 => cid = NoRun
    /\ cid.f # -1 =>
         /\ cid.id \in 0..validId
         /\ cid.id = VALID => cid.f + cid.n = loc[t].fclus
         /\ cid.id \in {VALID, validId} => RunRight(cid, L)
         /\ cid.f + cid.n = loc[t].fclus \/ loc[t].fclus = loc[t].target
         /\ cid.id = validId => cid.f \in Starts \/ Len(lru) = MaxCache
    /\ pc[t] = "alloc" => cid.f # -1 /\ cid.id = VALID

ThreadInv(t, L) ==
    /\ pc[t] \in {"walk", "alloc", "link", "cut"} => Stands(t, L) /\ Aims(t, L)
    /\ pc[t] \in {"walk", "alloc"} => Carries(t, L)

InvAt(L) == /\ CountInv /\ ValueInv /\ PhaseInv
            /\ FileInv(L) /\ ListInv(L) /\ \A t \in Threads : ThreadInv(t, L)
CacheInv == \E L \in Nat : InvAt(L)

-----------------------------------------------------------------------------
(* The file before and after a step.                                        *)

LEMMA FileFollows ==
  /\ file[0] = iStart /\ \A n \in Nat : file[n + 1] = Successor(fat, file[n])
  /\ file'[0] = iStart' /\ \A n \in Nat : file'[n + 1] = Successor(fat', file'[n])
<1>1. \A n \in Nat : /\ file[n] = Walked(fat, iStart, n)
                     /\ file'[n] = Walked(fat', iStart', n)
  BY NthWalked DEF file
<1>2. \A n \in Nat : n + 1 \in Nat
  OBVIOUS
<1> QED BY <1>1, <1>2, WalkedFollows

LEMMA FileSame == ASSUME UNCHANGED <<fat, iStart>> PROVE file' = file
<1>1. \A n \in Nat : Nth(n)' = Nth(n)
  BY NthWalked
<1> QED BY <1>1 DEF file

(* A step that leaves the successors of the first m clusters alone leaves   *)
(* the first m + 1 clusters alone.                                          *)
LEMMA FilePrefix ==
  ASSUME iStart' = iStart, NEW m \in Nat,
         \A k \in 0..(m - 1) : Successor(fat', file[k]) = Successor(fat, file[k])
  PROVE  \A k \in 0..m : file'[k] = file[k]
<1> DEFINE S == {k \in Nat : k <= m => file'[k] = file[k]}
<1>1. 0 \in S
  BY FileFollows
<1>2. ASSUME NEW k \in S PROVE k + 1 \in S
  <2> SUFFICES ASSUME k + 1 <= m PROVE file'[k + 1] = file[k + 1]
    OBVIOUS
  <2>1. k \in Nat /\ k \in 0..(m - 1) /\ file'[k] = file[k]
    OBVIOUS
  <2> QED BY <2>1, FileFollows
<1>3. S = Nat
  <2> HIDE DEF S
  <2> QED BY <1>1, <1>2, Steps DEF S
<1> QED BY <1>3

(* Clusters that all differ are fewer than there are.                       *)
LEMMA FileShort ==
  ASSUME NEW L \in Nat, FileInv(L)
  PROVE  L < EOF
<1> SUFFICES ASSUME L >= EOF PROVE FALSE
  BY Numbers
<1> DEFINE f == [k \in 0..(L - 1) |-> file[k]]
<1>0. MaxCluster \in Nat /\ MaxCluster > 2
  BY TableAssumption
<1>1. IsFiniteSet(0..(L - 1)) /\ Cardinality(0..(L - 1)) = L
  BY <1>0, FS_Interval DEF EOF
<1>2. IsFiniteSet(Clusters) /\ Cardinality(Clusters) = MaxCluster - 2
  BY <1>0, FS_Interval DEF Clusters
<1>3. f \in [0..(L - 1) -> Clusters]
  BY DEF FileInv
<1>4. Cardinality(Clusters) < Cardinality(0..(L - 1))
  BY <1>0, <1>1, <1>2 DEF EOF
<1>5. \E x, y \in 0..(L - 1) : x # y /\ f[x] = f[y]
  <2> HIDE DEF f
  <2> QED BY <1>1, <1>2, <1>3, <1>4, FS_PigeonHole
<1> QED BY <1>5 DEF FileInv

-----------------------------------------------------------------------------
(* The runs of the list after a step.                                       *)

LEMMA FrontItems ==
  ASSUME lru \in Seq(AnyRun), NEW i \in DOMAIN lru, NEW run \in AnyRun
  PROVE  /\ DOMAIN ToFront(i, run) = DOMAIN lru /\ DOMAIN lru = 1..Len(lru)
         /\ \A j \in DOMAIN lru :
              ToFront(i, run)[j] = IF j = 1 THEN run ELSE IF j <= i THEN lru[j - 1] ELSE lru[j]
<1> DEFINE a == SubSeq(lru, 1, i - 1)  b == SubSeq(lru, i + 1, Len(lru))
<1>1. i \in 1..Len(lru) /\ Len(lru) \in Nat
  BY LenProperties
<1>2. /\ a \in Seq(AnyRun) /\ Len(a) = i - 1
      /\ \A j \in 1..(i - 1) : a[j] = lru[j]
  BY <1>1, SubSeqProperties
<1>3. /\ b \in Seq(AnyRun) /\ Len(b) = Len(lru) - i
      /\ \A j \in 1..(Len(lru) - i) : b[j] = lru[i + j]
  <2>1. \A j \in 1..(Len(lru) - i) : (i + 1) + j - 1 = i + j
    BY <1>1
  <2> QED BY <1>1, <2>1, SubSeqProperties
<1>4. ToFront(i, run) = <<run>> \o (a \o b)
  BY DEF ToFront, RemoveAt
<1> HIDE DEF a, b
<1>5. /\ a \o b \in Seq(AnyRun) /\ Len(a \o b) = Len(lru) - 1
      /\ \A j \in 1..(Len(lru) - 1) : (a \o b)[j] = IF j < i THEN lru[j] ELSE lru[j + 1]
  <2>1. /\ a \o b \in Seq(AnyRun) /\ Len(a \o b) = Len(a) + Len(b)
        /\ \A j \in 1..Len(a) + Len(b) :
             (a \o b)[j] = IF j <= Len(a) THEN a[j] ELSE b[j - Len(a)]
    BY <1>2, <1>3, ConcatProperties
  <2>2. ASSUME NEW j \in 1..(Len(lru) - 1)
        PROVE  (a \o b)[j] = IF j < i THEN lru[j] ELSE lru[j + 1]
    <3>1. CASE j < i
      <4>1. j \in 1..Len(a) + Len(b) /\ j <= Len(a) /\ j \in 1..(i - 1)
        BY <1>1, <1>2, <1>3, <3>1
      <4>2. (a \o b)[j] = a[j] /\ a[j] = lru[j]
        BY <1>2, <2>1, <4>1
      <4> QED BY <3>1, <4>2
    <3>2. CASE ~(j < i)
      <4>1. j - (i - 1) \in 1..(Len(lru) - i) /\ i + (j - (i - 1)) = j + 1
        BY <1>1, <3>2
      <4>2. (a \o b)[j] = b[j - (i - 1)]
        <5>1. j \in 1..Len(a) + Len(b) /\ ~(j <= Len(a)) /\ Len(a) = i - 1
          BY <1>1, <1>2, <1>3, <3>2
        <5>2. (a \o b)[j] = b[j - Len(a)]
          BY <2>1, <5>1
        <5> QED BY <5>1, <5>2
      <4> QED BY <1>3, <3>2, <4>1, <4>2
    <3> QED BY <3>1, <3>2
  <2>3. Len(a) + Len(b) = Len(lru) - 1
    BY <1>1, <1>2, <1>3
  <2>4. a \o b \in Seq(AnyRun) /\ Len(a \o b) = Len(lru) - 1
    BY <2>1, <2>3
  <2> HIDE DEF a, b
  <2> QED BY <2>2, <2>4
<1>6. <<run>> \in Seq(AnyRun) /\ Len(<<run>>) = 1 /\ <<run>>[1] = run
  OBVIOUS
<1> DEFINE c == a \o b  r == <<run>>
<1>7. /\ Len(r \o c) = Len(lru)
      /\ \A j \in 1..Len(lru) : (r \o c)[j] = IF j <= 1 THEN r[j] ELSE c[j - 1]
      /\ DOMAIN (r \o c) = 1..Len(lru)
  <2>1. r \in Seq(AnyRun) /\ c \in Seq(AnyRun) /\ Len(r) = 1 /\ Len(c) = Len(lru) - 1
    BY <1>5, <1>6
  <2> HIDE DEF r, c
  <2>2. /\ r \o c \in Seq(AnyRun) /\ Len(r \o c) = Len(r) + Len(c)
        /\ \A j \in 1..Len(r) + Len(c) :
             (r \o c)[j] = IF j <= Len(r) THEN r[j] ELSE c[j - Len(r)]
    BY <2>1, ConcatProperties
  <2>3. DOMAIN (r \o c) = 1..Len(r \o c)
    BY <2>2, LenProperties
  <2> QED BY <1>1, <2>1, <2>2, <2>3
<1>8. ASSUME NEW j \in 1..Len(lru)
      PROVE  (r \o c)[j] = IF j = 1 THEN run ELSE IF j <= i THEN lru[j - 1] ELSE lru[j]
  <2>1. CASE j = 1
    BY <1>6, <1>7, <2>1
  <2>2. CASE j # 1
    <3>1. j - 1 \in 1..(Len(lru) - 1) /\ (j - 1) + 1 = j /\ (j - 1 < i <=> j <= i)
      BY <1>1, <2>2
    <3>2. (r \o c)[j] = c[j - 1]
      BY <1>7, <2>2
    <3> QED BY <1>5, <2>2, <3>1, <3>2
  <2> QED BY <2>1, <2>2
<1> QED BY <1>1, <1>4, <1>7, <1>8, LenProperties

(* A run in front of a list.                                                *)
LEMMA ConsItems ==
  ASSUME NEW s \in Seq(AnyRun), NEW run \in AnyRun
  PROVE  /\ DOMAIN (<<run>> \o s) = 1..(Len(s) + 1)
         /\ \A j \in 1..(Len(s) + 1) : (<<run>> \o s)[j] = IF j = 1 THEN run ELSE s[j - 1]
<1> DEFINE r == <<run>>
<1>1. r \in Seq(AnyRun) /\ Len(r) = 1 /\ r[1] = run
  OBVIOUS
<1> HIDE DEF r
<1>2. /\ r \o s \in Seq(AnyRun) /\ Len(r \o s) = Len(r) + Len(s)
      /\ \A j \in 1..Len(r) + Len(s) : (r \o s)[j] = IF j <= Len(r) THEN r[j] ELSE s[j - Len(r)]
  BY <1>1, ConcatProperties
<1>3. DOMAIN (r \o s) = 1..Len(r \o s)
  BY <1>2, LenProperties
<1>4. Len(s) \in Nat
  BY LenProperties
<1>5. /\ DOMAIN (r \o s) = 1..(Len(s) + 1)
      /\ \A j \in 1..(Len(s) + 1) : (r \o s)[j] = IF j = 1 THEN run ELSE s[j - 1]
  BY <1>1, <1>2, <1>3, <1>4
<1> QED BY <1>5 DEF r

LEMMA FrontOfList ==
  ASSUME lru \in Seq(AnyRun), lru # <<>>
  PROVE  /\ Front(lru) \in Seq(AnyRun) /\ Len(Front(lru)) = Len(lru) - 1 /\ Len(lru) > 0
         /\ \A j \in 1..(Len(lru) - 1) : Front(lru)[j] = lru[j]
<1>1. Len(lru) \in Nat /\ Len(lru) > 0
  BY LenProperties, EmptySeq
<1> DEFINE m == Len(lru) - 1
<1>2. m \in Int /\ m >= 0 /\ Front(lru) = SubSeq(lru, 1, m)
  BY <1>1 DEF Front
<1>3. \A k \in 1..m : lru[k] \in AnyRun
  BY <1>1, ElementOfSeq
<1>4. /\ SubSeq(lru, 1, m) \in Seq(AnyRun) /\ Len(SubSeq(lru, 1, m)) = m
      /\ \A j \in 1..m : SubSeq(lru, 1, m)[j] = lru[j]
  <2> HIDE DEF m
  <2>1. \A j \in 1..m : 1 + j - 1 = j
    BY <1>2
  <2> QED BY <1>2, <1>3, <2>1, SubSeqProperties
<1> QED BY <1>1, <1>2, <1>4

(* A run that begins where the one at i did takes its place, in front.      *)
LEMMA ListFront ==
  ASSUME NEW L \in Nat, CacheType, ListInv(L), \A x : RunRight(x, L) => RunRight(x, L)',
         NEW i \in DOMAIN lru, NEW run \in AnyRun, run.f = lru[i].f, RunRight(run, L),
         lru' = ToFront(i, run)
  PROVE  ListInv(L)' /\ Starts' = Starts /\ Len(lru') = Len(lru)
<1>0. lru \in Seq(AnyRun)
  BY DEF CacheType
<1>1. /\ DOMAIN lru' = DOMAIN lru /\ DOMAIN lru = 1..Len(lru)
      /\ \A j \in DOMAIN lru :
           lru'[j] = IF j = 1 THEN run ELSE IF j <= i THEN lru[j - 1] ELSE lru[j]
  BY <1>0, FrontItems
<1>2. Len(lru) \in Nat /\ Len(lru') = Len(lru)
  BY <1>0, FrontLen, LenProperties
<1> DEFINE from(j) == IF j = 1 THEN i ELSE IF j <= i THEN j - 1 ELSE j
<1>3. \A j \in DOMAIN lru : from(j) \in DOMAIN lru /\ lru'[j].f = lru[from(j)].f
  BY <1>1, <1>2
<1>4. \A j, k \in DOMAIN lru : from(j) = from(k) => j = k
  BY <1>1, <1>2
<1>5. \A j \in DOMAIN lru : \E k \in DOMAIN lru : from(k) = j
  <2> SUFFICES ASSUME NEW j \in DOMAIN lru PROVE \E k \in DOMAIN lru : from(k) = j
    OBVIOUS
  <2> DEFINE k == IF j = i THEN 1 ELSE IF j < i THEN j + 1 ELSE j
  <2>1. k \in DOMAIN lru /\ from(k) = j
    BY <1>1, <1>2
  <2> QED BY <2>1
<1>6. \A j \in DOMAIN lru : RunRight(lru'[j], L)
  BY <1>1, <1>2 DEF ListInv
<1> HIDE DEF from
<1>7. \A j \in DOMAIN lru' : RunRight(lru[j], L)'
  BY <1>1, <1>6
<1>8. \A j, k \in DOMAIN lru' : lru'[j].f = lru'[k].f => j = k
  BY <1>1, <1>3, <1>4 DEF ListInv
<1>9. Starts' = Starts
  <2>1. ASSUME NEW x \in Starts' PROVE x \in Starts
    <3>1. PICK j \in DOMAIN lru' : x = lru'[j].f
      BY DEF Starts
    <3>2. from(j) \in DOMAIN lru /\ x = lru[from(j)].f
      BY <1>1, <1>3, <3>1
    <3> QED BY <3>2 DEF Starts
  <2>2. ASSUME NEW x \in Starts PROVE x \in Starts'
    <3>1. PICK j \in DOMAIN lru : x = lru[j].f
      BY DEF Starts
    <3>2. PICK k \in DOMAIN lru : from(k) = j
      BY <1>5
    <3>3. k \in DOMAIN lru' /\ x = lru'[k].f
      BY <1>1, <1>3, <3>1, <3>2
    <3> QED BY <3>3 DEF Starts
  <2> QED BY <2>1, <2>2
<1> QED BY <1>2, <1>7, <1>8, <1>9 DEF ListInv

(* A run that begins where none does comes in front of the list, or of the  *)
(* list without its last run.                                               *)
LEMMA ListAdd ==
  ASSUME NEW L \in Nat, CacheType, ListInv(L), \A x : RunRight(x, L) => RunRight(x, L)',
         NEW s \in Seq(AnyRun), Len(s) <= Len(lru), \A j \in 1..Len(s) : s[j] = lru[j],
         NEW run \in AnyRun, run.f \notin Starts, RunRight(run, L),
         lru' = <<run>> \o s
  PROVE  ListInv(L)' /\ Len(lru') = Len(s) + 1
<1>0. lru \in Seq(AnyRun) /\ Len(lru) \in Nat /\ Len(s) \in Nat /\ DOMAIN lru = 1..Len(lru)
  BY LenProperties DEF CacheType
<1>1. /\ DOMAIN lru' = 1..(Len(s) + 1)
      /\ \A j \in 1..(Len(s) + 1) : lru'[j] = IF j = 1 THEN run ELSE s[j - 1]
  BY ConsItems
<1>2. Len(lru') = Len(s) + 1
  <2>1. <<run>> \in Seq(AnyRun) /\ Len(<<run>>) = 1
    OBVIOUS
  <2> QED BY <1>0, <2>1, ConcatProperties
<1>3. \A j \in 2..(Len(s) + 1) : j - 1 \in DOMAIN lru /\ lru'[j] = lru[j - 1]
  BY SMTT(20), <1>0, <1>1
<1>4. \A j \in 1..(Len(s) + 1) : RunRight(lru'[j], L)
  BY <1>1, <1>3 DEF ListInv
<1>5. \A j \in DOMAIN lru' : RunRight(lru[j], L)'
  BY <1>1, <1>4
<1>6. \A j \in 2..(Len(s) + 1) : lru'[j].f # run.f
  BY <1>3 DEF Starts
<1>7. ASSUME NEW j \in 1..(Len(s) + 1), NEW k \in 1..(Len(s) + 1), lru'[j].f = lru'[k].f
      PROVE  j = k
  <2>1. CASE j = 1 \/ k = 1
    BY <1>0, <1>1, <1>6, <1>7, <2>1
  <2>2. CASE j # 1 /\ k # 1
    <3>1. j - 1 \in DOMAIN lru /\ k - 1 \in DOMAIN lru /\ lru[j - 1].f = lru[k - 1].f
      BY <1>0, <1>3, <1>7, <2>2
    <3>2. j - 1 = k - 1
      BY <3>1 DEF ListInv
    <3> QED BY <1>0, <3>2
  <2> QED BY <2>1, <2>2
<1> QED BY <1>1, <1>2, <1>5, <1>7 DEF ListInv

(* Nothing is lost when the list is kept whole.                             *)
LEMMA StartsAdd ==
  ASSUME CacheType, NEW run \in AnyRun, lru' = <<run>> \o lru
  PROVE  Starts \subseteq Starts'
<1>1. lru \in Seq(AnyRun) /\ Len(lru) \in Nat /\ DOMAIN lru = 1..Len(lru)
  BY LenProperties DEF CacheType
<1>2. /\ DOMAIN lru' = 1..(Len(lru) + 1)
      /\ \A j \in 1..(Len(lru) + 1) : lru'[j] = IF j = 1 THEN run ELSE lru[j - 1]
  BY <1>1, ConsItems
<1>3. \A j \in DOMAIN lru : j + 1 \in DOMAIN lru' /\ lru'[j + 1] = lru[j]
  BY <1>1, <1>2
<1> QED BY <1>3 DEF Starts

-----------------------------------------------------------------------------
(* Threads that a step leaves alone, and a lookup.                          *)

LEMMA Typed ==
  ASSUME CacheType, NEW t \in Threads
  PROVE  /\ loc[t].target \in Int /\ loc[t].fclus \in Int /\ loc[t].dclus \in Int
         /\ loc[t].cid.id \in Int /\ loc[t].cid.f \in Int
         /\ loc[t].cid.d \in Int /\ loc[t].cid.n \in Int
  BY DEF CacheType, Place, Cid

(* The chain and the phase of the writer stay.                              *)
LEMMA QuietStep ==
  ASSUME NEW L \in Nat, FileInv(L), UNCHANGED <<table, new>>,
         Cutting' <=> Cutting, Shrinking' <=> Shrinking
  PROVE  /\ file' = file /\ FileInv(L)'
         /\ \A x : RunRight(x, L) => RunRight(x, L)'
<1>1. file' = file /\ UNCHANGED <<fat, iStart, size, new>>
  BY FileSame DEF table
<1>2. FileInv(L)'
  BY <1>1 DEF FileInv
<1>3. \A x : RunRight(x, L) => RunRight(x, L)'
  BY <1>1 DEF RunRight
<1> QED BY <1>1, <1>2, <1>3

(* What a thread needs of the list: its run is there, or no room is.        *)
Held(x) == x \in Starts \/ Len(lru) = MaxCache

LEMMA OtherThread ==
  ASSUME NEW L \in Nat, FileInv(L), NEW q \in Threads, ThreadInv(q, L),
         loc'[q] = loc[q], pc'[q] = pc[q], UNCHANGED <<table, new, validId>>, file' = file,
         \A x : RunRight(x, L) => RunRight(x, L)', validId # VALID,
         \A x : pc[q] = "walk" /\ Held(x) => Held(x)'
  PROVE  ThreadInv(q, L)'
<1>1. pc[q] \in {"walk", "alloc", "link", "cut"} => Stands(q, L)' /\ Aims(q, L)'
  BY DEF ThreadInv, Stands, Aims, table
<1>2. pc[q] \in {"walk", "alloc"} => Carries(q, L)'
  <2> SUFFICES ASSUME pc[q] \in {"walk", "alloc"} PROVE Carries(q, L)'
    OBVIOUS
  <2>1. Carries(q, L)
    BY DEF ThreadInv
  <2>2. RunRight(loc[q].cid, L) => RunRight(loc[q].cid, L)'
    OBVIOUS
  <2>3. pc[q] = "walk" /\ Held(loc[q].cid.f) => (loc[q].cid.f \in Starts' \/ Len(lru') = MaxCache)
    BY DEF Held
  <2> QED BY <2>1, <2>2, <2>3 DEF Carries, Held
<1> QED BY <1>1, <1>2 DEF ThreadInv

(* A lookup that finds its run in the list, or starts at the first cluster. *)
LEMMA LookupRight ==
  ASSUME NEW L \in Nat, L > 0, CacheType, ValueInv, ListInv(L), file[0] = iStart,
         \A k \in 0..(L - 1) : file'[k] = file[k],
         \A x : RunRight(x, L) => RunRight(x, L)', UNCHANGED validId,
         NEW t \in Threads, NEW target \in Nat, NEW after \in PCs, after # "walk",
         Lookup(t, target, after)
  PROVE  /\ ListInv(L)' /\ Starts' = Starts /\ Len(lru') = Len(lru)
         /\ loc'[t].target = target /\ Stands(t, L)'
         /\ \A q \in Threads \ {t} : loc'[q] = loc[q] /\ pc'[q] = pc[q]
         /\ \/ pc'[t] = after /\ target = 0 /\ loc'[t].fclus = 0
            \/ pc'[t] = "walk" /\ Carries(t, L)'
<1> DEFINE start == [Nowhere EXCEPT !.target = target, !.dclus = iStart]
<1>0. loc \in [Threads -> Place] /\ pc \in [Threads -> PCs] /\ lru \in Seq(AnyRun)
  BY DEF CacheType
<1>1. \A q \in Threads \ {t} : loc'[q] = loc[q] /\ pc'[q] = pc[q]
  BY <1>0 DEF Lookup
<1>2. CASE loc' = [loc EXCEPT ![t] = start] /\ UNCHANGED lru
  <2>1. /\ loc'[t].target = target /\ loc'[t].fclus = 0 /\ loc'[t].dclus = iStart
        /\ loc'[t].cid = NoRun
    BY <1>0, <1>2 DEF Nowhere
  <2>2. Stands(t, L)'
    <3>1. file'[0] = iStart
      OBVIOUS
    <3> QED BY <2>1, <3>1 DEF Stands
  <2>3. ListInv(L)'
    BY <1>2 DEF ListInv
  <2>4. Starts' = Starts
    BY <1>2 DEF Starts
  <2>5. pc'[t] = "walk" => Carries(t, L)'
    BY <2>1 DEF Carries, NoRun
  <2>6. (pc'[t] = after /\ target = 0) \/ pc'[t] = "walk"
    BY <1>0 DEF Lookup
  <2> QED BY <1>1, <1>2, <2>1, <2>2, <2>3, <2>4, <2>5, <2>6
<1>3. CASE /\ target > 0 /\ pc' = [pc EXCEPT ![t] = "walk"]
           /\ \E i \in DOMAIN lru : /\ IsHit(i, target)
                                    /\ loc' = [loc EXCEPT ![t] = HitPlace(lru[i], target)]
                                    /\ lru' = ToFront(i, lru[i])
  <2>1. PICK i \in DOMAIN lru : /\ IsHit(i, target)
                               /\ loc' = [loc EXCEPT ![t] = HitPlace(lru[i], target)]
                               /\ lru' = ToFront(i, lru[i])
    BY <1>3
  <2> DEFINE hit == lru[i]
             offset == IF Covers(hit, target) THEN target - hit.f ELSE hit.n
  <2>2. /\ hit \in AnyRun /\ hit.f \in Int /\ hit.d \in Int /\ hit.n \in Int
        /\ RunRight(hit, L) /\ hit.f <= target
    <3>1. hit \in AnyRun
      BY <1>0, ElementOfSeq, LenProperties
    <3>2. hit.f <= target
      BY <2>1 DEF IsHit, Rises
    <3> QED BY <3>1, <3>2 DEF ListInv, AnyRun
  <2>3. ListInv(L)' /\ Starts' = Starts /\ Len(lru') = Len(lru)
    BY <2>1, <2>2, ListFront
  <2>4. pc'[t] = "walk"
    BY <1>0, <1>3
  <2>5. /\ loc'[t].target = target /\ loc'[t].fclus = hit.f + offset
        /\ loc'[t].dclus = hit.d + offset
        /\ loc'[t].cid = [id |-> validId, f |-> hit.f, d |-> hit.d, n |-> hit.n]
    BY <1>0, <2>1 DEF HitPlace
  <2>6. /\ offset \in 0..hit.n /\ hit.f + offset <= target
        /\ hit.f + offset = target \/ offset = hit.n
    BY <2>2 DEF Covers, RunRight
  <2>7. Starts' = Starts /\ hit.f \in Starts
    BY <2>3 DEF Starts
  <2> HIDE DEF offset, hit
  <2>8. Stands(t, L)'
    <3>1. hit.f >= 1 /\ hit.n >= 0 /\ hit.f + hit.n < L /\ file[hit.f + offset] = hit.d + offset
      BY <2>2, <2>6 DEF RunRight
    <3>2. hit.f + offset \in 0..(L - 1)
      BY <2>2, <2>6, <3>1
    <3>3. file'[hit.f + offset] = hit.d + offset
      BY <3>1, <3>2
    <3> QED BY <2>5, <2>6, <3>2, <3>3 DEF Stands
  <2>9. Carries(t, L)'
    <3>1. RunRight(loc'[t].cid, L)
      BY <2>2, <2>5 DEF RunRight
    <3>2. RunRight(loc[t].cid, L)'
      BY <3>1
    <3>3. hit.f # -1 /\ validId \in 0..validId /\ validId # VALID
      BY <2>2 DEF RunRight, ValueInv, VALID
    <3>4. hit.f + hit.n = hit.f + offset \/ hit.f + offset = target
      BY <2>6
    <3> QED BY <2>4, <2>5, <2>7, <3>2, <3>3, <3>4 DEF Carries
  <2> QED BY <1>1, <2>3, <2>4, <2>5, <2>8, <2>9
<1> QED BY <1>2, <1>3 DEF Lookup

-----------------------------------------------------------------------------
(* The walk along the chain.                                                *)

LEMMA NoCluster == EOF \notin Clusters /\ FREE \notin Clusters /\ 0 \notin Clusters /\ EOF # FREE
  BY TableAssumption DEF EOF, FREE, Clusters

(* The entry a thread reads is that of the next cluster of the file, or the *)
(* end mark: it never finds a free one.                                     *)
LEMMA EntryRight ==
  ASSUME NEW L \in Nat, FileInv(L), NEW t \in Threads, Stands(t, L)
  PROVE  /\ loc[t].dclus \in Clusters /\ loc[t].fclus \in Nat
         /\ Entry(t) = file[loc[t].fclus + 1]
         /\ IF loc[t].fclus + 1 < L THEN Entry(t) \in Clusters
                                    ELSE Entry(t) = EOF /\ loc[t].fclus = L - 1
<1> DEFINE k == loc[t].fclus
<1>1. k \in Nat /\ k < L /\ file[k] = loc[t].dclus
  BY DEF Stands
<1> HIDE DEF k
<1>2. loc[t].dclus \in Clusters
  BY <1>1 DEF FileInv
<1>3. Entry(t) = file[k + 1]
  BY <1>1, <1>2, FileFollows DEF Entry, Successor
<1>4. CASE k + 1 < L
  <2>1. k + 1 \in 0..(L - 1)
    BY <1>1, <1>4
  <2> QED BY <1>1, <1>2, <1>3, <1>4, <2>1 DEF FileInv, k
<1>5. CASE ~(k + 1 < L)
  <2>1. k + 1 = L /\ L > 0 /\ k = L - 1
    BY <1>1, <1>5
  <2>2. Entry(t) = EOF
    BY <1>3, <2>1 DEF FileInv
  <2> QED BY <1>1, <1>2, <1>3, <1>5, <2>1, <2>2 DEF k
<1> QED BY <1>4, <1>5

(* The writer ends its walk on the last cluster, or the last it keeps.      *)
LEMMA Arrived ==
  ASSUME NEW L \in Nat, InvAt(L), pc[Writer] = "walk", Ended(Writer)
  PROVE  loc[Writer].fclus = IF new # 0 THEN L - 1 ELSE size - 1
<1>1. Writer \in Threads /\ Stands(Writer, L) /\ Aims(Writer, L) /\ FileInv(L)
  BY DEF InvAt, ThreadInv, Threads
<1>2. /\ loc[Writer].fclus \in 0..(L - 1) /\ loc[Writer].fclus <= loc[Writer].target
      /\ loc[Writer].target = IF new # 0 THEN EOF ELSE size - 1
  BY <1>1 DEF Stands, Aims
<1>3. L < EOF /\ EOF \in Nat /\ size \in Nat
  BY <1>1, FileShort, TableAssumption DEF EOF, InvAt, ValueInv
<1>4. Entry(Writer) = EOF => loc[Writer].fclus = L - 1
  BY <1>1, EntryRight, NoCluster
<1>5. new = 0 => size < L
  BY <1>1 DEF FileInv, Shrinking, Cutting
<1>6. loc[Writer].fclus >= loc[Writer].target \/ Entry(Writer) = EOF
  BY DEF Ended
<1> QED BY <1>2, <1>3, <1>4, <1>5, <1>6

(* fat_get_cluster returns: a reader is done, and the writer has arrived.   *)
LEMMA Returned ==
  ASSUME NEW L \in Nat, InvAt(L), NEW t \in Threads, pc[t] \in {"walk", "alloc"},
         pc[t] = "walk" => Ended(t), Return(t), UNCHANGED <<table, new, validId>>
  PROVE  /\ PhaseInv' /\ (Cutting' <=> Cutting) /\ (Shrinking' <=> Shrinking)
         /\ \A q \in Threads \ {t} : loc'[q] = loc[q] /\ pc'[q] = pc[q]
         /\ file' = file => ThreadInv(t, L)'
<1>0. loc \in [Threads -> Place] /\ pc \in [Threads -> PCs] /\ Writer \in Threads
  BY DEF InvAt, CountInv, CacheType, Threads
<1>1. \A q \in Threads \ {t} : loc'[q] = loc[q] /\ pc'[q] = pc[q]
  BY <1>0 DEF Return
<1>2. UNCHANGED <<fat, iStart, size, new, validId>>
  BY DEF table
<1>3. CASE t \in Readers
  <2>1. t # Writer /\ pc'[t] = "idle" /\ pc'[Writer] = pc[Writer]
    BY <1>0, <1>3, ThreadAssumption DEF Return, After
  <2>2. (Cutting' <=> Cutting) /\ (Shrinking' <=> Shrinking)
    BY <1>2, <2>1 DEF Cutting, Shrinking
  <2>3. PhaseInv'
    <3>1. \A r \in Readers : pc'[r] \in {"idle", "walk", "alloc"}
      BY <1>0, <1>1, <2>1 DEF InvAt, PhaseInv, Threads
    <3>2. PhaseInv
      BY DEF InvAt
    <3> QED BY <1>2, <2>1, <2>2, <3>1, <3>2 DEF PhaseInv
  <2> QED BY <1>1, <2>1, <2>2, <2>3 DEF ThreadInv
<1>4. CASE t = Writer
  <2>1. /\ t \notin Readers /\ loc' = loc
        /\ pc'[t] = IF new # 0 THEN "link" ELSE "cut"
    BY <1>0, <1>4, ThreadAssumption DEF Return, After
  <2>2. (Cutting' <=> Cutting) /\ (Shrinking' <=> Shrinking)
    BY <1>2, <1>4, <2>1 DEF Cutting, Shrinking
  <2>3. PhaseInv'
    <3>1. \A r \in Readers : pc'[r] = pc[r]
      BY <1>0, <1>1, <1>4, ThreadAssumption DEF Threads
    <3>2. PhaseInv /\ (Cutting => pc[t] # "free")
      BY DEF InvAt
    <3> QED BY <1>2, <1>4, <2>1, <2>2, <3>1, <3>2 DEF PhaseInv
  <2>4. Stands(t, L) /\ Aims(t, L)
    BY DEF InvAt, ThreadInv
  <2>5. loc[t].fclus = IF new # 0 THEN L - 1 ELSE size - 1
    BY <1>4, <2>4, Arrived DEF Aims
  <2>6. file' = file => ThreadInv(t, L)'
    <3> SUFFICES ASSUME file' = file PROVE ThreadInv(t, L)'
      OBVIOUS
    <3>1. Stands(t, L)'
      BY <2>1, <2>4 DEF Stands
    <3>2. Aims(t, L)'
      BY <1>2, <1>4, <2>1, <2>4, <2>5 DEF Aims
    <3> QED BY <2>1, <3>1, <3>2 DEF ThreadInv
  <2> QED BY <1>1, <2>2, <2>3, <2>6
<1> QED BY <1>3, <1>4 DEF Threads

-----------------------------------------------------------------------------
(* The steps that leave the table alone.                                    *)

LEMMA QuietInv ==
  ASSUME NEW L \in Nat, InvAt(L), CountInv', NEW t \in Threads,
         UNCHANGED <<table, new, validId>>, PhaseInv', nrCaches' <= MaxCache,
         Cutting' <=> Cutting, Shrinking' <=> Shrinking,
         \A q \in Threads \ {t} : loc'[q] = loc[q] /\ pc'[q] = pc[q],
         ListInv(L)', ThreadInv(t, L)',
         \A q \in Threads \ {t} : \A x : pc[q] = "walk" /\ Held(x) => Held(x)'
  PROVE  InvAt(L)'
<1>0. UNCHANGED <<table, new>> /\ FileInv(L)
  BY DEF InvAt
<1>1. file' = file /\ FileInv(L)' /\ \A x : RunRight(x, L) => RunRight(x, L)'
  BY <1>0, QuietStep
<1>2. ASSUME NEW q \in Threads \ {t} PROVE ThreadInv(q, L)'
  <2>1. ThreadInv(q, L) /\ loc'[q] = loc[q] /\ pc'[q] = pc[q] /\ validId # VALID
    BY DEF InvAt, ValueInv, VALID
  <2> QED BY <1>0, <1>1, <2>1, OtherThread
<1>3. ValueInv'
  BY DEF InvAt, ValueInv, table
<1> QED BY <1>1, <1>2, <1>3 DEF InvAt

LEMMA SameStart ==
  ASSUME Starts' = Starts, Len(lru') = Len(lru)
  PROVE  \A x : Held(x) => Held(x)'
  BY DEF Held

LEMMA ReadRight ==
  ASSUME NEW L \in Nat, InvAt(L), CountInv', NEW t \in Threads, Read(t)
  PROVE  InvAt(L)'
<1>1. PICK target \in 1..(size - 1) : Lookup(t, target, "idle")
  BY DEF Read
<1>2. /\ t \in Readers /\ t # Writer /\ pc[t] = "idle"
      /\ UNCHANGED <<table, nrCaches, validId, new>>
  BY ThreadAssumption DEF Read
<1>3. /\ CacheType /\ ValueInv /\ PhaseInv /\ ListInv(L) /\ FileInv(L)
      /\ Writer \in Threads /\ size \in Nat
  BY DEF InvAt, CountInv, ValueInv, Threads
<1>4. pc'[Writer] = pc[Writer]
  BY <1>1, <1>2, <1>3 DEF Lookup, CacheType
<1>5. (Cutting' <=> Cutting) /\ (Shrinking' <=> Shrinking) /\ UNCHANGED <<table, new>>
  BY <1>2, <1>4 DEF Cutting, Shrinking
<1>6. file' = file /\ \A x : RunRight(x, L) => RunRight(x, L)'
  BY <1>3, <1>5, QuietStep
<1>7. L > 0 /\ file[0] = iStart /\ target \in Nat /\ target > 0 /\ target < size /\ "idle" \in PCs
  BY <1>3, FileFollows DEF FileInv, PCs
<1>8. /\ ListInv(L)' /\ Starts' = Starts /\ Len(lru') = Len(lru)
      /\ loc'[t].target = target /\ Stands(t, L)'
      /\ \A q \in Threads \ {t} : loc'[q] = loc[q] /\ pc'[q] = pc[q]
      /\ pc'[t] = "walk" /\ Carries(t, L)'
  BY <1>1, <1>2, <1>3, <1>6, <1>7, LookupRight
<1>9. ThreadInv(t, L)'
  <2>1. Aims(t, L)'
    BY <1>2, <1>7, <1>8 DEF Aims, table
  <2> QED BY <1>8, <2>1 DEF ThreadInv
<1>10. PhaseInv'
  <2>1. \A r \in Readers : pc'[r] \in {"idle", "walk", "alloc"}
    BY <1>3, <1>8 DEF PhaseInv, Threads
  <2> QED BY <1>2, <1>3, <1>4, <1>5, <2>1 DEF PhaseInv, table
<1>11. nrCaches' <= MaxCache
  BY <1>2, <1>3 DEF ValueInv
<1> QED BY <1>2, <1>5, <1>8, <1>9, <1>10, <1>11, QuietInv, SameStart

(* The run that a walk carries grows with it.                               *)
LEMMA ExtendedRight ==
  ASSUME NEW L \in Nat, InvAt(L), NEW t \in Threads, pc[t] = "walk", ~Ended(t),
         NEW x, x = Extended(loc[t].cid, loc[t].fclus + 1, Entry(t)),
         loc[t].fclus + 1 < L, Cutting => loc[t].fclus + 1 < size
  PROVE  /\ x.f # -1 /\ x.f + x.n = loc[t].fclus + 1 /\ x.id \in 0..validId
         /\ x.id \in {VALID, validId} => RunRight(x, L)
         /\ x.id = validId => Held(x.f)
<1> DEFINE cid == loc[t].cid  k == loc[t].fclus
<1>1. CacheType /\ ValueInv /\ FileInv(L) /\ Stands(t, L) /\ Carries(t, L)
  BY DEF InvAt, CountInv, ThreadInv
<1>2. /\ cid.id \in Int /\ cid.f \in Int /\ cid.d \in Int /\ cid.n \in Int /\ k \in Int
      /\ loc[t].target \in Int /\ validId \in Int /\ validId >= 1
  BY <1>1, Typed DEF ValueInv
<1>3. k \in Nat /\ Entry(t) = file[k + 1] /\ Entry(t) \in Clusters /\ Entry(t) \in Int
  BY <1>1, EntryRight, Numbers
<1>4. k < loc[t].target
  BY <1>2 DEF Ended
<1>5. CASE cid.d + cid.n + 1 = Entry(t)
  <2>1. cid.f # -1
    <3> SUFFICES ASSUME cid.f = -1 PROVE FALSE
      OBVIOUS
    <3>1. cid.d = -1 /\ cid.n = 0
      BY <1>1 DEF Carries, NoRun
    <3>2. Entry(t) >= 2
      BY <1>3 DEF Clusters
    <3> QED BY <1>5, <3>1, <3>2
  <2>2. /\ cid.id \in 0..validId /\ cid.f + cid.n = k
        /\ cid.id \in {VALID, validId} => RunRight(cid, L)
        /\ cid.id = validId => Held(cid.f)
    BY <1>1, <1>2, <1>4, <2>1 DEF Carries, Held
  <2>3. x = [cid EXCEPT !.n = @ + 1] /\ cid \in Cid
    BY <1>1, <1>5 DEF Extended, CacheType, Place
  <2>4. x.id = cid.id /\ x.f = cid.f /\ x.d = cid.d /\ x.n = cid.n + 1
    BY <2>3 DEF Cid
  <2>5. ASSUME cid.id \in {VALID, validId} PROVE RunRight(x, L)
    <3>1. RunRight(cid, L)
      BY <2>2, <2>5
    <3>2. ASSUME NEW j \in 0..(cid.n + 1) PROVE file[cid.f + j] = cid.d + j
      <4>1. CASE j \in 0..cid.n
        BY <3>1, <4>1 DEF RunRight
      <4>2. CASE j = cid.n + 1
        <5>1. cid.f + j = k + 1 /\ cid.d + j = Entry(t)
          BY <1>2, <1>5, <2>2, <4>2
        <5> QED BY <1>3, <5>1
      <4> QED BY <1>2, <4>1, <4>2
    <3>3. x.f \in Nat \ {0} /\ x.n \in Nat
      BY <1>2, <2>4, <3>1 DEF RunRight
    <3>4. x.f + x.n = k + 1
      BY <1>2, <2>2, <2>4
    <3> QED BY <2>4, <3>2, <3>3, <3>4 DEF RunRight
  <2> QED BY <1>2, <2>1, <2>2, <2>4, <2>5
<1>6. CASE cid.d + cid.n + 1 # Entry(t)
  <2>1. x.id = VALID /\ x.f = k + 1 /\ x.d = Entry(t) /\ x.n = 0
    BY <1>6 DEF Extended
  <2>2. RunRight(x, L)
    <3>1. \A j \in 0..0 : file[(k + 1) + j] = Entry(t) + j
      BY <1>3
    <3> QED BY <1>2, <1>3, <2>1, <3>1 DEF RunRight
  <2> QED BY <1>2, <1>3, <2>1, <2>2 DEF VALID
<1> QED BY <1>5, <1>6

LEMMA WalkRight ==
  ASSUME NEW L \in Nat, InvAt(L), CountInv', NEW t \in Threads, WalkStep(t)
  PROVE  InvAt(L)'
<1> DEFINE x == Extended(loc[t].cid, loc[t].fclus + 1, Entry(t))
<1>1. /\ pc[t] = "walk" /\ ~Ended(t) /\ UNCHANGED <<table, cache, new>>
  BY DEF WalkStep
<1>2. /\ CacheType /\ ValueInv /\ PhaseInv /\ ListInv(L) /\ FileInv(L)
      /\ Stands(t, L) /\ Aims(t, L) /\ size \in Nat
  BY <1>1 DEF InvAt, CountInv, ThreadInv, ValueInv
<1>3. /\ loc[t].fclus \in Nat /\ loc[t].target \in Int
      /\ Entry(t) = file[loc[t].fclus + 1] /\ Entry(t) \in Clusters /\ loc[t].fclus + 1 < L
      /\ loc[t].fclus + 1 <= loc[t].target
  BY <1>1, <1>2, EntryRight, Typed DEF Ended
<1>4. /\ UNCHANGED pc
      /\ loc' = [loc EXCEPT ![t] = [loc[t] EXCEPT !.fclus = @ + 1, !.dclus = Entry(t), !.cid = x]]
  BY <1>1, <1>3, NoCluster DEF WalkStep
<1>5. (Cutting' <=> Cutting) /\ (Shrinking' <=> Shrinking) /\ UNCHANGED <<table, new, lru, validId>>
  BY <1>1, <1>4 DEF Cutting, Shrinking, cache
<1>6. file' = file /\ \A y : RunRight(y, L) => RunRight(y, L)'
  BY <1>2, <1>5, QuietStep
<1>7. Cutting => loc[t].fclus + 1 < size
  <2>1. t \in Readers => loc[t].target < size
    BY <1>2 DEF Aims
  <2>2. t = Writer /\ Cutting => loc[t].target = size - 1
    BY <1>1, <1>2 DEF Aims, Cutting
  <2> QED BY <1>2, <1>3, <2>1, <2>2 DEF Threads
<1>8. /\ x.f # -1 /\ x.f + x.n = loc[t].fclus + 1 /\ x.id \in 0..validId
      /\ x.id \in {VALID, validId} => RunRight(x, L)
      /\ x.id = validId => Held(x.f)
  <2> HIDE DEF x
  <2> QED BY <1>1, <1>3, <1>7, ExtendedRight DEF x
<1> HIDE DEF x
<1>9. /\ \A q \in Threads \ {t} : loc'[q] = loc[q] /\ pc'[q] = pc[q]
      /\ loc'[t].fclus = loc[t].fclus + 1 /\ loc'[t].dclus = Entry(t)
      /\ loc'[t].target = loc[t].target /\ loc'[t].cid = x
  <2>1. loc \in [Threads -> Place]
    BY <1>2 DEF CacheType
  <2>2. loc'[t] = [loc[t] EXCEPT !.fclus = @ + 1, !.dclus = Entry(t), !.cid = x]
    BY <1>4, <2>1
  <2>3. loc[t] \in Place
    BY <2>1
  <2> QED BY <1>4, <2>1, <2>2, <2>3 DEF Place
<1>10. ThreadInv(t, L)'
  <2>1. Stands(t, L)'
    BY <1>3, <1>6, <1>9 DEF Stands
  <2>2. Aims(t, L)'
    BY <1>1, <1>2, <1>4, <1>5, <1>9 DEF Aims, table
  <2>3. Carries(t, L)'
    <3>1. x.id \in {VALID, validId} => RunRight(loc[t].cid, L)'
      BY <1>6, <1>8, <1>9
    <3>2. x.id = validId => x.f \in Starts' \/ Len(lru') = MaxCache
      BY <1>5, <1>8 DEF Held, Starts
    <3> QED BY <1>1, <1>4, <1>5, <1>8, <1>9, <3>1, <3>2 DEF Carries
  <2> QED BY <1>1, <1>4, <2>1, <2>2, <2>3 DEF ThreadInv
<1>11. PhaseInv' /\ nrCaches' <= MaxCache /\ ListInv(L)'
  <2>1. PhaseInv'
    BY <1>2, <1>4, <1>5 DEF PhaseInv, table
  <2>2. ListInv(L)'
    BY <1>2, <1>5, <1>6 DEF ListInv
  <2> QED BY <1>1, <1>2, <2>1, <2>2 DEF ValueInv, cache
<1>12. \A y : Held(y) => Held(y)'
  BY <1>5 DEF Held, Starts
<1> QED BY <1>5, <1>9, <1>10, <1>11, <1>12, QuietInv

(* The run that fat_cache_add accepts is a run of the file.                 *)
LEMMA AcceptedRight ==
  ASSUME NEW L \in Nat, InvAt(L), NEW t \in Threads,
         (pc[t] = "walk" /\ Accepted(loc[t].cid)) \/ pc[t] = "alloc"
  PROVE  RunRight(loc[t].cid, L) /\ RunRight(Run(loc[t].cid), L) /\ Run(loc[t].cid) \in AnyRun
<1>1. Carries(t, L) /\ CacheType
  BY DEF InvAt, CountInv, ThreadInv
<1>2. RunRight(loc[t].cid, L)
  BY <1>1 DEF Carries, Accepted
<1> QED BY <1>1, <1>2, RunTyped DEF RunRight, Run

LEMMA AddRefusedRight ==
  ASSUME NEW L \in Nat, InvAt(L), CountInv', NEW t \in Threads,
         AddRefused(t) \/ AddNoMemory(t)
  PROVE  InvAt(L)'
<1>1. /\ pc[t] \in {"walk", "alloc"} /\ (pc[t] = "walk" => Ended(t)) /\ Return(t)
      /\ UNCHANGED <<table, lru, validId, new>>
      /\ nrCaches' = nrCaches \/ nrCaches' = nrCaches - 1
  BY DEF AddRefused, AddNoMemory, Ended, cache
<1>2. /\ PhaseInv' /\ (Cutting' <=> Cutting) /\ (Shrinking' <=> Shrinking)
      /\ \A q \in Threads \ {t} : loc'[q] = loc[q] /\ pc'[q] = pc[q]
      /\ file' = file => ThreadInv(t, L)'
  BY <1>1, Returned
<1>3. FileInv(L) /\ ListInv(L) /\ UNCHANGED <<table, new>>
  BY <1>1 DEF InvAt
<1>4. file' = file /\ \A y : RunRight(y, L) => RunRight(y, L)'
  BY <1>2, <1>3, QuietStep
<1>5. ListInv(L)'
  BY <1>1, <1>3, <1>4 DEF ListInv
<1>6. \A y : Held(y) => Held(y)'
  BY <1>1 DEF Held, Starts
<1>7. nrCaches' <= MaxCache
  BY <1>1, CacheAssumption DEF InvAt, CountInv, CacheType, ValueInv
<1> QED BY <1>1, <1>2, <1>3, <1>4, <1>5, <1>6, <1>7, QuietInv

(* A merge leaves the run at i, or the longer run that begins there.        *)
LEMMA MergeRight ==
  ASSUME NEW L \in Nat, InvAt(L), NEW t \in Threads,
         (pc[t] = "walk" /\ Accepted(loc[t].cid)) \/ pc[t] = "alloc",
         Merge(loc[t].cid), \A y : RunRight(y, L) => RunRight(y, L)'
  PROVE  ListInv(L)' /\ Starts' = Starts /\ Len(lru') = Len(lru)
<1> DEFINE cid == loc[t].cid
<1>1. PICK i \in Same(cid) :
        lru' = ToFront(i, [lru[i] EXCEPT !.n = IF cid.n > @ THEN cid.n ELSE @])
  BY DEF Merge
<1>2. CacheType /\ ListInv(L) /\ RunRight(cid, L) /\ cid \in Cid
  BY AcceptedRight, RunTyped DEF InvAt, CountInv
<1>3. i \in DOMAIN lru /\ lru[i].f = cid.f /\ RunRight(lru[i], L) /\ lru[i] \in AnyRun
  <2>1. i \in DOMAIN lru /\ lru[i].f = cid.f
    BY DEF Same
  <2>2. lru[i] \in AnyRun
    BY <1>2, <2>1, ElementOfSeq, LenProperties DEF CacheType
  <2> QED BY <1>2, <2>1, <2>2 DEF ListInv
<1> HIDE DEF cid
<1>4. lru[i].d = cid.d
  <2>1. file[lru[i].f + 0] = lru[i].d + 0 /\ file[cid.f + 0] = cid.d + 0
    BY <1>2, <1>3 DEF RunRight, AnyRun, Cid
  <2>2. lru[i].d \in Int /\ cid.d \in Int
    BY <1>2, <1>3 DEF AnyRun, Cid
  <2> QED BY <1>3, <2>1, <2>2
<1> DEFINE run == [lru[i] EXCEPT !.n = IF cid.n > @ THEN cid.n ELSE @]
<1>5. /\ run \in AnyRun /\ run.f = lru[i].f /\ run.d = lru[i].d
      /\ run.n = cid.n \/ run.n = lru[i].n
  BY <1>2, <1>3 DEF AnyRun, Cid
<1> HIDE DEF run
<1>6. RunRight(run, L)
  BY <1>2, <1>3, <1>4, <1>5 DEF RunRight
<1>7. lru' = ToFront(i, run)
  BY <1>1 DEF run
<1> QED BY <1>2, <1>3, <1>5, <1>6, <1>7, ListFront

LEMMA AddMergeRight ==
  ASSUME NEW L \in Nat, InvAt(L), CountInv', NEW t \in Threads, AddMerge(t)
  PROVE  InvAt(L)'
<1>1. /\ pc[t] = "walk" /\ Ended(t) /\ Return(t) /\ Accepted(loc[t].cid) /\ Merge(loc[t].cid)
      /\ UNCHANGED <<table, nrCaches, validId, new>>
  BY DEF AddMerge, Ended
<1>2. /\ PhaseInv' /\ (Cutting' <=> Cutting) /\ (Shrinking' <=> Shrinking)
      /\ \A q \in Threads \ {t} : loc'[q] = loc[q] /\ pc'[q] = pc[q]
      /\ file' = file => ThreadInv(t, L)'
  BY <1>1, Returned
<1>3. FileInv(L) /\ UNCHANGED <<table, new>>
  BY <1>1 DEF InvAt
<1>4. file' = file /\ \A y : RunRight(y, L) => RunRight(y, L)'
  BY <1>2, <1>3, QuietStep
<1>5. ListInv(L)' /\ Starts' = Starts /\ Len(lru') = Len(lru)
  BY <1>1, <1>4, MergeRight
<1>6. nrCaches' <= MaxCache
  BY <1>1 DEF InvAt, ValueInv
<1> QED BY <1>1, <1>2, <1>3, <1>4, <1>5, <1>6, QuietInv, SameStart

(* A thread waits for an allocation with a run of its own.                  *)
LEMMA AddRoomRight ==
  ASSUME NEW L \in Nat, InvAt(L), CountInv', NEW t \in Threads, AddRoom(t)
  PROVE  InvAt(L)'
<1>1. /\ pc[t] = "walk" /\ Ended(t) /\ Accepted(loc[t].cid) /\ Same(loc[t].cid) = {}
      /\ nrCaches < MaxCache /\ nrCaches' = nrCaches + 1 /\ pc' = [pc EXCEPT ![t] = "alloc"]
      /\ UNCHANGED <<table, lru, validId, loc, new>>
  BY DEF AddRoom, Adding, HasRoom, Ended
<1>2. /\ CountInv /\ CacheType /\ ValueInv /\ PhaseInv /\ ListInv(L) /\ FileInv(L)
      /\ Stands(t, L) /\ Aims(t, L) /\ Carries(t, L) /\ pc \in [Threads -> PCs]
      /\ Writer \in Threads
  BY <1>1 DEF InvAt, CountInv, CacheType, ThreadInv, Threads
<1>3. /\ \A q \in Threads \ {t} : loc'[q] = loc[q] /\ pc'[q] = pc[q]
      /\ pc'[t] = "alloc" /\ UNCHANGED <<table, new>>
  BY <1>1, <1>2
<1>4. (Cutting' <=> Cutting) /\ (Shrinking' <=> Shrinking)
  BY <1>1, <1>2, <1>3 DEF Cutting, Shrinking
<1>5. file' = file /\ \A y : RunRight(y, L) => RunRight(y, L)'
  BY <1>2, <1>3, <1>4, QuietStep
<1>6. \A y : Held(y) => Held(y)'
  BY <1>1 DEF Held, Starts
<1>7. Len(lru) < MaxCache
  <2>1. Cardinality({q \in Threads : pc[q] = "alloc"}) \in Nat
    BY <1>2, FS_Subset, FS_CardinalityType DEF CountInv
  <2>2. Len(lru) \in Nat
    BY <1>2, LenProperties DEF CacheType
  <2> QED BY <1>1, <1>2, <2>1, <2>2, CacheAssumption DEF CountInv, CountsPlaces
<1>8. loc[t].cid.f # -1 /\ loc[t].cid.id = VALID
  <2>1. loc[t].cid.f \notin Starts
    BY <1>1 DEF Same, Starts
  <2>2. Len(lru) # MaxCache
    BY <1>2, <1>7, LenProperties, CacheAssumption DEF CacheType
  <2> QED BY <1>1, <1>2, <2>1, <2>2 DEF Accepted, Carries
<1>9. ThreadInv(t, L)'
  <2>1. Stands(t, L)'
    BY <1>1, <1>2, <1>5 DEF Stands
  <2>2. t = Writer => loc[t].fclus = IF new # 0 THEN L - 1 ELSE size - 1
    BY <1>1, Arrived
  <2>3. Aims(t, L)'
    BY <1>1, <1>2, <1>3, <2>2 DEF Aims, table
  <2>4. RunRight(loc[t].cid, L)'
    BY <1>1, <1>2, <1>5, <1>8 DEF Carries
  <2>5. Carries(t, L)'
    BY <1>1, <1>2, <1>8, <2>4 DEF Carries, Starts
  <2> QED BY <1>3, <2>1, <2>3, <2>5 DEF ThreadInv
<1>10. PhaseInv' /\ ListInv(L)'
  <2>1. \A r \in Readers : pc'[r] \in {"idle", "walk", "alloc"}
    BY <1>2, <1>3 DEF PhaseInv, Threads
  <2>2. pc'[Writer] = pc[Writer] \/ (pc[Writer] = "walk" /\ pc'[Writer] = "alloc")
    BY <1>1, <1>2, <1>3
  <2>3. PhaseInv'
    BY <1>1, <1>2, <1>4, <2>1, <2>2 DEF PhaseInv, table
  <2>4. ListInv(L)'
    BY <1>1, <1>2, <1>5 DEF ListInv
  <2> QED BY <2>3, <2>4
<1>11. nrCaches' <= MaxCache
  BY <1>1, <1>2, CacheAssumption DEF CacheType
<1> QED BY <1>1, <1>3, <1>4, <1>6, <1>9, <1>10, <1>11, QuietInv

(* The place of an allocation leaves room in the list.                      *)
LEMMA PlaceTaken ==
  ASSUME CountInv, ValueInv, NEW t \in Threads, pc[t] = "alloc"
  PROVE  Len(lru) < MaxCache
<1> DEFINE A == {q \in Threads : pc[q] = "alloc"}
<1>1. IsFiniteSet(A) /\ Cardinality(A) \in Nat
  BY FS_Subset, FS_CardinalityType DEF CountInv
<1>2. Cardinality(A) # 0
  <2>1. t \in A
    OBVIOUS
  <2> HIDE DEF A
  <2> QED BY <1>1, <2>1, FS_EmptySet
<1>3. Len(lru) \in Nat /\ nrCaches = Len(lru) + Cardinality(A) /\ nrCaches <= MaxCache
  BY LenProperties DEF CountInv, CacheType, CountsPlaces, ValueInv
<1> HIDE DEF A
<1> QED BY <1>1, <1>2, <1>3, CacheAssumption

LEMMA AddInsertRight ==
  ASSUME NEW L \in Nat, InvAt(L), CountInv', NEW t \in Threads, AddInsert(t)
  PROVE  InvAt(L)'
<1>1. /\ pc[t] = "alloc" /\ Return(t) /\ UNCHANGED <<table, validId, new>>
      /\ nrCaches' = nrCaches \/ nrCaches' = nrCaches - 1
  BY DEF AddInsert
<1>2. /\ PhaseInv' /\ (Cutting' <=> Cutting) /\ (Shrinking' <=> Shrinking)
      /\ \A q \in Threads \ {t} : loc'[q] = loc[q] /\ pc'[q] = pc[q]
      /\ file' = file => ThreadInv(t, L)'
  BY <1>1, Returned
<1>3. /\ CountInv /\ CacheType /\ ValueInv /\ FileInv(L) /\ ListInv(L)
      /\ UNCHANGED <<table, new>> /\ lru \in Seq(AnyRun)
  BY <1>1 DEF InvAt, CountInv, CacheType
<1>4. file' = file /\ \A y : RunRight(y, L) => RunRight(y, L)'
  BY <1>2, <1>3, QuietStep
<1>5. ListInv(L)' /\ \A y : Held(y) => Held(y)'
  <2>1. CASE Merge(loc[t].cid)
    BY <1>1, <1>4, <2>1, MergeRight, SameStart
  <2>2. CASE Same(loc[t].cid) = {} /\ lru' = <<Run(loc[t].cid)>> \o lru
    <3> DEFINE run == Run(loc[t].cid)
    <3>1. RunRight(run, L) /\ run \in AnyRun
      BY <1>1, AcceptedRight
    <3>2. run.f \notin Starts
      BY <2>2 DEF Run, Same, Starts
    <3> HIDE DEF run
    <3>3. lru' = <<run>> \o lru /\ Len(lru) \in Nat
      BY <1>3, <2>2, LenProperties DEF run
    <3>4. ListInv(L)'
      BY <1>3, <1>4, <3>1, <3>2, <3>3, ListAdd
    <3>5. Starts \subseteq Starts'
      BY <1>3, <3>1, <3>3, StartsAdd
    <3>6. Len(lru) # MaxCache
      BY <1>1, <1>3, <3>3, PlaceTaken, CacheAssumption
    <3> QED BY <3>4, <3>5, <3>6 DEF Held
  <2> QED BY <2>1, <2>2 DEF AddInsert
<1>6. nrCaches' <= MaxCache
  BY <1>1, <1>3, CacheAssumption DEF CacheType, ValueInv
<1> QED BY <1>1, <1>2, <1>3, <1>4, <1>5, <1>6, QuietInv

OneReader == \A r, q \in Readers : r = q

(* The last run goes when the list is full: with one reader, a walk beside  *)
(* it then finds no room for the copy it holds of that run.                 *)
LEMMA AddEvictRight ==
  ASSUME OneReader, NEW L \in Nat, InvAt(L), CountInv', NEW t \in Threads, AddEvict(t)
  PROVE  InvAt(L)'
<1>1. /\ pc[t] = "walk" /\ Ended(t) /\ Accepted(loc[t].cid) /\ Same(loc[t].cid) = {}
      /\ ~(nrCaches < MaxCache) /\ Return(t) /\ UNCHANGED <<table, nrCaches, validId, new>>
      /\ lru # <<>> /\ lru' = <<Run(loc[t].cid)>> \o Front(lru)
  BY DEF AddEvict, Adding, HasRoom, Ended
<1>2. /\ PhaseInv' /\ (Cutting' <=> Cutting) /\ (Shrinking' <=> Shrinking)
      /\ \A q \in Threads \ {t} : loc'[q] = loc[q] /\ pc'[q] = pc[q]
      /\ file' = file => ThreadInv(t, L)'
  BY <1>1, Returned
<1>3. /\ CountInv /\ CacheType /\ ValueInv /\ FileInv(L) /\ ListInv(L)
      /\ UNCHANGED <<table, new>> /\ lru \in Seq(AnyRun) /\ Len(lru) \in Nat
  BY <1>1, LenProperties DEF InvAt, CountInv, CacheType
<1>4. file' = file /\ \A y : RunRight(y, L) => RunRight(y, L)'
  BY <1>2, <1>3, QuietStep
<1>5. ListInv(L)' /\ Len(lru') = Len(lru)
  <2> DEFINE run == Run(loc[t].cid)  s == Front(lru)
  <2>1. RunRight(run, L) /\ run \in AnyRun
    BY <1>1, AcceptedRight
  <2>2. run.f \notin Starts
    BY <1>1 DEF Run, Same, Starts
  <2>3. /\ s \in Seq(AnyRun) /\ Len(s) = Len(lru) - 1
        /\ \A j \in 1..(Len(lru) - 1) : s[j] = lru[j]
    BY <1>1, <1>3, FrontOfList
  <2>4. lru' = <<run>> \o s
    BY <1>1
  <2> HIDE DEF run, s
  <2>5. Len(s) <= Len(lru) /\ \A j \in 1..Len(s) : s[j] = lru[j]
    BY <1>3, <2>3
  <2>6. ListInv(L)' /\ Len(lru') = Len(s) + 1
    BY <1>3, <1>4, <2>1, <2>2, <2>3, <2>4, <2>5, ListAdd
  <2> QED BY <1>3, <2>3, <2>6
<1>6. ASSUME NEW q \in Threads \ {t}, pc[q] = "walk" PROVE Len(lru') = MaxCache
  <2> DEFINE A == {p \in Threads : pc[p] = "alloc"}
  <2>1. \A p \in Threads : p = t \/ p = q
    BY DEF Threads, OneReader
  <2>2. A = {}
    BY <1>1, <1>6, <2>1
  <2>3. Cardinality(A) = 0
    BY <2>2, FS_EmptySet
  <2>4. nrCaches = Len(lru)
    BY <1>3, <2>3 DEF CountInv, CountsPlaces
  <2> QED BY <1>1, <1>3, <1>5, <2>4, CacheAssumption DEF ValueInv
<1>7. \A q \in Threads \ {t} : \A x : pc[q] = "walk" /\ Held(x) => Held(x)'
  BY <1>6 DEF Held
<1>8. nrCaches' <= MaxCache
  BY <1>1, <1>3 DEF ValueInv
<1> QED BY <1>1, <1>2, <1>3, <1>4, <1>5, <1>7, <1>8, QuietInv

LEMMA SeekEndRight ==
  ASSUME NEW L \in Nat, InvAt(L), CountInv', NEW t \in Threads, SeekEnd(t)
  PROVE  InvAt(L)'
<1>1. /\ t = Writer /\ t \notin Readers /\ pc[t] = "free" /\ size > 0
      /\ Lookup(t, size - 1, "cut") /\ UNCHANGED <<table, nrCaches, validId, new>>
  BY ThreadAssumption DEF SeekEnd
<1>2. /\ CacheType /\ ValueInv /\ PhaseInv /\ ListInv(L) /\ FileInv(L)
      /\ size \in Nat /\ pc \in [Threads -> PCs] /\ new = 0
  BY <1>1 DEF InvAt, CountInv, CacheType, ValueInv, PhaseInv
<1>3. pc'[t] \in {"walk", "cut"} /\ \A q \in Threads \ {t} : pc'[q] = pc[q]
  BY <1>1, <1>2 DEF Lookup
<1>4. /\ Cutting' /\ Cutting /\ (Shrinking' <=> Shrinking)
      /\ UNCHANGED <<table, new>>
  BY <1>1, <1>2, <1>3 DEF Cutting, Shrinking
<1>5. file' = file /\ \A x : RunRight(x, L) => RunRight(x, L)'
  BY <1>2, <1>4, QuietStep
<1>6. L > 0 /\ file[0] = iStart /\ size - 1 \in Nat /\ "cut" \in PCs
  BY <1>1, <1>2, <1>4, FileFollows DEF FileInv, Shrinking, PCs
<1>7. /\ ListInv(L)' /\ Starts' = Starts /\ Len(lru') = Len(lru)
      /\ loc'[t].target = size - 1 /\ Stands(t, L)'
      /\ \A q \in Threads \ {t} : loc'[q] = loc[q] /\ pc'[q] = pc[q]
      /\ \/ pc'[t] = "cut" /\ size - 1 = 0 /\ loc'[t].fclus = 0
         \/ pc'[t] = "walk" /\ Carries(t, L)'
  <2> DEFINE m == size - 1
  <2>1. m \in Nat /\ Lookup(t, m, "cut")
    BY <1>1, <1>6
  <2> HIDE DEF m
  <2>2. /\ ListInv(L)' /\ Starts' = Starts /\ Len(lru') = Len(lru)
        /\ loc'[t].target = m /\ Stands(t, L)'
        /\ \A q \in Threads \ {t} : loc'[q] = loc[q] /\ pc'[q] = pc[q]
        /\ \/ pc'[t] = "cut" /\ m = 0 /\ loc'[t].fclus = 0
           \/ pc'[t] = "walk" /\ Carries(t, L)'
    BY <1>1, <1>2, <1>5, <1>6, <2>1, LookupRight
  <2> QED BY <2>2 DEF m
<1>8. ThreadInv(t, L)'
  <2>1. Aims(t, L)'
    BY <1>1, <1>2, <1>7 DEF Aims, table
  <2> QED BY <1>7, <2>1 DEF ThreadInv
<1>9. PhaseInv'
  <2>1. \A r \in Readers : pc'[r] \in {"idle", "walk", "alloc"}
    BY <1>1, <1>2, <1>3 DEF PhaseInv, Threads
  <2> QED BY <1>1, <1>2, <1>3, <2>1 DEF PhaseInv, table
<1>10. nrCaches' <= MaxCache
  BY <1>1, <1>2 DEF ValueInv
<1> QED BY <1>1, <1>4, <1>7, <1>8, <1>9, <1>10, QuietInv, SameStart

-----------------------------------------------------------------------------
(* The steps of the writer that change the table or the phase.              *)

Mapping(t) == pc[t] \in {"walk", "alloc"}

(* What a reader in fat_get_cluster needs of such a step, when it leaves M  *)
(* clusters to the file.                                                    *)
LEMMA ReaderKept ==
  ASSUME NEW L \in Nat, NEW M \in Nat, CacheType, PhaseInv, NEW q \in Readers, ThreadInv(q, L),
         loc'[q] = loc[q], pc'[q] = pc[q], validId \in Int, validId' \in Int, validId' >= validId,
         Mapping(q) => /\ loc[q].target < size' /\ loc[q].fclus < M
                       /\ file'[loc[q].fclus] = file[loc[q].fclus],
         Mapping(q) /\ loc[q].cid.f # -1 /\ loc[q].cid.id \in {VALID, validId'} =>
                       RunRight(loc[q].cid, M)',
         Mapping(q) /\ loc[q].cid.f # -1 /\ loc[q].cid.id = validId' => Held(loc[q].cid.f)'
  PROVE  ThreadInv(q, M)'
<1>0. q \in Threads /\ q # Writer /\ pc[q] \in {"idle", "walk", "alloc"}
  BY ThreadAssumption DEF PhaseInv, Threads
<1>1. CASE ~Mapping(q)
  BY <1>0, <1>1 DEF ThreadInv, Mapping
<1>2. CASE Mapping(q)
  <2>1. Stands(q, L) /\ Aims(q, L) /\ Carries(q, L)
    BY <1>2 DEF ThreadInv, Mapping
  <2>2. Stands(q, M)'
    BY <1>2, <2>1 DEF Stands
  <2>3. Aims(q, M)'
    BY <1>0, <1>2, <2>1 DEF Aims
  <2>4. Carries(q, M)'
    <3>1. loc[q].cid.id \in Int
      BY <1>0, Typed
    <3>2. loc[q].cid.f # -1 => loc[q].cid.id \in 0..validId'
      BY <2>1, <3>1 DEF Carries
    <3>3. loc[q].cid.f # -1 /\ loc[q].cid.id = validId' =>
            loc'[q].cid.f \in Starts' \/ Len(lru') = MaxCache
      BY <1>2 DEF Held
    <3> QED BY <1>2, <2>1, <3>2, <3>3 DEF Carries
  <2> QED BY <1>0, <2>2, <2>3, <2>4 DEF ThreadInv
<1> QED BY <1>1, <1>2

(* A reader keeps a run that the step keeps.                                *)
LEMMA ReaderRun ==
  ASSUME NEW L \in Nat, NEW q \in Readers, ThreadInv(q, L), Mapping(q),
         loc[q].cid.f # -1, loc[q].cid.id \in {VALID, validId}
  PROVE  RunRight(loc[q].cid, L) /\ (loc[q].cid.id = validId => Held(loc[q].cid.f))
  BY DEF ThreadInv, Mapping, Carries, Held

LEMMA ReaderStands ==
  ASSUME NEW L \in Nat, CacheType, NEW q \in Readers, ThreadInv(q, L), Mapping(q)
  PROVE  /\ loc[q].target \in Int /\ loc[q].target < size
         /\ loc[q].fclus \in 0..(L - 1) /\ loc[q].fclus <= loc[q].target
<1>1. q \in Threads
  BY DEF Threads
<1> QED BY <1>1, Typed DEF ThreadInv, Mapping, Stands, Aims

(* The first cluster of a file.                                             *)
LEMMA AppendFirst ==
  ASSUME NEW L \in Nat, InvAt(L), CountInv', Append1(Writer), iStart = 0
  PROVE  InvAt(1)'
<1>1. PICK c \in Free : /\ fat' = [fat EXCEPT ![c] = EOF] /\ iStart' = c /\ size' = 1
                        /\ UNCHANGED <<lru, pc, loc, new>>
  BY DEF Append1
<1>2. pc[Writer] = "idle" /\ size < MaxLen /\ UNCHANGED <<nrCaches, validId>>
  BY DEF Append1
<1>3. /\ CacheType /\ ValueInv /\ PhaseInv /\ ListInv(L) /\ FileInv(L) /\ size \in Nat
      /\ fat \in [Clusters -> Clusters \cup {FREE, EOF}]
  BY DEF InvAt, CountInv, ValueInv
<1>4. L = 0 /\ new = 0 /\ ~Cutting /\ ~Cutting' /\ ~Shrinking'
  BY <1>1, <1>2, <1>3 DEF FileInv, PhaseInv, Cutting, Shrinking
<1>5. c \in Clusters /\ fat'[c] = EOF /\ c # 0
  BY <1>1, <1>3, NoCluster DEF Free
<1>6. file'[0] = c /\ file'[1] = EOF
  <2>1. file'[0] = c /\ file'[0 + 1] = Successor(fat', file'[0])
    BY <1>1, FileFollows
  <2> QED BY <1>5, <2>1 DEF Successor
<1>7. FileInv(1)'
  <2>1. \A k \in 0..(1 - 1) : file'[k] \in Clusters /\ file'[k] # new'
    BY <1>1, <1>4, <1>5, <1>6
  <2>2. 1 \in 0..MaxLen
    BY <1>2, <1>3, TableAssumption
  <2> QED BY <1>1, <1>4, <1>5, <1>6, <2>1, <2>2 DEF FileInv
<1>8. DOMAIN lru = {}
  <2>1. ASSUME NEW i \in DOMAIN lru PROVE FALSE
    <3>1. RunRight(lru[i], 0) /\ lru[i] \in AnyRun
      BY <1>3, <1>4, ElementOfSeq, LenProperties DEF ListInv, CacheType
    <3> QED BY <3>1 DEF RunRight, AnyRun
  <2> QED BY <2>1
<1>9. ListInv(1)'
  BY <1>1, <1>8 DEF ListInv
<1>10. ASSUME NEW t \in Threads PROVE ThreadInv(t, 1)'
  <2>1. ~(pc[t] \in {"walk", "alloc", "link", "cut"})
    BY <1>4 DEF InvAt, ThreadInv, Stands
  <2> QED BY <1>1, <2>1 DEF ThreadInv
<1>11. ValueInv'
  BY <1>1, <1>2, <1>3, <1>5, TableAssumption DEF ValueInv
<1>12. PhaseInv'
  BY <1>1, <1>2, <1>3, <1>4 DEF PhaseInv
<1> QED BY <1>7, <1>9, <1>10, <1>11, <1>12 DEF InvAt

(* A further cluster is allocated, and the end of the chain looked for.     *)
LEMMA AppendNext ==
  ASSUME NEW L \in Nat, InvAt(L), CountInv', Append1(Writer), iStart # 0
  PROVE  InvAt(L)'
<1>1. PICK c \in Free : /\ fat' = [fat EXCEPT ![c] = EOF] /\ new' = c
                        /\ Lookup(Writer, EOF, "link") /\ UNCHANGED <<iStart, size>>
  BY DEF Append1
<1>2. pc[Writer] = "idle" /\ size < MaxLen /\ UNCHANGED <<nrCaches, validId>>
  BY DEF Append1
<1>3. /\ CacheType /\ ValueInv /\ PhaseInv /\ ListInv(L) /\ FileInv(L) /\ size \in Nat
      /\ fat \in [Clusters -> Clusters \cup {FREE, EOF}] /\ pc \in [Threads -> PCs]
      /\ Writer \in Threads /\ Writer \notin Readers /\ validId \in Int
  BY SMTT(20), ThreadAssumption DEF InvAt, CountInv, CacheType, ValueInv, Threads
<1>4. /\ L > 0 /\ L = size /\ new = 0 /\ ~Cutting /\ ~Shrinking
  BY <1>2, <1>3 DEF FileInv, PhaseInv, Cutting, Shrinking
<1>5. c \in Clusters /\ fat[c] = FREE /\ fat'[c] = EOF /\ c # 0
  BY <1>1, <1>3, NoCluster DEF Free
<1>6. EOF > 0 /\ EOF \in Nat
  BY TableAssumption DEF EOF
<1>7. pc' = [pc EXCEPT ![Writer] = "walk"]
  BY <1>1, <1>6 DEF Lookup
<1>8. ~Cutting' /\ ~Shrinking'
  BY <1>1, <1>3, <1>5, <1>7 DEF Cutting, Shrinking
<1>9. \A k \in 0..(L - 1) : file[k] # c
  <2> SUFFICES ASSUME NEW k \in 0..(L - 1), file[k] = c PROVE FALSE
    OBVIOUS
  <2>1. k \in Nat /\ (k + 1 \in 0..(L - 1) \/ k + 1 = L)
    OBVIOUS
  <2>2. file[k + 1] = FREE
    BY <1>5, <2>1, FileFollows DEF Successor
  <2>3. file[k + 1] \in Clusters \/ file[k + 1] = EOF
    BY <1>3, <1>4, <2>1 DEF FileInv
  <2> QED BY <2>2, <2>3, NoCluster
<1>10. \A k \in 0..L : file'[k] = file[k]
  <2>1. \A k \in 0..(L - 1) : Successor(fat', file[k]) = Successor(fat, file[k])
    BY <1>1, <1>3, <1>9 DEF Successor
  <2> QED BY <1>1, <2>1, FilePrefix
<1>11. FileInv(L)'
  <2>1. \A k \in 0..(L - 1) : file'[k] \in Clusters /\ file'[k] # new'
    BY <1>1, <1>3, <1>9, <1>10 DEF FileInv
  <2>2. \A j, k \in 0..(L - 1) : file'[j] = file'[k] => j = k
    BY <1>3, <1>10 DEF FileInv
  <2>3. file'[L] = EOF
    BY <1>3, <1>4, <1>10 DEF FileInv
  <2> QED BY <1>1, <1>3, <1>4, <1>8, <2>1, <2>2, <2>3 DEF FileInv
<1>12. \A x : RunRight(x, L) => RunRight(x, L)'
  <2> SUFFICES ASSUME NEW x, RunRight(x, L) PROVE RunRight(x, L)'
    OBVIOUS
  <2>1. \A k \in 0..x.n : file'[x.f + k] = x.d + k
    <3> SUFFICES ASSUME NEW k \in 0..x.n PROVE file'[x.f + k] = x.d + k
      OBVIOUS
    <3>1. file[x.f + k] = x.d + k /\ x.f + x.n < L /\ x.f \in Nat /\ x.n \in Nat
      BY DEF RunRight
    <3> QED BY <1>10, <3>1
  <2> QED BY <1>8, <2>1 DEF RunRight
<1>13. /\ ListInv(L)' /\ Starts' = Starts /\ Len(lru') = Len(lru)
       /\ loc'[Writer].target = EOF /\ Stands(Writer, L)'
       /\ \A q \in Threads \ {Writer} : loc'[q] = loc[q] /\ pc'[q] = pc[q]
       /\ pc'[Writer] = "walk" /\ Carries(Writer, L)'
  <2>1. file[0] = iStart /\ \A k \in 0..(L - 1) : file'[k] = file[k]
    BY <1>10, FileFollows
  <2>2. "link" \in PCs /\ "link" # "walk" /\ EOF # 0
    BY <1>6 DEF PCs
  <2> QED BY <1>1, <1>2, <1>3, <1>4, <1>6, <1>12, <2>1, <2>2, LookupRight
<1>14. ThreadInv(Writer, L)'
  <2>1. Aims(Writer, L)'
    BY <1>1, <1>3, <1>5, <1>13 DEF Aims
  <2> QED BY <1>13, <2>1 DEF ThreadInv
<1>15. ASSUME NEW q \in Readers PROVE ThreadInv(q, L)'
  <2>1. /\ q \in Threads \ {Writer} /\ ThreadInv(q, L)
        /\ loc'[q] = loc[q] /\ pc'[q] = pc[q] /\ validId' \in Int /\ validId' >= validId
    BY <1>2, <1>3, <1>13 DEF InvAt, Threads
  <2>2. Mapping(q) => /\ loc[q].target < size' /\ loc[q].fclus < L
                      /\ file'[loc[q].fclus] = file[loc[q].fclus]
    BY <1>1, <1>3, <1>10, <2>1, ReaderStands
  <2>3. Mapping(q) /\ loc[q].cid.f # -1 /\ loc[q].cid.id \in {VALID, validId'} =>
          RunRight(loc[q].cid, L)'
    <3> SUFFICES ASSUME Mapping(q), loc[q].cid.f # -1, loc[q].cid.id \in {VALID, validId'}
                 PROVE  RunRight(loc[q].cid, L)'
      OBVIOUS
    <3>1. RunRight(loc'[q].cid, L)
      BY <1>2, <2>1, ReaderRun
    <3> QED BY <1>12, <3>1
  <2>4. Mapping(q) /\ loc[q].cid.f # -1 /\ loc[q].cid.id = validId' => Held(loc[q].cid.f)'
    <3> SUFFICES ASSUME Mapping(q), loc[q].cid.f # -1, loc[q].cid.id = validId'
                 PROVE  Held(loc[q].cid.f)'
      OBVIOUS
    <3>1. Held(loc'[q].cid.f)
      BY <1>2, <2>1, ReaderRun
    <3> QED BY <1>13, <3>1, SameStart
  <2> QED BY <1>3, <2>1, <2>2, <2>3, <2>4, ReaderKept
<1>16. ValueInv'
  BY <1>1, <1>2, <1>3, <1>5 DEF ValueInv
<1>17. PhaseInv'
  <2>1. \A r \in Readers : pc'[r] \in {"idle", "walk", "alloc"}
    BY <1>3, <1>13 DEF PhaseInv, Threads
  <2> QED BY <1>1, <1>2, <1>5, <1>8, <1>13, <2>1 DEF PhaseInv
<1> QED BY <1>11, <1>13, <1>14, <1>15, <1>16, <1>17 DEF InvAt, Threads

(* The new cluster becomes the last one.                                    *)
LEMMA LinkRight ==
  ASSUME NEW L \in Nat, InvAt(L), CountInv', Link(Writer)
  PROVE  InvAt(L + 1)'
<1> DEFINE last == loc[Writer].dclus
<1>1. /\ pc[Writer] = "link" /\ fat' = [fat EXCEPT ![last] = new] /\ size' = size + 1
      /\ new' = 0 /\ pc' = [pc EXCEPT ![Writer] = "idle"]
      /\ loc' = [loc EXCEPT ![Writer] = Nowhere]
      /\ UNCHANGED <<iStart, lru, nrCaches, validId>>
  BY DEF Link, cache
<1>2. /\ CacheType /\ ValueInv /\ PhaseInv /\ ListInv(L) /\ FileInv(L) /\ size \in Nat
      /\ fat \in [Clusters -> Clusters \cup {FREE, EOF}] /\ pc \in [Threads -> PCs]
      /\ loc \in [Threads -> Place]
      /\ Writer \in Threads /\ Writer \notin Readers /\ validId \in Int
      /\ Stands(Writer, L) /\ Aims(Writer, L)
  BY <1>1, ThreadAssumption DEF InvAt, CountInv, CacheType, ValueInv, ThreadInv, Threads
<1>3. new # 0 /\ new \in Clusters /\ fat[new] = EOF /\ size < MaxLen /\ ~Cutting /\ ~Shrinking
  BY <1>1, <1>2 DEF PhaseInv, ValueInv, Cutting, Shrinking
<1>4. L = size /\ L > 0 /\ last = file[L - 1] /\ L - 1 \in Nat
  <2>1. loc[Writer].fclus = L - 1 /\ loc[Writer].fclus \in 0..(L - 1)
    BY <1>1, <1>2, <1>3 DEF Stands, Aims
  <2> QED BY <1>2, <1>3, <2>1 DEF FileInv, Stands
<1> HIDE DEF last
<1>5. last \in Clusters /\ last # new
  BY <1>2, <1>4 DEF FileInv
<1>6. fat'[last] = new /\ \A c \in Clusters \ {last} : fat'[c] = fat[c]
  BY <1>1, <1>2, <1>5
<1>7. pc'[Writer] = "idle" /\ \A q \in Threads \ {Writer} : loc'[q] = loc[q] /\ pc'[q] = pc[q]
  BY <1>1, <1>2
<1>8. ~Cutting' /\ ~Shrinking'
  BY <1>7 DEF Cutting, Shrinking
<1>9. \A k \in 0..(L - 1) : file'[k] = file[k]
  <2>1. \A k \in 0..((L - 1) - 1) : file[k] \in Clusters \ {last}
    BY <1>2, <1>4 DEF FileInv
  <2>2. \A k \in 0..((L - 1) - 1) : Successor(fat', file[k]) = Successor(fat, file[k])
    BY <1>6, <2>1 DEF Successor
  <2> QED BY <1>1, <1>4, <2>2, FilePrefix
<1>10. file'[L] = new /\ file'[L + 1] = EOF
  <2>1. file'[L - 1] = last /\ (L - 1) + 1 = L
    BY <1>4, <1>9
  <2>2. file'[L] = new
    BY <1>4, <1>5, <1>6, <2>1, FileFollows DEF Successor
  <2>3. file'[L + 1] = Successor(fat', new)
    BY <2>2, FileFollows
  <2> QED BY <1>3, <1>5, <1>6, <2>2, <2>3 DEF Successor
<1>11. FileInv(L + 1)'
  <2>1. ASSUME NEW k \in 0..((L + 1) - 1) PROVE file'[k] \in Clusters /\ file'[k] # new'
    <3>1. k \in 0..(L - 1) \/ k = L
      OBVIOUS
    <3> QED BY <1>1, <1>2, <1>3, <1>9, <1>10, <3>1, NoCluster DEF FileInv
  <2>2. ASSUME NEW j \in 0..((L + 1) - 1), NEW k \in 0..((L + 1) - 1), file'[j] = file'[k]
        PROVE  j = k
    <3>1. (j \in 0..(L - 1) \/ j = L) /\ (k \in 0..(L - 1) \/ k = L)
      OBVIOUS
    <3> QED BY <1>2, <1>9, <1>10, <2>2, <3>1 DEF FileInv
  <2>3. L + 1 \in 0..MaxLen /\ L + 1 = size' /\ iStart' # 0
    BY <1>1, <1>2, <1>3, <1>4, TableAssumption DEF FileInv
  <2> QED BY <1>8, <1>10, <2>1, <2>2, <2>3 DEF FileInv
<1>12. \A x : RunRight(x, L) => RunRight(x, L + 1)'
  <2> SUFFICES ASSUME NEW x, RunRight(x, L) PROVE RunRight(x, L + 1)'
    OBVIOUS
  <2>1. x.f \in Nat \ {0} /\ x.n \in Nat /\ x.f + x.n < L
    BY DEF RunRight
  <2>2. \A k \in 0..x.n : file'[x.f + k] = x.d + k
    BY <1>9, <2>1 DEF RunRight
  <2> QED BY <1>8, <2>1, <2>2 DEF RunRight
<1>13. ListInv(L + 1)'
  BY <1>1, <1>2, <1>12 DEF ListInv
<1>14. ASSUME NEW q \in Readers PROVE ThreadInv(q, L + 1)'
  <2>1. /\ q \in Threads \ {Writer} /\ ThreadInv(q, L) /\ L + 1 \in Nat
        /\ loc'[q] = loc[q] /\ pc'[q] = pc[q] /\ validId' \in Int /\ validId' >= validId
    BY <1>1, <1>2, <1>7 DEF InvAt, Threads
  <2>2. Mapping(q) => /\ loc[q].target < size' /\ loc[q].fclus < L + 1
                      /\ file'[loc[q].fclus] = file[loc[q].fclus]
    BY <1>1, <1>2, <1>9, <2>1, ReaderStands
  <2>3. Mapping(q) /\ loc[q].cid.f # -1 /\ loc[q].cid.id \in {VALID, validId'} =>
          RunRight(loc[q].cid, L + 1)'
    <3> SUFFICES ASSUME Mapping(q), loc[q].cid.f # -1, loc[q].cid.id \in {VALID, validId'}
                 PROVE  RunRight(loc[q].cid, L + 1)'
      OBVIOUS
    <3>1. RunRight(loc'[q].cid, L)
      BY <1>1, <2>1, ReaderRun
    <3> QED BY <1>12, <3>1
  <2>4. Mapping(q) /\ loc[q].cid.f # -1 /\ loc[q].cid.id = validId' => Held(loc[q].cid.f)'
    BY <1>1, <2>1, ReaderRun DEF Held, Starts
  <2> QED BY <1>2, <2>1, <2>2, <2>3, <2>4, ReaderKept
<1>15. ThreadInv(Writer, L + 1)'
  BY <1>7 DEF ThreadInv
<1>16. ValueInv'
  <2>1. fat' \in [Clusters -> Clusters \cup {FREE, EOF}]
    BY <1>1, <1>2, <1>3
  <2> QED BY <1>1, <1>2, <1>3, <2>1, TableAssumption DEF ValueInv
<1>17. PhaseInv'
  <2>1. \A r \in Readers : pc'[r] \in {"idle", "walk", "alloc"}
    BY <1>2, <1>7 DEF PhaseInv, Threads
  <2> QED BY <1>1, <1>7, <1>8, <2>1 DEF PhaseInv
<1> QED BY <1>11, <1>13, <1>14, <1>15, <1>16, <1>17 DEF InvAt, Threads

(* i_size goes down once no reader maps what it leaves out.                 *)
LEMMA TruncateRight ==
  ASSUME NEW L \in Nat, InvAt(L), CountInv', Truncate(Writer)
  PROVE  InvAt(L)'
<1>1. /\ pc[Writer] = "idle" /\ validId < MaxId /\ pc' = [pc EXCEPT ![Writer] = "inval"]
      /\ size' \in 0..(size - 1)
      /\ \A r \in Readers : pc[r] = "idle" \/ loc[r].target < size'
      /\ UNCHANGED <<fat, iStart, lru, nrCaches, validId, loc, new>>
  BY DEF Truncate, cache
<1>2. /\ CacheType /\ ValueInv /\ PhaseInv /\ ListInv(L) /\ FileInv(L) /\ size \in Nat
      /\ pc \in [Threads -> PCs] /\ Writer \in Threads /\ Writer \notin Readers /\ validId \in Int
  BY SMTT(20), ThreadAssumption DEF InvAt, CountInv, CacheType, ValueInv, Threads
<1>3. new = 0 /\ ~Cutting /\ ~Shrinking /\ L = size
  BY <1>1, <1>2 DEF PhaseInv, Cutting, Shrinking, FileInv
<1>4. pc'[Writer] = "inval" /\ \A q \in Threads \ {Writer} : pc'[q] = pc[q]
  BY <1>1, <1>2
<1>5. ~Cutting' /\ Shrinking' /\ file' = file
  BY <1>1, <1>4, FileSame DEF Cutting, Shrinking
<1>6. FileInv(L)'
  BY <1>1, <1>2, <1>3, <1>5 DEF FileInv
<1>7. \A x : RunRight(x, L) => RunRight(x, L)'
  BY <1>5 DEF RunRight
<1>8. ListInv(L)'
  BY <1>1, <1>2, <1>7 DEF ListInv
<1>9. ASSUME NEW q \in Readers PROVE ThreadInv(q, L)'
  <2>1. /\ q \in Threads \ {Writer} /\ ThreadInv(q, L)
        /\ loc'[q] = loc[q] /\ pc'[q] = pc[q] /\ validId' \in Int /\ validId' >= validId
    BY <1>1, <1>2, <1>4 DEF InvAt, Threads
  <2>2. Mapping(q) => /\ loc[q].target < size' /\ loc[q].fclus < L
                      /\ file'[loc[q].fclus] = file[loc[q].fclus]
    <3>1. Mapping(q) => loc[q].target < size'
      BY <1>1 DEF Mapping
    <3> QED BY <1>2, <1>5, <2>1, <3>1, ReaderStands
  <2>3. Mapping(q) /\ loc[q].cid.f # -1 /\ loc[q].cid.id \in {VALID, validId'} =>
          RunRight(loc[q].cid, L)'
    <3> SUFFICES ASSUME Mapping(q), loc[q].cid.f # -1, loc[q].cid.id \in {VALID, validId'}
                 PROVE  RunRight(loc[q].cid, L)'
      OBVIOUS
    <3>1. RunRight(loc'[q].cid, L)
      BY <1>1, <2>1, ReaderRun
    <3> QED BY <1>7, <3>1
  <2>4. Mapping(q) /\ loc[q].cid.f # -1 /\ loc[q].cid.id = validId' => Held(loc[q].cid.f)'
    BY <1>1, <2>1, ReaderRun DEF Held, Starts
  <2> QED BY <1>2, <2>1, <2>2, <2>3, <2>4, ReaderKept
<1>10. ThreadInv(Writer, L)'
  BY <1>4 DEF ThreadInv
<1>11. ValueInv'
  <2>1. size' \in 0..MaxLen
    BY <1>1, <1>2, TableAssumption DEF ValueInv
  <2> QED BY <1>1, <1>2, <2>1 DEF ValueInv
<1>12. PhaseInv'
  <2>1. \A r \in Readers : pc'[r] \in {"idle", "walk", "alloc"}
    BY <1>2, <1>4 DEF PhaseInv, Threads
  <2> QED BY <1>1, <1>3, <1>4, <1>5, <2>1 DEF PhaseInv
<1> QED BY <1>6, <1>8, <1>9, <1>10, <1>11, <1>12 DEF InvAt, Threads

(* The cache is emptied, and the copies that walks hold of it are no longer *)
(* accepted; a run that was found since ends below the new size.            *)
LEMMA InvalRight ==
  ASSUME NEW L \in Nat, InvAt(L), CountInv', Inval(Writer)
  PROVE  InvAt(L)'
<1>1. /\ pc[Writer] = "inval" /\ lru' = <<>> /\ nrCaches' = nrCaches - Len(lru)
      /\ validId' = NextId /\ pc' = [pc EXCEPT ![Writer] = "free"]
      /\ UNCHANGED <<fat, iStart, size, loc, new>>
  BY DEF Inval, table
<1>2. /\ CacheType /\ ValueInv /\ PhaseInv /\ ListInv(L) /\ FileInv(L) /\ size \in Nat
      /\ pc \in [Threads -> PCs] /\ Writer \in Threads /\ Writer \notin Readers
      /\ validId \in 1..MaxId /\ Len(lru) \in Nat
  <2>1. lru \in Seq(AnyRun)
    BY DEF InvAt, CountInv, CacheType
  <2>2. Len(lru) \in Nat
    BY <2>1, LenProperties
  <2>3. size \in Nat /\ validId \in 1..MaxId
    BY DEF InvAt, ValueInv
  <2> QED BY <2>2, <2>3, ThreadAssumption DEF InvAt, CountInv, CacheType, Threads
<1>3. validId' = validId + 1 /\ validId' \in 1..MaxId
  BY <1>1, <1>2, TableAssumption DEF NextId, VALID, PhaseInv
<1>4. new = 0 /\ ~Cutting /\ Shrinking /\ size < L
  BY <1>1, <1>2 DEF PhaseInv, Cutting, Shrinking, FileInv
<1>5. pc'[Writer] = "free" /\ \A q \in Threads \ {Writer} : pc'[q] = pc[q]
  BY <1>1, <1>2
<1>6. Cutting' /\ Shrinking' /\ file' = file
  BY <1>1, <1>5, FileSame DEF Cutting, Shrinking
<1>7. FileInv(L)'
  BY <1>1, <1>2, <1>4, <1>6 DEF FileInv
<1>8. ListInv(L)'
  BY <1>1 DEF ListInv
<1>9. ASSUME NEW q \in Readers PROVE ThreadInv(q, L)'
  <2>1. /\ q \in Threads \ {Writer} /\ ThreadInv(q, L)
        /\ loc'[q] = loc[q] /\ pc'[q] = pc[q]
        /\ validId \in Int /\ validId' \in Int /\ validId' >= validId
    BY <1>1, <1>2, <1>3, <1>5 DEF InvAt, Threads
  <2>2. Mapping(q) => /\ loc[q].target < size' /\ loc[q].fclus < L
                      /\ file'[loc[q].fclus] = file[loc[q].fclus]
    BY <1>1, <1>2, <1>6, <2>1, ReaderStands
  <2>3. ASSUME Mapping(q), loc[q].cid.f # -1
        PROVE  /\ loc[q].cid.id # validId'
               /\ loc[q].cid.id = VALID => RunRight(loc[q].cid, L)'
    <3>1. Carries(q, L) /\ loc[q].cid.id \in Int
      BY <2>1, <2>3, <1>2, Typed DEF ThreadInv, Mapping
    <3>2. loc[q].cid.id <= validId
      BY <1>2, <2>3, <3>1 DEF Carries
    <3>3. ASSUME loc[q].cid.id = VALID PROVE RunRight(loc[q].cid, L)'
      <4>1. RunRight(loc[q].cid, L) /\ loc[q].cid.f + loc[q].cid.n = loc[q].fclus
        BY <2>3, <3>1, <3>3 DEF Carries
      <4>2. /\ loc[q].target \in Int /\ loc[q].target < size
            /\ loc[q].fclus \in 0..(L - 1) /\ loc[q].fclus <= loc[q].target
        <5>1. CacheType /\ ThreadInv(q, L) /\ Mapping(q)
          BY <1>2, <2>1, <2>3
        <5> QED BY <5>1, ReaderStands
      <4>3. loc[q].cid.f + loc[q].cid.n < size
        BY <1>2, <4>1, <4>2
      <4> QED BY <1>1, <1>6, <2>1, <4>1, <4>3 DEF RunRight
    <3> QED BY <1>2, <1>3, <3>1, <3>2, <3>3
  <2> QED BY <1>2, <2>1, <2>2, <2>3, ReaderKept
<1>10. ThreadInv(Writer, L)'
  BY <1>5 DEF ThreadInv
<1>11. ValueInv'
  <2>1. nrCaches' <= MaxCache
    BY <1>1, <1>2, CacheAssumption DEF ValueInv, CacheType
  <2> QED BY <1>1, <1>2, <1>3, <2>1 DEF ValueInv
<1>12. PhaseInv'
  <2>1. \A r \in Readers : pc'[r] \in {"idle", "walk", "alloc"}
    BY <1>2, <1>5 DEF PhaseInv, Threads
  <2> QED BY <1>1, <1>4, <1>5, <2>1 DEF PhaseInv
<1> QED BY <1>7, <1>8, <1>9, <1>10, <1>11, <1>12 DEF InvAt, Threads

(* What every run and every thread keeps clear of is freed.                 *)
LEMMA FreeAllRight ==
  ASSUME NEW L \in Nat, InvAt(L), CountInv', FreeAll(Writer)
  PROVE  InvAt(0)'
<1>1. /\ pc[Writer] = "free" /\ size = 0 /\ iStart' = 0 /\ pc' = [pc EXCEPT ![Writer] = "idle"]
      /\ UNCHANGED <<size, lru, nrCaches, validId, loc, new>>
      /\ fat' = [c \in Clusters |-> IF \E k \in 0..MaxLen : c = Nth(k) THEN FREE ELSE fat[c]]
  BY DEF FreeAll, cache
<1>2. /\ CacheType /\ ValueInv /\ PhaseInv /\ ListInv(L) /\ FileInv(L)
      /\ fat \in [Clusters -> Clusters \cup {FREE, EOF}]
      /\ pc \in [Threads -> PCs] /\ Writer \in Threads /\ Writer \notin Readers
  BY ThreadAssumption DEF InvAt, CountInv, CacheType, ValueInv, Threads
<1>3. Cutting /\ new = 0
  BY <1>1, <1>2 DEF Cutting, PhaseInv
<1>4. pc'[Writer] = "idle" /\ \A q \in Threads \ {Writer} : pc'[q] = pc[q]
  BY <1>1, <1>2
<1>5. ~Cutting' /\ ~Shrinking'
  BY <1>4 DEF Cutting, Shrinking
<1>6. FileInv(0)'
  BY <1>1, <1>5, TableAssumption DEF FileInv
<1>7. DOMAIN lru = {}
  <2>1. ASSUME NEW i \in DOMAIN lru PROVE FALSE
    <3>1. RunRight(lru[i], L)
      BY <1>2 DEF ListInv
    <3>2. lru[i].f \in Nat /\ lru[i].n \in Nat /\ lru[i].f + lru[i].n < 0
      BY <1>1, <1>3, <3>1 DEF RunRight
    <3> QED BY <3>2
  <2> QED BY <2>1
<1>8. ListInv(0)'
  BY <1>1, <1>7 DEF ListInv
<1>9. ASSUME NEW q \in Readers PROVE ThreadInv(q, 0)'
  <2>1. q \in Threads \ {Writer} /\ ThreadInv(q, L) /\ pc'[q] = pc[q]
    BY <1>2, <1>4 DEF InvAt, Threads
  <2>2. ~Mapping(q)
    BY <1>1, <1>2, <2>1, ReaderStands
  <2> QED BY <1>2, <2>1, <2>2 DEF ThreadInv, Mapping, PhaseInv
<1>10. ThreadInv(Writer, 0)'
  BY <1>4 DEF ThreadInv
<1>11. ValueInv'
  BY <1>1, <1>2 DEF ValueInv
<1>12. PhaseInv'
  <2>1. \A r \in Readers : pc'[r] \in {"idle", "walk", "alloc"}
    BY <1>2, <1>4 DEF PhaseInv, Threads
  <2> QED BY <1>1, <1>3, <1>4, <1>5, <2>1 DEF PhaseInv
<1> QED BY <1>6, <1>8, <1>9, <1>10, <1>11, <1>12 DEF InvAt, Threads

(* Past its end, the chain stays at its end.                                *)
LEMMA FileEnd ==
  ASSUME NEW L \in Nat, L > 0, FileInv(L)
  PROVE  \A k \in Nat : k >= L => file[k] = EOF
<1> DEFINE S == {k \in Nat : k >= L => file[k] = EOF}
<1>1. 0 \in S
  OBVIOUS
<1>2. ASSUME NEW k \in S PROVE k + 1 \in S
  <2> SUFFICES ASSUME k + 1 >= L PROVE file[k + 1] = EOF
    OBVIOUS
  <2>1. CASE k + 1 = L
    BY <2>1 DEF FileInv
  <2>2. CASE k + 1 # L
    <3>1. k \in Nat /\ file[k] = EOF
      BY <2>2
    <3> QED BY <3>1, FileFollows, NoCluster DEF Successor
  <2> QED BY <2>1, <2>2
<1>3. S = Nat
  <2> HIDE DEF S
  <2> QED BY <1>1, <1>2, Steps DEF S
<1> QED BY <1>3

(* What is left ends where the runs, the threads and i_size end.            *)
LEMMA CutRight ==
  ASSUME NEW L \in Nat, InvAt(L), CountInv', Cut(Writer), NEW M \in Nat, M = size
  PROVE  InvAt(M)'
<1> DEFINE last == loc[Writer].dclus
<1>1. /\ pc[Writer] = "cut" /\ pc' = [pc EXCEPT ![Writer] = "idle"]
      /\ loc' = [loc EXCEPT ![Writer] = Nowhere]
      /\ UNCHANGED <<iStart, size, lru, nrCaches, validId, new>>
      /\ fat' = [c \in Clusters |-> IF c = last THEN EOF
                                  ELSE IF \E k \in size..MaxLen : c = Nth(k) THEN FREE
                                  ELSE fat[c]]
  BY DEF Cut, cache
<1>2. /\ CacheType /\ ValueInv /\ PhaseInv /\ ListInv(L) /\ FileInv(L) /\ size \in 0..MaxLen
      /\ fat \in [Clusters -> Clusters \cup {FREE, EOF}] /\ pc \in [Threads -> PCs]
      /\ loc \in [Threads -> Place]
      /\ Writer \in Threads /\ Writer \notin Readers /\ validId \in Int
      /\ Stands(Writer, L) /\ Aims(Writer, L)
  BY <1>1, ThreadAssumption DEF InvAt, CountInv, CacheType, ValueInv, ThreadInv, Threads
<1>3. Cutting /\ Shrinking /\ new = 0 /\ size \in Nat /\ size > 0 /\ size < L
  BY <1>1, <1>2, TableAssumption DEF Cutting, Shrinking, PhaseInv, FileInv
<1>4. last = file[size - 1] /\ size - 1 \in Nat
  <2>1. loc[Writer].fclus = size - 1
    BY <1>1, <1>2, <1>3 DEF Aims
  <2> QED BY <1>2, <1>3, <2>1 DEF Stands
<1> HIDE DEF last
<1>5. last \in Clusters
  BY <1>2, <1>3, <1>4 DEF FileInv
<1>6. ASSUME NEW k \in 0..((size - 1) - 1) PROVE Successor(fat', file[k]) = Successor(fat, file[k])
  <2>1. file[k] \in Clusters /\ file[k] # last
    BY <1>2, <1>3, <1>4 DEF FileInv
  <2>2. ASSUME NEW j \in size..MaxLen PROVE file[k] # Nth(j)
    <3>1. j \in Nat /\ Nth(j) = file[j] /\ j # k
      BY <1>3 DEF file
    <3>2. CASE j < L
      <4>1. j \in 0..(L - 1) /\ k \in 0..(L - 1)
        BY <1>3, <3>1, <3>2
      <4> QED BY <1>2, <3>1, <4>1 DEF FileInv
    <3>3. CASE ~(j < L)
      <4>1. file[j] = EOF
        BY <1>2, <1>3, <3>1, <3>3, FileEnd
      <4> QED BY <2>1, <3>1, <4>1, NoCluster
    <3> QED BY <3>2, <3>3
  <2>3. fat'[file[k]] = fat[file[k]]
    BY <1>1, <2>1, <2>2
  <2> QED BY <2>1, <2>3 DEF Successor
<1>7. \A k \in 0..(size - 1) : file'[k] = file[k]
  BY <1>1, <1>4, <1>6, FilePrefix
<1>8. file'[size] = EOF
  <2>1. file'[size - 1] = last /\ (size - 1) + 1 = size /\ fat'[last] = EOF
    BY <1>1, <1>3, <1>4, <1>5, <1>7
  <2>2. file'[(size - 1) + 1] = Successor(fat', file'[size - 1])
    BY <1>4, FileFollows
  <2> QED BY <1>5, <2>1, <2>2 DEF Successor
<1>9. pc'[Writer] = "idle" /\ \A q \in Threads \ {Writer} : loc'[q] = loc[q] /\ pc'[q] = pc[q]
  BY <1>1, <1>2
<1>10. ~Cutting' /\ ~Shrinking'
  BY <1>9 DEF Cutting, Shrinking
<1>11. FileInv(M)'
  <2>1. \A k \in 0..(M - 1) : k \in 0..(L - 1) /\ k \in 0..(size - 1)
    BY <1>3
  <2>2. M \in 0..MaxLen /\ M # 0 /\ iStart' # 0 /\ M = size'
    BY <1>1, <1>2, <1>3 DEF FileInv
  <2>3. \A k \in 0..(M - 1) : file'[k] \in Clusters /\ file'[k] # new'
    BY <1>1, <1>2, <1>7, <2>1 DEF FileInv
  <2>4. \A j, k \in 0..(M - 1) : file'[j] = file'[k] => j = k
    BY <1>2, <1>7, <2>1 DEF FileInv
  <2> QED BY <1>8, <1>10, <2>2, <2>3, <2>4 DEF FileInv
<1>12. \A x : RunRight(x, L) => RunRight(x, M)'
  <2> SUFFICES ASSUME NEW x, RunRight(x, L) PROVE RunRight(x, M)'
    OBVIOUS
  <2>1. x.f \in Nat \ {0} /\ x.n \in Nat /\ x.f + x.n < size
    BY <1>3 DEF RunRight
  <2>2. \A k \in 0..x.n : file'[x.f + k] = x.d + k
    BY <1>3, <1>7, <2>1 DEF RunRight
  <2> QED BY <1>10, <2>1, <2>2 DEF RunRight
<1>13. ListInv(M)'
  BY <1>1, <1>2, <1>12 DEF ListInv
<1>14. ASSUME NEW q \in Readers PROVE ThreadInv(q, M)'
  <2>1. /\ q \in Threads \ {Writer} /\ ThreadInv(q, L)
        /\ loc'[q] = loc[q] /\ pc'[q] = pc[q] /\ validId' \in Int /\ validId' >= validId
    BY <1>1, <1>2, <1>9 DEF InvAt, Threads
  <2>2. Mapping(q) => /\ loc[q].target < size' /\ loc[q].fclus < M
                      /\ file'[loc[q].fclus] = file[loc[q].fclus]
    BY <1>1, <1>2, <1>3, <1>7, <2>1, ReaderStands
  <2>3. Mapping(q) /\ loc[q].cid.f # -1 /\ loc[q].cid.id \in {VALID, validId'} =>
          RunRight(loc[q].cid, M)'
    <3> SUFFICES ASSUME Mapping(q), loc[q].cid.f # -1, loc[q].cid.id \in {VALID, validId'}
                 PROVE  RunRight(loc[q].cid, M)'
      OBVIOUS
    <3>1. RunRight(loc'[q].cid, L)
      BY <1>1, <2>1, ReaderRun
    <3> QED BY <1>12, <3>1
  <2>4. Mapping(q) /\ loc[q].cid.f # -1 /\ loc[q].cid.id = validId' => Held(loc[q].cid.f)'
    BY <1>1, <2>1, ReaderRun DEF Held, Starts
  <2> QED BY <1>2, <2>1, <2>2, <2>3, <2>4, ReaderKept
<1>15. ThreadInv(Writer, M)'
  BY <1>9 DEF ThreadInv
<1>16. ValueInv'
  <2>1. fat' \in [Clusters -> Clusters \cup {FREE, EOF}]
    BY <1>1, <1>2
  <2> QED BY <1>1, <1>2, <2>1 DEF ValueInv
<1>17. PhaseInv'
  <2>1. \A r \in Readers : pc'[r] \in {"idle", "walk", "alloc"}
    BY <1>2, <1>9 DEF PhaseInv, Threads
  <2> QED BY <1>1, <1>3, <1>9, <1>10, <2>1 DEF PhaseInv
<1> QED BY <1>11, <1>13, <1>14, <1>15, <1>16, <1>17 DEF InvAt, Threads

-----------------------------------------------------------------------------
(* The invariant.                                                           *)

LEMMA CacheInit == OneReader /\ Init => CacheInv
<1> SUFFICES ASSUME OneReader, Init PROVE InvAt(0)
  BY DEF CacheInv
<1>1. IsFiniteSet(Readers)
  <2>1. CASE Readers = {}
    BY <2>1, FS_EmptySet
  <2>2. CASE Readers # {}
    <3>1. PICK r \in Readers : TRUE
      BY <2>2
    <3>2. Readers = {r}
      BY DEF OneReader
    <3> QED BY <3>2, FS_Singleton
  <2> QED BY <2>1, <2>2
<1>2. CountInv
  BY <1>1, CountInit
<1>3. \A t \in Threads : pc[t] = "idle"
  BY DEF Init
<1>4. Writer \in Threads /\ ~Cutting /\ ~Shrinking
  BY <1>3 DEF Cutting, Shrinking, Threads
<1>5. ValueInv
  BY TableAssumption, CacheAssumption DEF Init, ValueInv, VALID
<1>6. PhaseInv
  BY <1>3, <1>4 DEF Init, PhaseInv, Threads
<1>7. FileInv(0)
  BY <1>4, TableAssumption DEF Init, FileInv
<1>8. ListInv(0)
  BY DEF Init, ListInv
<1>9. \A t \in Threads : ThreadInv(t, 0)
  BY <1>3 DEF ThreadInv
<1> QED BY <1>2, <1>5, <1>6, <1>7, <1>8, <1>9 DEF InvAt

LEMMA CacheStep ==
  ASSUME OneReader, NEW L \in Nat, InvAt(L), NEW t \in Threads, CountInv',
         \/ Read(t) \/ WalkStep(t)
         \/ AddRefused(t) \/ AddMerge(t) \/ AddRoom(t) \/ AddEvict(t)
         \/ AddInsert(t) \/ AddNoMemory(t)
         \/ Append1(t) \/ Link(t) \/ Truncate(t) \/ Inval(t)
         \/ FreeAll(t) \/ SeekEnd(t) \/ Cut(t)
  PROVE  CacheInv'
<1>1. CASE \/ Read(t) \/ WalkStep(t) \/ AddRefused(t) \/ AddMerge(t) \/ AddRoom(t)
           \/ AddEvict(t) \/ AddInsert(t) \/ AddNoMemory(t) \/ SeekEnd(t)
  <2>1. InvAt(L)'
    BY <1>1, ReadRight, WalkRight, AddRefusedRight, AddMergeRight, AddRoomRight,
       AddEvictRight, AddInsertRight, SeekEndRight
  <2> QED BY <2>1 DEF CacheInv
<1>2. CASE Append1(t)
  <2>1. t = Writer
    BY <1>2 DEF Append1
  <2>2. InvAt(L)' \/ InvAt(1)'
    BY <1>2, <2>1, AppendFirst, AppendNext
  <2> QED BY <2>2 DEF CacheInv
<1>3. CASE Link(t)
  <2>1. t = Writer
    BY <1>3 DEF Link
  <2>2. InvAt(L + 1)' /\ L + 1 \in Nat
    BY <1>3, <2>1, LinkRight
  <2> QED BY <2>2 DEF CacheInv
<1>4. CASE Truncate(t) \/ Inval(t)
  <2>1. t = Writer
    BY <1>4 DEF Truncate, Inval
  <2>2. InvAt(L)'
    BY <1>4, <2>1, TruncateRight, InvalRight
  <2> QED BY <2>2 DEF CacheInv
<1>5. CASE FreeAll(t)
  <2>1. t = Writer
    BY <1>5 DEF FreeAll
  <2>2. InvAt(0)'
    BY <1>5, <2>1, FreeAllRight
  <2> QED BY <2>2 DEF CacheInv
<1>6. CASE Cut(t)
  <2>1. t = Writer
    BY <1>6 DEF Cut
  <2>2. \E M \in Nat : M = size
    BY DEF InvAt, ValueInv
  <2>3. \E M \in Nat : InvAt(M)'
    BY <1>6, <2>1, <2>2, CutRight
  <2> QED BY <2>3 DEF CacheInv
<1> QED BY <1>1, <1>2, <1>3, <1>4, <1>5, <1>6

LEMMA CacheNext == OneReader /\ CacheInv /\ [Next]_vars => CacheInv'
<1> SUFFICES ASSUME OneReader, CacheInv, [Next]_vars PROVE CacheInv'
  OBVIOUS
<1>1. PICK L \in Nat : InvAt(L)
  BY DEF CacheInv
<1>2. CountInv'
  BY <1>1, CountNext DEF InvAt
<1>3. CASE Next
  BY <1>1, <1>2, <1>3, CacheStep DEF Next
<1>4. CASE UNCHANGED vars
  <2>1. UNCHANGED <<fat, iStart, size, lru, nrCaches, validId, pc, loc, new>>
    BY <1>4 DEF vars, table, cache
  <2>2. UNCHANGED <<table, new>> /\ (Cutting' <=> Cutting) /\ (Shrinking' <=> Shrinking)
    BY <2>1 DEF table, Cutting, Shrinking
  <2>3. file' = file /\ FileInv(L)' /\ \A x : RunRight(x, L) => RunRight(x, L)'
    BY <1>1, <2>2, QuietStep DEF InvAt
  <2>4. \A x : Held(x) => Held(x)'
    BY <2>1 DEF Held, Starts
  <2>5. ListInv(L)'
    BY <1>1, <2>1, <2>3 DEF InvAt, ListInv
  <2>6. ASSUME NEW q \in Threads PROVE ThreadInv(q, L)'
    <3>1. ThreadInv(q, L) /\ FileInv(L) /\ validId # VALID
      BY <1>1 DEF InvAt, ValueInv, VALID
    <3> QED BY <2>1, <2>2, <2>3, <2>4, <3>1, OtherThread
  <2>7. ValueInv' /\ PhaseInv'
    BY <1>1, <2>1, <2>2 DEF InvAt, ValueInv, PhaseInv
  <2> QED BY <1>2, <2>3, <2>5, <2>6, <2>7 DEF CacheInv, InvAt
<1> QED BY <1>3, <1>4

(* Every variable of the cache has its type.                                *)
THEOREM CacheTyped == ASSUME OneReader PROVE Spec => []TypeOK
<1>1. Init => CacheInv
  BY CacheInit
<1>2. CacheInv /\ [Next]_vars => CacheInv'
  BY CacheNext
<1>3. CacheInv => TypeOK
  <2> SUFFICES ASSUME NEW L \in Nat, InvAt(L) PROVE TypeOK
    BY DEF CacheInv
  <2>1. CountInv /\ CacheType /\ ValueInv /\ FileInv(L) /\ ListInv(L) /\ lru \in Seq(AnyRun)
    BY DEF InvAt, CountInv, CacheType
  <2>2. ASSUME NEW i \in DOMAIN lru PROVE lru[i] \in RunType
    <3>1. lru[i] \in AnyRun /\ RunRight(lru[i], L)
      BY <2>1, ElementOfSeq, LenProperties DEF ListInv
    <3>2. lru[i].f \in 1..MaxLen /\ lru[i].n \in 0..MaxLen
      BY <2>1, <3>1, TableAssumption DEF RunRight, FileInv
    <3>3. file[lru[i].f + 0] = lru[i].d + 0 /\ lru[i].f + 0 \in 0..(L - 1)
      BY <3>1 DEF RunRight
    <3>4. lru[i].d \in Clusters
      BY <2>1, <3>1, <3>3 DEF FileInv, AnyRun
    <3> QED BY <3>1, <3>2, <3>4 DEF RunType, AnyRun
  <2>3. ToSet(lru) \subseteq RunType
    BY <2>2 DEF ToSet
  <2>4. nrCaches \in 0..MaxCache
    <3>1. Cardinality({t \in Threads : pc[t] = "alloc"}) \in Nat /\ Len(lru) \in Nat
      BY <2>1, FS_Subset, FS_CardinalityType, LenProperties DEF CountInv
    <3> QED BY <2>1, <3>1, CacheAssumption DEF CountInv, CountsPlaces, ValueInv
  <2> QED BY <2>1, <2>3, <2>4 DEF TypeOK, ValueInv, CacheType
<1> QED BY <1>1, <1>2, <1>3, PTL DEF Spec

(* With one reader beside the writer, every run of the cache is a run of    *)
(* the chain: no truncation and no allocation that waits leaves a stale one.*)
THEOREM CacheIsTrue == ASSUME OneReader PROVE Spec => []CacheAgrees
<1>1. Init => CacheInv
  BY CacheInit
<1>2. CacheInv /\ [Next]_vars => CacheInv'
  BY CacheNext
<1>3. CacheInv => CacheAgrees
  <2> SUFFICES ASSUME NEW L \in Nat, InvAt(L), NEW i \in DOMAIN lru, NEW k \in 0..lru[i].n
               PROVE  Nth(lru[i].f + k) = lru[i].d + k
    BY DEF CacheInv, CacheAgrees, ToSet
  <2>1. RunRight(lru[i], L)
    BY DEF InvAt, ListInv
  <2>2. lru[i].f + k \in Nat /\ file[lru[i].f + k] = lru[i].d + k
    BY <2>1 DEF RunRight
  <2> QED BY <2>2 DEF file
<1> QED BY <1>1, <1>2, <1>3, PTL DEF Spec

(* A thread in fat_get_cluster stands on the cluster it believes to be on.  *)
THEOREM StandsRight == ASSUME OneReader PROVE Spec => []StandsOnChain
<1>1. Init => CacheInv
  BY CacheInit
<1>2. CacheInv /\ [Next]_vars => CacheInv'
  BY CacheNext
<1>3. CacheInv => StandsOnChain
  <2> SUFFICES ASSUME NEW L \in Nat, InvAt(L), NEW t \in Threads,
                      pc[t] \in {"walk", "alloc", "link", "cut"}
               PROVE  Nth(loc[t].fclus) = loc[t].dclus
    BY DEF CacheInv, StandsOnChain
  <2>1. loc[t].fclus \in Nat /\ file[loc[t].fclus] = loc[t].dclus
    BY DEF InvAt, ThreadInv, Stands
  <2> QED BY <2>1 DEF file
<1> QED BY <1>1, <1>2, <1>3, PTL DEF Spec

(* Two runs that begin at one file cluster are one: the BUG_ON of           *)
(* fat_cache_merge does not fire.                                           *)
THEOREM MergeIsSafe == ASSUME OneReader PROVE Spec => []MergeAgrees
<1>1. Init => CacheInv
  BY CacheInit
<1>2. CacheInv /\ [Next]_vars => CacheInv'
  BY CacheNext
<1>3. CacheInv => MergeAgrees
  <2> SUFFICES ASSUME NEW L \in Nat, InvAt(L) PROVE MergeAgrees
    BY DEF CacheInv
  <2>1. ASSUME NEW t \in Threads, Ended(t), Accepted(loc[t].cid), NEW i \in Same(loc[t].cid)
        PROVE  lru[i].d = loc[t].cid.d
    <3>1. RunRight(loc[t].cid, L)
      BY <2>1, AcceptedRight DEF Ended
    <3>2. RunRight(lru[i], L) /\ lru[i].f = loc[t].cid.f /\ lru[i] \in AnyRun
      BY ElementOfSeq, LenProperties DEF InvAt, CountInv, CacheType, ListInv, Same
    <3>3. loc[t].cid.d \in Int /\ lru[i].d \in Int
      BY <3>2, Typed DEF InvAt, CountInv, AnyRun
    <3>4. /\ file[lru[i].f + 0] = lru[i].d + 0 /\ file[loc[t].cid.f + 0] = loc[t].cid.d + 0
      BY <3>1, <3>2 DEF RunRight
    <3> QED BY <3>2, <3>3, <3>4
  <2> QED BY <2>1 DEF MergeAgrees, InvAt, ListInv
<1> QED BY <1>1, <1>2, <1>3, PTL DEF Spec

=============================================================================
