------------------------------ MODULE FatCache ------------------------------
(***************************************************************************)
(* The extent cache of one inode (cache.c of                               *)
(* kernel_camp/fat_log_module_practice): a short list of runs of           *)
(* contiguous clusters, shared under cache_lru_lock by the readers of the  *)
(* file, who look a cluster up, walk the table from the nearest run and    *)
(* add the run they end on, and by the writer, who holds i_mutex and       *)
(* appends to the chain or cuts it.                                        *)
(*                                                                         *)
(* A reader holds the lock of the page it maps (or truncate_lock, for      *)
(* bmap), so a truncation waits for the readers of what it removes:        *)
(* "fat_get_cluster() assumes the requested blocknr isn't truncated".      *)
(***************************************************************************)
EXTENDS Integers, Sequences, FiniteSets, SequencesExt

CONSTANTS
    Readers,      \* threads that map blocks of the file for reading
    Writer,       \* the thread that holds i_mutex
    MaxCluster,   \* sbi->max_cluster
    MaxCache,     \* FAT_MAX_CACHE, 8 in the code
    MaxLen,       \* bound: clusters of the file
    MaxId,        \* bound: cache_valid_id, so truncations
    AllocFails    \* kmem_cache_alloc may return NULL

FREE == 0
EOF  == MaxCluster
Clusters == 2..(MaxCluster - 1)
VALID == 0        \* FAT_CACHE_VALID
Threads == Readers \cup {Writer}

ASSUME CacheAssumption == MaxCache \in Nat \ {0}           \* "this must be > 0"
ASSUME TableAssumption == /\ MaxCluster \in Nat /\ MaxCluster > 2
                          /\ MaxLen \in Nat /\ MaxId \in Nat \ {0}
ASSUME ThreadAssumption == Writer \notin Readers /\ AllocFails \in BOOLEAN

VARIABLES
    fat, iStart,  \* the table and the first cluster of the file
    size,         \* the clusters that i_size needs
    lru,          \* cache_lru, the most recent run first
    nrCaches,     \* nr_caches
    validId,      \* cache_valid_id
    pc,           \* where each thread is
    loc,          \* its locals in fat_get_cluster
    new           \* the cluster the writer appends

table == <<fat, iStart, size>>
cache == <<lru, nrCaches, validId>>
vars  == <<table, cache, pc, loc, new>>

(* A run of the cache: file clusters f to f + n are d to d + n on disk.     *)
(* The cid of a walk is such a run with the id it was copied under; f is    *)
(* -1 while there is none.                                                  *)
NoRun == [id |-> VALID, f |-> -1, d |-> -1, n |-> 0]
Nowhere == [target |-> 0, fclus |-> 0, dclus |-> 0, cid |-> NoRun]
Run(c) == [f |-> c.f, d |-> c.d, n |-> c.n]

Free == {c \in Clusters : fat[c] = FREE}

(* The k-th cluster of the file, as the table has it.                       *)
Nth(k) ==
    LET follow[j \in Nat] == IF j = 0 THEN iStart
                             ELSE LET c == follow[j - 1]
                                  IN  IF c \in Clusters THEN fat[c] ELSE EOF
    IN  follow[k]

Init ==
    /\ fat = [c \in Clusters |-> FREE]
    /\ iStart = 0 /\ size = 0
    /\ lru = <<>> /\ nrCaches = 0
    /\ validId = VALID + 1
    /\ pc = [t \in Threads |-> "idle"]
    /\ loc = [t \in Threads |-> Nowhere]
    /\ new = 0

-----------------------------------------------------------------------------
(* fat_cache_lookup goes through the list, keeps the run that begins        *)
(* nearest before fclus so far, and stops at once when that one covers it.  *)
CoversOneMore(run, fclus) == run.f <= fclus /\ fclus <= run.f + run.n + 1   \* mutant
Covers(run, fclus) == run.f <= fclus /\ fclus <= run.f + run.n

Rises(fclus) ==
    {i \in DOMAIN lru : /\ lru[i].f <= fclus
                        /\ \A j \in 1..(i - 1) : lru[j].f <= fclus => lru[j].f < lru[i].f}
IsHit(i, fclus) ==
    LET covering == {j \in Rises(fclus) : Covers(lru[j], fclus)}
    IN  IF covering # {} THEN i \in covering /\ \A j \in covering : i <= j
        ELSE i \in Rises(fclus) /\ \A j \in Rises(fclus) : j <= i

(* The cluster of hit that is nearest to target, and a copy of hit.         *)
HitPlace(hit, target) ==
    LET offset == IF Covers(hit, target) THEN target - hit.f ELSE hit.n
    IN  [target |-> target, fclus |-> hit.f + offset, dclus |-> hit.d + offset,
         cid |-> [id |-> validId, f |-> hit.f, d |-> hit.d, n |-> hit.n]]

(* fat_cache_update_lru *)
ToFront(i, run) == <<run>> \o RemoveAt(lru, i)

(* fat_get_cluster up to its loop; after is where the thread goes on when   *)
(* it has the answer at once.                                               *)
Lookup(t, target, after) ==
    LET start == [Nowhere EXCEPT !.target = target, !.dclus = iStart] IN
    \/ /\ target = 0
       /\ loc' = [loc EXCEPT ![t] = start]
       /\ pc' = [pc EXCEPT ![t] = after]
       /\ UNCHANGED lru
    \/ /\ target > 0 /\ Rises(target) = {}
       /\ loc' = [loc EXCEPT ![t] = start]
       /\ pc' = [pc EXCEPT ![t] = "walk"]
       /\ UNCHANGED lru
    \/ /\ target > 0
       /\ \E i \in DOMAIN lru : /\ IsHit(i, target)
                                /\ loc' = [loc EXCEPT ![t] = HitPlace(lru[i], target)]
                                /\ lru' = ToFront(i, lru[i])
       /\ pc' = [pc EXCEPT ![t] = "walk"]

(* Where a thread goes when fat_get_cluster returns.                        *)
After(t) == CASE t \in Readers -> "idle"
              [] t = Writer /\ new # 0 -> "link"
              [] t = Writer /\ new = 0 -> "cut"
Return(t) == /\ pc' = [pc EXCEPT ![t] = After(t)]
             /\ loc' = IF t \in Readers THEN [loc EXCEPT ![t] = Nowhere] ELSE loc

-----------------------------------------------------------------------------
(* The loop of fat_get_cluster.                                             *)

(* cache_contiguous and cache_init: the run goes on, or a new one begins,   *)
(* which is valid whatever happened to the cache.                           *)
Extended(cid, fclus, dclus) ==
    IF cid.d + cid.n + 1 = dclus
    THEN [cid EXCEPT !.n = @ + 1]
    ELSE [id |-> VALID, f |-> fclus, d |-> dclus, n |-> 0]

Entry(t) == IF loc[t].dclus \in Clusters THEN fat[loc[t].dclus] ELSE FREE
Ended(t) == pc[t] = "walk" /\ (loc[t].fclus >= loc[t].target \/ Entry(t) = EOF)

WalkStep(t) ==
    /\ pc[t] = "walk" /\ ~Ended(t)
    /\ LET l == loc[t] IN
       \/ /\ Entry(t) \in Clusters
          /\ loc' = [loc EXCEPT ![t] = [l EXCEPT !.fclus = @ + 1, !.dclus = Entry(t),
                            !.cid = Extended(l.cid, l.fclus + 1, Entry(t))]]
          /\ UNCHANGED pc
       \/ /\ Entry(t) = FREE                    \* "invalid cluster chain"
          /\ pc' = [pc EXCEPT ![t] = "idle"]
          /\ loc' = [loc EXCEPT ![t] = Nowhere]
    /\ UNCHANGED <<table, cache, new>>

-----------------------------------------------------------------------------
(* fat_cache_add *)

(* The run is no dummy, and no copy of one that was invalidated since.      *)
AcceptedLate(cid) == cid.f # -1                                     \* mutant
Accepted(cid) == cid.f # -1 /\ (cid.id = VALID \/ cid.id = validId)

Same(cid) == {i \in DOMAIN lru : lru[i].f = cid.f}

(* fat_cache_merge, then the head of the list.                              *)
Merge(cid) ==
    \E i \in Same(cid) :
        lru' = ToFront(i, [lru[i] EXCEPT !.n = IF cid.n > @ THEN cid.n ELSE @])

HasOneMore == nrCaches <= MaxCache                                 \* mutant
HasRoom    == nrCaches < MaxCache
Adding(t)  == Ended(t) /\ Accepted(loc[t].cid) /\ Same(loc[t].cid) = {}

AddRefused(t) ==
    /\ Ended(t) /\ ~Accepted(loc[t].cid)
    /\ Return(t)
    /\ UNCHANGED <<table, cache, new>>

AddMerge(t) ==
    /\ Ended(t) /\ Accepted(loc[t].cid)
    /\ Merge(loc[t].cid)
    /\ Return(t)
    /\ UNCHANGED <<table, nrCaches, validId, new>>

(* There is room: the place is counted, and the lock given up to allocate.  *)
AddRoom(t) ==
    /\ Adding(t) /\ HasRoom
    /\ nrCaches' = nrCaches + 1
    /\ pc' = [pc EXCEPT ![t] = "alloc"]
    /\ UNCHANGED <<table, lru, validId, loc, new>>

(* There is none: the last run of the list is overwritten.                  *)
AddEvict(t) ==
    /\ Adding(t) /\ ~HasRoom
    /\ lru # <<>>                     \* VictimExists: the code does not look
    /\ lru' = <<Run(loc[t].cid)>> \o Front(lru)
    /\ Return(t)
    /\ UNCHANGED <<table, nrCaches, validId, new>>

(* The lock is held again; the id is not looked at a second time.           *)
AddInsertBlind(t) ==                                               \* mutant
    /\ pc[t] = "alloc"
    /\ lru' = <<Run(loc[t].cid)>> \o lru
    /\ Return(t)
    /\ UNCHANGED <<table, nrCaches, validId, new>>
AddInsert(t) ==
    /\ pc[t] = "alloc"
    /\ \/ /\ Same(loc[t].cid) = {}
          /\ lru' = <<Run(loc[t].cid)>> \o lru
          /\ UNCHANGED nrCaches
       \/ /\ Merge(loc[t].cid)
          /\ nrCaches' = nrCaches - 1
    /\ Return(t)
    /\ UNCHANGED <<table, validId, new>>

AddNoMemory(t) ==
    /\ pc[t] = "alloc" /\ AllocFails
    /\ nrCaches' = nrCaches - 1
    /\ Return(t)
    /\ UNCHANGED <<table, lru, validId, new>>

-----------------------------------------------------------------------------
(* The callers of fat_get_cluster.                                          *)

(* fat_bmap for a block below i_size; cluster 0 needs no cache.             *)
Read(t) ==
    /\ t \in Readers /\ pc[t] = "idle"
    /\ \E target \in 1..(size - 1) : Lookup(t, target, "idle")
    /\ UNCHANGED <<table, nrCaches, validId, new>>

(* fat_alloc_clusters, and fat_chain_add up to the search for the last      *)
(* cluster.                                                                 *)
Append1(t) ==
    /\ t = Writer /\ pc[t] = "idle" /\ size < MaxLen
    /\ \E c \in Free :
         /\ fat' = [fat EXCEPT ![c] = EOF]
         /\ IF iStart = 0
            THEN /\ iStart' = c /\ size' = 1
                 /\ UNCHANGED <<lru, pc, loc, new>>
            ELSE /\ new' = c
                 /\ Lookup(t, EOF, "link")
                 /\ UNCHANGED <<iStart, size>>
    /\ UNCHANGED <<nrCaches, validId>>

Link(t) ==
    /\ t = Writer /\ pc[t] = "link"
    /\ fat' = [fat EXCEPT ![loc[t].dclus] = new]
    /\ size' = size + 1
    /\ new' = 0
    /\ pc' = [pc EXCEPT ![t] = "idle"]
    /\ loc' = [loc EXCEPT ![t] = Nowhere]
    /\ UNCHANGED <<iStart, cache>>

(* truncate_setsize waits for the pages it removes.                         *)
Truncate(t) ==
    /\ t = Writer /\ pc[t] = "idle" /\ validId < MaxId
    /\ \E s \in 0..(size - 1) :
         /\ \A r \in Readers : pc[r] = "idle" \/ loc[r].target < s
         /\ size' = s
    /\ pc' = [pc EXCEPT ![t] = "inval"]
    /\ UNCHANGED <<fat, iStart, cache, loc, new>>

(* fat_cache_inval_inode *)
NextId == IF validId + 1 = VALID THEN VALID + 1 ELSE validId + 1
InvalResets(t) ==                                                  \* mutant
    /\ t = Writer /\ pc[t] = "inval"
    /\ lru' = <<>> /\ nrCaches' = 0 /\ validId' = NextId
    /\ pc' = [pc EXCEPT ![t] = "free"]
    /\ UNCHANGED <<table, loc, new>>
Inval(t) ==
    /\ t = Writer /\ pc[t] = "inval"
    /\ lru' = <<>>
    /\ nrCaches' = nrCaches - Len(lru)
    /\ validId' = NextId
    /\ pc' = [pc EXCEPT ![t] = "free"]
    /\ UNCHANGED <<table, loc, new>>

(* fat_free: without clusters to keep, i_start goes and the whole chain is  *)
(* freed; otherwise the new last cluster is looked for.                     *)
FreeAll(t) ==
    /\ t = Writer /\ pc[t] = "free" /\ size = 0
    /\ fat' = [c \in Clusters |-> IF \E k \in 0..MaxLen : c = Nth(k) THEN FREE ELSE fat[c]]
    /\ iStart' = 0
    /\ pc' = [pc EXCEPT ![t] = "idle"]
    /\ UNCHANGED <<size, cache, loc, new>>

SeekEnd(t) ==
    /\ t = Writer /\ pc[t] = "free" /\ size > 0
    /\ Lookup(t, size - 1, "cut")
    /\ UNCHANGED <<table, nrCaches, validId, new>>

Cut(t) ==
    /\ t = Writer /\ pc[t] = "cut"
    /\ fat' = [c \in Clusters |-> IF c = loc[t].dclus THEN EOF
                                  ELSE IF \E k \in size..MaxLen : c = Nth(k) THEN FREE
                                  ELSE fat[c]]
    /\ pc' = [pc EXCEPT ![t] = "idle"]
    /\ loc' = [loc EXCEPT ![t] = Nowhere]
    /\ UNCHANGED <<iStart, size, cache, new>>

Next ==
    \E t \in Threads :
        \/ Read(t) \/ WalkStep(t)
        \/ AddRefused(t) \/ AddMerge(t) \/ AddRoom(t) \/ AddEvict(t)
        \/ AddInsert(t) \/ AddNoMemory(t)
        \/ Append1(t) \/ Link(t) \/ Truncate(t) \/ Inval(t)
        \/ FreeAll(t) \/ SeekEnd(t) \/ Cut(t)

Spec == Init /\ [][Next]_vars

-----------------------------------------------------------------------------
PCs == {"idle", "walk", "alloc", "link", "inval", "free", "cut"}
RunType == [f : 1..MaxLen, d : Clusters, n : 0..MaxLen]

(* Every variable has its type.                                             *)
TypeOK ==
    /\ fat \in [Clusters -> Clusters \cup {FREE, EOF}]
    /\ iStart \in Clusters \cup {0} /\ size \in 0..MaxLen
    /\ ToSet(lru) \subseteq RunType
    /\ nrCaches \in 0..MaxCache /\ validId \in 1..MaxId
    /\ pc \in [Threads -> PCs]
    /\ new \in Clusters \cup {0}

(* What the cache says of the file is what the table says: every cluster of *)
(* every run, except between i_size going down and the invalidation.        *)
CacheAgrees ==
    pc[Writer] # "inval" =>
        \A run \in ToSet(lru) : \A k \in 0..run.n : Nth(run.f + k) = run.d + k

(* A thread in fat_get_cluster stands on the cluster it believes to be on,  *)
(* however the cache and the chain changed since it looked.                 *)
StandsOnChain ==
    \A t \in Threads : pc[t] \in {"walk", "alloc", "link", "cut"} =>
        Nth(loc[t].fclus) = loc[t].dclus

(* nr_caches counts the listed runs and the places taken by threads that    *)
(* are allocating, whatever invalidations come between.                     *)
CountsPlaces == nrCaches = Len(lru) + Cardinality({t \in Threads : pc[t] = "alloc"})

(* Two runs never begin at one file cluster: the BUG_ON of fat_cache_merge  *)
(* cannot fire, and it has one run to find.                                 *)
MergeAgrees ==
    /\ \A i, j \in DOMAIN lru : lru[i].f = lru[j].f => i = j
    /\ \A t \in Threads : Ended(t) /\ Accepted(loc[t].cid) =>
         \A i \in Same(loc[t].cid) : lru[i].d = loc[t].cid.d

(* When the cache is full there is a run to overwrite: fat_cache_add takes  *)
(* cache_lru.prev for one without a look at the list.                       *)
VictimExists == \A t \in Threads : Adding(t) /\ ~HasRoom => lru # <<>>
=============================================================================
