---------------------------- MODULE FatDirProofs ----------------------------
(***************************************************************************)
(* Theorems about FatDir and FatRecovery, for every volume, every set of   *)
(* names and every setup: no stray long-name slots, whatever write fails.  *)
(* And about DirTree: names are distinct.                                  *)
(***************************************************************************)
EXTENDS FatRecovery, DirProofs, FiniteSetTheorems

-----------------------------------------------------------------------------
(* The chain of a cluster, as what the table holds and not as how it is     *)
(* walked.  These operators have the table, or the slots of a device, as an *)
(* argument.                                                                *)
ChainOf(t, c) ==
    LET walk[n \in 1..Cardinality(Clusters)] ==
            IF n = 1 THEN <<c>>
            ELSE LET s == walk[n - 1]
                 IN IF t[s[Len(s)]] \in Clusters THEN Append(s, t[s[Len(s)]]) ELSE s
    IN walk[Cardinality(Clusters)]
IsChain(t, r, s) ==
    /\ s \in Seq(Clusters) /\ s # <<>> /\ s[1] = r /\ t[s[Len(s)]] = "eof"
    /\ \A k \in 1..Len(s) - 1 : t[s[k]] = s[k + 1]
    /\ \A k, m \in 1..Len(s) : s[k] = s[m] => k = m

LEMMA ChainNow == \A c : Chain(c) = ChainOf(fat, c)
  BY DEF Chain, ChainOf
LEMMA ChainNext == \A c : Chain(c)' = ChainOf(fat', c)
  BY DEF Chain, ChainOf

LEMMA AsSeq == ASSUME NEW S, NEW n \in Nat, NEW s \in [1..n -> S]  PROVE s \in Seq(S) /\ Len(s) = n
<1>1. s \in Seq(S)
  BY SeqDef
<1>2. DOMAIN s = 1..n
  OBVIOUS
<1> QED BY <1>1, <1>2, LenProperties

LEMMA ChainLength ==
    ASSUME NEW t, NEW r, NEW s, IsChain(t, r, s)
    PROVE  /\ Len(s) \in 1..Cardinality(Clusters) /\ Cardinality(Clusters) \in Nat
           /\ DOMAIN s = 1..Len(s) /\ \A k \in 1..Len(s) : s[k] \in Clusters
<1>1. Len(s) \in Nat /\ s \in [1..Len(s) -> Clusters] /\ Len(s) # 0
  BY LenProperties, EmptySeq DEF IsChain
<1>2. s \in Injection(1..Len(s), Clusters)
  BY <1>1 DEF IsChain, Injection, IsInjective
<1>3. Cardinality(1..Len(s)) <= Cardinality(Clusters)
  BY <1>2, FS_Injection, TableAssumption
<1>4. Cardinality(1..Len(s)) = Len(s)
  BY <1>1, FS_Interval
<1>5. Cardinality(Clusters) \in Nat
  BY FS_CardinalityType, TableAssumption
<1> QED BY <1>1, <1>3, <1>4, <1>5

(* One step of the walk; a chain is what the walk has gone through.         *)
WalkAt(t, c, w, n) ==
    IF n = 1 THEN <<c>>
    ELSE LET s == w[n - 1] IN IF t[s[Len(s)]] \in Clusters THEN Append(s, t[s[Len(s)]]) ELSE s

LEMMA ChainOfIs ==
    \A t, c : ChainOf(t, c) =
        (CHOOSE w : w = [n \in 1..Cardinality(Clusters) |-> WalkAt(t, c, w, n)])[Cardinality(Clusters)]
  BY DEF ChainOf, WalkAt

LEMMA ChainIs == ASSUME NEW t, NEW r, NEW s, IsChain(t, r, s)  PROVE ChainOf(t, r) = s
<1> DEFINE N == Cardinality(Clusters)
           L(n) == IF n < Len(s) THEN n ELSE Len(s)
           g == [n \in 1..N |-> [i \in 1..L(n) |-> s[i]]]
           W(w) == w = [n \in 1..N |-> WalkAt(t, r, w, n)]
<1>0. /\ Len(s) \in 1..N /\ N \in Nat /\ DOMAIN s = 1..Len(s)
      /\ \A k \in 1..Len(s) : s[k] \in Clusters
  BY ChainLength
<1>1. ASSUME NEW n \in 1..N
      PROVE  /\ L(n) \in 1..Len(s) /\ g[n] \in Seq(Clusters) /\ Len(g[n]) = L(n)
             /\ g[n] = [i \in 1..L(n) |-> s[i]]
  <2>1. L(n) \in 1..Len(s) /\ L(n) \in Nat
    BY <1>0
  <2>2. g[n] = [i \in 1..L(n) |-> s[i]]
    OBVIOUS
  <2> HIDE DEF L, g
  <2>3. g[n] \in [1..L(n) -> Clusters]
    BY <1>0, <2>1, <2>2
  <2> QED BY <2>1, <2>2, <2>3, AsSeq
<1> HIDE DEF g, L
<1>2. ASSUME NEW w, NEW n \in 1..N, \A m \in 1..n - 1 : w[m] = g[m]
      PROVE  WalkAt(t, r, w, n) = g[n]
  <2>1. CASE n = 1
    <3>1. L(n) = 1 /\ Len(<<r>>) = 1 /\ <<r>>[1] = r /\ <<r>> \in Seq(Clusters) /\ s[1] = r
      BY <1>0, <2>1 DEF IsChain, L
    <3>0. Len(g[n]) = L(n) /\ g[n] \in Seq(Clusters) /\ g[n] = [i \in 1..L(n) |-> s[i]]
      BY <1>1
    <3>2. Len(g[n]) = 1 /\ g[n][1] = r /\ g[n] \in Seq(Clusters)
      BY <3>0, <3>1
    <3>3. <<r>> = g[n]
      BY <3>1, <3>2, SeqEqual
    <3> QED BY <2>1, <3>3 DEF WalkAt
  <2>2. CASE n # 1
    <3> DEFINE m == n - 1
               l == t[g[m][Len(g[m])]]
    <3>1. m \in 1..N /\ m \in 1..n - 1 /\ w[n - 1] = g[m]
      <4>1. m \in 1..N /\ m \in 1..n - 1
        BY <1>0, <2>2
      <4> QED BY <1>2, <4>1
    <3>2. L(m) \in 1..Len(s) /\ g[m] \in Seq(Clusters) /\ Len(g[m]) = L(m)
          /\ g[m] = [i \in 1..L(m) |-> s[i]]
      BY <1>1, <3>1
    <3>3. WalkAt(t, r, w, n) = IF l \in Clusters THEN Append(g[m], l) ELSE g[m]
      BY <2>2, <3>1 DEF WalkAt
    <3>4. l = t[s[L(m)]]
      BY <3>2
    <3>5. CASE m < Len(s)
      <4>1. L(m) = m /\ L(n) = n /\ m \in 1..Len(s) - 1 /\ n \in 1..Len(s) /\ n = m + 1
        <5>1. n \in Int /\ n > 1 /\ Len(s) \in Int
          BY <1>0, <2>2
        <5>2. n = m + 1 /\ m \in 1..Len(s) - 1 /\ n \in 1..Len(s)
          BY <3>5, <5>1
        <5>3. L(m) = m
          BY <3>5 DEF L
        <5>4. L(n) = n
          BY <3>5, <5>1 DEF L
        <5> QED BY <5>2, <5>3, <5>4
      <4>2. l = s[n] /\ l \in Clusters
        BY <1>0, <3>4, <4>1 DEF IsChain
      <4>3. /\ Append(g[m], l) \in Seq(Clusters) /\ Len(Append(g[m], l)) = m + 1
            /\ \A i \in 1..m : Append(g[m], l)[i] = g[m][i]
            /\ Append(g[m], l)[m + 1] = l
        BY <3>2, <4>1, <4>2, AppendProperties
      <4>4. g[n] \in Seq(Clusters) /\ Len(g[n]) = n /\ g[n] = [i \in 1..n |-> s[i]]
        BY <1>1, <4>1
      <4> HIDE DEF m, l
      <4>5. \A i \in 1..n : Append(g[m], l)[i] = g[n][i]
        BY <3>2, <4>1, <4>2, <4>3, <4>4
      <4>6. Append(g[m], l) = g[n]
        BY <4>1, <4>3, <4>4, <4>5, SeqEqual
      <4> QED BY <3>3, <4>2, <4>6
    <3>6. CASE ~(m < Len(s))
      <4>1. L(m) = Len(s) /\ L(n) = Len(s)
        <5>1. n \in Int /\ Len(s) \in Int /\ ~(n < Len(s))
          BY <1>0, <3>6
        <5> QED BY <3>6, <5>1 DEF L
      <4>2. l \notin Clusters
        BY <3>4, <4>1, TableAssumption DEF IsChain
      <4>3. g[n] = g[m]
        BY <1>1, <3>2, <4>1
      <4> QED BY <3>3, <4>2, <4>3
    <3> QED BY <3>5, <3>6
  <2> QED BY <2>1, <2>2
<1>3. W(g)
  <2>1. \A n \in 1..N : WalkAt(t, r, g, n) = g[n]
    BY <1>2
  <2> QED BY <2>1 DEF g
<1> DEFINE w == CHOOSE x : W(x)
<1>4. W(w)
  BY <1>3
<1> HIDE DEF w
<1>5. \A n \in 1..N : w[n] = g[n]
  <2> SUFFICES ASSUME NEW j \in 1..N, w[j] # g[j]  PROVE FALSE
    OBVIOUS
  <2> DEFINE T == {n \in 1..N : w[n] # g[n]}
  <2>1. PICK k \in T : \A m \in T : k <= m
    <3>1. T \subseteq Nat /\ T # {}
      OBVIOUS
    <3> HIDE DEF T
    <3> QED BY <3>1, Least
  <2>2. k \in 1..N /\ \A m \in 1..k - 1 : w[m] = g[m]
    <3>1. k \in 1..N /\ N \in Nat
      BY <1>0
    <3>2. \A m \in 1..k - 1 : m \in 1..N /\ ~(k <= m)
      BY <3>1
    <3>3. \A m \in 1..k - 1 : m \notin T
      BY <2>1, <3>2
    <3> QED BY <3>1, <3>2, <3>3
  <2>3. WalkAt(t, r, w, k) = g[k]
    BY <1>2, <2>2
  <2>4. w[k] = WalkAt(t, r, w, k)
    BY <1>4, <2>2
  <2> QED BY <2>1, <2>3, <2>4
<1>6. ChainOf(t, r) = w[N]
  BY ChainOfIs DEF w
<1>7. N \in 1..N /\ L(N) = Len(s)
  BY <1>0 DEF L
<1>8. w[N] = [i \in 1..Len(s) |-> s[i]]
  BY <1>1, <1>5, <1>7
<1>9. [i \in 1..Len(s) |-> s[i]] = s
  BY LenProperties DEF IsChain
<1> QED BY <1>6, <1>8, <1>9

LEMMA Below == ASSUME NEW n \in Nat, NEW k \in 1..n, k # n  PROVE k \in 1..n - 1 /\ k + 1 \in 1..n
  OBVIOUS

-----------------------------------------------------------------------------
(* The clusters of a chain, and chains that share none.                     *)
ClustersOf(t, r) == {ChainOf(t, r)[k] : k \in DOMAIN ChainOf(t, r)}
Chains(t, heads) ==
    /\ \A r \in heads : IsChain(t, r, ChainOf(t, r))
    /\ \A r, q \in heads : r # q => ClustersOf(t, r) \cap ClustersOf(t, q) = {}

LEMMA ChainCells ==
    ASSUME NEW t, NEW r, IsChain(t, r, ChainOf(t, r))
    PROVE  /\ r \in ClustersOf(t, r) /\ ClustersOf(t, r) \subseteq Clusters
           /\ \A c \in ClustersOf(t, r) : t[c] = "eof" \/ t[c] \in Clusters
<1> DEFINE s == ChainOf(t, r)
<1>1. /\ Len(s) \in Nat /\ Len(s) >= 1 /\ DOMAIN s = 1..Len(s)
      /\ \A k \in 1..Len(s) : s[k] \in Clusters
  BY ChainLength
<1>2. ClustersOf(t, r) = {s[k] : k \in 1..Len(s)}
  BY <1>1 DEF ClustersOf
<1>3. /\ s[1] = r /\ t[s[Len(s)]] = "eof"
      /\ \A k \in 1..Len(s) - 1 : t[s[k]] = s[k + 1]
  BY DEF IsChain
<1> HIDE DEF s
<1>4. \A k \in 1..Len(s) : t[s[k]] = "eof" \/ t[s[k]] \in Clusters
  <2> TAKE k \in 1..Len(s)
  <2>1. CASE k = Len(s)
    BY <1>3, <2>1
  <2>2. CASE k # Len(s)
    <3>1. k \in 1..Len(s) - 1 /\ k + 1 \in 1..Len(s)
      BY <1>1, <2>2, Below
    <3> QED BY SMTT(20), <1>1, <1>3, <3>1
  <2> QED BY <2>1, <2>2
<1> QED BY <1>1, <1>2, <1>3, <1>4

(* What a chain does not go through does not matter to it.                  *)
LEMMA ChainStays ==
    ASSUME NEW t, NEW u, NEW r, IsChain(t, r, ChainOf(t, r)),
           \A c \in ClustersOf(t, r) : u[c] = t[c]
    PROVE  ChainOf(u, r) = ChainOf(t, r) /\ IsChain(u, r, ChainOf(u, r))
<1> DEFINE s == ChainOf(t, r)
<1>1. Len(s) \in Nat /\ Len(s) >= 1 /\ DOMAIN s = 1..Len(s)
  BY ChainLength
<1>2. \A k \in 1..Len(s) : u[s[k]] = t[s[k]]
  BY <1>1 DEF ClustersOf
<1>3. IsChain(u, r, s)
  BY <1>1, <1>2 DEF IsChain
<1> QED BY <1>3, ChainIs

LEMMA ChainsFewer ==
    ASSUME NEW t, NEW heads, Chains(t, heads), NEW some \in SUBSET heads  PROVE Chains(t, some)
  BY DEF Chains

LEMMA ChainsStay ==
    ASSUME NEW t, NEW u, NEW heads, Chains(t, heads),
           \A r \in heads : \A c \in ClustersOf(t, r) : u[c] = t[c]
    PROVE  Chains(u, heads) /\ \A r \in heads : ChainOf(u, r) = ChainOf(t, r)
<1>1. \A r \in heads : ChainOf(u, r) = ChainOf(t, r) /\ IsChain(u, r, ChainOf(u, r))
  BY ChainStays DEF Chains
<1>2. \A r \in heads : ClustersOf(u, r) = ClustersOf(t, r)
  BY <1>1 DEF ClustersOf
<1> QED BY <1>1, <1>2 DEF Chains

(* A free cluster is in no chain; it becomes one of its own.                *)
LEMMA ChainsNew ==
    ASSUME NEW t \in [Clusters -> Clusters \cup {"free", "eof"}], NEW heads, Chains(t, heads),
           NEW c \in Clusters, t[c] = "free", NEW u, u[c] = "eof",
           \A e \in Clusters \ {c} : u[e] = t[e]
    PROVE  /\ Chains(u, heads \cup {c}) /\ ChainOf(u, c) = <<c>> /\ ClustersOf(u, c) = {c}
           /\ \A r \in heads : ChainOf(u, r) = ChainOf(t, r) /\ c \notin ClustersOf(t, r)
<1>1. ASSUME NEW r \in heads
      PROVE  c \notin ClustersOf(t, r) /\ \A e \in ClustersOf(t, r) : u[e] = t[e]
  <2>1. IsChain(t, r, ChainOf(t, r))
    BY DEF Chains
  <2>2. t[c] # "eof" /\ t[c] \notin Clusters
    BY TableAssumption
  <2> QED BY <2>1, <2>2, ChainCells
<1>2. Chains(u, heads) /\ \A r \in heads : ChainOf(u, r) = ChainOf(t, r)
  <2>1. \A r \in heads : \A e \in ClustersOf(t, r) : u[e] = t[e]
    BY <1>1
  <2> QED BY <2>1, ChainsStay
<1>3. IsChain(u, c, <<c>>) /\ <<c>> # <<>>
  BY DEF IsChain
<1>4. ChainOf(u, c) = <<c>>
  BY <1>3, ChainIs
<1>5. ClustersOf(u, c) = {c}
  BY <1>4 DEF ClustersOf
<1>6. \A r \in heads : ClustersOf(u, r) = ClustersOf(t, r)
  BY <1>2 DEF ClustersOf
<1>7. Chains(u, heads \cup {c})
  <2>1. \A r \in heads \cup {c} : IsChain(u, r, ChainOf(u, r))
    BY <1>2, <1>3, <1>4 DEF Chains
  <2>2. ASSUME NEW r \in heads  PROVE ClustersOf(u, r) \cap ClustersOf(u, c) = {}
    <3>1. c \notin ClustersOf(u, r)
      BY <1>1, <1>6
    <3> QED BY <1>5, <3>1
  <2>3. \A r, q \in heads : r # q => ClustersOf(u, r) \cap ClustersOf(u, q) = {}
    BY <1>2 DEF Chains
  <2>4. ASSUME NEW r \in heads \cup {c}, NEW q \in heads \cup {c}, r # q
        PROVE  ClustersOf(u, r) \cap ClustersOf(u, q) = {}
    BY <2>2, <2>3, <2>4
  <2> QED BY <2>1, <2>4 DEF Chains
<1> QED BY <1>1, <1>2, <1>4, <1>5, <1>7

(* Freeing clusters of one chain leaves the others.                         *)
LEMMA ChainsFreed ==
    ASSUME NEW t, NEW heads, Chains(t, heads), NEW h \in heads, NEW u,
           \A c \in Clusters \ ClustersOf(t, h) : u[c] = t[c]
    PROVE  /\ Chains(u, heads \ {h})
           /\ \A r \in heads \ {h} : ChainOf(u, r) = ChainOf(t, r)
<1>1. Chains(t, heads \ {h})
  BY ChainsFewer
<1>2. \A r \in heads \ {h} : \A c \in ClustersOf(t, r) : u[c] = t[c]
  <2> TAKE r \in heads \ {h}
  <2> TAKE c \in ClustersOf(t, r)
  <2>1. IsChain(t, r, ChainOf(t, r)) /\ ClustersOf(t, r) \cap ClustersOf(t, h) = {}
    BY DEF Chains
  <2> QED BY <2>1, ChainCells
<1> QED BY <1>1, <1>2, ChainsStay

(* fat_chain_add: a cluster that is a chain of its own goes behind another. *)
LinkedAt(t, u, d, g) ==
    LET s == ChainOf(t, d)
    IN u[s[Len(s)]] = g /\ \A c \in Clusters \ {s[Len(s)]} : u[c] = t[c]
LinkedTo(t, u, heads, d, g) ==
    /\ Chains(u, heads \ {g}) /\ ChainOf(u, d) = Append(ChainOf(t, d), g)
    /\ \A r \in heads \ {d, g} : ChainOf(u, r) = ChainOf(t, r)
LEMMA ChainsLinked ==
    ASSUME NEW t, NEW heads, Chains(t, heads),
           NEW d \in heads, NEW g \in heads, d # g, t[g] = "eof",
           NEW u, LinkedAt(t, u, d, g)
    PROVE  LinkedTo(t, u, heads, d, g)
<1> DEFINE s == ChainOf(t, d)
           l == s[Len(s)]
<1>0. u[l] = g /\ \A c \in Clusters \ {l} : u[c] = t[c]
  BY DEF LinkedAt
<1>1. /\ IsChain(t, d, s) /\ IsChain(t, g, ChainOf(t, g))
      /\ ClustersOf(t, d) \cap ClustersOf(t, g) = {}
  BY DEF Chains
<1>2. /\ Len(s) \in Nat /\ Len(s) >= 1 /\ DOMAIN s = 1..Len(s)
      /\ \A k \in 1..Len(s) : s[k] \in Clusters
  BY <1>1, ChainLength
<1>3. l \in ClustersOf(t, d) /\ g \in ClustersOf(t, g) /\ g \in Clusters
  BY <1>1, <1>2, ChainCells DEF ClustersOf
<1>4. g # l
  BY <1>1, <1>3
<1>5. IsChain(u, d, Append(s, g))
  <2>1. s \in Seq(Clusters) /\ s[1] = d /\ (\A k \in 1..Len(s) - 1 : t[s[k]] = s[k + 1])
        /\ (\A k, m \in 1..Len(s) : s[k] = s[m] => k = m)
    BY <1>1 DEF IsChain
  <2>2. \A k \in 1..Len(s) : s[k] # g
    BY <1>1, <1>2, <1>3 DEF ClustersOf
  <2>3. u[l] = g /\ u[g] = "eof" /\ \A c \in Clusters : c # l => u[c] = t[c]
    BY <1>0, <1>2, <1>3, <1>4
  <2>4. \A k \in 1..Len(s) - 1 : s[k] # l
    <3> SUFFICES ASSUME NEW k \in 1..Len(s) - 1, s[k] = l  PROVE FALSE
      OBVIOUS
    <3>1. Len(s) \in Int /\ Len(s) >= 1
      BY <1>2
    <3> HIDE DEF s
    <3>2. k \in 1..Len(s) /\ Len(s) \in 1..Len(s) /\ ~(k = Len(s))
      BY <3>1
    <3>3. k = Len(s)
      BY <2>1, <3>2 DEF l
    <3> QED BY <3>2, <3>3
  <2> HIDE DEF s
  <2>5. /\ Append(s, g) \in Seq(Clusters) /\ Len(Append(s, g)) = Len(s) + 1
        /\ \A k \in 1..Len(s) : Append(s, g)[k] = s[k]
        /\ Append(s, g)[Len(s) + 1] = g
    BY <1>3, <2>1, AppendProperties
  <2> DEFINE w == Append(s, g)
  <2>6. \A k \in 1..Len(s) : u[w[k]] = w[k + 1]
    <3> TAKE k \in 1..Len(s)
    <3>1. CASE k = Len(s)
      BY <1>2, <2>3, <2>5, <3>1
    <3>2. CASE k # Len(s)
      <4>1. k \in 1..Len(s) - 1 /\ k + 1 \in 1..Len(s)
        BY <1>2, <3>2, Below
      <4>2. u[s[k]] = t[s[k]]
        BY <1>2, <2>3, <2>4, <4>1
      <4> QED BY SMTT(20), <2>1, <2>5, <4>1, <4>2
    <3> QED BY <3>1, <3>2
  <2>7. \A k, m \in 1..Len(s) + 1 : w[k] = w[m] => k = m
    <3> SUFFICES ASSUME NEW k \in 1..Len(s) + 1, NEW m \in 1..Len(s) + 1, w[k] = w[m], k # m
                 PROVE  FALSE
      OBVIOUS
    <3>1. (k \in 1..Len(s) \/ k = Len(s) + 1) /\ (m \in 1..Len(s) \/ m = Len(s) + 1)
      BY <1>2
    <3> HIDE DEF w
    <3> QED BY <2>1, <2>2, <2>5, <3>1 DEF w
  <2>8. w[1] = d /\ w # <<>>
    BY <1>2, <2>1, <2>5
  <2> HIDE DEF w
  <2>9. \A k \in 1..Len(w) - 1 : u[w[k]] = w[k + 1]
    BY <1>2, <2>5, <2>6 DEF w
  <2>10. u[w[Len(w)]] = "eof"
    BY <2>3, <2>5 DEF w
  <2>11. w \in Seq(Clusters) /\ \A k, m \in 1..Len(w) : w[k] = w[m] => k = m
    BY <2>5, <2>7 DEF w
  <2> QED BY <2>8, <2>9, <2>10, <2>11 DEF IsChain, w
<1>6. ChainOf(u, d) = Append(s, g)
  BY <1>5, ChainIs
<1>7. ClustersOf(u, d) = ClustersOf(t, d) \cup {g}
  <2>1. s \in Seq(Clusters)
    BY <1>1 DEF IsChain
  <2> HIDE DEF s
  <2>2. /\ DOMAIN Append(s, g) = 1..Len(s) + 1
        /\ \A k \in 1..Len(s) : Append(s, g)[k] = s[k]
        /\ Append(s, g)[Len(s) + 1] = g
    BY <1>3, <2>1, AppendProperties
  <2>3. \A k \in 1..Len(s) + 1 : k \in 1..Len(s) \/ k = Len(s) + 1
    BY <1>2
  <2>4. 1..Len(s) \subseteq 1..Len(s) + 1 /\ Len(s) + 1 \in 1..Len(s) + 1
    BY <1>2
  <2>5. ClustersOf(u, d) = {Append(s, g)[k] : k \in 1..Len(s) + 1}
    BY <1>6, <2>2 DEF ClustersOf
  <2>6. ClustersOf(t, d) = {s[k] : k \in 1..Len(s)}
    BY <1>2 DEF ClustersOf, s
  <2> QED BY <2>2, <2>3, <2>4, <2>5, <2>6
<1>8. \A c \in Clusters \ ClustersOf(t, d) : u[c] = t[c]
  BY <1>0, <1>3
<1> HIDE DEF s, l
<1>9. /\ Chains(u, heads \ {d})
      /\ \A r \in heads \ {d} : ChainOf(u, r) = ChainOf(t, r)
  <2>1. \A r \in heads \ {d} : \A c \in ClustersOf(t, r) : u[c] = t[c]
    <3> TAKE r \in heads \ {d}
    <3> TAKE c \in ClustersOf(t, r)
    <3>1. IsChain(t, r, ChainOf(t, r)) /\ ClustersOf(t, r) \cap ClustersOf(t, d) = {}
      BY DEF Chains
    <3> QED BY <1>8, <3>1, ChainCells
  <2>2. Chains(t, heads \ {d})
    BY ChainsFewer
  <2> QED BY <2>1, <2>2, ChainsStay
<1>10. \A r \in heads \ {d} : ClustersOf(u, r) = ClustersOf(t, r)
  BY <1>9 DEF ClustersOf
<1>11. ASSUME NEW r \in heads \ {d, g}
       PROVE  ClustersOf(u, r) \cap ClustersOf(u, d) = {}
  <2>1. /\ ClustersOf(t, r) \cap ClustersOf(t, d) = {} /\ ClustersOf(t, r) \cap ClustersOf(t, g) = {}
        /\ ClustersOf(u, r) = ClustersOf(t, r)
    BY <1>10 DEF Chains
  <2> QED BY <1>3, <1>7, <2>1
<1>12. Chains(u, heads \ {g})
  <2>1. \A r \in heads \ {g} : IsChain(u, r, ChainOf(u, r))
    BY <1>5, <1>6, <1>9 DEF Chains
  <2>2. \A r, q \in heads \ {d} : r # q => ClustersOf(u, r) \cap ClustersOf(u, q) = {}
    BY <1>9 DEF Chains
  <2>3. ASSUME NEW r \in heads \ {g}, NEW q \in heads \ {g}, r # q
        PROVE  ClustersOf(u, r) \cap ClustersOf(u, q) = {}
    <3>1. CASE r # d /\ q # d
      BY <2>2, <2>3, <3>1
    <3>2. CASE r = d
      BY <1>11, <2>3, <3>2
    <3>3. CASE q = d
      BY <1>11, <2>3, <3>3
    <3> QED BY <3>1, <3>2, <3>3
  <2> QED BY <2>1, <2>3 DEF Chains
<1> QED BY <1>6, <1>9, <1>12 DEF s, LinkedTo

-----------------------------------------------------------------------------
(* The slots of a directory.                                                *)
PlaceOf(t, d, k) == <<ChainOf(t, d)[(k - 1) \div Spc + 1], ((k - 1) % Spc) + 1>>
ViewOf(t, dev, d) ==
    LET c == ChainOf(t, d)
    IN [k \in 1..Len(c) * Spc |-> dev[<<c[(k - 1) \div Spc + 1], ((k - 1) % Spc) + 1>>]]
LenOf(t, d) == Len(ChainOf(t, d)) * Spc
Slots(dev) == \A p \in Places : dev[p].text[1] \in Nat

LEMMA PlaceNow == \A d, k : Place(d, k) = PlaceOf(fat, d, k)
  BY ChainNow DEF Place, PlaceOf
LEMMA ViewNow == \A dev, d : View(dev, d) = ViewOf(fat, dev, d)
  BY ChainNow DEF View, ViewOf
LEMMA ViewNext == \A d : View(buf, d)' = ViewOf(fat', buf', d)
  BY ChainNext DEF View, ViewOf

LEMMA SpcNat == Spc \in Nat /\ Spc >= 2
  BY ClusterAssumption, SizeAssumption DEF Spc
LEMMA Position ==
    ASSUME NEW n \in Nat, NEW k \in 1..n * Spc
    PROVE  (k - 1) \div Spc + 1 \in 1..n /\ ((k - 1) % Spc) + 1 \in 1..Spc
<1> DEFINE S == Spc
<1>1. S \in Nat \ {0}
  BY SpcNat
<1> HIDE DEF S
<1>2. k - 1 \in Nat /\ k - 1 < n * S
  BY <1>1 DEF S
<1>3. (k - 1) \div S \in Nat /\ (k - 1) \div S < n /\ (k - 1) % S \in 0..S - 1
  BY <1>1, <1>2
<1>4. (k - 1) \div S + 1 \in 1..n /\ ((k - 1) % S) + 1 \in 1..S
  BY <1>1, <1>3
<1> QED BY <1>4 DEF S

LEMMA PlaceIn ==
    ASSUME NEW t, NEW d, IsChain(t, d, ChainOf(t, d)), NEW k \in 1..LenOf(t, d)
    PROVE  /\ PlaceOf(t, d, k) \in Places /\ PlaceOf(t, d, k)[1] \in ClustersOf(t, d)
<1> DEFINE s == ChainOf(t, d)
           i == (k - 1) \div Spc + 1
           j == ((k - 1) % Spc) + 1
<1>1. /\ Len(s) \in Nat /\ DOMAIN s = 1..Len(s) /\ \A m \in 1..Len(s) : s[m] \in Clusters
  BY ChainLength
<1>2. k \in 1..Len(s) * Spc
  BY DEF LenOf
<1>3. i \in 1..Len(s) /\ j \in 1..Spc
  BY <1>1, <1>2, Position
<1>4. s[i] \in Clusters /\ s[i] \in ClustersOf(t, d)
  BY <1>1, <1>3 DEF ClustersOf
<1>5. PlaceOf(t, d, k) = <<s[i], j>>
  BY DEF PlaceOf
<1> HIDE DEF s, i, j
<1> QED BY <1>3, <1>4, <1>5 DEF Places

LEMMA ViewIs ==
    ASSUME NEW t, NEW d, IsChain(t, d, ChainOf(t, d)), NEW dev
    PROVE  /\ LenOf(t, d) \in Nat /\ LenOf(t, d) >= Spc
           /\ DOMAIN ViewOf(t, dev, d) = 1..LenOf(t, d) /\ Len(ViewOf(t, dev, d)) = LenOf(t, d)
           /\ \A k \in 1..LenOf(t, d) : ViewOf(t, dev, d)[k] = dev[PlaceOf(t, d, k)]
<1>1. Len(ChainOf(t, d)) \in Nat /\ Len(ChainOf(t, d)) >= 1
  BY ChainLength
<1>2. LenOf(t, d) \in Nat /\ LenOf(t, d) >= Spc
  <2> DEFINE n == Len(ChainOf(t, d))
             S == Spc
  <2>1. n \in Nat /\ n >= 1 /\ S \in Nat
    BY <1>1, SpcNat
  <2> HIDE DEF n, S
  <2>2. n * S \in Nat /\ n * S >= S
    BY <2>1
  <2> QED BY <2>2 DEF LenOf, n, S
<1>3. ViewOf(t, dev, d) = [k \in 1..LenOf(t, d) |-> dev[PlaceOf(t, d, k)]]
  BY DEF ViewOf, PlaceOf, LenOf
<1>4. DOMAIN ViewOf(t, dev, d) = 1..LenOf(t, d)
  BY <1>3
<1>5. Len(ViewOf(t, dev, d)) = LenOf(t, d)
  <2> DEFINE v == ViewOf(t, dev, d)
             S == {v[k] : k \in 1..LenOf(t, d)}
  <2>1. v \in [1..LenOf(t, d) -> S]
    BY <1>3
  <2> HIDE DEF S
  <2> QED BY <1>2, <2>1, AsSeq
<1> QED BY <1>2, <1>3, <1>4, <1>5

LEMMA PlaceOne ==
    ASSUME NEW t, NEW d, IsChain(t, d, ChainOf(t, d)),
           NEW k \in 1..LenOf(t, d), NEW m \in 1..LenOf(t, d), PlaceOf(t, d, k) = PlaceOf(t, d, m)
    PROVE  k = m
<1> DEFINE s == ChainOf(t, d)
           S == Spc
           a == k - 1
           b == m - 1
<1>1. /\ Len(s) \in Nat /\ \A x, y \in 1..Len(s) : s[x] = s[y] => x = y
  BY ChainLength DEF IsChain
<1>2. k \in 1..Len(s) * Spc /\ m \in 1..Len(s) * Spc
  BY DEF LenOf
<1>3. /\ a \div S + 1 \in 1..Len(s) /\ b \div S + 1 \in 1..Len(s)
      /\ (a % S) + 1 \in 1..S /\ (b % S) + 1 \in 1..S
  BY <1>1, <1>2, Position
<1>4. s[a \div S + 1] = s[b \div S + 1] /\ (a % S) + 1 = (b % S) + 1
  BY DEF PlaceOf
<1>5. a \div S + 1 = b \div S + 1
  BY <1>1, <1>3, <1>4
<1>6. S \in Nat \ {0} /\ k \in Nat /\ m \in Nat /\ k >= 1 /\ m >= 1
  BY <1>1, <1>2, SpcNat
<1> HIDE DEF s, S
<1>7. a \in Nat /\ b \in Nat /\ a \div S \in Int /\ b \div S \in Int /\ a % S \in Int /\ b % S \in Int
  BY <1>6
<1> HIDE DEF a, b
<1>8. a \div S = b \div S /\ a % S = b % S
  BY <1>4, <1>5, <1>7
<1>9. a = b
  BY <1>6, <1>7, <1>8
<1> QED BY <1>6, <1>9 DEF a, b

LEMMA ViewDirectory ==
    ASSUME NEW t, NEW d, IsChain(t, d, ChainOf(t, d)), NEW dev, Slots(dev)
    PROVE  IsDirectory(ViewOf(t, dev, d))
  BY ViewIs, PlaceIn DEF IsDirectory, Slots

(* A directory is read the same if its chain and its slots are.             *)
LEMMA ViewSame ==
    ASSUME NEW t, NEW d, IsChain(t, d, ChainOf(t, d)), NEW u, ChainOf(u, d) = ChainOf(t, d),
           NEW a, NEW b, \A p \in Places : p[1] \in ClustersOf(t, d) => b[p] = a[p]
    PROVE  ViewOf(u, b, d) = ViewOf(t, a, d)
<1>1. \A k \in 1..LenOf(t, d) : b[PlaceOf(t, d, k)] = a[PlaceOf(t, d, k)]
  BY PlaceIn
<1>2. /\ ViewOf(u, b, d) = [k \in 1..LenOf(t, d) |-> b[PlaceOf(t, d, k)]]
      /\ ViewOf(t, a, d) = [k \in 1..LenOf(t, d) |-> a[PlaceOf(t, d, k)]]
  BY DEF ViewOf, PlaceOf, LenOf
<1> QED BY <1>1, <1>2
LEMMA PlaceSame ==
    ASSUME NEW t, NEW u, NEW d, ChainOf(u, d) = ChainOf(t, d)
    PROVE  LenOf(u, d) = LenOf(t, d) /\ \A k : PlaceOf(u, d, k) = PlaceOf(t, d, k)
  BY DEF LenOf, PlaceOf

-----------------------------------------------------------------------------
(* The inductive invariant.  Its parts have the operation, the table, the   *)
(* slots and the inodes as arguments, so that they can be said of a state,  *)
(* of the next one and of what is on the disk in between.                   *)
OpFields == {"pc", "call", "d", "n", "i", "over", "start", "slots", "first", "old", "new", "cut",
             "from", "to", "after", "undoing", "grown", "sync", "ok", "bad"}
InfoFields == {"d", "at", "longs"}

(* Where an operation is, or will be when its writes succeed.               *)
LabelOf(o) == IF o.pc = "sync" THEN o.ok ELSE o.pc
Fill == {"fill", "short", "grow", "link", "undo"}
Adds == {"build", "fill", "short", "grow", "link", "added"}
Moves == {"move", "dotdot", "count", "kept", "undo_dotdot", "undo_move"}
Cuts == {"rm", "cleared", "clear"}
Rests == {"idle", "ok", "error"}
Labels == {"undo", "refused", "removed"} \cup Adds \cup Moves \cup Cuts \cup Rests

(* What is always so, whatever has failed.                                  *)
Shape ==
    /\ setup \in Setups
    /\ DOMAIN op = OpFields
    /\ DOMAIN op.old = InfoFields /\ DOMAIN op.new = InfoFields /\ DOMAIN op.cut = InfoFields
    /\ op.pc = "idle" => op = Resting
    /\ op.pc = "sync" => op.ok # "idle" /\ op.bad \notin {"idle", "clear"}
    /\ LabelOf(op) = "clear" => op.after \in {"refused", "removed"}

-----------------------------------------------------------------------------
IsSlot(s) ==
    /\ s = [text |-> s.text, attr |-> s.attr, name |-> s.name, sum |-> s.sum, start |-> s.start]
    /\ s.text \in [1..NameLen -> Nat]
Device(dev) == dev = [p \in Places |-> dev[p]] /\ \A p \in Places : IsSlot(dev[p])
Nodes(in) ==
    /\ in \in [Inodes -> Inode \cup {None}]
    /\ \A i \in Inodes : in[i] # None /\ in[i].dir => in[i].start # None
Typed(t, b, k, in) ==
    /\ t \in [Clusters -> Clusters \cup {"free", "eof"}]
    /\ Device(b) /\ Device(k)
    /\ Nodes(in)

(* With dirsync the disk has what is not being written, but for the first   *)
(* clusters, which may be in the buffers only.                              *)
Bads == {"undo", "refused", "removed", "kept", "undo_dotdot", "undo_move"}
Likes(a, b) == \A p \in Places : AsIn(b[p], a[p])
Synced(o, b, k) ==
    /\ o.pc # "sync" => o.sync = {}
    /\ o.pc = "sync" => setup.dirsync /\ o.sync # {} /\ o.bad \in Bads
    /\ setup.dirsync => \A p \in Places : BlockOf(p) \notin o.sync => AsIn(k[p], b[p])

(* Every inode, a new directory and a cluster that will be linked to one    *)
(* have chains of their own.                                                *)
StartsOf(in) == {in[i].start : i \in {j \in Inodes : in[j] # None}} \ {None}
DirsOf(in) == {Root} \cup {in[i].start : i \in {j \in Inodes : in[j] # None /\ in[j].linked /\ in[j].dir}}
PendingOf(label, o) == IF o.start # None /\ label \notin Rests THEN {o.start} ELSE {}
GrownOf(label, o) == IF o.grown # None /\ label \in {"link", "undo"} THEN {o.grown} ELSE {}
HeadsOf(label, o, in) == {Root} \cup StartsOf(in) \cup PendingOf(label, o) \cup GrownOf(label, o)
Owned(label, o, t, in) ==
    /\ Chains(t, HeadsOf(label, o, in))
    /\ Root \notin StartsOf(in) \cup PendingOf(label, o) \cup GrownOf(label, o)
    /\ StartsOf(in) \cap (PendingOf(label, o) \cup GrownOf(label, o)) = {}
    /\ PendingOf(label, o) \cap GrownOf(label, o) = {}
    /\ \A i, j \in Inodes : in[i] # None /\ in[j] # None /\ in[i].start = in[j].start
                            /\ in[i].start # None => i = j
    /\ \A g \in GrownOf(label, o) : t[g] = "eof"

LastOf(o) == o.first + Len(o.slots) - 1
Points(x, t, ds) == x.d \in ds /\ x.at \in 1..LenOf(t, x.d)

(* What an operation knows when it is at a label.                           *)
Knows(label, o, t, in) ==
    /\ label \in Labels
    /\ label \notin Rests => o.d \in DirsOf(in) /\ o.n \in Names
    /\ o.start # None => o.call = "mkdir" /\ o.start \in Clusters
    /\ o.grown \in Clusters \cup {None}
    /\ o.undoing => o.call = "rename"
    /\ label \in Adds \cup {"undo"} =>
          o.over = None /\ ~o.undoing /\ o.after = None /\ o.call \in {"create", "mkdir", "rename"}
    /\ label \in Adds /\ o.call # "rename" => \E i \in Inodes : in[i] = None
    /\ label \in Adds /\ o.call = "mkdir" => o.start # None
    /\ label \in Fill \cup {"added"} => o.first \in Nat \ {0} /\ Built(o.slots, o.n, o.start)
    /\ label \in Fill => o.first <= LenOf(t, o.d) + 1
    /\ label = "added" => LastOf(o) <= LenOf(t, o.d)
    /\ label \in {"build", "fill", "short", "grow"} => o.grown = None
    /\ label = "link" => o.grown # None
    /\ o.call \in {"unlink", "rmdir", "rename"} /\ label \notin Rests =>
          /\ o.i \in Inodes /\ in[o.i] # None
          /\ o.over # None => o.over \in Inodes /\ in[o.over] # None
    /\ o.call = "rename" /\ label \notin Rests =>
          Points(o.old, t, DirsOf(in)) /\ (o.over # None => Points(o.new, t, DirsOf(in)))
    /\ label \in Moves \ {"kept"} => o.call = "rename"
    /\ label = "move" => o.over # None
    /\ label \in {"rm", "cleared", "kept", "removed"} => o.call \in {"unlink", "rmdir", "rename"}
    /\ label \in {"rm", "cleared"} \cup Moves => o.after = None
    /\ label \in {"move", "dotdot", "count", "kept"} => ~o.undoing
    /\ label \in {"cleared", "clear"} => o.cut.d \in DirsOf(in)
    /\ label = "clear" => /\ o.after \in {"refused", "removed"}
                          /\ o.after = "removed" => ~o.undoing /\ o.call \in {"unlink", "rmdir", "rename"}

-----------------------------------------------------------------------------
(* What the slots are when an operation is at a label.                      *)
NewInfoOf(o) == [d |-> o.d, at |-> LastOf(o), longs |-> Len(o.slots) - 1]
BlockAt(t, d, k) == BlockOf(PlaceOf(t, d, k))
Filled(o, t, dev, k) == ViewOf(t, dev, o.d)[k] = o.slots[k - o.first + 1]
Stands(x, t, dev, ds) == x.d \in ds /\ Has(ViewOf(t, dev, x.d), x)
CutFirstOf(o, t) ==
    {k \in o.cut.at - o.cut.longs..o.cut.at : BlockAt(t, o.cut.d, k) = BlockAt(t, o.cut.d, o.cut.at)}

(* The directories that are whole: a new one too, not the one at work.      *)
WholeOnes(label, o, ds) ==
    (ds \cup (IF label \in Adds THEN PendingOf(label, o) ELSE {}))
        \ (IF label \in Fill THEN {o.d} ELSE IF label \in {"cleared", "clear"} THEN {o.cut.d} ELSE {})
Adding(label, o, t, dev) ==
    /\ label \in Fill => Begun(ViewOf(t, dev, o.d), o.first, o.slots)
    /\ label = "short" => /\ LastOf(o) <= LenOf(t, o.d)
                          /\ \A k \in o.first..LastOf(o) :
                                BlockAt(t, o.d, k) # BlockAt(t, o.d, LastOf(o)) => Filled(o, t, dev, k)
    /\ label \in {"grow", "link"} => /\ LenOf(t, o.d) < LastOf(o)
                                     /\ \A k \in o.first..LenOf(t, o.d) : Filled(o, t, dev, k)
    /\ label = "link" =>
          \A j \in 1..Spc : dev[<<o.grown, j>>] =
              LET k == LenOf(t, o.d) + j IN IF k <= LastOf(o) THEN o.slots[k - o.first + 1] ELSE Zero
Cutting(label, o, t, dev, ds) ==
    /\ label = "rm" => Stands(o.cut, t, dev, ds)
    /\ label = "cleared" => Removing(ViewOf(t, dev, o.cut.d), o.cut.at - o.cut.longs, o.cut.at,
                                     o.cut.at - o.cut.longs, o.cut.at - Cardinality(CutFirstOf(o, t)))
    /\ label = "clear" => \E p, q \in Nat : Removing(ViewOf(t, dev, o.cut.d), p, q, o.from, o.to)
Renaming(label, o, t, dev, ds) ==
    o.call = "rename" =>
        /\ label \in Adds \cup {"move", "dotdot", "count"} => Stands(o.old, t, dev, ds)
        /\ label = "added" => Stands(NewInfoOf(o), t, dev, ds)
        /\ /\ o.over = None
           /\ label \in Moves \ {"move"} \/ (label = "rm" /\ ~o.undoing)
           => Stands(o.new, t, dev, ds)
Fit(label, o, t, dev, ds) ==
    /\ \A d \in WholeOnes(label, o, ds) : Whole(ViewOf(t, dev, d))
    /\ Adding(label, o, t, dev)
    /\ Cutting(label, o, t, dev, ds)
    /\ Renaming(label, o, t, dev, ds)

Sound(label, o, t, dev, in) ==
    Owned(label, o, t, in) /\ Knows(label, o, t, in) /\ Fit(label, o, t, dev, DirsOf(in))
Safe(t, dev, ds) == \A d \in ds : Tidy(ViewOf(t, dev, d))

(* While blocks are written: whatever of them is on the disk, every         *)
(* directory there is tidy; and if the rest fails, the operation can go on  *)
(* where its error path begins, unless it has to be broken.                 *)
Secure(o, t, b, k, in) ==
    o.pc = "sync" =>
        \A bs \in (SUBSET o.sync) \ {o.sync} :
            /\ Safe(t, From(b, k, bs), DirsOf(in))
            /\ o.undoing \/ o.after # None \/ Sound(o.bad, o, t, From(b, k, bs), in)
Core(o, t, b, k, in) ==
    /\ Typed(t, b, k, in) /\ Synced(o, b, k)
    /\ Sound(LabelOf(o), o, t, b, in) /\ Secure(o, t, b, k, in)
SlotsInv == mounted /\ ~broken => Core(op, fat, buf, disk, ino)

-----------------------------------------------------------------------------
(* Which parts of an operation its invariant is about.                      *)
Same(o, r) ==
    /\ o.call = r.call /\ o.d = r.d /\ o.n = r.n /\ o.i = r.i /\ o.over = r.over
    /\ o.start = r.start /\ o.slots = r.slots /\ o.first = r.first
    /\ o.old = r.old /\ o.new = r.new /\ o.cut = r.cut /\ o.from = r.from /\ o.to = r.to
    /\ o.after = r.after /\ o.undoing = r.undoing /\ o.grown = r.grown

LEMMA SoundSame ==
    ASSUME NEW o, NEW r, Same(o, r), NEW label, NEW t, NEW dev, NEW in, Sound(label, o, t, dev, in)
    PROVE  Sound(label, r, t, dev, in)
<1>1. PendingOf(label, r) = PendingOf(label, o) /\ GrownOf(label, r) = GrownOf(label, o)
  BY DEF Same, PendingOf, GrownOf
<1>2. HeadsOf(label, r, in) = HeadsOf(label, o, in)
  BY <1>1 DEF HeadsOf
<1>3. Owned(label, r, t, in)
  BY <1>1, <1>2 DEF Sound, Owned
<1>4. Knows(label, r, t, in)
  BY DEF Same, Sound, Knows, LastOf
<1>5. /\ LastOf(r) = LastOf(o) /\ NewInfoOf(r) = NewInfoOf(o) /\ CutFirstOf(r, t) = CutFirstOf(o, t)
      /\ WholeOnes(label, r, DirsOf(in)) = WholeOnes(label, o, DirsOf(in))
  BY <1>1 DEF Same, LastOf, NewInfoOf, CutFirstOf, WholeOnes
<1>6. \A k : Filled(r, t, dev, k) <=> Filled(o, t, dev, k)
  BY DEF Same, Filled
<1>7. Adding(label, r, t, dev)
  BY <1>5, <1>6 DEF Same, Sound, Fit, Adding
<1>8. Cutting(label, r, t, dev, DirsOf(in))
  BY <1>5 DEF Same, Sound, Fit, Cutting
<1>9. Renaming(label, r, t, dev, DirsOf(in))
  BY <1>5 DEF Same, Sound, Fit, Renaming
<1> QED BY <1>3, <1>4, <1>5, <1>7, <1>8, <1>9 DEF Sound, Fit

LEMMA DirsHeads ==
    ASSUME NEW in, Nodes(in)
    PROVE  \A label, o : DirsOf(in) \subseteq HeadsOf(label, o, in)
  BY DEF DirsOf, HeadsOf, StartsOf, Nodes

LEMMA SlotsOf == ASSUME NEW dev, Device(dev)  PROVE Slots(dev)
<1>1. 1 \in 1..NameLen
  BY DEF NameLen
<1> QED BY <1>1 DEF Device, Slots, IsSlot

(* Every directory of a sound state is one, and tidy.                       *)
LEMMA SoundDirectory ==
    ASSUME NEW label, NEW o, NEW t, NEW dev, NEW in, Owned(label, o, t, in), Device(dev),
           NEW d \in HeadsOf(label, o, in)
    PROVE  IsChain(t, d, ChainOf(t, d)) /\ IsDirectory(ViewOf(t, dev, d))
  BY SlotsOf, ViewDirectory DEF Owned, Chains

LEMMA SoundSafe ==
    ASSUME NEW label, NEW o, NEW t, NEW dev, NEW in, Sound(label, o, t, dev, in), Device(dev),
           Nodes(in)
    PROVE  Safe(t, dev, DirsOf(in))
<1> SUFFICES ASSUME NEW d \in DirsOf(in)  PROVE Tidy(ViewOf(t, dev, d))
  BY DEF Safe
<1> DEFINE v == ViewOf(t, dev, d)
<1>1. IsDirectory(v)
  BY DirsHeads, SoundDirectory DEF Sound
<1>2. CASE d \in WholeOnes(label, o, DirsOf(in))
  BY <1>2, WholeTidy DEF Sound, Fit
<1>3. CASE label \in Fill /\ d = o.d
  <2>1. o.n \in Names /\ o.first \in Nat \ {0} /\ Built(o.slots, o.n, o.start)
    BY <1>3 DEF Sound, Knows, Fill, Rests
  <2>2. Begun(v, o.first, o.slots)
    BY <1>3 DEF Sound, Fit, Adding
  <2> QED BY <1>1, <2>1, <2>2, BegunHalf
<1>4. CASE label \in {"cleared", "clear"} /\ d = o.cut.d
  <2>1. \E p, q, from, to : Removing(v, p, q, from, to)
    BY <1>4 DEF Sound, Fit, Cutting
  <2> QED BY <1>1, <2>1, RemovingTidy
<1> QED BY <1>2, <1>3, <1>4 DEF WholeOnes

LEMMA OwnedFewer ==
    ASSUME NEW label, NEW o, NEW t, NEW in, Owned(label, o, t, in),
           NEW then, NEW r, PendingOf(then, r) \subseteq PendingOf(label, o),
           GrownOf(then, r) \subseteq GrownOf(label, o)
    PROVE  Owned(then, r, t, in)
<1>1. HeadsOf(then, r, in) \subseteq HeadsOf(label, o, in)
  BY DEF HeadsOf
<1>2. Chains(t, HeadsOf(then, r, in))
  BY <1>1, ChainsFewer DEF Owned
<1> QED BY <1>2 DEF Owned

-----------------------------------------------------------------------------
(* The first clusters in the slots do not matter to what is sound, but they *)
(* do while a name is written, and while one is deleted.                    *)
LEMMA LikesAlike ==
    ASSUME NEW a, NEW b, Likes(a, b), NEW t, NEW d, IsChain(t, d, ChainOf(t, d))
    PROVE  Alike(ViewOf(t, a, d), ViewOf(t, b, d))
<1>1. \A k \in 1..LenOf(t, d) : PlaceOf(t, d, k) \in Places
  BY PlaceIn
<1>2. /\ DOMAIN ViewOf(t, a, d) = 1..LenOf(t, d) /\ Len(ViewOf(t, a, d)) = LenOf(t, d)
      /\ \A k \in 1..LenOf(t, d) : ViewOf(t, a, d)[k] = a[PlaceOf(t, d, k)]
  BY ViewIs
<1>3. /\ DOMAIN ViewOf(t, b, d) = 1..LenOf(t, d) /\ Len(ViewOf(t, b, d)) = LenOf(t, d)
      /\ \A k \in 1..LenOf(t, d) : ViewOf(t, b, d)[k] = b[PlaceOf(t, d, k)]
  BY ViewIs
<1> QED BY <1>1, <1>2, <1>3 DEF Alike, Likes, AsIn

LEMMA LikesSafe ==
    ASSUME NEW a, NEW b, Likes(a, b), Device(a), NEW label, NEW o, NEW t, NEW in, Nodes(in),
           Owned(label, o, t, in), Safe(t, a, DirsOf(in))
    PROVE  Safe(t, b, DirsOf(in))
<1> SUFFICES ASSUME NEW d \in DirsOf(in)  PROVE Tidy(ViewOf(t, b, d))
  BY DEF Safe
<1>1. d \in HeadsOf(label, o, in)
  BY DirsHeads
<1>2. IsDirectory(ViewOf(t, a, d)) /\ Alike(ViewOf(t, a, d), ViewOf(t, b, d))
  BY <1>1, SoundDirectory, LikesAlike
<1>3. Tidy(ViewOf(t, a, d))
  BY DEF Safe
<1> QED BY <1>2, <1>3, AlikeTidy

LEMMA LikesSound ==
    ASSUME NEW a, NEW b, Likes(a, b), Device(a), NEW label,
           label \notin {"short", "grow", "link", "cleared", "clear"},
           NEW o, NEW t, NEW in, Nodes(in), Sound(label, o, t, a, in)
    PROVE  Sound(label, o, t, b, in)
<1> DEFINE ds == DirsOf(in)
<1>1. Owned(label, o, t, in) /\ Knows(label, o, t, in)
  BY DEF Sound
<1>2. ASSUME NEW d \in HeadsOf(label, o, in)
      PROVE  IsDirectory(ViewOf(t, a, d)) /\ Alike(ViewOf(t, a, d), ViewOf(t, b, d))
  BY <1>1, SoundDirectory, LikesAlike
<1>3. \A d \in WholeOnes(label, o, ds) : d \in HeadsOf(label, o, in)
  BY DirsHeads DEF WholeOnes, HeadsOf
<1>4. \A d \in WholeOnes(label, o, ds) : Whole(ViewOf(t, b, d))
  BY <1>2, <1>3, AlikeWhole DEF Sound, Fit
<1>5. ASSUME NEW x, Stands(x, t, a, ds)  PROVE Stands(x, t, b, ds)
  <2>1. x.d \in HeadsOf(label, o, in)
    BY <1>5, DirsHeads DEF Stands
  <2> QED BY <1>2, <1>5, <2>1, AlikeHas DEF Stands
<1>6. Adding(label, o, t, b)
  <2>1. ASSUME label \in Fill  PROVE Begun(ViewOf(t, b, o.d), o.first, o.slots)
    <3>1. o.d \in HeadsOf(label, o, in)
      BY <1>1, <2>1, DirsHeads DEF Knows, Fill, Rests
    <3>2. Begun(ViewOf(t, a, o.d), o.first, o.slots)
      BY <2>1 DEF Sound, Fit, Adding
    <3> QED BY <1>2, <3>1, <3>2, AlikeBegun
  <2> QED BY <2>1 DEF Adding
<1>7. Cutting(label, o, t, b, ds)
  BY <1>5 DEF Sound, Fit, Cutting
<1>8. Renaming(label, o, t, b, ds)
  BY <1>5 DEF Sound, Fit, Renaming
<1> QED BY <1>1, <1>4, <1>6, <1>7, <1>8 DEF Sound, Fit

-----------------------------------------------------------------------------
(* Waiting for blocks to be written.                                        *)
LEMMA SyncingIs ==
    ASSUME NEW r, DOMAIN r = OpFields, NEW blocks, NEW ok, NEW bad
    PROVE  LET o == Syncing(r, blocks, ok, bad)
           IN /\ DOMAIN o = OpFields /\ Same(o, r) /\ Same(r, o)
              /\ IF setup.dirsync /\ blocks # {}
                 THEN o.pc = "sync" /\ o.sync = blocks /\ o.ok = ok /\ o.bad = bad
                 ELSE o.pc = ok /\ o.sync = r.sync
<1>1. CASE setup.dirsync /\ blocks # {}
  BY <1>1 DEF Syncing, Same, OpFields
<1>2. CASE ~(setup.dirsync /\ blocks # {})
  BY <1>2 DEF Syncing, Same, OpFields
<1> QED BY <1>1, <1>2

LEMMA FromNone == ASSUME NEW b, NEW k, Device(k)  PROVE From(b, k, {}) = k
  BY DEF From, Device
LEMMA FromDevice ==
    ASSUME NEW b, NEW k, NEW bs, Device(b), Device(k)
    PROVE  /\ Device(From(b, k, bs))
           /\ \A p \in Places : From(b, k, bs)[p] = IF BlockOf(p) \in bs THEN b[p] ELSE k[p]
  BY DEF From, Device

(* The disk has what the buffers had: a change of them makes its way to it. *)
LEMMA SyncsAll ==
    ASSUME NEW r, DOMAIN r = OpFields, r.sync = {}, NEW blocks, NEW ok \in Labels, NEW bad,
           NEW t, NEW a, NEW b, NEW k, NEW in, Typed(t, b, k, in), Device(a),
           setup.dirsync => Likes(a, k), bad \in Bads,
           \A p \in Places : BlockOf(p) \notin blocks => b[p] = a[p],
           Sound(ok, r, t, b, in),
           \A m : setup.dirsync /\ Device(m) /\ (\A p \in Places : m[p] \in {a[p], b[p]})
                      => Sound(bad, r, t, m, in)
    PROVE  Core(Syncing(r, blocks, ok, bad), t, b, k, in)
<1> DEFINE o == Syncing(r, blocks, ok, bad)
<1>1. /\ Same(o, r) /\ Same(r, o)
      /\ IF setup.dirsync /\ blocks # {}
         THEN o.pc = "sync" /\ o.sync = blocks /\ o.ok = ok /\ o.bad = bad
         ELSE o.pc = ok /\ o.sync = {}
  BY SyncingIs
<1>2. ok # "sync"
  BY DEF Labels, Adds, Moves, Cuts, Rests
<1> HIDE DEF o
<1>3. LabelOf(o) = ok
  BY <1>1, <1>2 DEF LabelOf
<1>4. Sound(LabelOf(o), o, t, b, in)
  BY <1>1, <1>3, SoundSame
<1>5. Synced(o, b, k)
  BY <1>1, <1>2 DEF Synced, Likes
<1>6. ASSUME o.pc = "sync", NEW bs \in (SUBSET o.sync) \ {o.sync}
      PROVE  /\ Safe(t, From(b, k, bs), DirsOf(in))
             /\ o.undoing \/ o.after # None \/ Sound(o.bad, o, t, From(b, k, bs), in)
  <2> DEFINE m == From(b, k, bs)
             w == From(b, a, bs)
  <2>1. /\ Device(m) /\ \A p \in Places : m[p] = IF BlockOf(p) \in bs THEN b[p] ELSE k[p]
        /\ Device(w) /\ \A p \in Places : w[p] = IF BlockOf(p) \in bs THEN b[p] ELSE a[p]
    BY FromDevice DEF Typed
  <2>2. setup.dirsync /\ o.bad = bad
    BY <1>1, <1>2, <1>6
  <2> HIDE DEF m, w
  <2>3. Sound(bad, r, t, w, in)
    BY <2>1, <2>2
  <2>7. Likes(w, m)
    BY <2>1, <2>2 DEF Likes, AsIn
  <2>4. Sound(bad, r, t, m, in)
    BY <2>1, <2>3, <2>7, LikesSound DEF Bads, Typed
  <2>5. Sound(o.bad, o, t, m, in)
    BY <1>1, <2>2, <2>4, SoundSame
  <2>6. Safe(t, m, DirsOf(in))
    BY <2>1, <2>4, SoundSafe DEF Typed
  <2> QED BY <2>5, <2>6 DEF m
<1>7. Secure(o, t, b, k, in)
  BY <1>6 DEF Secure
<1> QED BY <1>4, <1>5, <1>7 DEF Core, o

(* If it is one block, then what the disk had is all there is before.       *)
LEMMA SyncsOne ==
    ASSUME NEW r, DOMAIN r = OpFields, r.sync = {}, NEW block, NEW ok \in Labels, NEW bad,
           NEW t, NEW a, NEW b, NEW k, NEW in, Typed(t, b, k, in), Device(a),
           setup.dirsync => Likes(a, k), bad \in Bads,
           \A p \in Places : BlockOf(p) # block => b[p] = a[p],
           Sound(ok, r, t, b, in),
           Safe(t, a, DirsOf(in)), r.undoing \/ r.after # None \/ Sound(bad, r, t, a, in)
    PROVE  Core(Syncing(r, {block}, ok, bad), t, b, k, in)
<1> DEFINE o == Syncing(r, {block}, ok, bad)
<1>1. /\ Same(o, r) /\ Same(r, o)
      /\ IF setup.dirsync
         THEN o.pc = "sync" /\ o.sync = {block} /\ o.ok = ok /\ o.bad = bad
         ELSE o.pc = ok /\ o.sync = {}
  BY SyncingIs
<1>2. ok # "sync"
  BY DEF Labels, Adds, Moves, Cuts, Rests
<1> HIDE DEF o
<1>3. LabelOf(o) = ok
  BY <1>1, <1>2 DEF LabelOf
<1>4. Sound(LabelOf(o), o, t, b, in)
  BY <1>1, <1>3, SoundSame
<1>5. Synced(o, b, k)
  BY <1>1, <1>2 DEF Synced, Likes
<1>6. ASSUME o.pc = "sync", NEW bs \in (SUBSET o.sync) \ {o.sync}
      PROVE  /\ Safe(t, From(b, k, bs), DirsOf(in))
             /\ o.undoing \/ o.after # None \/ Sound(o.bad, o, t, From(b, k, bs), in)
  <2>1. setup.dirsync /\ o.bad = bad /\ bs = {}
    <3>1. setup.dirsync /\ o.bad = bad /\ o.sync = {block}
      BY <1>1, <1>2, <1>6
    <3>2. bs \subseteq {block} /\ bs # {block}
      BY <3>1
    <3> QED BY <3>1, <3>2
  <2>2. Likes(a, k)
    BY <2>1
  <2>3. From(b, k, bs) = k
    BY <2>1, FromNone DEF Typed
  <2>4. r.undoing \/ r.after # None \/ Sound(bad, r, t, k, in)
    BY <2>2, LikesSound DEF Bads, Typed
  <2>5. r.undoing \/ r.after # None \/ Sound(bad, o, t, k, in)
    BY <1>1, <2>4, SoundSame
  <2>6. Safe(t, k, DirsOf(in))
    BY <2>2, LikesSafe DEF Sound, Typed
  <2> QED BY <1>1, <2>1, <2>3, <2>5, <2>6 DEF Same
<1>7. Secure(o, t, b, k, in)
  BY <1>6 DEF Secure
<1> QED BY <1>4, <1>5, <1>7 DEF Core, o

(* Nothing is waited for.                                                   *)
LEMMA NoSyncs ==
    ASSUME NEW o, NEW t, NEW b, NEW k, NEW in, Typed(t, b, k, in), o.sync = {}, o.pc # "sync",
           setup.dirsync => Likes(b, k),
           Sound(o.pc, o, t, b, in)
    PROVE  Core(o, t, b, k, in)
<1>1. LabelOf(o) = o.pc
  BY DEF LabelOf
<1>2. Synced(o, b, k) /\ Secure(o, t, b, k, in)
  BY DEF Synced, Secure, Likes
<1> QED BY <1>1, <1>2 DEF Core

-----------------------------------------------------------------------------
(* The writes.                                                              *)
Sane == Shape /\ Core(op, fat, buf, disk, ino)

LEMMA LabelNotSync == \A label \in Labels : label # "sync"
  BY DEF Labels, Adds, Moves, Cuts, Rests

LEMMA SyncOkCore == ASSUME Sane, SyncOk  PROVE Core(op', fat', buf', disk', ino')
<1> USE DEF Sane, Shape, Core
<1>1. /\ op' = [op EXCEPT !.pc = op.ok, !.sync = {}] /\ disk' = From(buf, disk, op.sync)
      /\ fat' = fat /\ buf' = buf /\ ino' = ino /\ op.pc = "sync"
  BY DEF SyncOk
<1>2. Same(op, op') /\ op'.pc = op.ok /\ op'.sync = {}
  BY <1>1 DEF Same, OpFields
<1>3. LabelOf(op) = op.ok /\ Sound(op.ok, op, fat, buf, ino)
  BY <1>1 DEF LabelOf
<1>4. Sound(op.ok, op', fat, buf, ino)
  BY <1>2, <1>3, SoundSame
<1>5. op.ok # "sync"
  BY <1>3, LabelNotSync DEF Sound, Knows
<1>6. Device(buf) /\ Device(disk)
  BY DEF Typed
<1>7. /\ Device(disk')
      /\ \A p \in Places : disk'[p] = IF BlockOf(p) \in op.sync THEN buf[p] ELSE disk[p]
  BY <1>1, <1>6, FromDevice
<1>8. Typed(fat, buf, disk', ino)
  BY <1>7 DEF Typed
<1>9. setup.dirsync => Likes(buf, disk')
  BY <1>7 DEF Synced, Likes, AsIn
<1>10. Core(op', fat, buf, disk', ino)
  BY <1>2, <1>4, <1>5, <1>8, <1>9, NoSyncs
<1> QED BY <1>1, <1>10

LEMMA SyncFailCore == ASSUME Sane, SyncFail, ~broken'  PROVE Core(op', fat', buf', disk', ino')
<1>1. /\ op' = [op EXCEPT !.pc = op.bad, !.sync = {}] /\ op.pc = "sync"
      /\ fat' = fat /\ ino' = ino /\ ~op.undoing /\ op.after = None
  BY DEF SyncFail
<1>2. PICK lost1 \in (SUBSET op.sync) \ {{}} :
          disk' = From(buf, disk, op.sync \ lost1) /\ buf' = From(disk, buf, lost1)
  BY DEF SyncFail
<1> DEFINE bs == op.sync \ lost1
<1>3. bs \in (SUBSET op.sync) \ {op.sync}
  BY <1>2
<1> HIDE DEF bs
<1>4. Sound(op.bad, op, fat, From(buf, disk, bs), ino)
  BY <1>1, <1>3 DEF Sane, Core, Secure
<1>5. Same(op, op') /\ op'.pc = op.bad /\ op'.sync = {}
  BY <1>1 DEF Same, OpFields, Sane, Shape
<1>6. Device(buf) /\ Device(disk)
  BY DEF Sane, Core, Typed
<1>7. /\ Device(disk')
      /\ \A p \in Places : disk'[p] = IF BlockOf(p) \in bs THEN buf[p] ELSE disk[p]
  BY <1>2, <1>6, FromDevice DEF bs
<1>8. /\ Device(buf')
      /\ \A p \in Places : buf'[p] = IF BlockOf(p) \in lost1 THEN disk[p] ELSE buf[p]
  BY <1>2, <1>6, FromDevice
<1>9. setup.dirsync /\ op.bad \in Bads
      /\ \A p \in Places : BlockOf(p) \notin op.sync => AsIn(disk[p], buf[p])
  BY <1>1 DEF Sane, Core, Synced
<1>10. Likes(disk', buf') /\ Likes(buf', disk')
  BY <1>2, <1>7, <1>8, <1>9 DEF bs, Likes, AsIn
<1>11. disk' = From(buf, disk, bs) /\ Nodes(ino)
  BY <1>2 DEF bs, Sane, Core, Typed
<1>12. Sound(op.bad, op', fat, buf', ino)
  <2>1. Sound(op.bad, op', fat, disk', ino)
    BY <1>4, <1>5, <1>11, SoundSame
  <2> QED BY <1>7, <1>9, <1>10, <1>11, <2>1, LikesSound DEF Bads
<1>13. op.bad # "sync"
  BY <1>4, LabelNotSync DEF Sound, Knows
<1>14. Typed(fat, buf', disk', ino)
  BY <1>7, <1>8 DEF Sane, Core, Typed
<1>16. Core(op', fat', buf', disk', ino')
  BY <1>1, <1>5, <1>10, <1>12, <1>13, <1>14, NoSyncs
<1> QED BY <1>16

LEMMA FlushCore == ASSUME Sane, Flush  PROVE Core(op', fat', buf', disk', ino')
<1>1. op.pc = "sync" /\ fat' = fat /\ buf' = buf /\ ino' = ino
  BY DEF Flush
<1>2. PICK b \in op.sync : /\ op.sync # {b} /\ disk' = From(buf, disk, {b})
                           /\ op' = [op EXCEPT !.sync = @ \ {b}]
  BY DEF Flush
<1>3. /\ Same(op, op') /\ op'.pc = "sync" /\ op'.ok = op.ok /\ op'.bad = op.bad
      /\ op'.sync = op.sync \ {b}
  BY <1>1, <1>2 DEF Same, OpFields, Sane, Shape
<1>4. LabelOf(op') = LabelOf(op)
  BY <1>1, <1>3 DEF LabelOf
<1>5. Sound(LabelOf(op'), op', fat, buf, ino)
  BY <1>3, <1>4, SoundSame DEF Sane, Core
<1>6. Device(buf) /\ Device(disk)
  BY DEF Sane, Core, Typed
<1>7. /\ Device(disk')
      /\ \A p \in Places : disk'[p] = IF BlockOf(p) \in {b} THEN buf[p] ELSE disk[p]
  BY <1>2, <1>6, FromDevice
<1>8. Typed(fat, buf, disk', ino)
  BY <1>7 DEF Sane, Core, Typed
<1>9. Synced(op', buf, disk')
  BY <1>1, <1>2, <1>3, <1>7 DEF Sane, Core, Synced, AsIn
<1>10. ASSUME NEW bs \in (SUBSET op'.sync) \ {op'.sync}
       PROVE  /\ Safe(fat, From(buf, disk', bs), DirsOf(ino))
              /\ op'.undoing \/ op'.after # None \/ Sound(op'.bad, op', fat, From(buf, disk', bs), ino)
  <2> DEFINE cs == bs \cup {b}
  <2>1. cs \in (SUBSET op.sync) \ {op.sync}
    BY <1>3
  <2>2. \A p \in Places : (IF BlockOf(p) \in bs THEN buf[p] ELSE disk'[p])
                          = IF BlockOf(p) \in cs THEN buf[p] ELSE disk[p]
    BY <1>7
  <2>3. From(buf, disk', bs) = From(buf, disk, cs)
    BY <2>2 DEF From
  <2> HIDE DEF cs
  <2>4. /\ Safe(fat, From(buf, disk, cs), DirsOf(ino))
        /\ op.undoing \/ op.after # None \/ Sound(op.bad, op, fat, From(buf, disk, cs), ino)
    BY <1>1, <2>1 DEF Sane, Core, Secure
  <2> QED BY <1>3, <2>3, <2>4, SoundSame DEF Same
<1>11. Secure(op', fat, buf, disk', ino)
  BY <1>10 DEF Secure
<1> QED BY <1>1, <1>5, <1>8, <1>9, <1>11 DEF Core

-----------------------------------------------------------------------------
(* Between two waits: the operation is where its label says.                *)
Resolved ==
    /\ Typed(fat, buf, disk, ino) /\ DOMAIN op = OpFields /\ op.sync = {}
    /\ setup.dirsync => Likes(buf, disk)
    /\ Sound(op.pc, op, fat, buf, ino)

LEMMA Calm == ASSUME Sane, op.pc # "sync"  PROVE Resolved
  BY DEF Sane, Shape, Core, Synced, LabelOf, Resolved, Likes

LEMMA GotoIs ==
    ASSUME DOMAIN op = OpFields, NEW label, Goto(label)
    PROVE  Same(op, op') /\ Same(op', op) /\ op'.pc = label /\ op'.sync = op.sync
  BY DEF Goto, Same, OpFields

(* An operation whose directories are whole can be refused.                 *)
LEMMA RefusedSound ==
    ASSUME NEW label, label \notin Rests \cup Fill \cup {"cleared", "clear"},
           NEW o, NEW t, NEW dev, NEW in, Sound(label, o, t, dev, in)
    PROVE  Sound("refused", o, t, dev, in)
<1> DEFINE ref == "refused"
<1>1. ref \notin Rests \cup Fill \cup Adds \cup Moves \cup Cuts /\ ref \in Labels
  BY DEF Rests, Fill, Adds, Moves, Cuts, Labels
<1>2. PendingOf(ref, o) = PendingOf(label, o) /\ GrownOf(ref, o) = {}
  BY <1>1 DEF PendingOf, GrownOf
<1>3. Owned(ref, o, t, in)
  BY <1>2, OwnedFewer DEF Sound
<1>4. Knows(ref, o, t, in)
  BY <1>1 DEF Sound, Knows, Fill, Adds, Moves, Cuts
<1>5. WholeOnes(ref, o, DirsOf(in)) \subseteq WholeOnes(label, o, DirsOf(in))
  BY <1>1 DEF WholeOnes
<1>6. Adding(ref, o, t, dev) /\ Cutting(ref, o, t, dev, DirsOf(in))
      /\ Renaming(ref, o, t, dev, DirsOf(in))
  BY <1>1 DEF Adding, Cutting, Renaming, Fill, Adds, Moves, Cuts
<1> QED BY <1>3, <1>4, <1>5, <1>6 DEF Sound, Fit

LEMMA GotoCore ==
    ASSUME Resolved, NEW label, Goto(label), fat' = fat, buf' = buf, disk' = disk, ino' = ino,
           Sound(label, op, fat, buf, ino)
    PROVE  Core(op', fat', buf', disk', ino')
<1>1. Same(op, op') /\ op'.pc = label /\ op'.sync = {}
  BY GotoIs DEF Resolved
<1>2. label # "sync"
  BY LabelNotSync DEF Sound, Knows
<1>3. Sound(label, op', fat, buf, ino)
  BY <1>1, SoundSame
<1>4. Core(op', fat, buf, disk, ino)
  BY <1>1, <1>2, <1>3, NoSyncs DEF Resolved
<1> QED BY <1>4

LEMMA DirWhole ==
    ASSUME NEW label, label \notin Fill \cup {"cleared", "clear"},
           NEW o, NEW t, NEW dev, NEW in, Sound(label, o, t, dev, in), NEW d \in DirsOf(in)
    PROVE  Whole(ViewOf(t, dev, d))
  BY DEF Sound, Fit, WholeOnes

LEMMA LongsNat == \A n \in Names : Form[n].longs \in Nat
<1> TAKE n \in Names
<1>1. Form[n].longs \in 0..MaxLongs
  BY FormAssumption
<1> QED BY <1>1 DEF MaxLongs

LEMMA BuildCore == ASSUME Sane, Build  PROVE Core(op', fat', buf', disk', ino')
<1> DEFINE v == ViewOf(fat, buf, op.d)
           alias == CreateShortname(op.n, v)
           nr == Form[op.n].longs + 1
           first == FreeRun(v, nr, MaxSlots)
           slots == BuildSlots(op.n, alias, Attr, op.start)
<1>1. op.pc = "build" /\ fat' = fat /\ buf' = buf /\ disk' = disk /\ ino' = ino
  BY DEF Build, volume
<1>2. Resolved /\ Sound("build", op, fat, buf, ino)
  BY <1>1, Calm DEF Resolved
<1>3. /\ op.d \in DirsOf(ino) /\ op.n \in Names /\ op.grown = None
      /\ "build" \notin Fill \cup {"cleared", "clear"} /\ "build" \notin Rests /\ "build" \in Adds
  BY <1>2 DEF Sound, Knows, Rests, Fill, Adds
<1>4. Whole(v)
  BY <1>2, <1>3, DirWhole
<1>5. \/ Goto("refused")
      \/ /\ None # alias /\ None # first
         /\ op' = [op EXCEPT !.pc = "fill", !.first = first, !.slots = slots]
  BY ViewNow DEF Build
<1>6. CASE Goto("refused")
  <2>1. Sound("refused", op, fat, buf, ino)
    BY <1>2, <1>3, RefusedSound
  <2> QED BY <1>1, <1>2, <1>6, <2>1, GotoCore
<1>7. CASE /\ None # alias /\ None # first
           /\ op' = [op EXCEPT !.pc = "fill", !.first = first, !.slots = slots]
  <2>1. Len(v) \in Nat /\ DOMAIN v = 1..Len(v)
    BY <1>4 DEF Whole, IsDirectory
  <2>2. Form[op.n].longs \in Nat /\ nr \in Nat \ {0} /\ MaxSlots \in Nat
    BY <1>3, LongsNat, SizeAssumption
  <2>3. first \in 1..Len(v) + 1 /\ first \in Nat \ {0}
    BY <1>7, <2>1, <2>2, FreeRunIn
  <2>4. Attr \in {"file", "dir"} /\ alias \in ShortTexts
    BY <1>3, <1>7, AliasIn DEF Attr
  <2>5. Built(slots, op.n, op.start)
    BY <2>4 DEF Built
  <2>6. Len(slots) = nr
    BY <1>3, <2>5, BuiltIs
  <2>7. \A i \in first..first + Len(slots) - 1 : i \in DOMAIN v => IsFree(v[i])
    <3> SUFFICES ASSUME NEW i \in first..first + Len(slots) - 1, i \in DOMAIN v
                 PROVE  IsFree(v[i])
      OBVIOUS
    <3>1. first <= i /\ i < first + nr
      BY <2>2, <2>3, <2>6
    <3> QED BY <1>7, <2>1, <2>2, <3>1, FreeRunFree
  <2> HIDE DEF first, slots
  <2>8. Begun(v, first, slots)
    BY <1>3, <1>4, <2>3, <2>5, <2>7, BegunFree
  <2>9. /\ op'.pc = "fill" /\ op'.first = first /\ op'.slots = slots /\ op'.sync = {}
        /\ op'.call = op.call /\ op'.d = op.d /\ op'.n = op.n /\ op'.i = op.i /\ op'.over = op.over
        /\ op'.start = op.start /\ op'.old = op.old /\ op'.grown = op.grown
        /\ op'.after = op.after /\ op'.undoing = op.undoing
    BY <1>2, <1>7 DEF Resolved, OpFields
  <2>10. IsChain(fat, op.d, ChainOf(fat, op.d)) /\ LenOf(fat, op.d) = Len(v)
    <3>1. op.d \in HeadsOf("build", op, ino)
      BY <1>2, <1>3, DirsHeads DEF Resolved, Typed
    <3>2. IsChain(fat, op.d, ChainOf(fat, op.d))
      BY <1>2, <3>1 DEF Sound, Owned, Chains
    <3> QED BY <3>2, ViewIs
  <2>11. PendingOf("fill", op') = PendingOf("build", op) /\ GrownOf("fill", op') = {}
    BY <1>3, <2>9 DEF PendingOf, GrownOf, Rests
  <2>12. Owned("fill", op', fat, ino)
    BY <1>2, <2>11, OwnedFewer DEF Sound
  <2>13. Knows("fill", op', fat, ino)
    BY <1>2, <2>3, <2>5, <2>9, <2>10 DEF Sound, Knows, Labels, Fill, Adds, Moves, Cuts, Rests
  <2>14. WholeOnes("fill", op', DirsOf(ino)) \subseteq WholeOnes("build", op, DirsOf(ino))
    BY <2>9, <2>11 DEF WholeOnes, Fill, Adds
  <2>15. Adding("fill", op', fat, buf)
    BY <2>8, <2>9 DEF Adding
  <2>16. Cutting("fill", op', fat, buf, DirsOf(ino))
    BY DEF Cutting
  <2>17. Renaming("fill", op', fat, buf, DirsOf(ino))
    BY <1>2, <2>9 DEF Sound, Fit, Renaming, Adds, Moves
  <2>18. Sound("fill", op', fat, buf, ino)
    BY <1>2, <2>12, <2>13, <2>14, <2>15, <2>16, <2>17 DEF Sound, Fit
  <2>19. Core(op', fat, buf, disk, ino)
    BY <1>2, <2>9, <2>18, NoSyncs DEF Resolved
  <2> QED BY <1>1, <2>19
<1> QED BY <1>5, <1>6, <1>7

-----------------------------------------------------------------------------
(* Steps that change the operation only.                                    *)
LEMMA KeptCore == ASSUME Sane, Kept  PROVE Core(op', fat', buf', disk', ino')
<1>1. op.pc = "kept" /\ fat' = fat /\ buf' = buf /\ disk' = disk /\ ino' = ino
  BY DEF Kept, volume
<1>2. Resolved /\ Sound("kept", op, fat, buf, ino)
  BY <1>1, Calm DEF Resolved
<1>3. CASE op.call # "rename"
  <2>1. Sound("refused", op, fat, buf, ino)
    BY <1>2, RefusedSound DEF Rests, Fill
  <2> QED BY <1>1, <1>2, <1>3, <2>1, GotoCore DEF Kept
<1>4. CASE op.call = "rename"
  <2> DEFINE then == "undo_dotdot"
  <2>1. PendingOf(then, op) = PendingOf("kept", op) /\ GrownOf(then, op) = {}
    BY DEF PendingOf, GrownOf, Rests
  <2>2. Owned(then, op, fat, ino)
    BY <1>2, <2>1, OwnedFewer DEF Sound
  <2>3. Knows(then, op, fat, ino)
    BY <1>2, <1>4 DEF Sound, Knows, Labels, Fill, Adds, Moves, Cuts, Rests
  <2>4. WholeOnes(then, op, DirsOf(ino)) \subseteq WholeOnes("kept", op, DirsOf(ino))
    BY DEF WholeOnes, Fill, Adds
  <2>5. Adding(then, op, fat, buf) /\ Cutting(then, op, fat, buf, DirsOf(ino))
    BY DEF Adding, Cutting, Fill
  <2>6. Renaming(then, op, fat, buf, DirsOf(ino))
    BY <1>2, <1>4 DEF Sound, Fit, Renaming, Adds, Moves
  <2>7. Sound(then, op, fat, buf, ino)
    BY <1>2, <2>2, <2>3, <2>4, <2>5, <2>6 DEF Sound, Fit
  <2> QED BY <1>1, <1>2, <1>4, <2>7, GotoCore DEF Kept
<1> QED BY <1>3, <1>4

(* The old entry of a rename is removed now.                                *)
Leaves == op' = [op EXCEPT !.pc = "rm", !.cut = op.old]
LEMMA LeavesCore ==
    ASSUME Resolved, op.pc \in {"dotdot", "count"}, Leaves,
           fat' = fat, buf' = buf, disk' = disk, ino' = ino
    PROVE  Core(op', fat', buf', disk', ino')
<1> DEFINE l == op.pc
<1>1. Sound(l, op, fat, buf, ino) /\ l \in Moves /\ l \notin Rests \cup Fill \cup Adds \cup Cuts
  BY DEF Resolved, Moves, Rests, Fill, Adds, Cuts
<1>2. op.call = "rename" /\ ~op.undoing /\ op.after = None
  BY <1>1 DEF Sound, Knows, Moves
<1>3. /\ op'.pc = "rm" /\ op'.cut = op.old /\ op'.call = op.call /\ op'.d = op.d /\ op'.n = op.n
      /\ op'.i = op.i /\ op'.over = op.over /\ op'.start = op.start /\ op'.slots = op.slots
      /\ op'.first = op.first /\ op'.old = op.old /\ op'.new = op.new /\ op'.after = op.after
      /\ op'.undoing = op.undoing /\ op'.grown = op.grown /\ op'.sync = {}
  BY DEF Leaves, Resolved, OpFields
<1>4. PendingOf("rm", op') = PendingOf(l, op) /\ GrownOf("rm", op') = {}
  BY <1>1, <1>3 DEF PendingOf, GrownOf, Rests
<1>5. Owned("rm", op', fat, ino)
  BY <1>1, <1>4, OwnedFewer DEF Sound
<1>6. Knows("rm", op', fat, ino)
  BY <1>1, <1>2, <1>3 DEF Sound, Knows, Labels, Fill, Adds, Moves, Cuts, Rests
<1>7. WholeOnes("rm", op', DirsOf(ino)) \subseteq WholeOnes(l, op, DirsOf(ino))
  BY <1>1 DEF WholeOnes, Fill, Adds, Cuts
<1>8. Adding("rm", op', fat, buf)
  BY DEF Adding, Fill
<1>9. Stands(op.old, fat, buf, DirsOf(ino))
  BY <1>1, <1>2 DEF Sound, Fit, Renaming
<1>10. Cutting("rm", op', fat, buf, DirsOf(ino))
  BY <1>3, <1>9 DEF Cutting
<1>11. op.over = None => Stands(op.new, fat, buf, DirsOf(ino))
  BY <1>1, <1>2 DEF Sound, Fit, Renaming
<1>12. Renaming("rm", op', fat, buf, DirsOf(ino))
  BY <1>3, <1>11 DEF Renaming, Adds, Moves
<1>13. Sound("rm", op', fat, buf, ino)
  BY <1>1, <1>5, <1>6, <1>7, <1>8, <1>10, <1>12 DEF Sound, Fit
<1>14. Core(op', fat, buf, disk, ino)
  BY <1>3, <1>13, NoSyncs DEF Resolved
<1> QED BY <1>14

LEMMA CountCore == ASSUME Sane, Count  PROVE Core(op', fat', buf', disk', ino')
<1>1. /\ op.pc = "count" /\ fat' = fat /\ buf' = buf /\ disk' = disk /\ ino' = ino
      /\ op' = [op EXCEPT !.pc = "rm", !.cut = op.old]
  BY DEF Count, volume
<1> QED BY <1>1, Calm, LeavesCore DEF Leaves

(* The rest of an operation is to free slots.                               *)
LEMMA ClearingIs ==
    ASSUME Shape, NEW d, NEW from, NEW to, NEW after, NEW o, o = Clearing(d, from, to, after)
    PROVE  /\ o.pc = "clear" /\ o.cut.d = d /\ o.from = from /\ o.to = to /\ o.after = after
           /\ o.call = op.call /\ o.d = op.d /\ o.n = op.n /\ o.i = op.i /\ o.over = op.over
           /\ o.start = op.start /\ o.slots = op.slots /\ o.first = op.first
           /\ o.old = op.old /\ o.new = op.new /\ o.undoing = op.undoing
           /\ o.grown = op.grown /\ o.sync = op.sync
  BY DEF Shape, Clearing, OpFields, InfoFields

LEMMA CutFirstIs == CutFirst = CutFirstOf(op, fat)
  BY PlaceNow DEF CutFirst, CutFirstOf, CutSlots, SameBlock, BlockAt

LEMMA RemoveLongsCore == ASSUME Sane, RemoveLongs  PROVE Core(op', fat', buf', disk', ino')
<1> DEFINE p == op.cut.at - op.cut.longs
           to == op.cut.at - Cardinality(CutFirst)
           after == IF op.undoing THEN "refused" ELSE "removed"
<1>1. /\ op.pc = "cleared" /\ fat' = fat /\ buf' = buf /\ disk' = disk /\ ino' = ino
      /\ op' = Clearing(op.cut.d, p, to, after)
  BY DEF RemoveLongs, volume
<1>2. Resolved /\ Sound("cleared", op, fat, buf, ino)
  BY <1>1, Calm DEF Resolved
<1>3. Removing(ViewOf(fat, buf, op.cut.d), p, op.cut.at, p, to)
  BY <1>2, CutFirstIs DEF Sound, Fit, Cutting
<1> HIDE DEF p, to
<1>4. /\ op'.pc = "clear" /\ op'.cut.d = op.cut.d /\ op'.from = p /\ op'.to = to
      /\ op'.after = after /\ op'.call = op.call /\ op'.d = op.d /\ op'.n = op.n
      /\ op'.i = op.i /\ op'.over = op.over /\ op'.start = op.start /\ op'.old = op.old
      /\ op'.new = op.new /\ op'.undoing = op.undoing /\ op'.grown = op.grown /\ op'.sync = {}
  BY <1>1, <1>2, ClearingIs DEF Sane, Resolved
<1>5. PendingOf("clear", op') = PendingOf("cleared", op) /\ GrownOf("clear", op') = {}
  BY <1>4 DEF PendingOf, GrownOf, Rests
<1>6. Owned("clear", op', fat, ino)
  BY <1>2, <1>5, OwnedFewer DEF Sound
<1>7. Knows("clear", op', fat, ino)
  BY <1>2, <1>4 DEF Sound, Knows, Labels, Fill, Adds, Moves, Cuts, Rests
<1>8. WholeOnes("clear", op', DirsOf(ino)) \subseteq WholeOnes("cleared", op, DirsOf(ino))
  BY <1>4 DEF WholeOnes, Fill, Adds
<1>9. Adding("clear", op', fat, buf)
  BY DEF Adding, Fill
<1>10. p \in Nat /\ op.cut.at \in Nat
  BY <1>3 DEF Removing, Run
<1>11. Cutting("clear", op', fat, buf, DirsOf(ino))
  BY <1>3, <1>4, <1>10 DEF Cutting
<1>12. Renaming("clear", op', fat, buf, DirsOf(ino))
  BY DEF Renaming, Adds, Moves
<1>13. Sound("clear", op', fat, buf, ino)
  BY <1>2, <1>6, <1>7, <1>8, <1>9, <1>11, <1>12 DEF Sound, Fit
<1>14. Core(op', fat, buf, disk, ino)
  BY <1>2, <1>4, <1>13, NoSyncs DEF Resolved
<1> QED BY <1>1, <1>14

(* All is freed.                                                            *)
LEMMA ClearedCore ==
    ASSUME Sane, Clear, op.from > op.to
    PROVE  Core(op', fat', buf', disk', ino')
<1> DEFINE then == op.after
<1>1. /\ op.pc = "clear" /\ fat' = fat /\ buf' = buf /\ disk' = disk /\ ino' = ino
      /\ Goto(then)
  BY DEF Clear
<1>2. Resolved /\ Sound("clear", op, fat, buf, ino)
  BY <1>1, Calm DEF Resolved
<1>3. then \in {"refused", "removed"} /\ op.cut.d \in DirsOf(ino)
  BY <1>2 DEF Sound, Knows
<1>4. PICK p, q \in Nat : Removing(ViewOf(fat, buf, op.cut.d), p, q, op.from, op.to)
  BY <1>2 DEF Sound, Fit, Cutting
<1>5. IsDirectory(ViewOf(fat, buf, op.cut.d))
  BY <1>2, <1>3, DirsHeads, SoundDirectory DEF Sound, Resolved, Typed
<1>6. Whole(ViewOf(fat, buf, op.cut.d))
  BY <1>4, <1>5, RemovingDone
<1>7. PendingOf(then, op) = PendingOf("clear", op) /\ GrownOf(then, op) = {}
  BY <1>3 DEF PendingOf, GrownOf, Rests
<1>8. Owned(then, op, fat, ino)
  BY <1>2, <1>7, OwnedFewer DEF Sound
<1>9. Knows(then, op, fat, ino)
  BY <1>2, <1>3 DEF Sound, Knows, Labels, Fill, Adds, Moves, Cuts, Rests
<1>10. WholeOnes(then, op, DirsOf(ino)) \subseteq
           WholeOnes("clear", op, DirsOf(ino)) \cup {op.cut.d}
  BY <1>3 DEF WholeOnes, Fill, Adds
<1>11. Adding(then, op, fat, buf) /\ Cutting(then, op, fat, buf, DirsOf(ino))
       /\ Renaming(then, op, fat, buf, DirsOf(ino))
  BY <1>3 DEF Adding, Cutting, Renaming, Fill, Adds, Moves
<1>12. \A d \in WholeOnes(then, op, DirsOf(ino)) : Whole(ViewOf(fat, buf, d))
  BY <1>2, <1>6, <1>10 DEF Sound, Fit
<1>13. Sound(then, op, fat, buf, ino)
  BY <1>8, <1>9, <1>11, <1>12 DEF Sound, Fit
<1> QED BY <1>1, <1>2, <1>13, GotoCore

-----------------------------------------------------------------------------
(* An operation begins and ends.                                            *)
LEMMA RestSound ==
    ASSUME NEW o, NEW t, NEW dev, NEW in, NEW label, Sound(label, o, t, dev, in),
           label \notin Fill \cup {"cleared", "clear"},
           NEW r, NEW rest \in Rests, r.start \in {None, o.start}, r.grown \in {None, o.grown},
           r.call = o.call \/ (r.start = None /\ ~r.undoing), r.undoing => o.undoing
    PROVE  Sound(rest, r, t, dev, in)
<1>1. PendingOf(rest, r) = {} /\ GrownOf(rest, r) = {}
  BY DEF PendingOf, GrownOf, Rests
<1>2. Owned(rest, r, t, in)
  BY <1>1, OwnedFewer DEF Sound
<1>3. Knows(rest, r, t, in)
  BY DEF Sound, Knows, Labels, Fill, Adds, Moves, Cuts, Rests
<1>4. WholeOnes(rest, r, DirsOf(in)) \subseteq WholeOnes(label, o, DirsOf(in))
  BY DEF WholeOnes, Fill, Adds, Rests
<1>5. Adding(rest, r, t, dev) /\ Cutting(rest, r, t, dev, DirsOf(in))
      /\ Renaming(rest, r, t, dev, DirsOf(in))
  BY DEF Adding, Cutting, Renaming, Fill, Adds, Moves, Rests
<1> QED BY <1>2, <1>3, <1>4, <1>5 DEF Sound, Fit

LEMMA RestingIs ==
    /\ Resting.pc = "idle" /\ Resting.start = None /\ Resting.grown = None /\ Resting.sync = {}
    /\ ~Resting.undoing /\ Resting.after = None /\ Resting.over = None /\ DOMAIN Resting = OpFields
    /\ DOMAIN Resting.old = InfoFields /\ DOMAIN Resting.new = InfoFields
    /\ DOMAIN Resting.cut = InfoFields
  BY DEF Resting, NoInfo, OpFields, InfoFields

LEMMA ReturnCore == ASSUME Sane, Return  PROVE Core(op', fat', buf', disk', ino')
<1>1. /\ op.pc \in {"ok", "error"} /\ op' = Resting
      /\ fat' = fat /\ buf' = buf /\ disk' = disk /\ ino' = ino
  BY DEF Return, volume
<1>2. Resolved /\ Sound(op.pc, op, fat, buf, ino)
  BY <1>1, Calm DEF Resolved
<1>3. Sound("idle", Resting, fat, buf, ino)
  BY <1>1, <1>2, RestingIs, RestSound DEF Rests, Fill
<1>4. Core(Resting, fat, buf, disk, ino)
  BY <1>2, <1>3, RestingIs, NoSyncs DEF Resolved
<1> QED BY <1>1, <1>4

LEMMA DirsNow == Dirs = DirsOf(ino)
  BY DEF Dirs, DirsOf, Linked

LEMMA StandsPoints ==
    ASSUME NEW label, NEW o, NEW t, NEW dev, NEW in, Owned(label, o, t, in), Device(dev),
           Nodes(in), NEW x, Stands(x, t, dev, DirsOf(in))
    PROVE  Points(x, t, DirsOf(in)) /\ x.at \in Nat /\ x.longs \in Nat
<1> DEFINE v == ViewOf(t, dev, x.d)
<1>1. x.d \in DirsOf(in) /\ Has(v, x)
  BY DEF Stands
<1>2. IsChain(t, x.d, ChainOf(t, x.d)) /\ IsDirectory(v)
  BY <1>1, DirsHeads, SoundDirectory
<1>3. PICK r \in Standing(v) : r.at = x.at /\ r.longs = x.longs
  BY <1>1 DEF Has
<1>4. r.at \in 1..Len(v) /\ Len(v) = LenOf(t, x.d) /\ Len(v) \in Nat
  BY <1>2, StandingAt, ViewIs
<1>5. r.longs \in Nat
  BY <1>3 DEF Standing, LongNamed, PlainAt, MaxLongs
<1> QED BY <1>1, <1>3, <1>4, <1>5 DEF Points

LEMMA FirstIn ==
    ASSUME NEW v, Whole(v), NEW all, all \subseteq Records(v), all # {}  PROVE FirstOf(all) \in all
<1>1. all \subseteq Standing(v) /\ IsDirectory(v)
  BY WholeTidy
<1>2. \A q \in all : q.at \in Nat
  BY <1>1, StandingAt DEF IsDirectory
<1> DEFINE ats == {q.at : q \in all}
<1>3. ats \subseteq Nat /\ ats # {}
  BY <1>2
<1> HIDE DEF ats
<1>4. PICK k \in ats : \A m \in ats : k <= m
  BY <1>3, Least
<1>5. \E q \in all : \A s \in all : q.at <= s.at
  BY <1>4 DEF ats
<1> QED BY <1>5 DEF FirstOf

(* What the VFS knows of a name.                                            *)
LEMMA DentryKnown ==
    ASSUME Sane, op.pc = "idle", NEW e \in Dentries
    PROVE  /\ e.d \in DirsOf(ino) /\ e.n \in Names
           /\ e.obj # None => /\ e.obj \in Inodes /\ ino[e.obj] # None
                              /\ Stands(e.info, fat, buf, DirsOf(ino)) /\ e.info.d = e.d
<1>1. PICK d \in Dirs : \E n \in setup.names : e = Dentry(d, View(buf, d), Records(View(buf, d)), n)
  BY DEF Dentries
<1>2. PICK n \in setup.names : e = Dentry(d, View(buf, d), Records(View(buf, d)), n)
  BY <1>1
<1> DEFINE v == View(buf, d)
           all == {r \in Records(v) : Answers(v, r, n)}
           r == FirstOf(all)
<1>3. Resolved /\ Sound("idle", op, fat, buf, ino)
  BY Calm DEF Resolved
<1>4. d \in DirsOf(ino) /\ n \in Names
  BY DirsNow, SetupAssumption DEF Sane, Shape
<1>5. Whole(v)
  BY <1>3, <1>4, DirWhole, ViewNow DEF Fill
<1>6. CASE <<d, n>> \in neg \/ all = {}
  <2>1. e = [d |-> d, n |-> n, info |-> NoInfo, obj |-> None]
    BY <1>2, <1>6 DEF Dentry
  <2> QED BY <1>4, <2>1
<1>7. CASE ~(<<d, n>> \in neg \/ all = {})
  <2>1. e = [d |-> d, n |-> n, info |-> [d |-> d, at |-> r.at, longs |-> r.longs],
             obj |-> ObjectAt(Place(d, r.at))]
    BY <1>2, <1>7 DEF Dentry
  <2>2. all \subseteq Standing(v) /\ all # {}
    BY <1>5, <1>7, WholeTidy
  <2>3. IsDirectory(v)
    BY <1>5 DEF Whole
  <2> HIDE DEF v, all
  <2>4. all \subseteq Records(v)
    BY DEF all
  <2>5. r \in all
    BY <1>5, <2>2, <2>4, FirstIn
  <2>6. Has(v, e.info)
    BY <2>1, <2>2, <2>5 DEF Has
  <2>7. Stands(e.info, fat, buf, DirsOf(ino)) /\ e.info.d = e.d
    BY <1>4, <2>1, <2>6, ViewNow DEF Stands, v
  <2>8. e.obj # None => e.obj \in Inodes /\ ino[e.obj] # None
    BY <2>1 DEF ObjectAt, At
  <2> QED BY <1>4, <2>1, <2>7, <2>8
<1> QED BY <1>6, <1>7

LEMMA AddsOne == ASSUME Shape, MayAdd  PROVE \E i \in Inodes : ino[i] = None
<1> SUFFICES ASSUME \A i \in Inodes : ino[i] # None  PROVE FALSE
  OBVIOUS
<1>1. Inodes \ Unused = Inodes
  BY DEF Unused
<1>2. setup.files \in 0..Cardinality(Inodes) /\ Cardinality(Inodes) \in Nat
  BY SetupAssumption, TableAssumption, FS_CardinalityType DEF Shape
<1> QED BY <1>1, <1>2 DEF MayAdd

LEMMA BeginsCore ==
    ASSUME Sane, op.pc = "idle", fat' = fat, buf' = buf, disk' = disk, ino' = ino,
           op'.sync = {}, op'.start = None, op'.grown = None,
           NEW label \in {"build", "rm", "refused", "move"}, op'.pc = label,
           Knows(label, op', fat, ino), Cutting(label, op', fat, buf, DirsOf(ino)),
           Renaming(label, op', fat, buf, DirsOf(ino))
    PROVE  Core(op', fat', buf', disk', ino')
<1>1. Resolved /\ Sound("idle", op, fat, buf, ino)
  BY Calm DEF Resolved
<1>2. PendingOf(label, op') = {} /\ GrownOf(label, op') = {}
  BY DEF PendingOf, GrownOf
<1>3. Owned(label, op', fat, ino)
  BY <1>1, <1>2, OwnedFewer DEF Sound
<1>4. WholeOnes(label, op', DirsOf(ino)) \subseteq WholeOnes("idle", op, DirsOf(ino))
  BY <1>2 DEF WholeOnes, Fill, Adds
<1>5. Adding(label, op', fat, buf)
  BY DEF Adding, Fill
<1>6. Sound(label, op', fat, buf, ino)
  BY <1>1, <1>3, <1>4, <1>5 DEF Sound, Fit
<1>7. label # "sync"
  OBVIOUS
<1>8. Core(op', fat, buf, disk, ino)
  BY <1>1, <1>6, <1>7, NoSyncs DEF Resolved
<1> QED BY <1>8

LEMMA CreateCore ==
    ASSUME Sane, NEW e \in Dentries, Create(e)  PROVE Core(op', fat', buf', disk', ino')
<1>1. /\ op.pc = "idle" /\ MayAdd /\ fat' = fat /\ buf' = buf /\ disk' = disk /\ ino' = ino
      /\ op' = [Resting EXCEPT !.pc = "build", !.call = "create", !.d = e.d, !.n = e.n]
  BY DEF Create, Idle, Ask, volume
<1>2. /\ op'.pc = "build" /\ op'.call = "create" /\ op'.d = e.d /\ op'.n = e.n
      /\ op'.over = None /\ op'.start = None /\ op'.after = None /\ ~op'.undoing
      /\ op'.grown = None /\ op'.sync = {}
  BY <1>1 DEF Resting
<1>3. e.d \in DirsOf(ino) /\ e.n \in Names
  BY <1>1, DentryKnown
<1>4. Knows("build", op', fat, ino)
  BY <1>1, <1>2, <1>3, AddsOne DEF Sane, Knows, Labels, Fill, Adds, Moves, Cuts, Rests
<1>5. Cutting("build", op', fat, buf, DirsOf(ino)) /\ Renaming("build", op', fat, buf, DirsOf(ino))
  BY <1>2 DEF Cutting, Renaming
<1> QED BY <1>1, <1>2, <1>4, <1>5, BeginsCore

LEMMA UnlinkCore ==
    ASSUME Sane, NEW e \in Dentries, Unlink(e) \/ Rmdir(e)  PROVE Core(op', fat', buf', disk', ino')
<1>1. /\ op.pc = "idle" /\ fat' = fat /\ buf' = buf /\ disk' = disk /\ ino' = ino /\ e.obj # None
      /\ \E pc \in {"rm", "refused"}, call \in {"unlink", "rmdir"} :
            op' = [Resting EXCEPT !.pc = pc, !.call = call, !.d = e.d, !.n = e.n, !.i = e.obj,
                                  !.cut = e.info]
  BY DEF Unlink, Rmdir, Idle, Ask, volume
<1>2. PICK label \in {"rm", "refused"} :
          \E call \in {"unlink", "rmdir"} :
            op' = [Resting EXCEPT !.pc = label, !.call = call, !.d = e.d, !.n = e.n, !.i = e.obj,
                                  !.cut = e.info]
  BY <1>1
<1>3. /\ op'.pc = label /\ op'.call \in {"unlink", "rmdir"} /\ op'.d = e.d /\ op'.n = e.n
      /\ op'.i = e.obj /\ op'.cut = e.info
      /\ op'.over = None /\ op'.start = None /\ op'.after = None /\ ~op'.undoing
      /\ op'.grown = None /\ op'.sync = {}
  BY <1>2 DEF Resting
<1>4. /\ e.d \in DirsOf(ino) /\ e.n \in Names /\ e.obj \in Inodes /\ ino[e.obj] # None
      /\ Stands(e.info, fat, buf, DirsOf(ino))
  BY <1>1, DentryKnown
<1>5. Knows(label, op', fat, ino)
  BY <1>3, <1>4 DEF Knows, Labels, Fill, Adds, Moves, Cuts, Rests
<1>6. Cutting(label, op', fat, buf, DirsOf(ino)) /\ Renaming(label, op', fat, buf, DirsOf(ino))
  BY <1>3, <1>4 DEF Cutting, Renaming
<1> QED BY <1>1, <1>3, <1>5, <1>6, BeginsCore

LEMMA RenameCore ==
    ASSUME Sane, NEW o \in Dentries, NEW e \in Dentries, Rename(o, e)
    PROVE  Core(op', fat', buf', disk', ino')
<1>1. /\ op.pc = "idle" /\ fat' = fat /\ buf' = buf /\ disk' = disk /\ ino' = ino /\ o.obj # None
      /\ \E pc \in {"build", "refused", "move"} :
            /\ pc = "build" <=> e.obj = None
            /\ op' = [Resting EXCEPT !.pc = pc, !.call = "rename", !.d = e.d, !.n = e.n,
                                  !.i = o.obj, !.over = e.obj, !.old = o.info, !.new = e.info]
  <2>1. /\ op.pc = "idle" /\ fat' = fat /\ buf' = buf /\ disk' = disk /\ ino' = ino /\ o.obj # None
        /\ op' = [Resting EXCEPT !.pc = IF e.obj = None THEN "build"
                                  ELSE IF ino[o.obj].dir /\ ~EmptyDir(e.obj) THEN "refused"
                                  ELSE "move", !.call = "rename", !.d = e.d, !.n = e.n,
                                  !.i = o.obj, !.over = e.obj, !.old = o.info, !.new = e.info]
    BY DEF Rename, Idle, Ask, volume
  <2> QED BY <2>1
<1>2. PICK label \in {"build", "refused", "move"} :
            /\ label = "build" <=> e.obj = None
            /\ op' = [Resting EXCEPT !.pc = label, !.call = "rename", !.d = e.d, !.n = e.n,
                                  !.i = o.obj, !.over = e.obj, !.old = o.info, !.new = e.info]
  BY <1>1
<1>3. /\ op'.pc = label /\ op'.call = "rename" /\ op'.d = e.d /\ op'.n = e.n
      /\ op'.i = o.obj /\ op'.over = e.obj /\ op'.old = o.info /\ op'.new = e.info
      /\ op'.start = None /\ op'.after = None /\ ~op'.undoing
      /\ op'.grown = None /\ op'.sync = {}
  BY <1>2 DEF Resting
<1>4. /\ e.d \in DirsOf(ino) /\ e.n \in Names /\ o.obj \in Inodes /\ ino[o.obj] # None
      /\ Stands(o.info, fat, buf, DirsOf(ino))
      /\ e.obj # None => e.obj \in Inodes /\ ino[e.obj] # None /\ Stands(e.info, fat, buf, DirsOf(ino))
  BY <1>1, DentryKnown
<1>5. Resolved /\ Sound("idle", op, fat, buf, ino)
  BY <1>1, Calm DEF Resolved
<1>6. /\ Points(o.info, fat, DirsOf(ino))
      /\ e.obj # None => Points(e.info, fat, DirsOf(ino))
  BY <1>4, <1>5, StandsPoints DEF Sound, Resolved, Typed
<1>7. Knows(label, op', fat, ino)
  BY <1>2, <1>3, <1>4, <1>6 DEF Knows, Labels, Fill, Adds, Moves, Cuts, Rests
<1>8. Cutting(label, op', fat, buf, DirsOf(ino)) /\ Renaming(label, op', fat, buf, DirsOf(ino))
  BY <1>2, <1>3, <1>4 DEF Cutting, Renaming, Moves
<1> QED BY <1>1, <1>3, <1>7, <1>8, BeginsCore

-----------------------------------------------------------------------------
(* Steps that change inodes.  Where an inode has its entry and if it is     *)
(* dirty does not matter to the directories.                                *)
Akin(in, kin) ==
    /\ Nodes(kin)
    /\ \A i \in Inodes : /\ kin[i] = None <=> in[i] = None
                         /\ in[i] # None => /\ kin[i].start = in[i].start
                                            /\ kin[i].dir = in[i].dir /\ kin[i].linked = in[i].linked

LEMMA AkinSame ==
    ASSUME NEW in, NEW kin, Akin(in, kin)
    PROVE  StartsOf(kin) = StartsOf(in) /\ DirsOf(kin) = DirsOf(in)
<1>1. {j \in Inodes : kin[j] # None} = {j \in Inodes : in[j] # None}
  BY DEF Akin
<1>2. {j \in Inodes : kin[j] # None /\ kin[j].linked /\ kin[j].dir}
      = {j \in Inodes : in[j] # None /\ in[j].linked /\ in[j].dir}
  BY DEF Akin
<1>3. StartsOf(kin) = StartsOf(in)
  BY <1>1 DEF StartsOf, Akin
<1>4. DirsOf(kin) = DirsOf(in)
  BY <1>2 DEF DirsOf, Akin
<1> QED BY <1>3, <1>4

LEMMA AkinSound ==
    ASSUME NEW in, NEW kin, Akin(in, kin),
           NEW label, NEW o, NEW t, NEW dev, Sound(label, o, t, dev, in)
    PROVE  Sound(label, o, t, dev, kin)
<1>1. StartsOf(kin) = StartsOf(in) /\ DirsOf(kin) = DirsOf(in)
  BY AkinSame
<1>2. HeadsOf(label, o, kin) = HeadsOf(label, o, in)
  BY <1>1 DEF HeadsOf
<1>3. Owned(label, o, t, kin)
  BY <1>1, <1>2 DEF Sound, Owned, Akin
<1>4. Knows(label, o, t, kin)
  BY <1>1 DEF Sound, Knows, Akin
<1> QED BY <1>1, <1>3, <1>4 DEF Sound

(* An operation ends, and inodes come into use or out of it.                *)
LEMMA EndsCore ==
    ASSUME Resolved, NEW label \in Labels, op.pc = label, label \notin Fill \cup {"cleared", "clear"},
           Goto("ok"), fat' = fat, buf' = buf, disk' = disk, Nodes(ino'),
           StartsOf(ino') \subseteq HeadsOf(label, op, ino), Root \notin StartsOf(ino'),
           \A i, j \in Inodes : ino'[i] # None /\ ino'[j] # None /\ ino'[i].start = ino'[j].start
                                /\ ino'[i].start # None => i = j,
           DirsOf(ino') \subseteq WholeOnes(label, op, DirsOf(ino))
    PROVE  Core(op', fat', buf', disk', ino')
<1>1. Sound(label, op, fat, buf, ino)
  BY DEF Resolved
<1>2. Same(op, op') /\ op'.pc = "ok" /\ op'.sync = {}
  BY GotoIs DEF Resolved
<1>3. PendingOf("ok", op) = {} /\ GrownOf("ok", op) = {}
  BY DEF PendingOf, GrownOf, Rests
<1>4. HeadsOf("ok", op, ino') \subseteq HeadsOf(label, op, ino)
  BY <1>3 DEF HeadsOf
<1>5. Chains(fat, HeadsOf("ok", op, ino'))
  BY <1>1, <1>4, ChainsFewer DEF Sound, Owned
<1>6. Owned("ok", op, fat, ino')
  BY <1>3, <1>5 DEF Owned
<1>7. Knows("ok", op, fat, ino')
  BY <1>1 DEF Sound, Knows, Labels, Fill, Adds, Moves, Cuts, Rests
<1>8. WholeOnes("ok", op, DirsOf(ino')) \subseteq WholeOnes(label, op, DirsOf(ino))
  BY DEF WholeOnes, Fill, Adds
<1>9. /\ Adding("ok", op, fat, buf) /\ Cutting("ok", op, fat, buf, DirsOf(ino'))
      /\ Renaming("ok", op, fat, buf, DirsOf(ino'))
  BY DEF Adding, Cutting, Renaming, Fill, Adds, Moves
<1>10. Sound("ok", op, fat, buf, ino')
  BY <1>1, <1>6, <1>7, <1>8, <1>9 DEF Sound, Fit
<1>11. Sound("ok", op', fat, buf, ino')
  BY <1>2, <1>10, SoundSame
<1>12. Typed(fat, buf, disk, ino')
  BY DEF Resolved, Typed
<1>13. Core(op', fat, buf, disk, ino')
  BY <1>2, <1>11, <1>12, NoSyncs DEF Resolved
<1> QED BY <1>13

LEMMA RemovedCore == ASSUME Sane, Removed  PROVE Core(op', fat', buf', disk', ino')
<1>1. /\ op.pc = "removed" /\ op.call \in {"unlink", "rmdir"} /\ Goto("ok")
      /\ fat' = fat /\ buf' = buf /\ disk' = disk
      /\ ino' = [ino EXCEPT ![op.i].pos = None, ![op.i].linked = FALSE]
  BY DEF Removed, Done, volume
<1>2. Resolved /\ Sound("removed", op, fat, buf, ino)
  BY <1>1, Calm DEF Resolved
<1>3. op.i \in Inodes /\ ino[op.i] # None
  BY <1>1, <1>2 DEF Sound, Knows, Rests
<1>4. Nodes(ino)
  BY <1>2 DEF Resolved, Typed
<1>5. ino[op.i] \in Inode
  BY <1>3, <1>4 DEF Nodes
<1>6. /\ ino'[op.i] \in Inode /\ ino'[op.i].start = ino[op.i].start /\ ino'[op.i].dir = ino[op.i].dir
      /\ ~ino'[op.i].linked /\ ino'[op.i] # None
      /\ \A i \in Inodes : i # op.i => ino'[i] = ino[i]
      /\ ino' \in [Inodes -> Inode \cup {None}]
  BY <1>1, <1>3, <1>4, <1>5, InodeAssumption DEF Nodes, Inode
<1>7. Nodes(ino')
  BY <1>3, <1>4, <1>6 DEF Nodes
<1>8. StartsOf(ino') \subseteq StartsOf(ino)
  BY <1>3, <1>6 DEF StartsOf
<1>9. DirsOf(ino') \subseteq DirsOf(ino)
  BY <1>3, <1>6 DEF DirsOf
<1>10. "removed" \in Labels /\ "removed" \notin Fill \cup {"cleared", "clear"}
  BY DEF Labels, Fill
<1>11. /\ StartsOf(ino') \subseteq HeadsOf("removed", op, ino) /\ Root \notin StartsOf(ino')
       /\ DirsOf(ino') \subseteq WholeOnes("removed", op, DirsOf(ino))
  BY <1>2, <1>8, <1>9, <1>10 DEF HeadsOf, Sound, Owned, WholeOnes
<1>12. \A i \in Inodes : ino'[i] # None => ino[i] # None /\ ino'[i].start = ino[i].start
  BY <1>3, <1>6
<1>13. \A i, j \in Inodes : ino'[i] # None /\ ino'[j] # None /\ ino'[i].start = ino'[j].start
                            /\ ino'[i].start # None => i = j
  BY <1>2, <1>12 DEF Sound, Owned
<1> QED BY <1>1, <1>2, <1>7, <1>10, <1>11, <1>13, EndsCore

LEMMA RenamedCore == ASSUME Sane, Renamed  PROVE Core(op', fat', buf', disk', ino')
<1>1. /\ op.pc = "removed" /\ op.call = "rename" /\ Goto("ok")
      /\ fat' = fat /\ buf' = buf /\ disk' = disk
      /\ ino' = IF op.over = None THEN ino ELSE [ino EXCEPT ![op.over].linked = FALSE]
  BY DEF Renamed, Done, volume
<1>2. Resolved /\ Sound("removed", op, fat, buf, ino)
  BY <1>1, Calm DEF Resolved
<1>3. op.over # None => op.over \in Inodes /\ ino[op.over] # None
  BY <1>1, <1>2 DEF Sound, Knows, Rests
<1>4. Nodes(ino)
  BY <1>2 DEF Resolved, Typed
<1>5. /\ ino' \in [Inodes -> Inode \cup {None}]
      /\ \A i \in Inodes : ino[i] # None =>
            /\ ino'[i] # None /\ ino'[i].start = ino[i].start /\ ino'[i].dir = ino[i].dir
            /\ (ino'[i].linked => ino[i].linked)
      /\ \A i \in Inodes : ino[i] = None => ino'[i] = None
  <2>1. CASE op.over = None
    BY <1>1, <1>4, <2>1 DEF Nodes
  <2>2. CASE op.over # None
    <3>1. ino' = [ino EXCEPT ![op.over].linked = FALSE] /\ op.over \in Inodes /\ ino[op.over] \in Inode
      BY <1>1, <1>3, <1>4, <2>2 DEF Nodes
    <3>2. /\ ino'[op.over] \in Inode /\ ino'[op.over].start = ino[op.over].start
          /\ ino'[op.over].dir = ino[op.over].dir
          /\ ~ino'[op.over].linked /\ ino'[op.over] # None
          /\ \A i \in Inodes : i # op.over => ino'[i] = ino[i]
          /\ ino' \in [Inodes -> Inode \cup {None}]
      BY <1>4, <3>1, InodeAssumption DEF Nodes, Inode
    <3> QED BY <1>3, <2>2, <3>2
  <2> QED BY <2>1, <2>2
<1>7. Nodes(ino')
  BY <1>4, <1>5 DEF Nodes
<1>8. StartsOf(ino') \subseteq StartsOf(ino)
  BY <1>5 DEF StartsOf
<1>9. DirsOf(ino') \subseteq DirsOf(ino)
  BY <1>5 DEF DirsOf
<1>10. "removed" \in Labels /\ "removed" \notin Fill \cup {"cleared", "clear"}
  BY DEF Labels, Fill
<1>11. /\ StartsOf(ino') \subseteq HeadsOf("removed", op, ino) /\ Root \notin StartsOf(ino')
       /\ DirsOf(ino') \subseteq WholeOnes("removed", op, DirsOf(ino))
  BY <1>2, <1>8, <1>9, <1>10 DEF HeadsOf, Sound, Owned, WholeOnes
<1>13. \A i, j \in Inodes : ino'[i] # None /\ ino'[j] # None /\ ino'[i].start = ino'[j].start
                            /\ ino'[i].start # None => i = j
  BY <1>2, <1>5 DEF Sound, Owned
<1> QED BY <1>1, <1>2, <1>7, <1>10, <1>11, <1>13, EndsCore

LEMMA AddedCore == ASSUME Sane, Added  PROVE Core(op', fat', buf', disk', ino')
<1> DEFINE new == [pos |-> InfoPlace(NewInfo), start |-> op.start,
                   dir |-> op.call = "mkdir", dirty |-> FALSE, linked |-> TRUE]
           i == NewInode
<1>1. /\ op.pc = "added" /\ op.call \in {"create", "mkdir"} /\ Goto("ok")
      /\ fat' = fat /\ buf' = buf /\ disk' = disk /\ ino' = [ino EXCEPT ![i] = new]
  BY DEF Added, Done, volume
<1>2. Resolved /\ Sound("added", op, fat, buf, ino)
  BY <1>1, Calm DEF Resolved
<1>3. /\ op.d \in DirsOf(ino) /\ op.n \in Names /\ op.first \in Nat \ {0}
      /\ Built(op.slots, op.n, op.start) /\ LastOf(op) <= LenOf(fat, op.d)
      /\ (op.start # None => op.call = "mkdir" /\ op.start \in Clusters)
      /\ (op.call = "mkdir" => op.start # None)
      /\ \E j \in Inodes : ino[j] = None
  BY <1>1, <1>2 DEF Sound, Knows, Rests, Adds
<1>4. i \in Inodes /\ ino[i] = None
  BY <1>3 DEF NewInode, Unused
<1>5. Nodes(ino)
  BY <1>2 DEF Resolved, Typed
<1>6. new \in Inode
  <2>1. Len(op.slots) \in Nat /\ Len(op.slots) >= 1
    BY <1>3, BuiltIs
  <2>2. IsChain(fat, op.d, ChainOf(fat, op.d)) /\ LenOf(fat, op.d) \in Nat
    BY <1>2, <1>3, <1>5, DirsHeads, SoundDirectory, ViewIs DEF Sound, Resolved, Typed
  <2>3. LastOf(op) \in 1..LenOf(fat, op.d)
    BY <1>3, <2>1, <2>2 DEF LastOf
  <2>4. PlaceOf(fat, op.d, LastOf(op)) \in Places
    BY <2>2, <2>3, PlaceIn
  <2>5. InfoPlace(NewInfo) \in Places
    BY <2>4, PlaceNow DEF InfoPlace, NewInfo, LastOf
  <2> QED BY <1>3, <2>5 DEF Inode
<1>7. /\ ino'[i] = new /\ \A j \in Inodes : j # i => ino'[j] = ino[j]
  BY <1>1, <1>4, <1>5 DEF Nodes
<1>8. new.start = op.start /\ (new.dir <=> op.call = "mkdir") /\ ~new.dirty /\ new.linked
  OBVIOUS
<1>9. ino' \in [Inodes -> Inode \cup {None}]
  BY <1>1, <1>4, <1>5, <1>6 DEF Nodes
<1> HIDE DEF new, i
<1>10. Nodes(ino')
  BY <1>3, <1>5, <1>7, <1>8, <1>9 DEF Nodes
<1>11. "added" \in Labels /\ "added" \notin Fill \cup {"cleared", "clear"} /\ "added" \in Adds
       /\ "added" \notin Rests
  BY DEF Labels, Fill, Adds, Rests
<1>12. PendingOf("added", op) = IF op.start = None THEN {} ELSE {op.start}
  BY <1>11 DEF PendingOf
<1>13. StartsOf(ino') \subseteq StartsOf(ino) \cup PendingOf("added", op)
  BY <1>7, <1>8, <1>12 DEF StartsOf
<1>14. DirsOf(ino') \subseteq DirsOf(ino) \cup PendingOf("added", op)
  <2> SUFFICES ASSUME NEW j \in Inodes, ino'[j] # None, ino'[j].linked, ino'[j].dir
               PROVE  ino'[j].start \in DirsOf(ino) \cup PendingOf("added", op)
    BY DEF DirsOf
  <2>1. CASE j = i
    BY <1>3, <1>7, <1>8, <1>12, <2>1
  <2>2. CASE j # i
    BY <1>7, <2>2 DEF DirsOf
  <2> QED BY <2>1, <2>2
<1>15. /\ StartsOf(ino') \subseteq HeadsOf("added", op, ino) /\ Root \notin StartsOf(ino')
       /\ DirsOf(ino') \subseteq WholeOnes("added", op, DirsOf(ino))
  BY <1>2, <1>11, <1>13, <1>14 DEF HeadsOf, Sound, Owned, WholeOnes
<1>16. \A j \in Inodes : ino[j] # None => ino[j].start # op.start \/ op.start = None
  <2>1. StartsOf(ino) \cap PendingOf("added", op) = {}
    BY <1>2 DEF Sound, Owned
  <2> QED BY <1>12, <2>1 DEF StartsOf
<1>17. ASSUME NEW j \in Inodes, NEW k \in Inodes, ino'[j] # None, ino'[k] # None,
              ino'[j].start = ino'[k].start, ino'[j].start # None
       PROVE  j = k
  <2>1. CASE j = i
    BY <1>7, <1>8, <1>16, <1>17, <2>1
  <2>2. CASE k = i
    BY <1>7, <1>8, <1>16, <1>17, <2>2
  <2>3. CASE j # i /\ k # i
    BY <1>2, <1>7, <1>17, <2>3 DEF Sound, Owned
  <2> QED BY <2>1, <2>2, <2>3
<1> QED BY <1>1, <1>2, <1>10, <1>11, <1>15, <1>17, EndsCore

-----------------------------------------------------------------------------
(* Steps that change the first cluster in one slot.                         *)
StartAt(a, p, c) == [a EXCEPT ![p].start = c]
LEMMA StartSet ==
    ASSUME NEW a, Device(a), NEW p, NEW c
    PROVE  /\ Device(StartAt(a, p, c)) /\ Likes(a, StartAt(a, p, c))
           /\ \A q \in Places : q # p => StartAt(a, p, c)[q] = a[q]
<1> DEFINE b == StartAt(a, p, c)
<1>1. \A q \in Places : IsSlot(a[q])
  BY DEF Device
<1>2. b = [q \in Places |-> IF q = p THEN [a[q] EXCEPT !.start = c] ELSE a[q]]
  <2>1. DOMAIN a = Places
    BY DEF Device
  <2> QED BY <2>1 DEF StartAt
<1> HIDE DEF b
<1>3. ASSUME NEW q \in Places
      PROVE  /\ IsSlot([a[q] EXCEPT !.start = c])
             /\ [a[q] EXCEPT !.start = c].text = a[q].text /\ [a[q] EXCEPT !.start = c].attr = a[q].attr
             /\ [a[q] EXCEPT !.start = c].name = a[q].name /\ [a[q] EXCEPT !.start = c].sum = a[q].sum
  <2>1. a[q] = [text |-> a[q].text, attr |-> a[q].attr, name |-> a[q].name, sum |-> a[q].sum,
                start |-> a[q].start]
    BY <1>1 DEF IsSlot
  <2>2. [a[q] EXCEPT !.start = c] = [text |-> a[q].text, attr |-> a[q].attr, name |-> a[q].name,
                                     sum |-> a[q].sum, start |-> c]
    BY <2>1
  <2> QED BY <1>1, <2>2 DEF IsSlot
<1>4. \A q \in Places : b[q] = IF q = p THEN [a[q] EXCEPT !.start = c] ELSE a[q]
  BY <1>2
<1>5. b = [q \in Places |-> b[q]]
  BY <1>2
<1>6. Device(b)
  BY <1>1, <1>3, <1>4, <1>5 DEF Device
<1>7. Likes(a, b)
  BY <1>3, <1>4 DEF Likes, AsIn
<1> QED BY <1>4, <1>6, <1>7 DEF b

(* The steps of a rename between the new entry and the end of the old one.  *)
LEMMA MovesSound ==
    ASSUME NEW label, NEW o, NEW t, NEW dev, NEW in, Sound(label, o, t, dev, in), o.call = "rename",
           label \in Moves \cup {"added"},
           NEW r, r.call = o.call, r.d = o.d, r.n = o.n, r.i = o.i, r.over = o.over, r.start = o.start,
           r.old = o.old, r.after = o.after, r.grown = o.grown,
           r.over = None => Stands(r.new, t, dev, DirsOf(in)),
           r.over # None => r.new = o.new,
           NEW then \in Moves, r.undoing => then = "undo_move" \/ then = "undo_dotdot",
           then \in {"dotdot", "count"} => label \in {"move", "added", "dotdot"},
           then \notin {"move", "kept"}
    PROVE  Sound(then, r, t, dev, in)
<1>1. label \notin Rests \cup Fill \cup Cuts /\ then \notin Rests \cup Fill \cup Adds \cup Cuts
  BY DEF Moves, Rests, Fill, Adds, Cuts
<1>2. PendingOf(then, r) = PendingOf(label, o) /\ GrownOf(then, r) = {}
  BY <1>1 DEF PendingOf, GrownOf, Fill
<1>3. Owned(then, r, t, in)
  BY <1>2, OwnedFewer DEF Sound
<1>4. Knows(then, r, t, in)
  BY <1>1 DEF Sound, Knows, Labels, Fill, Adds, Moves, Cuts, Rests
<1>5. WholeOnes(then, r, DirsOf(in)) \subseteq WholeOnes(label, o, DirsOf(in))
  BY <1>1 DEF WholeOnes, Fill, Adds, Cuts
<1>6. Adding(then, r, t, dev) /\ Cutting(then, r, t, dev, DirsOf(in))
  BY <1>1 DEF Adding, Cutting, Fill, Adds, Cuts
<1>7. Renaming(then, r, t, dev, DirsOf(in))
  BY <1>1 DEF Sound, Fit, Renaming, Adds, Moves
<1> QED BY <1>3, <1>4, <1>5, <1>6, <1>7 DEF Sound, Fit

LEMMA AkinTwice ==
    ASSUME NEW in, NEW kin, NEW kith, Akin(in, kin), Akin(kin, kith)  PROVE Akin(in, kith)
  BY DEF Akin

PlacedAt(in, i, p) == [in EXCEPT ![i].pos = p]
DirtiedTo(in, i, b) == [in EXCEPT ![i].dirty = b]
LEMMA Placed ==
    ASSUME NEW in, Nodes(in), NEW i \in Inodes, in[i] # None, NEW p \in Places \cup {None}
    PROVE  /\ Akin(in, PlacedAt(in, i, p))
           /\ \A j \in Inodes : in[j] # None => PlacedAt(in, i, p)[j].dirty = in[j].dirty
<1> DEFINE kin == PlacedAt(in, i, p)
           x == in[i]
           y == [x EXCEPT !.pos = p]
<1>1. x \in Inode /\ DOMAIN in = Inodes /\ \A j \in Inodes : in[j] \in Inode \cup {None}
  BY DEF Nodes
<1>2. y \in Inode /\ y.start = x.start /\ y.dir = x.dir /\ y.linked = x.linked /\ y.dirty = x.dirty
  BY <1>1 DEF Inode
<1>3. /\ kin[i] = y /\ DOMAIN kin = Inodes /\ kin = [j \in Inodes |-> kin[j]]
      /\ \A j \in Inodes : j # i => kin[j] = in[j]
  BY <1>1 DEF PlacedAt
<1> HIDE DEF kin, y
<1>4. \A j \in Inodes : kin[j] \in Inode \cup {None} /\ (kin[j] = None <=> in[j] = None)
  BY <1>1, <1>2, <1>3, InodeAssumption
<1>5. Nodes(kin)
  BY <1>2, <1>3, <1>4 DEF Nodes
<1> QED BY <1>2, <1>3, <1>4, <1>5 DEF Akin, kin

LEMMA Dirtied ==
    ASSUME NEW in, Nodes(in), NEW i \in Inodes, in[i] # None, NEW b \in BOOLEAN
    PROVE  /\ Akin(in, DirtiedTo(in, i, b)) /\ (DirtiedTo(in, i, b)[i].dirty <=> b)
           /\ \A j \in Inodes : in[j] # None /\ j # i => DirtiedTo(in, i, b)[j].dirty = in[j].dirty
<1> DEFINE kin == DirtiedTo(in, i, b)
           x == in[i]
           y == [x EXCEPT !.dirty = b]
<1>1. x \in Inode /\ DOMAIN in = Inodes /\ \A j \in Inodes : in[j] \in Inode \cup {None}
  BY DEF Nodes
<1>2. y \in Inode /\ y.start = x.start /\ y.dir = x.dir /\ y.linked = x.linked /\ y.dirty = b
  BY <1>1 DEF Inode
<1>3. /\ kin[i] = y /\ DOMAIN kin = Inodes /\ kin = [j \in Inodes |-> kin[j]]
      /\ \A j \in Inodes : j # i => kin[j] = in[j]
  BY <1>1 DEF DirtiedTo
<1> HIDE DEF kin, y
<1>4. \A j \in Inodes : kin[j] \in Inode \cup {None} /\ (kin[j] = None <=> in[j] = None)
  BY <1>1, <1>2, <1>3, InodeAssumption
<1>5. Nodes(kin)
  BY <1>2, <1>3, <1>4 DEF Nodes
<1> QED BY <1>2, <1>3, <1>4, <1>5 DEF Akin, kin

LEMMA PointsPlace ==
    ASSUME NEW label, NEW o, NEW t, NEW in, Owned(label, o, t, in), Nodes(in),
           NEW x, Points(x, t, DirsOf(in))
    PROVE  PlaceOf(t, x.d, x.at) \in Places
<1>1. IsChain(t, x.d, ChainOf(t, x.d))
  BY DirsHeads DEF Points, Owned, Chains
<1> QED BY <1>1, PlaceIn DEF Points

LEMMA MoveCore == ASSUME Sane, Move  PROVE Core(op', fat', buf', disk', ino')
<1> DEFINE r == IF op.over = None THEN [op EXCEPT !.new = NewInfo] ELSE op
           p == InfoPlace(r.new)
           off == [j \in Inodes |-> IF j = op.over THEN [ino[j] EXCEPT !.pos = None] ELSE ino[j]]
           l == op.pc
           ds == DirsOf(ino)
<1>1. /\ l = "move" \/ (l = "added" /\ op.call = "rename")
      /\ ino' = [off EXCEPT ![op.i].pos = p, ![op.i].dirty = @ \/ ~setup.dirsync]
      /\ op' = Syncing(r, {BlockOf(p)}, "dotdot", "undo_move")
  BY DEF Move, Sync
<1>0. /\ fat' = fat /\ disk' = disk
      /\ buf' = IF setup.dirsync THEN StartAt(buf, p, ino[op.i].start) ELSE buf
  BY DEF Move, WriteEntry, StartAt
<1>2. Resolved /\ Sound(l, op, fat, buf, ino) /\ Nodes(ino)
  BY <1>1, Calm DEF Resolved, Typed
<1>3. /\ op.call = "rename" /\ op.i \in Inodes /\ ino[op.i] # None
      /\ op.over # None => op.over \in Inodes /\ ino[op.over] # None /\ Points(op.new, fat, ds)
      /\ ~op.undoing /\ (l = "move" => op.over # None)
  BY <1>1, <1>2 DEF Sound, Knows, Moves, Adds, Rests
<1>4. /\ r.call = op.call /\ r.d = op.d /\ r.n = op.n /\ r.i = op.i /\ r.over = op.over
      /\ r.start = op.start /\ r.slots = op.slots /\ r.first = op.first /\ r.old = op.old
      /\ r.cut = op.cut /\ r.from = op.from /\ r.to = op.to /\ r.after = op.after
      /\ r.undoing = op.undoing /\ r.grown = op.grown /\ r.sync = {} /\ DOMAIN r = OpFields
      /\ r.new = IF op.over = None THEN NewInfo ELSE op.new
  BY <1>2 DEF Resolved, OpFields
<1>5. r.over = None => Stands(r.new, fat, buf, ds)
  <2>1. NewInfo = NewInfoOf(op)
    BY DEF NewInfo, NewInfoOf, LastOf
  <2> QED BY <1>1, <1>2, <1>3, <1>4, <2>1 DEF Sound, Fit, Renaming
<1>6. Points(r.new, fat, ds)
  BY <1>2, <1>3, <1>4, <1>5, StandsPoints DEF Sound, Resolved, Typed
<1>7. p \in Places
  BY <1>2, <1>6, PointsPlace, PlaceNow DEF InfoPlace, Sound
<1> HIDE DEF p
<1>8. /\ l \in Moves \cup {"added"} /\ {"dotdot", "undo_move"} \subseteq Moves
  BY <1>1 DEF Moves
<1>9. Sound("dotdot", r, fat, buf, ino) /\ Sound("undo_move", r, fat, buf, ino)
  <2> HIDE DEF r
  <2> QED BY <1>1, <1>2, <1>3, <1>4, <1>5, <1>8, MovesSound
<1>10. Akin(ino, ino')
  <2> DEFINE on == PlacedAt(off, op.i, p)
             dirty == off[op.i].dirty \/ ~setup.dirsync
  <2>1. Akin(ino, off)
    <3>1. DOMAIN ino = Inodes
      BY <1>2 DEF Nodes
    <3>2. CASE op.over = None
      <4>1. off = ino
        BY <1>2, <3>2, RootAssumption DEF Nodes
      <4> QED BY <1>2, <4>1 DEF Akin
    <3>3. CASE op.over # None
      <4>1. off = PlacedAt(ino, op.over, None)
        BY <3>1 DEF PlacedAt
      <4> QED BY <1>2, <1>3, <3>3, <4>1, Placed
    <3> QED BY <3>2, <3>3
  <2> HIDE DEF off
  <2>2. Akin(off, on) /\ \A j \in Inodes : off[j] # None => on[j].dirty = off[j].dirty
    BY <1>3, <1>7, <2>1, Placed DEF Akin
  <2>3. off[op.i] \in Inode /\ dirty \in BOOLEAN
    BY <1>3, <2>1 DEF Akin, Nodes, Inode
  <2>4. ino' = DirtiedTo(on, op.i, dirty)
    <3>1. DOMAIN off = Inodes
      BY <2>1 DEF Akin, Nodes
    <3>2. on[op.i].dirty = off[op.i].dirty
      BY <1>3, <2>1, <2>2 DEF Akin
    <3> QED BY <1>1, <1>3, <3>1, <3>2 DEF PlacedAt, DirtiedTo
  <2> HIDE DEF on, dirty
  <2>5. Akin(on, ino')
    <3>1. Nodes(on) /\ on[op.i] # None
      BY <1>3, <2>1, <2>2 DEF Akin
    <3> QED BY <1>3, <2>3, <2>4, <3>1, Dirtied
  <2> QED BY <2>1, <2>2, <2>5, AkinTwice
<1>11. Device(buf') /\ Likes(buf, buf') /\ \A q \in Places : BlockOf(q) # BlockOf(p) => buf'[q] = buf[q]
  <2>1. Device(buf)
    BY <1>2 DEF Resolved, Typed
  <2>2. CASE setup.dirsync
    BY <1>0, <2>1, <2>2, StartSet
  <2>3. CASE ~setup.dirsync
    BY <1>0, <2>1, <2>3 DEF Likes, AsIn
  <2> QED BY <2>2, <2>3
<1> HIDE DEF r, off
<1>12. Sound("dotdot", r, fat, buf, ino') /\ Sound("undo_move", r, fat, buf, ino')
  BY <1>9, <1>10, AkinSound
<1>13. Nodes(ino') /\ Device(buf)
  BY <1>2, <1>10 DEF Akin, Resolved, Typed
<1>14. Sound("dotdot", r, fat, buf', ino')
  BY <1>11, <1>12, <1>13, LikesSound DEF Fill
<1>15. Typed(fat, buf', disk, ino') /\ Safe(fat, buf, DirsOf(ino')) /\ "dotdot" \in Labels
  BY <1>2, <1>11, <1>12, <1>13, SoundSafe DEF Resolved, Typed, Labels, Moves
<1>16. Core(Syncing(r, {BlockOf(p)}, "dotdot", "undo_move"), fat, buf', disk, ino')
  BY <1>2, <1>4, <1>10, <1>11, <1>12, <1>13, <1>14, <1>15, SyncsOne DEF Resolved, Bads
<1> QED BY <1>0, <1>1, <1>16

LEMMA SetDotDotCore == ASSUME Sane, SetDotDot  PROVE Core(op', fat', buf', disk', ino')
<1> DEFINE q == DotDotPlace
           c == LogStart(op.d)
<1>1. op.pc = "dotdot" /\ fat' = fat /\ disk' = disk /\ ino' = ino
  BY DEF SetDotDot
<1>2. Resolved /\ Sound("dotdot", op, fat, buf, ino) /\ Nodes(ino)
  BY <1>1, Calm DEF Resolved, Typed
<1>3. CASE ~UpdateDotDot
  <2>1. buf' = buf /\ Leaves
    BY <1>3 DEF SetDotDot, Leaves
  <2> QED BY <1>1, <1>2, <2>1, LeavesCore
<1>4. CASE UpdateDotDot
  <2>1. buf' = StartAt(buf, q, c) /\ op' = Syncing(op, {BlockOf(q)}, "count", "undo_dotdot")
    BY <1>4 DEF SetDotDot, Sync, StartAt
  <2> HIDE DEF q, c
  <2>2. op.call = "rename" /\ ~op.undoing /\ "dotdot" \in Moves
    BY <1>2 DEF Sound, Knows, Moves
  <2>3. op.over = None => Stands(op.new, fat, buf, DirsOf(ino))
    BY <1>2, <2>2 DEF Sound, Fit, Renaming
  <2>4. "count" \in Moves /\ "undo_dotdot" \in Moves /\ "count" \in Labels
    BY DEF Moves, Labels
  <2>5. Sound("count", op, fat, buf, ino) /\ Sound("undo_dotdot", op, fat, buf, ino)
    BY <1>2, <2>2, <2>3, <2>4, MovesSound
  <2>6. Device(buf)
    BY <1>2 DEF Resolved, Typed
  <2>7. Device(buf') /\ Likes(buf, buf') /\ \A p \in Places : p # q => buf'[p] = buf[p]
    BY <2>1, <2>6, StartSet
  <2>8. Sound("count", op, fat, buf', ino)
    BY <1>2, <2>5, <2>6, <2>7, LikesSound DEF Fill
  <2>9. Typed(fat, buf', disk, ino) /\ Safe(fat, buf, DirsOf(ino))
    BY <1>2, <2>5, <2>6, <2>7, SoundSafe DEF Resolved, Typed
  <2>10. \A p \in Places : BlockOf(p) # BlockOf(q) => buf'[p] = buf[p]
    BY <2>7
  <2>11. DOMAIN op = OpFields /\ op.sync = {}
         /\ (setup.dirsync => Likes(buf, disk))
    BY <1>2 DEF Resolved
  <2>12. Core(Syncing(op, {BlockOf(q)}, "count", "undo_dotdot"), fat, buf', disk, ino)
    BY <2>4, <2>5, <2>6, <2>8, <2>9, <2>10, <2>11, SyncsOne DEF Bads
  <2> QED BY <1>1, <2>1, <2>12
<1> QED BY <1>3, <1>4

LEMMA UndoDotDotCore == ASSUME Sane, UndoDotDot  PROVE Core(op', fat', buf', disk', ino')
<1> DEFINE q == DotDotPlace
           c == LogStart(op.old.d)
           r == [op EXCEPT !.undoing = TRUE]
           to == "undo_move"
<1>1. op.pc = "undo_dotdot" /\ fat' = fat /\ disk' = disk /\ ino' = ino
  BY DEF UndoDotDot
<1>2. Resolved /\ Sound("undo_dotdot", op, fat, buf, ino) /\ Nodes(ino)
  BY <1>1, Calm DEF Resolved, Typed
<1>3. /\ r.call = op.call /\ r.d = op.d /\ r.n = op.n /\ r.i = op.i /\ r.over = op.over
      /\ r.start = op.start /\ r.old = op.old /\ r.new = op.new /\ r.after = op.after
      /\ r.grown = op.grown /\ r.undoing /\ r.sync = {} /\ DOMAIN r = OpFields
  BY <1>2 DEF Resolved, OpFields
<1>4. op.call = "rename" /\ "undo_dotdot" \in Moves /\ to \in Moves /\ to \in Labels
  BY <1>2 DEF Sound, Knows, Moves, Labels
<1>5. op.over = None => Stands(op.new, fat, buf, DirsOf(ino))
  BY <1>2, <1>4 DEF Sound, Fit, Renaming
<1>6. Sound(to, r, fat, buf, ino)
  <2> HIDE DEF r
  <2> QED BY <1>2, <1>3, <1>4, <1>5, MovesSound
<1>7. Device(buf)
  BY <1>2 DEF Resolved, Typed
<1>8. setup.dirsync => Likes(buf, disk)
  BY <1>2 DEF Resolved
<1>9. CASE ~UpdateDotDot
  <2>1. buf' = buf /\ op' = [op EXCEPT !.undoing = TRUE, !.pc = to]
    BY <1>9 DEF UndoDotDot
  <2>2. Same(r, op') /\ op'.pc = to /\ op'.sync = {}
    BY <1>2, <2>1 DEF Resolved, OpFields, Same
  <2> HIDE DEF r
  <2>3. Sound(to, op', fat, buf, ino)
    BY <1>6, <2>2, SoundSame
  <2>4. Core(op', fat, buf, disk, ino)
    BY <1>2, <1>8, <2>2, <2>3, NoSyncs DEF Resolved
  <2> QED BY <1>1, <2>1, <2>4
<1>10. CASE UpdateDotDot
  <2>1. buf' = StartAt(buf, q, c) /\ op' = Syncing(r, {BlockOf(q)}, to, to)
    BY <1>10 DEF UndoDotDot, Sync, StartAt
  <2> HIDE DEF q, c, r
  <2>2. Device(buf') /\ Likes(buf, buf') /\ \A p \in Places : p # q => buf'[p] = buf[p]
    BY <1>7, <2>1, StartSet
  <2>3. Sound(to, r, fat, buf', ino)
    BY <1>2, <1>6, <1>7, <2>2, LikesSound DEF Fill
  <2>4. Typed(fat, buf', disk, ino) /\ Safe(fat, buf, DirsOf(ino))
    BY <1>2, <1>6, <1>7, <2>2, SoundSafe DEF Resolved, Typed
  <2>5. \A p \in Places : BlockOf(p) # BlockOf(q) => buf'[p] = buf[p]
    BY <2>2
  <2>6. Core(Syncing(r, {BlockOf(q)}, to, to), fat, buf', disk, ino)
    BY <1>3, <1>4, <1>6, <1>7, <1>8, <2>3, <2>4, <2>5, SyncsOne DEF Bads
  <2> QED BY <1>1, <2>1, <2>6
<1> QED BY <1>9, <1>10

LEMMA UndoMoveCore == ASSUME Sane, UndoMove  PROVE Core(op', fat', buf', disk', ino')
<1> DEFINE p == InfoPlace(op.new)
           back == PlacedAt(ino, op.i, InfoPlace(op.old))
           ds == DirsOf(ino)
<1>1. op.pc = "undo_move" /\ fat' = fat /\ disk' = disk
  BY DEF UndoMove
<1>2. Resolved /\ Sound("undo_move", op, fat, buf, ino) /\ Nodes(ino)
  BY <1>1, Calm DEF Resolved, Typed
<1>3. /\ op.call = "rename" /\ op.i \in Inodes /\ ino[op.i] # None /\ op.after = None
      /\ op.over # None => op.over \in Inodes /\ ino[op.over] # None /\ Points(op.new, fat, ds)
      /\ Points(op.old, fat, ds)
  BY <1>2 DEF Sound, Knows, Moves, Rests
<1>4. InfoPlace(op.old) \in Places /\ (op.over # None => p \in Places)
  BY <1>2, <1>3, PointsPlace, PlaceNow DEF InfoPlace, Sound
<1>5. Akin(ino, back)
  BY <1>2, <1>3, <1>4, Placed
<1> HIDE DEF back
<1>6. Akin(ino, ino')
  <2>1. CASE op.over = None
    <3>1. ino' = back
      BY <2>1 DEF UndoMove, PlacedAt, back
    <3> QED BY <1>5, <3>1
  <2>2. CASE op.over # None
    <3>1. ino' = PlacedAt(back, op.over, p)
      BY <2>2 DEF UndoMove, PlacedAt, back
    <3>2. Nodes(back) /\ back[op.over] # None /\ \A j \in Inodes : ino[j] # None => back[j] # None
      BY <1>3, <1>5, <2>2 DEF Akin
    <3>3. Akin(back, ino')
      BY <1>3, <1>4, <2>2, <3>1, <3>2, Placed
    <3> QED BY <1>5, <3>2, <3>3, AkinTwice
  <2> QED BY <2>1, <2>2
<1>7. setup.dirsync => Likes(buf, disk)
  BY <1>2 DEF Resolved
<1>8. Sound("undo_move", op, fat, buf, ino') /\ Nodes(ino') /\ Device(buf)
  BY <1>2, <1>6, AkinSound DEF Akin, Resolved, Typed
<1>9. op.sync = {} /\ DOMAIN op = OpFields
  BY <1>2 DEF Resolved
<1>10. CASE op.over = None
  <2>1. buf' = buf /\ op' = [op EXCEPT !.pc = "rm", !.cut = op.new, !.undoing = TRUE]
    BY <1>10 DEF UndoMove
  <2>2. /\ op'.pc = "rm" /\ op'.cut = op.new /\ op'.call = op.call /\ op'.d = op.d /\ op'.n = op.n
        /\ op'.i = op.i /\ op'.over = op.over /\ op'.start = op.start /\ op'.slots = op.slots
        /\ op'.first = op.first /\ op'.old = op.old /\ op'.new = op.new /\ op'.after = op.after
        /\ op'.undoing /\ op'.grown = op.grown /\ op'.sync = {}
    BY <1>9, <2>1 DEF OpFields
  <2>3. PendingOf("rm", op') = PendingOf("undo_move", op) /\ GrownOf("rm", op') = {}
    BY <2>2 DEF PendingOf, GrownOf, Rests
  <2>4. Owned("rm", op', fat, ino')
    BY <1>8, <2>3, OwnedFewer DEF Sound
  <2>5. Knows("rm", op', fat, ino')
    BY <1>3, <1>8, <2>2 DEF Sound, Knows, Labels, Fill, Adds, Moves, Cuts, Rests
  <2>6. WholeOnes("rm", op', DirsOf(ino')) \subseteq WholeOnes("undo_move", op, DirsOf(ino'))
    BY DEF WholeOnes, Fill, Adds
  <2>7. Adding("rm", op', fat, buf)
    BY DEF Adding, Fill
  <2>8. Stands(op.new, fat, buf, DirsOf(ino'))
    BY <1>3, <1>8, <1>10 DEF Sound, Fit, Renaming, Moves
  <2>9. Cutting("rm", op', fat, buf, DirsOf(ino')) /\ Renaming("rm", op', fat, buf, DirsOf(ino'))
    BY <2>2, <2>8 DEF Cutting, Renaming, Adds, Moves
  <2>10. Sound("rm", op', fat, buf, ino')
    BY <1>8, <2>4, <2>5, <2>6, <2>7, <2>9 DEF Sound, Fit
  <2>11. Typed(fat, buf, disk, ino')
    BY <1>2, <1>8 DEF Resolved, Typed
  <2>12. Core(op', fat, buf, disk, ino')
    BY <1>7, <2>2, <2>10, <2>11, NoSyncs
  <2> QED BY <1>1, <2>1, <2>12
<1>11. CASE op.over # None
  <2> DEFINE to == "refused"
  <2>1. Sound(to, op, fat, buf, ino') /\ to \in Labels
    BY <1>8, RefusedSound DEF Rests, Fill, Labels
  <2>2. /\ buf' = IF op.undoing THEN StartAt(buf, p, ino[op.over].start) ELSE buf
        /\ op' = Syncing(op, IF op.undoing THEN {BlockOf(p)} ELSE {}, to, to)
    BY <1>11 DEF UndoMove, Sync, WriteEntry, StartAt
  <2> HIDE DEF p
  <2>3. CASE op.undoing
    <3>1. /\ Device(buf') /\ Likes(buf, buf')
          /\ \A s \in Places : BlockOf(s) # BlockOf(p) => buf'[s] = buf[s]
      BY <1>8, <2>2, <2>3, StartSet
    <3>2. Sound(to, op, fat, buf', ino')
      BY <1>8, <2>1, <3>1, LikesSound DEF Fill
    <3>3. Typed(fat, buf', disk, ino') /\ Safe(fat, buf, DirsOf(ino'))
      BY <1>2, <1>8, <2>1, <3>1, SoundSafe DEF Resolved, Typed
    <3>4. Core(Syncing(op, {BlockOf(p)}, to, to), fat, buf', disk, ino')
      BY <1>7, <1>8, <1>9, <2>1, <3>1, <3>2, <3>3, SyncsOne DEF Bads
    <3> QED BY <1>1, <2>2, <2>3, <3>4
  <2>4. CASE ~op.undoing
    <3>1. buf' = buf /\ op' = Syncing(op, {}, to, to)
      BY <2>2, <2>4
    <3>2. Same(op, op') /\ op'.pc = to /\ op'.sync = {}
      BY <1>9, <3>1, SyncingIs
    <3>3. Sound(to, op', fat, buf, ino')
      BY <2>1, <3>2, SoundSame
    <3>4. Typed(fat, buf, disk, ino')
      BY <1>2, <1>8 DEF Resolved, Typed
    <3>5. Core(op', fat, buf, disk, ino')
      BY <1>7, <3>2, <3>3, <3>4, NoSyncs
    <3> QED BY <1>1, <3>1, <3>5
  <2> QED BY <2>3, <2>4
<1> QED BY <1>10, <1>11

LEMMA WriteInodeCore ==
    ASSUME Sane, NEW i \in Inodes, WriteInode(i)  PROVE Core(op', fat', buf', disk', ino')
<1>1. /\ op.pc = "idle" /\ op' = op /\ fat' = fat /\ disk' = disk /\ ino[i] # None /\ ino[i].dirty
      /\ buf' = StartAt(buf, ino[i].pos, ino[i].start) /\ ino' = DirtiedTo(ino, i, FALSE)
  BY DEF WriteInode, Linked, WriteEntry, StartAt, DirtiedTo
<1>2. Resolved /\ Sound("idle", op, fat, buf, ino) /\ Nodes(ino) /\ Device(buf)
      /\ (setup.dirsync => Likes(buf, disk))
  BY <1>1, Calm DEF Resolved, Typed
<1>3. Akin(ino, ino')
  BY <1>1, <1>2, Dirtied
<1>4. Device(buf') /\ Likes(buf, buf')
  BY <1>1, <1>2, StartSet
<1>5. Sound("idle", op, fat, buf, ino') /\ Nodes(ino')
  BY <1>2, <1>3, AkinSound DEF Akin
<1>6. Sound("idle", op, fat, buf', ino')
  BY <1>2, <1>4, <1>5, LikesSound DEF Fill
<1>7. Typed(fat, buf', disk, ino')
  BY <1>2, <1>4, <1>5 DEF Resolved, Typed
<1>9. setup.dirsync => Likes(buf', disk)
  BY <1>2, <1>4 DEF Likes, AsIn
<1>8. Core(op, fat, buf', disk, ino')
  BY <1>1, <1>2, <1>6, <1>7, <1>9, NoSyncs DEF Resolved
<1> QED BY <1>1, <1>8

-----------------------------------------------------------------------------
(* Steps that change slots of one directory.                                *)
LEMMA SlotsSet ==
    ASSUME NEW t, NEW heads, Chains(t, heads), NEW d \in heads,
           NEW ks \in SUBSET (1..LenOf(t, d)), NEW a, NEW b,
           \A p \in Places : (\A k \in ks : p # PlaceOf(t, d, k)) => b[p] = a[p]
    PROVE  /\ \A k \in 1..LenOf(t, d) : k \notin ks => ViewOf(t, b, d)[k] = ViewOf(t, a, d)[k]
           /\ \A k \in ks : ViewOf(t, b, d)[k] = b[PlaceOf(t, d, k)]
           /\ DOMAIN ViewOf(t, b, d) = 1..LenOf(t, d) /\ DOMAIN ViewOf(t, a, d) = 1..LenOf(t, d)
           /\ Len(ViewOf(t, b, d)) = LenOf(t, d) /\ Len(ViewOf(t, a, d)) = LenOf(t, d)
           /\ \A e \in heads \ {d} : ViewOf(t, b, e) = ViewOf(t, a, e)
<1>1. IsChain(t, d, ChainOf(t, d))
  BY DEF Chains
<1>2. /\ DOMAIN ViewOf(t, a, d) = 1..LenOf(t, d) /\ Len(ViewOf(t, a, d)) = LenOf(t, d)
      /\ \A k \in 1..LenOf(t, d) : ViewOf(t, a, d)[k] = a[PlaceOf(t, d, k)]
  BY <1>1, ViewIs
<1>3. /\ DOMAIN ViewOf(t, b, d) = 1..LenOf(t, d) /\ Len(ViewOf(t, b, d)) = LenOf(t, d)
      /\ \A k \in 1..LenOf(t, d) : ViewOf(t, b, d)[k] = b[PlaceOf(t, d, k)]
  BY <1>1, ViewIs
<1>4. \A k \in 1..LenOf(t, d) : k \notin ks => b[PlaceOf(t, d, k)] = a[PlaceOf(t, d, k)]
  <2> TAKE k \in 1..LenOf(t, d)
  <2>1. PlaceOf(t, d, k) \in Places /\ \A m \in ks : PlaceOf(t, d, k) = PlaceOf(t, d, m) => k = m
    BY <1>1, PlaceIn, PlaceOne
  <2> QED BY <2>1
<1>5. ASSUME NEW e \in heads \ {d}  PROVE ViewOf(t, b, e) = ViewOf(t, a, e)
  <2>1. IsChain(t, e, ChainOf(t, e)) /\ ClustersOf(t, e) \cap ClustersOf(t, d) = {}
    BY DEF Chains
  <2>2. \A k \in ks : PlaceOf(t, d, k)[1] \in ClustersOf(t, d)
    BY <1>1, PlaceIn
  <2>3. \A p \in Places : p[1] \in ClustersOf(t, e) => b[p] = a[p]
    BY <2>1, <2>2
  <2> QED BY <2>1, <2>3, ViewSame
<1> QED BY <1>2, <1>3, <1>4, <1>5

(* The slots of a block follow each other.                                  *)
LEMMA BlockAtIs ==
    \A t, d, k : /\ BlockAt(t, d, k) = <<BlockAt(t, d, k)[1], BlockAt(t, d, k)[2]>>
                 /\ BlockAt(t, d, k)[1] = ChainOf(t, d)[(k - 1) \div Spc + 1]
                 /\ BlockAt(t, d, k)[2] = ((((k - 1) % Spc) + 1) - 1) \div Spb
<1> TAKE t, d, k
<1> DEFINE u == ChainOf(t, d)[(k - 1) \div Spc + 1]
           w == ((k - 1) % Spc) + 1
<1>1. PlaceOf(t, d, k) = <<u, w>>
  BY DEF PlaceOf
<1> HIDE DEF u, w
<1>2. BlockAt(t, d, k) = <<u, (w - 1) \div Spb>>
  BY <1>1 DEF BlockAt, BlockOf
<1> QED BY <1>2 DEF u, w

LEMMA BlockBetween ==
    ASSUME NEW t, NEW d, IsChain(t, d, ChainOf(t, d)),
           NEW f \in 1..LenOf(t, d), NEW m \in 1..LenOf(t, d), BlockAt(t, d, f) = BlockAt(t, d, m),
           NEW k \in f..m
    PROVE  k \in 1..LenOf(t, d) /\ BlockAt(t, d, k) = BlockAt(t, d, f)
<1> DEFINE s == ChainOf(t, d)
           S == Spc
           B == Spb
           x == f - 1
           y == m - 1
           z == k - 1
<1>1. /\ Len(s) \in Nat /\ \A i, j \in 1..Len(s) : s[i] = s[j] => i = j
  BY ChainLength DEF IsChain
<1>2. f \in 1..Len(s) * S /\ m \in 1..Len(s) * S
  BY DEF LenOf
<1>3. S \in Nat \ {0} /\ B \in Nat \ {0} /\ Len(s) * S \in Nat
  BY <1>1, SpcNat, SizeAssumption
<1>4. x \div S + 1 \in 1..Len(s) /\ y \div S + 1 \in 1..Len(s)
  BY <1>1, <1>2, Position
<1>5. /\ BlockAt(t, d, f)[1] = s[x \div S + 1] /\ BlockAt(t, d, f)[2] = (((x % S) + 1) - 1) \div B
      /\ BlockAt(t, d, m)[1] = s[y \div S + 1] /\ BlockAt(t, d, m)[2] = (((y % S) + 1) - 1) \div B
      /\ BlockAt(t, d, k)[1] = s[z \div S + 1] /\ BlockAt(t, d, k)[2] = (((z % S) + 1) - 1) \div B
  BY BlockAtIs
<1> HIDE DEF s, S, B
<1>6. k \in 1..Len(s) * S /\ x \in Nat /\ y \in Nat /\ z \in Nat /\ x <= z /\ z <= y
  BY <1>2, <1>3
<1> HIDE DEF x, y, z
<1>7. s[x \div S + 1] = s[y \div S + 1] /\ (((x % S) + 1) - 1) \div B = (((y % S) + 1) - 1) \div B
  BY <1>5
<1>8. x \div S + 1 = y \div S + 1
  BY <1>1, <1>4, <1>7
<1>9. /\ x \div S \in Int /\ y \div S \in Int /\ z \div S \in Int
      /\ x % S \in Int /\ y % S \in Int /\ z % S \in Int
  BY <1>3, <1>6
<1>10. x \div S = y \div S
  BY <1>8, <1>9
<1>11. x \div S <= z \div S /\ z \div S <= y \div S
  BY <1>3, <1>6
<1>12. z \div S = x \div S
  BY <1>9, <1>10, <1>11
<1>13. x % S <= z % S /\ z % S <= y % S
  BY <1>3, <1>6, <1>10, <1>12
<1>14. (x % S) \div B = (y % S) \div B /\ (z % S) \div B = (x % S) \div B
  <2>1. ((x % S) + 1) - 1 = x % S /\ ((y % S) + 1) - 1 = y % S
    BY <1>9
  <2>2. (x % S) \div B = (y % S) \div B
    BY <1>7, <2>1
  <2>3. (x % S) \div B <= (z % S) \div B /\ (z % S) \div B <= (y % S) \div B
    BY SMTT(20), <1>3, <1>9, <1>13
  <2>4. (x % S) \div B \in Int /\ (z % S) \div B \in Int /\ (y % S) \div B \in Int
    BY <1>3, <1>9
  <2> QED BY <2>2, <2>3, <2>4
<1>15. ((z % S) + 1) - 1 = z % S /\ ((x % S) + 1) - 1 = x % S
  BY <1>9
<1>17. BlockAt(t, d, k)[1] = BlockAt(t, d, f)[1] /\ BlockAt(t, d, k)[2] = BlockAt(t, d, f)[2]
  BY <1>5, <1>12, <1>14, <1>15
<1>16. BlockAt(t, d, k) = BlockAt(t, d, f)
  BY <1>17, BlockAtIs
<1> QED BY <1>6, <1>16 DEF LenOf, s, S

LEMMA FirstRun ==
    ASSUME NEW f \in Nat \ {0}, NEW to \in Int, NEW P \in SUBSET (f..to), f \in P,
           \A m \in P : \A k \in f..m : k \in P
    PROVE  /\ f + Cardinality(P) \in Int /\ f <= f + Cardinality(P)
           /\ \A k \in f..(f + Cardinality(P)) - 1 : k \in P
<1>1. to \in Nat /\ P \subseteq 1..to /\ P # {}
  OBVIOUS
<1>2. PICK g \in P : \A m \in P : g >= m
  BY <1>1, Greatest
<1>3. g \in Int /\ f <= g /\ \A m \in P : m \in f..g
  BY <1>2
<1>5. P = f..g
  BY <1>3
<1>4. Cardinality(P) = g - f + 1
  BY <1>3, <1>5, FS_Interval
<1> QED BY <1>3, <1>4, <1>5

LEMMA LastRun ==
    ASSUME NEW f \in Nat, NEW at \in Int, NEW P \in SUBSET (f..at), at \in P,
           \A m \in P : \A k \in m..at : k \in P
    PROVE  /\ at - Cardinality(P) \in Int /\ at - Cardinality(P) <= at
           /\ \A k \in at - Cardinality(P) + 1..at : k \in P
<1>1. P \subseteq Nat /\ P # {}
  OBVIOUS
<1>2. PICK g \in P : \A m \in P : g <= m
  BY <1>1, Least
<1>3. g \in Int /\ g <= at /\ \A m \in P : m \in g..at
  BY <1>2
<1>5. P = g..at
  BY <1>3
<1>4. Cardinality(P) = at - g + 1
  BY <1>3, <1>5, FS_Interval
<1> QED BY <1>3, <1>4, <1>5

(* What is left of a deleted slot is blank.                                 *)
LEMMA ZeroSlot == IsSlot(Zero) /\ Blank(Zero)
  BY ZeroBlank DEF Zero, IsSlot, NameLen

Shift(c, x) == <<c>> \o SubSeq(x, 1, 2)
LEMMA Shifted ==
    ASSUME NEW c \in Nat, NEW x \in [1..3 -> Nat]
    PROVE  Shift(c, x) \in [1..3 -> Nat] /\ Shift(c, x)[1] = c
<1> DEFINE y == SubSeq(x, 1, 2)
           one == <<c>>
           z == one \o y
<1>1. x \in Seq(Nat) /\ Len(x) = 3
  BY AsSeq
<1>2. y \in Seq(Nat) /\ Len(y) = 2
  BY <1>1, SubSeqProperties
<1> HIDE DEF y
<1>3. one \in Seq(Nat) /\ Len(one) = 1 /\ one[1] = c
  OBVIOUS
<1> HIDE DEF one
<1>4. /\ one \o y \in Seq(Nat) /\ Len(one \o y) = Len(one) + Len(y)
      /\ \A i \in 1..Len(one) + Len(y) : (one \o y)[i] = IF i <= Len(one) THEN one[i] ELSE y[i - Len(one)]
  BY <1>2, <1>3, ConcatProperties, Zenon
<1>5. z \in Seq(Nat) /\ Len(z) = 3 /\ z[1] = c
  BY <1>2, <1>3, <1>4
<1> HIDE DEF z
<1>6. z \in [1..3 -> Nat]
  BY <1>5, LenProperties
<1> QED BY <1>5, <1>6 DEF z, y, one, Shift

LEMMA DeletedBlank ==
    ASSUME NEW s, IsSlot(s)
    PROVE  /\ IsSlot(Remains(Deleted(s))) /\ Blank(Remains(Deleted(s)))
           /\ IsSlot(Remains(DeletedFirst(s))) /\ Blank(Remains(DeletedFirst(s)))
<1>1. s.text \in [1..3 -> Nat] /\ 229 \in Nat
  BY DEF IsSlot, NameLen
<1>3. ASSUME NEW x \in [1..3 -> Nat], x[1] = 229, NEW r, r = [s EXCEPT !.text = x]
      PROVE  IsSlot(r) /\ Blank(r)
  <2>1. r = [text |-> x, attr |-> s.attr, name |-> s.name, sum |-> s.sum, start |-> s.start]
    BY <1>3 DEF IsSlot
  <2> QED BY <1>3, <2>1 DEF IsSlot, NameLen, Blank, IsFree, IsLong, DELETED_FLAG
<1>4. IsSlot(Deleted(s)) /\ Blank(Deleted(s))
  <2> DEFINE x == [s.text EXCEPT ![1] = 229]
  <2>1. x \in [1..3 -> Nat] /\ x[1] = 229
    BY <1>1
  <2>2. Deleted(s) = [s EXCEPT !.text = x]
    BY DEF Deleted, DELETED_FLAG
  <2> QED BY <1>3, <2>1, <2>2
<1>5. IsSlot(DeletedFirst(s)) /\ Blank(DeletedFirst(s))
  <2>1. Shift(229, s.text) \in [1..3 -> Nat] /\ Shift(229, s.text)[1] = 229
    BY <1>1, Shifted
  <2>2. DeletedFirst(s) = [s EXCEPT !.text = Shift(229, s.text)]
    BY DEF DeletedFirst, DELETED_FLAG, NameLen, Shift
  <2> QED BY <1>3, <2>1, <2>2
<1> QED BY <1>4, <1>5, ZeroSlot DEF Remains

(* Deleting slots of a directory.                                           *)
Frees(t, d, ks, a, b) ==
    /\ b = [p \in Places |-> b[p]]
    /\ \A p \in Places :
          IF \E k \in ks : p = PlaceOf(t, d, k)
          THEN b[p] \in {Remains(Deleted(a[p])), Remains(DeletedFirst(a[p]))} ELSE b[p] = a[p]

LEMMA FreesSlots ==
    ASSUME NEW t, NEW heads, Chains(t, heads), NEW d \in heads, NEW ks \in SUBSET (1..LenOf(t, d)),
           NEW a, Device(a), NEW b, Frees(t, d, ks, a, b)
    PROVE  /\ Device(b) /\ Len(ViewOf(t, b, d)) = Len(ViewOf(t, a, d))
           /\ DOMAIN ViewOf(t, a, d) = 1..LenOf(t, d) /\ DOMAIN ViewOf(t, b, d) = 1..LenOf(t, d)
           /\ \A k \in 1..LenOf(t, d) :
                 IF k \in ks THEN Blank(ViewOf(t, b, d)[k]) ELSE ViewOf(t, b, d)[k] = ViewOf(t, a, d)[k]
           /\ \A e \in heads \ {d} : ViewOf(t, b, e) = ViewOf(t, a, e)
<1>1. \A p \in Places : IsSlot(b[p]) /\ ((\E k \in ks : p = PlaceOf(t, d, k)) => Blank(b[p]))
  <2> TAKE p \in Places
  <2>1. IsSlot(a[p])
    BY DEF Device
  <2> QED BY <2>1, DeletedBlank DEF Frees
<1>2. Device(b)
  BY <1>1 DEF Device, Frees
<1>3. \A p \in Places : (\A k \in ks : p # PlaceOf(t, d, k)) => b[p] = a[p]
  BY DEF Frees
<1>4. /\ \A k \in 1..LenOf(t, d) : k \notin ks => ViewOf(t, b, d)[k] = ViewOf(t, a, d)[k]
      /\ \A k \in ks : ViewOf(t, b, d)[k] = b[PlaceOf(t, d, k)]
      /\ DOMAIN ViewOf(t, b, d) = 1..LenOf(t, d) /\ DOMAIN ViewOf(t, a, d) = 1..LenOf(t, d)
      /\ Len(ViewOf(t, b, d)) = LenOf(t, d) /\ Len(ViewOf(t, a, d)) = LenOf(t, d)
      /\ \A e \in heads \ {d} : ViewOf(t, b, e) = ViewOf(t, a, e)
  BY <1>3, SlotsSet
<1>5. IsChain(t, d, ChainOf(t, d))
  BY DEF Chains
<1>6. \A k \in ks : PlaceOf(t, d, k) \in Places
  BY <1>5, PlaceIn
<1>7. \A k \in ks : Blank(ViewOf(t, b, d)[k])
  BY <1>1, <1>4, <1>6
<1> QED BY <1>2, <1>4, <1>7

LEMMA ClearRead ==
    ASSUME Sane, Clear, ~(op.from > op.to)
    PROVE  LET d == op.cut.d
               f == op.from
               ks == {k \in f..op.to : BlockAt(fat, d, k) = BlockAt(fat, d, f)}
               v == ViewOf(fat, buf, d)
               w == ViewOf(fat, buf', d)
           IN /\ op.pc = "clear" /\ fat' = fat /\ disk' = disk /\ ino' = ino
              /\ op' = Syncing([op EXCEPT !.from = f + Cardinality(ks)], {BlockAt(fat, d, f)}, "clear", op.after)
              /\ f + Cardinality(ks) \in Int /\ f <= f + Cardinality(ks)
              /\ \A k \in f..(f + Cardinality(ks)) - 1 : k \in ks
              /\ Device(buf') /\ Len(w) = Len(v) /\ DOMAIN v = 1..LenOf(fat, d) /\ DOMAIN w = 1..LenOf(fat, d)
              /\ \A k \in 1..LenOf(fat, d) : IF k \in ks THEN Blank(w[k]) ELSE w[k] = v[k]
              /\ \A e \in HeadsOf("clear", op, ino) \ {d} : ViewOf(fat, buf', e) = ViewOf(fat, buf, e)
              /\ \A p \in Places : BlockOf(p) # BlockAt(fat, d, f) => buf'[p] = buf[p]
<1> DEFINE d == op.cut.d
           f == op.from
           ks == {k \in f..op.to : BlockAt(fat, d, k) = BlockAt(fat, d, f)}
           r == [op EXCEPT !.from = f + Cardinality(ks)]
           block == BlockAt(fat, d, f)
           v == ViewOf(fat, buf, d)
           w == ViewOf(fat, buf', d)
           cl == "clear"
           heads == HeadsOf(cl, op, ino)
<1>1. /\ op.pc = cl /\ fat' = fat /\ disk' = disk /\ ino' = ino
      /\ \A k, m : SameBlock(d, k, m) <=> BlockAt(fat, d, k) = BlockAt(fat, d, m)
      /\ BlockOf(Place(d, f)) = block
  BY PlaceNow DEF Clear, SameBlock, BlockAt
<1>2. {k \in f..op.to : SameBlock(d, k, f)} = ks
  BY <1>1
<1>3. /\ op' = Syncing(r, {block}, cl, op.after)
      /\ DeleteSlots(ks, Deleted)
  BY <1>1, <1>2 DEF Clear, Sync
<1>4. Frees(fat, d, ks, buf, buf')
  <2>1. buf' = [p \in Places |-> IF p \in {Place(d, k) : k \in ks} THEN Remains(Deleted(buf[p])) ELSE buf[p]]
    BY <1>3 DEF DeleteSlots, SetSlots
  <2>2. \A p \in Places : p \in {Place(d, k) : k \in ks} <=> \E k \in ks : p = PlaceOf(fat, d, k)
    BY PlaceNow
  <2> QED BY <2>1, <2>2 DEF Frees
<1>5. Resolved /\ Sound(cl, op, fat, buf, ino) /\ Device(buf) /\ Nodes(ino)
  BY <1>1, Calm DEF Resolved, Typed
<1>6. /\ d \in DirsOf(ino) /\ op.after \in {"refused", "removed"} /\ d \in heads
      /\ Chains(fat, heads)
  BY <1>5, DirsHeads DEF Sound, Knows, Owned
<1>7. PICK p, q \in Nat : Removing(v, p, q, f, op.to)
  BY <1>5 DEF Sound, Fit, Cutting
<1>8. IsChain(fat, d, ChainOf(fat, d)) /\ Len(v) = LenOf(fat, d) /\ LenOf(fat, d) \in Nat
  BY <1>6, ViewIs DEF Chains
<1>9. f \in Nat \ {0} /\ op.to \in Int /\ f <= op.to /\ op.to <= LenOf(fat, d)
  BY <1>7, <1>8 DEF Removing, Run
<1> HIDE DEF d, f, v, w, heads
<1>10. ks \in SUBSET (f..op.to) /\ f \in ks /\ ks \in SUBSET (1..LenOf(fat, d))
  BY <1>8, <1>9
<1>11. \A m \in ks : \A k \in f..m : k \in ks
  <2> TAKE m \in ks
  <2> TAKE k \in f..m
  <2>1. f \in 1..LenOf(fat, d) /\ m \in 1..LenOf(fat, d) /\ BlockAt(fat, d, f) = BlockAt(fat, d, m)
    BY <1>10
  <2>2. BlockAt(fat, d, k) = BlockAt(fat, d, f)
    BY <1>8, <2>1, BlockBetween
  <2>3. k \in f..op.to
    BY <1>8, <1>9, <1>10
  <2> QED BY <2>2, <2>3
<1> HIDE DEF ks
<1>12. /\ f + Cardinality(ks) \in Int /\ f <= f + Cardinality(ks)
       /\ \A k \in f..(f + Cardinality(ks)) - 1 : k \in ks
  BY <1>9, <1>10, <1>11, FirstRun
<1>13. /\ Device(buf') /\ Len(w) = Len(v) /\ DOMAIN v = 1..LenOf(fat, d) /\ DOMAIN w = 1..LenOf(fat, d)
       /\ \A k \in 1..LenOf(fat, d) : IF k \in ks THEN Blank(w[k]) ELSE w[k] = v[k]
       /\ \A e \in heads \ {d} : ViewOf(fat, buf', e) = ViewOf(fat, buf, e)
  BY <1>4, <1>5, <1>6, <1>10, FreesSlots DEF v, w
<1>14. \A p0 \in Places : BlockOf(p0) # block => buf'[p0] = buf[p0]
  <2> SUFFICES ASSUME NEW p0 \in Places, BlockOf(p0) # block  PROVE \A k \in ks : p0 # PlaceOf(fat, d, k)
    BY <1>4 DEF Frees
  <2>1. \A k \in ks : BlockOf(PlaceOf(fat, d, k)) = block
    BY DEF ks, BlockAt
  <2> QED BY <2>1
<1> QED BY <1>1, <1>3, <1>12, <1>13, <1>14 DEF r, d, f, ks, v, w, heads

LEMMA ClearCore ==
    ASSUME Sane, Clear, ~(op.from > op.to)
    PROVE  Core(op', fat', buf', disk', ino')
<1> DEFINE d == op.cut.d
           f == op.from
           ks == {k \in f..op.to : BlockAt(fat, d, k) = BlockAt(fat, d, f)}
           r == [op EXCEPT !.from = f + Cardinality(ks)]
           block == BlockAt(fat, d, f)
           v == ViewOf(fat, buf, d)
           w == ViewOf(fat, buf', d)
           cl == "clear"
           heads == HeadsOf(cl, op, ino)
<1>1. /\ op.pc = cl /\ fat' = fat /\ disk' = disk /\ ino' = ino
      /\ op' = Syncing(r, {block}, cl, op.after)
  BY ClearRead
<1>2. /\ f + Cardinality(ks) \in Int /\ f <= f + Cardinality(ks)
      /\ \A k \in f..(f + Cardinality(ks)) - 1 : k \in ks
  BY ClearRead
<1>3. /\ Device(buf') /\ Len(w) = Len(v) /\ DOMAIN v = 1..LenOf(fat, d) /\ DOMAIN w = 1..LenOf(fat, d)
      /\ \A k \in 1..LenOf(fat, d) : IF k \in ks THEN Blank(w[k]) ELSE w[k] = v[k]
      /\ \A e \in heads \ {d} : ViewOf(fat, buf', e) = ViewOf(fat, buf, e)
      /\ \A p0 \in Places : BlockOf(p0) # block => buf'[p0] = buf[p0]
  BY ClearRead
<1>4. Resolved /\ Sound(cl, op, fat, buf, ino) /\ Device(buf) /\ Nodes(ino)
  BY <1>1, Calm DEF Resolved, Typed
<1>5. op.after \in {"refused", "removed"}
  BY <1>4 DEF Sound, Knows
<1>6. PICK p, q \in Nat : Removing(v, p, q, f, op.to)
  BY <1>4 DEF Sound, Fit, Cutting
<1>7. ks \in SUBSET (f..op.to)
  OBVIOUS
<1> HIDE DEF d, f, v, w, heads, ks
<1>8. Removing(w, p, q, f + Cardinality(ks), op.to)
  <2>1. \A k \in DOMAIN v : IF k \in ks THEN Blank(w[k]) ELSE w[k] = v[k]
    BY <1>3
  <2>2. DOMAIN w = DOMAIN v
    BY <1>3
  <2> DEFINE g == f + Cardinality(ks)
  <2>3. g \in Int /\ f <= g /\ (\A k \in f..g - 1 : k \in ks) /\ ks \in SUBSET (f..op.to)
    BY <1>7, <1>2
  <2>4. Len(w) = Len(v)
    BY <1>3
  <2> HIDE DEF g
  <2>5. Removing(w, p, q, g, op.to)
    BY <1>6, <2>1, <2>2, <2>3, <2>4, RemovingMore
  <2> QED BY <2>5 DEF g
<1>9. /\ r.from = f + Cardinality(ks) /\ r.pc = op.pc /\ r.call = op.call /\ r.d = op.d /\ r.n = op.n
       /\ r.i = op.i /\ r.over = op.over /\ r.start = op.start /\ r.slots = op.slots
       /\ r.first = op.first /\ r.old = op.old /\ r.new = op.new /\ r.cut = op.cut /\ r.to = op.to
       /\ r.after = op.after /\ r.undoing = op.undoing /\ r.grown = op.grown /\ r.sync = {}
       /\ DOMAIN r = OpFields
  BY <1>4 DEF Resolved, OpFields
<1> HIDE DEF r
<1>10. Sound(cl, r, fat, buf', ino)
  <2>1. PendingOf(cl, r) = PendingOf(cl, op) /\ GrownOf(cl, r) = GrownOf(cl, op)
    BY <1>9 DEF PendingOf, GrownOf
  <2>2. Owned(cl, r, fat, ino)
    BY <1>4, <2>1, OwnedFewer DEF Sound
  <2>3. Knows(cl, r, fat, ino)
    BY <1>4, <1>9 DEF Sound, Knows, Fill, Adds, Moves, Rests
  <2>4. ASSUME NEW e \in WholeOnes(cl, r, DirsOf(ino))  PROVE Whole(ViewOf(fat, buf', e))
    <3>1. e \in WholeOnes(cl, op, DirsOf(ino)) /\ e \in DirsOf(ino) /\ e # d
      BY <1>9, <2>4 DEF WholeOnes, Adds, Fill, d
    <3>2. e \in heads \ {d} /\ Whole(ViewOf(fat, buf, e))
      BY <1>4, <3>1, DirsHeads DEF Sound, Fit, heads
    <3> QED BY <1>3, <3>2
  <2>5. Adding(cl, r, fat, buf') /\ Renaming(cl, r, fat, buf', DirsOf(ino))
    BY DEF Adding, Renaming, Fill, Adds, Moves
  <2>6. Cutting(cl, r, fat, buf', DirsOf(ino))
    BY <1>8, <1>9 DEF Cutting, d, w
  <2> QED BY <2>2, <2>3, <2>4, <2>5, <2>6 DEF Sound, Fit
<1>11. Safe(fat, buf, DirsOf(ino))
  BY <1>4, SoundSafe
<1>12. Core(Syncing(r, {block}, cl, op.after), fat, buf', disk, ino)
  <2>1. cl \in Labels /\ r.after # None /\ op.after \in Bads
    BY <1>5, <1>9, InodeAssumption DEF Labels, Cuts, Bads
  <2>2. Typed(fat, buf', disk, ino)
    BY <1>4, <1>3 DEF Resolved, Typed
  <2>3. setup.dirsync => Likes(buf, disk)
    BY <1>4 DEF Resolved
  <2> HIDE DEF block, cl
  <2> QED BY <1>4, <1>9, <1>10, <1>3, <1>11, <2>1, <2>2, <2>3, SyncsOne
<1> QED BY <1>1, <1>12

(* fat_remove_entries: the short slot and what is in its block.             *)
LEMMA KeptSound ==
    ASSUME NEW o, NEW t, NEW dev, NEW in, Sound("rm", o, t, dev, in), ~o.undoing
    PROVE  Sound("kept", o, t, dev, in)
<1> DEFINE rm == "rm"
           kept == "kept"
<1>1. PendingOf(kept, o) = PendingOf(rm, o) /\ GrownOf(kept, o) = {}
  BY DEF PendingOf, GrownOf, Rests
<1>2. Owned(kept, o, t, in)
  BY <1>1, OwnedFewer DEF Sound
<1>3. Knows(kept, o, t, in)
  BY DEF Sound, Knows, Labels, Fill, Adds, Moves, Cuts, Rests
<1>4. WholeOnes(kept, o, DirsOf(in)) = WholeOnes(rm, o, DirsOf(in))
  BY DEF WholeOnes, Fill, Adds
<1>5. Adding(kept, o, t, dev) /\ Cutting(kept, o, t, dev, DirsOf(in))
  BY DEF Adding, Cutting, Fill
<1>6. Renaming(kept, o, t, dev, DirsOf(in))
  BY DEF Sound, Fit, Renaming, Adds, Moves
<1> QED BY <1>2, <1>3, <1>4, <1>5, <1>6 DEF Sound, Fit

LEMMA RemoveShortRead ==
    ASSUME Sane, RemoveShort
    PROVE  LET d == op.cut.d
               at == op.cut.at
               p == at - op.cut.longs
               v == ViewOf(fat, buf, d)
               w == ViewOf(fat, buf', d)
           IN /\ op.pc = "rm" /\ fat' = fat /\ disk' = disk /\ ino' = ino /\ d \in DirsOf(ino)
              /\ op' = Syncing(op, {BlockAt(fat, d, at)}, "cleared", IF op.undoing THEN "refused" ELSE "kept")
              /\ Whole(v) /\ Run(p, at) /\ Full(v, p, at) /\ Agree(v, w, p, at)
              /\ Removing(w, p, at, p, at - Cardinality(CutFirstOf(op, fat)))
              /\ Device(buf') /\ \A e \in HeadsOf("rm", op, ino) \ {d} : ViewOf(fat, buf', e) = ViewOf(fat, buf, e)
              /\ \A p0 \in Places : BlockOf(p0) # BlockAt(fat, d, at) => buf'[p0] = buf[p0]
<1> DEFINE d == op.cut.d
           at == op.cut.at
           p == at - op.cut.longs
           ks == CutFirstOf(op, fat)
           to == at - Cardinality(ks)
           block == BlockAt(fat, d, at)
           bad == IF op.undoing THEN "refused" ELSE "kept"
           v == ViewOf(fat, buf, d)
           w == ViewOf(fat, buf', d)
           rm == "rm"
           cl == "cleared"
           heads == HeadsOf(rm, op, ino)
           ds == DirsOf(ino)
<1>1. /\ op.pc = rm /\ fat' = fat /\ disk' = disk /\ ino' = ino
      /\ op' = Syncing(op, {block}, cl, bad) /\ DeleteSlots(ks, DeletedFirst)
  BY PlaceNow, CutFirstIs DEF RemoveShort, Sync, BlockAt, InfoPlace
<1>2. Resolved /\ Sound(rm, op, fat, buf, ino) /\ Device(buf) /\ Nodes(ino)
  BY <1>1, Calm DEF Resolved, Typed
<1>3. Frees(fat, d, ks, buf, buf')
  <2>1. buf' = [p0 \in Places |->
                   IF p0 \in {Place(d, k) : k \in ks} THEN Remains(DeletedFirst(buf[p0])) ELSE buf[p0]]
    BY <1>1 DEF DeleteSlots, SetSlots
  <2>2. \A p0 \in Places : p0 \in {Place(d, k) : k \in ks} <=> \E k \in ks : p0 = PlaceOf(fat, d, k)
    BY PlaceNow
  <2> QED BY <2>1, <2>2 DEF Frees
<1>4. Stands(op.cut, fat, buf, ds) /\ d \in ds /\ d \in heads /\ Chains(fat, heads)
  BY <1>2, DirsHeads DEF Sound, Fit, Cutting, Stands, Owned
<1>5. IsChain(fat, d, ChainOf(fat, d)) /\ Len(v) = LenOf(fat, d) /\ LenOf(fat, d) \in Nat
  BY <1>4, ViewIs DEF Chains
<1>6. at \in 1..LenOf(fat, d) /\ at \in Nat /\ op.cut.longs \in Nat
  BY <1>2, <1>4, StandsPoints DEF Sound, Points
<1>7. Whole(v)
  BY <1>2, <1>4, DirWhole DEF Fill
<1>8. PICK r \in Standing(v) : r.at = at /\ r.longs = op.cut.longs
  BY <1>4 DEF Stands, Has
<1>9. Run(p, at)
  BY <1>7, <1>8, WholeTidy, RecordFull
<1>10. /\ ks \in SUBSET (p..at) /\ at \in ks /\ ks \in SUBSET (1..LenOf(fat, d)) /\ p \in Nat
       /\ \A k \in ks : BlockAt(fat, d, k) = block
  <2>1. ks = {k \in p..at : BlockAt(fat, d, k) = block}
    BY DEF CutFirstOf
  <2>2. p \in Nat /\ p >= 1 /\ p <= at /\ at <= LenOf(fat, d) /\ LenOf(fat, d) \in Nat /\ at \in Nat
    BY <1>5, <1>6, <1>9 DEF Run
  <2> HIDE DEF ks, p, at
  <2> QED BY <2>1, <2>2
<1>11. \A m \in ks : \A k \in m..at : k \in ks
  <2> TAKE m \in ks
  <2> TAKE k \in m..at
  <2>1. m \in 1..LenOf(fat, d) /\ BlockAt(fat, d, m) = BlockAt(fat, d, at)
    BY <1>10
  <2>2. BlockAt(fat, d, k) = BlockAt(fat, d, m)
    BY <1>5, <1>6, <2>1, BlockBetween
  <2>3. k \in p..at
    BY <1>6, <1>10
  <2> QED BY <2>1, <2>2, <2>3 DEF CutFirstOf
<1> HIDE DEF p, at, ks
<1>12. to \in Int /\ to <= at /\ \A k \in to + 1..at : k \in ks
  <2>1. at \in Int /\ p \in Nat /\ ks \in SUBSET (p..at) /\ at \in ks
    BY <1>6, <1>10
  <2> QED BY ONLY <1>11, <2>1, LastRun DEF to
<1>13. /\ Device(buf') /\ Len(w) = Len(v) /\ DOMAIN v = 1..LenOf(fat, d) /\ DOMAIN w = 1..LenOf(fat, d)
       /\ \A k \in 1..LenOf(fat, d) : IF k \in ks THEN Blank(w[k]) ELSE w[k] = v[k]
       /\ \A e \in heads \ {d} : ViewOf(fat, buf', e) = ViewOf(fat, buf, e)
  BY <1>2, <1>3, <1>4, <1>10, FreesSlots
<1> HIDE DEF d, v, w, to, heads
<1>14. Removing(w, p, at, p, to)
  <2>1. \A k \in DOMAIN v : IF k \in ks THEN Blank(w[k]) ELSE w[k] = v[k]
    BY <1>13
  <2>2. DOMAIN w = DOMAIN v /\ Len(w) = Len(v)
    BY <1>13
  <2>3. /\ r.at - r.longs = p /\ ks \in SUBSET (r.at - r.longs..r.at) /\ r.at \in ks /\ to <= r.at
        /\ \A k \in to + 1..r.at : k \in ks
    BY <1>8, <1>10, <1>12 DEF p
  <2>4. Removing(w, r.at - r.longs, r.at, r.at - r.longs, to)
    BY <1>7, <1>8, <1>12, <2>1, <2>2, <2>3, RemovingBegun
  <2> QED BY <1>8, <2>3, <2>4
<1>15. \A p0 \in Places : BlockOf(p0) # block => buf'[p0] = buf[p0]
  <2> SUFFICES ASSUME NEW p0 \in Places, BlockOf(p0) # block  PROVE \A k \in ks : p0 # PlaceOf(fat, d, k)
    BY <1>3 DEF Frees
  <2>1. \A k \in ks : BlockOf(PlaceOf(fat, d, k)) = block
    BY <1>10 DEF BlockAt
  <2> QED BY <2>1
<1>16. Full(v, p, at) /\ Run(p, at)
  BY <1>7, <1>8, <1>9, WholeTidy, RecordFull DEF p
<1>17. Agree(v, w, p, at)
  BY <1>10, <1>13 DEF Agree
<1> QED BY <1>1, <1>4, <1>7, <1>13, <1>14, <1>15, <1>16, <1>17 DEF d, v, w, p, at, to, heads, ks

LEMMA RemoveShortCore == ASSUME Sane, RemoveShort  PROVE Core(op', fat', buf', disk', ino')
<1> DEFINE d == op.cut.d
           at == op.cut.at
           p == at - op.cut.longs
           ks == CutFirstOf(op, fat)
           to == at - Cardinality(ks)
           block == BlockAt(fat, d, at)
           bad == IF op.undoing THEN "refused" ELSE "kept"
           v == ViewOf(fat, buf, d)
           w == ViewOf(fat, buf', d)
           rm == "rm"
           cl == "cleared"
           heads == HeadsOf(rm, op, ino)
           ds == DirsOf(ino)
<1>1. /\ op.pc = rm /\ fat' = fat /\ disk' = disk /\ ino' = ino /\ d \in ds
      /\ op' = Syncing(op, {block}, cl, bad)
  BY RemoveShortRead
<1>2. /\ Removing(w, p, at, p, to) /\ Device(buf')
      /\ \A e \in heads \ {d} : ViewOf(fat, buf', e) = ViewOf(fat, buf, e)
      /\ \A p0 \in Places : BlockOf(p0) # block => buf'[p0] = buf[p0]
  BY RemoveShortRead
<1>3. Resolved /\ Sound(rm, op, fat, buf, ino) /\ Device(buf) /\ Nodes(ino)
  BY <1>1, Calm DEF Resolved, Typed
<1> HIDE DEF d, v, w, to, p, at, ks, heads
<1>4. Sound(cl, op, fat, buf', ino)
  <2>1. PendingOf(cl, op) = PendingOf(rm, op) /\ GrownOf(cl, op) = GrownOf(rm, op)
    BY DEF PendingOf, GrownOf, Rests
  <2>2. Owned(cl, op, fat, ino)
    BY <1>3, <2>1, OwnedFewer DEF Sound
  <2>3. Knows(cl, op, fat, ino)
    BY <1>3, <1>1 DEF Sound, Knows, Labels, Fill, Adds, Moves, Cuts, Rests, d
  <2>4. ASSUME NEW e \in WholeOnes(cl, op, ds)  PROVE Whole(ViewOf(fat, buf', e))
    <3>1. e \in ds /\ e # d
      BY <2>4 DEF WholeOnes, Adds, Fill, d
    <3>2. e \in heads \ {d} /\ Whole(ViewOf(fat, buf, e))
      BY <1>3, <3>1, DirsHeads, DirWhole DEF heads, Fill
    <3> QED BY <1>2, <3>2
  <2>5. Adding(cl, op, fat, buf') /\ Renaming(cl, op, fat, buf', ds)
    BY DEF Adding, Renaming, Fill, Adds, Moves
  <2>6. Cutting(cl, op, fat, buf', ds)
    BY <1>2 DEF Cutting, d, w, p, at, to, ks
  <2> QED BY <2>2, <2>3, <2>4, <2>5, <2>6 DEF Sound, Fit
<1>5. Safe(fat, buf, ds) /\ (op.undoing \/ op.after # None \/ Sound(bad, op, fat, buf, ino))
  BY <1>3, SoundSafe, KeptSound
<1>6. Core(Syncing(op, {block}, cl, bad), fat, buf', disk, ino)
  <2>1. cl \in Labels /\ bad \in Bads
    BY DEF Labels, Cuts, Bads
  <2>2. Typed(fat, buf', disk, ino)
    BY <1>3, <1>2 DEF Resolved, Typed
  <2>3. setup.dirsync => Likes(buf, disk)
    BY <1>3 DEF Resolved
  <2>4. op.sync = {} /\ DOMAIN op = OpFields
    BY <1>3 DEF Resolved
  <2> HIDE DEF block, cl, bad
  <2> QED BY <1>3, <1>4, <1>2, <1>5, <2>1, <2>2, <2>3, <2>4, SyncsOne
<1> QED BY <1>1, <1>6

-----------------------------------------------------------------------------
(* Steps that write the slots of a new name.                                *)
LEMMA TextNat == \A a \in ShortTexts : a \in [1..3 -> Nat]
<1> TAKE a \in ShortTexts
<1>1. a \in [1..3 -> 0..255]
  BY DEF ShortTexts, NameLen
<1>2. \A x \in 0..255 : x \in Nat
  OBVIOUS
<1> QED BY <1>1, <1>2

LEMMA BuiltSlots ==
    ASSUME NEW slots, NEW n \in Names, NEW c, Built(slots, n, c), NEW j \in 1..Len(slots)
    PROVE  IsSlot(slots[j])
<1>1. PICK a \in ShortTexts, attr \in {"file", "dir"} : slots = BuildSlots(n, a, attr, c)
  BY DEF Built
<1>2. Form[n].longs \in Nat /\ Len(slots) = Form[n].longs + 1
  BY BuiltIs
<1>3. j \in 1..Form[n].longs + 1 /\ j \in Nat
  BY <1>2
<1>4. slots[j] = IF j <= Form[n].longs THEN Long(n, Form[n].longs + 1 - j, j = 1, a) ELSE Short(a, attr, c)
  BY <1>1, <1>3 DEF BuildSlots
<1>5. IsSlot(Short(a, attr, c))
  <2>2. a \in [1..3 -> Nat]
    BY TextNat
  <2> QED BY <2>2 DEF IsSlot, Short, NameLen
<1>6. CASE j <= Form[n].longs
  <2> DEFINE i == Form[n].longs + 1 - j
             x == IF j = 1 THEN LongLast + i ELSE i
  <2>1. i \in Nat /\ x \in Nat
    BY <1>2, <1>3, <1>6 DEF LongLast
  <2>2. slots[j] = [text |-> <<x, 108, 0>>, attr |-> "ext", name |-> n, sum |-> a, start |-> None]
    BY <1>4, <1>6 DEF Long
  <2> HIDE DEF x
  <2>3. <<x, 108, 0>> \in [1..3 -> Nat]
    BY <2>1
  <2> QED BY <2>2, <2>3 DEF IsSlot, NameLen
<1> QED BY <1>4, <1>5, <1>6

LEMMA UndoSound ==
    ASSUME NEW label \in Fill, NEW o, NEW t, NEW dev, NEW in, Sound(label, o, t, dev, in)
    PROVE  Sound("undo", o, t, dev, in)
<1> DEFINE un == "undo"
<1>1. PendingOf(un, o) \subseteq PendingOf(label, o) /\ GrownOf(un, o) \subseteq GrownOf(label, o)
  BY DEF Sound, Knows, PendingOf, GrownOf, Fill, Rests
<1>2. Owned(un, o, t, in)
  BY <1>1, OwnedFewer DEF Sound
<1>3. Knows(un, o, t, in)
  BY DEF Sound, Knows, Labels, Fill, Adds, Moves, Cuts, Rests
<1>4. WholeOnes(un, o, DirsOf(in)) \subseteq WholeOnes(label, o, DirsOf(in))
  BY DEF WholeOnes, Fill, Adds
<1>5. Adding(un, o, t, dev)
  BY DEF Sound, Fit, Adding, Fill
<1>6. Cutting(un, o, t, dev, DirsOf(in)) /\ Renaming(un, o, t, dev, DirsOf(in))
  BY DEF Cutting, Renaming, Adds, Moves
<1> QED BY <1>2, <1>3, <1>4, <1>5, <1>6 DEF Sound, Fit

LEMMA FillKnown ==
    ASSUME Sane, op.pc \in Fill
    PROVE  /\ Resolved /\ Sound(op.pc, op, fat, buf, ino) /\ Device(buf) /\ Nodes(ino)
           /\ op.d \in DirsOf(ino) /\ op.d \in HeadsOf(op.pc, op, ino)
           /\ Chains(fat, HeadsOf(op.pc, op, ino)) /\ IsChain(fat, op.d, ChainOf(fat, op.d))
           /\ op.n \in Names /\ Built(op.slots, op.n, op.start)
           /\ op.first \in Nat \ {0} /\ Len(op.slots) \in Nat \ {0} /\ LenOf(fat, op.d) \in Nat
           /\ op.first <= LenOf(fat, op.d) + 1
           /\ Begun(ViewOf(fat, buf, op.d), op.first, op.slots)
<1>1. Resolved /\ Sound(op.pc, op, fat, buf, ino) /\ Device(buf) /\ Nodes(ino)
  BY LabelNotSync, Calm DEF Resolved, Typed, Fill
<1>2. /\ op.d \in DirsOf(ino) /\ op.n \in Names /\ Built(op.slots, op.n, op.start)
      /\ op.first \in Nat \ {0} /\ op.first <= LenOf(fat, op.d) + 1
  BY <1>1 DEF Sound, Knows, Fill, Rests
<1>3. op.d \in HeadsOf(op.pc, op, ino) /\ Chains(fat, HeadsOf(op.pc, op, ino))
  BY <1>1, <1>2, DirsHeads DEF Sound, Owned
<1>4. IsChain(fat, op.d, ChainOf(fat, op.d)) /\ LenOf(fat, op.d) \in Nat
  BY <1>3, ViewIs DEF Chains
<1>5. Len(op.slots) \in Nat \ {0}
  BY <1>2, BuiltIs
<1>6. Begun(ViewOf(fat, buf, op.d), op.first, op.slots)
  BY <1>1 DEF Sound, Fit, Adding
<1> QED BY <1>1, <1>2, <1>3, <1>4, <1>5, <1>6

LEMMA RoomIs ==
    ASSUME Sane, op.pc \in Fill
    PROVE  /\ Room \in 0..Len(op.slots) /\ op.first + Room - 1 <= LenOf(fat, op.d)
           /\ Fits <=> Room = Len(op.slots)
           /\ Fits <=> LastOf(op) <= LenOf(fat, op.d)
           /\ ~Fits => op.first + Room - 1 = LenOf(fat, op.d)
           /\ \A j : NewPlace(j) = PlaceOf(fat, op.d, op.first + j - 1)
<1> DEFINE L == LenOf(fat, op.d)
           n == Len(op.slots)
           f == op.first
<1>1. /\ IsChain(fat, op.d, ChainOf(fat, op.d)) /\ L \in Nat /\ n \in Nat \ {0}
      /\ f \in Nat \ {0} /\ f <= L + 1
  BY FillKnown
<1>2. Len(View(buf, op.d)) = L
  BY <1>1, ViewNow, ViewIs
<1>3. Room = IF L - f + 1 < n THEN L - f + 1 ELSE n
  BY <1>2 DEF Room
<1>4. \A j : NewPlace(j) = PlaceOf(fat, op.d, f + j - 1)
  BY PlaceNow DEF NewPlace
<1>5. (Fits <=> Room = n) /\ LastOf(op) = f + n - 1
  BY DEF Fits, LastOf
<1> HIDE DEF L, n, f
<1>6. Room \in 0..n /\ f + Room - 1 <= L /\ (Room = n <=> f + n - 1 <= L)
      /\ (Room # n => f + Room - 1 = L)
  BY <1>1, <1>3
<1> QED BY <1>4, <1>5, <1>6 DEF L, n, f

(* Put.                                                                     *)
Writes(t, d, f, slots, part, a, b) ==
    /\ b = [p \in Places |-> b[p]]
    /\ \A j \in part : b[PlaceOf(t, d, f + j - 1)] = slots[j]
    /\ \A p \in Places : (\A j \in part : p # PlaceOf(t, d, f + j - 1)) => b[p] = a[p]

LEMMA PutWrites ==
    ASSUME Sane, op.pc \in Fill, NEW part \in SUBSET (1..Room), Put(part)
    PROVE  Writes(fat, op.d, op.first, op.slots, part, buf, buf')
<1>1. \A j : NewPlace(j) = PlaceOf(fat, op.d, op.first + j - 1)
  BY RoomIs
<1>2. /\ IsChain(fat, op.d, ChainOf(fat, op.d)) /\ op.first \in Nat \ {0}
      /\ LenOf(fat, op.d) \in Nat /\ Room \in Nat /\ op.first + Room - 1 <= LenOf(fat, op.d)
  BY FillKnown, RoomIs
<1>3. \A j \in part : j \in Nat /\ op.first + j - 1 \in 1..LenOf(fat, op.d)
  BY <1>2
<1>4. \A j \in part : NewPlace(j) \in Places
  BY <1>1, <1>2, <1>3, PlaceIn
<1>5. \A j, m \in part : NewPlace(j) = NewPlace(m) => j = m
  <2> SUFFICES ASSUME NEW j \in part, NEW m \in part, NewPlace(j) = NewPlace(m)  PROVE j = m
    OBVIOUS
  <2>1. op.first + j - 1 = op.first + m - 1
    BY <1>1, <1>2, <1>3, PlaceOne
  <2> QED BY <1>2, <1>3, <2>1
<1> DEFINE new == [p \in {NewPlace(j) : j \in part} |-> op.slots[CHOOSE j \in part : NewPlace(j) = p]]
<1>6. buf' = [p \in Places |-> IF p \in DOMAIN new THEN new[p] ELSE buf[p]]
  BY DEF Put, SetSlots
<1>7. DOMAIN new = {NewPlace(j) : j \in part}
  OBVIOUS
<1>8. \A j \in part : new[NewPlace(j)] = op.slots[j]
  <2> TAKE j \in part
  <2>1. (CHOOSE m \in part : NewPlace(m) = NewPlace(j)) = j
    BY <1>5
  <2> QED BY <2>1
<1> HIDE DEF new
<1>9. \A j \in part : buf'[NewPlace(j)] = op.slots[j]
  BY <1>4, <1>6, <1>7, <1>8
<1>10. \A p \in Places : (\A j \in part : p # NewPlace(j)) => buf'[p] = buf[p]
  BY <1>6, <1>7
<1>11. buf' = [p \in Places |-> buf'[p]]
  BY <1>6
<1> QED BY <1>1, <1>9, <1>10, <1>11 DEF Writes

Between(m, a, b) == \A p \in Places : m[p] \in {a[p], b[p]}
Within(t, d, f, part) == \A j \in part : j \in Nat /\ f + j - 1 \in 1..LenOf(t, d)

LEMMA WritesView ==
    ASSUME NEW t, NEW heads, Chains(t, heads), NEW d \in heads, NEW f \in Nat \ {0}, NEW slots,
           NEW part, Within(t, d, f, part),
           NEW a, NEW b, Writes(t, d, f, slots, part, a, b), NEW m, Between(m, a, b)
    PROVE  /\ DOMAIN ViewOf(t, m, d) = 1..LenOf(t, d) /\ DOMAIN ViewOf(t, a, d) = 1..LenOf(t, d)
           /\ Len(ViewOf(t, m, d)) = LenOf(t, d) /\ Len(ViewOf(t, a, d)) = LenOf(t, d)
           /\ \A k \in 1..LenOf(t, d) :
                 \/ ViewOf(t, m, d)[k] = ViewOf(t, a, d)[k]
                 \/ k - f + 1 \in part /\ ViewOf(t, m, d)[k] = slots[k - f + 1]
           /\ \A e \in heads \ {d} : ViewOf(t, m, e) = ViewOf(t, a, e)
<1> DEFINE ks == {f + j - 1 : j \in part}
           L == LenOf(t, d)
<1>0. \A j \in part : j \in Nat /\ f + j - 1 \in 1..L
  BY DEF Within
<1>1. IsChain(t, d, ChainOf(t, d))
  BY DEF Chains
<1>2. ks \in SUBSET (1..L)
  BY <1>0
<1>3. \A p \in Places : (\A k \in ks : p # PlaceOf(t, d, k)) => m[p] = a[p]
  <2> SUFFICES ASSUME NEW p \in Places, \A k \in ks : p # PlaceOf(t, d, k)  PROVE m[p] = a[p]
    OBVIOUS
  <2>1. \A j \in part : p # PlaceOf(t, d, f + j - 1)
    OBVIOUS
  <2>2. b[p] = a[p]
    BY <2>1 DEF Writes
  <2> QED BY <2>2 DEF Between
<1>4. \A k \in ks : k - f + 1 \in part /\ (m[PlaceOf(t, d, k)] = a[PlaceOf(t, d, k)]
                                           \/ m[PlaceOf(t, d, k)] = slots[k - f + 1])
  <2> TAKE k \in ks
  <2>1. PICK j \in part : k = f + j - 1
    OBVIOUS
  <2>2. j \in Nat /\ k \in 1..L
    BY <1>0, <2>1
  <2>3. k - f + 1 = j
    BY <2>1, <2>2
  <2>4. PlaceOf(t, d, k) \in Places
    BY <1>1, <2>2, PlaceIn
  <2>5. b[PlaceOf(t, d, k)] = slots[j]
    BY <2>1 DEF Writes
  <2> QED BY <2>3, <2>4, <2>5 DEF Between
<1>5. \A k \in 1..L : ViewOf(t, a, d)[k] = a[PlaceOf(t, d, k)]
  BY <1>1, ViewIs
<1> HIDE DEF ks, L
<1>6. /\ \A k \in 1..LenOf(t, d) : k \notin ks => ViewOf(t, m, d)[k] = ViewOf(t, a, d)[k]
      /\ \A k \in ks : ViewOf(t, m, d)[k] = m[PlaceOf(t, d, k)]
      /\ DOMAIN ViewOf(t, m, d) = 1..LenOf(t, d) /\ DOMAIN ViewOf(t, a, d) = 1..LenOf(t, d)
      /\ Len(ViewOf(t, m, d)) = LenOf(t, d) /\ Len(ViewOf(t, a, d)) = LenOf(t, d)
      /\ \A e \in heads \ {d} : ViewOf(t, m, e) = ViewOf(t, a, e)
  BY <1>2, <1>3, SlotsSet DEF L
<1>7. ASSUME NEW k \in 1..LenOf(t, d)
      PROVE  \/ ViewOf(t, m, d)[k] = ViewOf(t, a, d)[k]
             \/ k - f + 1 \in part /\ ViewOf(t, m, d)[k] = slots[k - f + 1]
  BY <1>4, <1>5, <1>6 DEF L
<1> QED BY <1>6, <1>7

LEMMA WritesIs ==
    ASSUME NEW t, NEW heads, Chains(t, heads), NEW d \in heads, NEW f \in Nat \ {0}, NEW slots,
           NEW part, Within(t, d, f, part), \A j \in part : IsSlot(slots[j]),
           NEW a, Device(a), NEW b, Writes(t, d, f, slots, part, a, b)
    PROVE  /\ Device(b)
           /\ \A j \in part : ViewOf(t, b, d)[f + j - 1] = slots[j]
           /\ \A k \in 1..LenOf(t, d) : k - f + 1 \notin part => ViewOf(t, b, d)[k] = ViewOf(t, a, d)[k]
<1>1. IsChain(t, d, ChainOf(t, d))
  BY DEF Chains
<1>2. \A p \in Places : IsSlot(b[p])
  <2> TAKE p \in Places
  <2>1. CASE \E j \in part : p = PlaceOf(t, d, f + j - 1)
    BY <2>1 DEF Writes
  <2>2. CASE \A j \in part : p # PlaceOf(t, d, f + j - 1)
    BY <2>2 DEF Writes, Device
  <2> QED BY <2>1, <2>2
<1>3. Device(b)
  BY <1>2 DEF Writes, Device
<1>4. \A k \in 1..LenOf(t, d) : ViewOf(t, b, d)[k] = b[PlaceOf(t, d, k)]
  BY <1>1, ViewIs
<1>5. \A j \in part : ViewOf(t, b, d)[f + j - 1] = slots[j]
  BY <1>4 DEF Writes, Within
<1>6. \A k \in 1..LenOf(t, d) : k - f + 1 \notin part => ViewOf(t, b, d)[k] = ViewOf(t, a, d)[k]
  <2>1. Between(b, a, b)
    BY DEF Between
  <2> QED BY <2>1, WritesView
<1> QED BY <1>3, <1>5, <1>6

LEMMA FilledBegun ==
    ASSUME Sane, op.pc \in Fill, NEW part \in SUBSET (1..Room), \A j \in part : j < Len(op.slots),
           NEW b, Writes(fat, op.d, op.first, op.slots, part, buf, b),
           NEW m, Device(m), Between(m, buf, b)
    PROVE  /\ Begun(ViewOf(fat, m, op.d), op.first, op.slots)
           /\ \A e \in HeadsOf(op.pc, op, ino) \ {op.d} : ViewOf(fat, m, e) = ViewOf(fat, buf, e)
           /\ \A x : Stands(x, fat, buf, DirsOf(ino)) => Stands(x, fat, m, DirsOf(ino))
<1> DEFINE d == op.d
           f == op.first
           slots == op.slots
           q == f + Len(slots) - 1
           L == LenOf(fat, d)
           v == ViewOf(fat, buf, d)
           w == ViewOf(fat, m, d)
           heads == HeadsOf(op.pc, op, ino)
<1>1. /\ Sound(op.pc, op, fat, buf, ino) /\ Device(buf) /\ Nodes(ino) /\ d \in heads
      /\ Chains(fat, heads) /\ IsChain(fat, d, ChainOf(fat, d)) /\ op.n \in Names
      /\ Built(slots, op.n, op.start) /\ f \in Nat \ {0} /\ Len(slots) \in Nat \ {0} /\ L \in Nat
      /\ Begun(v, f, slots)
  BY FillKnown
<1>2. Room \in 0..Len(slots) /\ f + Room - 1 <= L
  BY RoomIs
<1>3. Within(fat, d, f, part)
  BY <1>1, <1>2 DEF Within
<1>4. /\ DOMAIN w = 1..L /\ DOMAIN v = 1..L
      /\ \A k \in 1..L : w[k] = v[k] \/ (k - f + 1 \in part /\ w[k] = slots[k - f + 1])
      /\ \A e \in heads \ {d} : ViewOf(fat, m, e) = ViewOf(fat, buf, e)
  BY <1>1, <1>3, WritesView
<1>5. IsDirectory(v) /\ IsDirectory(w)
  BY <1>1, SoundDirectory DEF Sound
<1> HIDE DEF v, w, L, heads, d, f, slots
<1>6. \A k \in DOMAIN v :
         \/ w[k] = v[k]
         \/ k \in f..f + Len(slots) - 1 /\ k < f + Len(slots) - 1 /\ w[k] = slots[k - f + 1]
  <2> TAKE k \in DOMAIN v
  <2> SUFFICES ASSUME k - f + 1 \in part
               PROVE  k \in f..f + Len(slots) - 1 /\ k < f + Len(slots) - 1
    BY <1>4
  <2> DEFINE j == k - f + 1
  <2>0. j \in 1..Room /\ j < Len(slots)
    BY DEF slots
  <2> HIDE DEF j
  <2>1. j \in Nat /\ j >= 1 /\ j < Len(slots) /\ k \in Int
    BY <1>1, <1>2, <1>4, <2>0
  <2>2. f \in Nat /\ Len(slots) \in Nat
    BY <1>1
  <2> QED BY <2>1, <2>2 DEF j
<1>7. Begun(w, f, slots)
  <2>1. DOMAIN w = DOMAIN v
    BY <1>4
  <2> QED BY <1>1, <1>6, <2>1, BegunMore
<1>8. Run(f, q) /\ Half(v, f, q) /\ Half(w, f, q)
  BY <1>1, <1>5, <1>7, BegunHalf
<1>9. Agree(v, w, f, q)
  <2> SUFFICES ASSUME NEW k \in 1..L, k \notin f..q  PROVE v[k] = w[k]
    BY <1>4 DEF Agree
  <2> QED BY <1>4, <1>6
<1>10. ASSUME NEW x, Stands(x, fat, buf, DirsOf(ino))  PROVE Stands(x, fat, m, DirsOf(ino))
  <2>1. x.d \in DirsOf(ino) /\ Has(ViewOf(fat, buf, x.d), x) /\ x.d \in heads
    BY <1>1, <1>10, DirsHeads DEF Stands, heads
  <2>2. CASE x.d = d
    <3>1. Has(w, x)
      BY <1>5, <1>8, <1>9, <2>1, <2>2, HasElsewhere DEF v
    <3> QED BY <2>1, <2>2, <3>1 DEF Stands, w
  <2>3. CASE x.d # d
    BY <1>4, <2>1, <2>3 DEF Stands
  <2> QED BY <2>2, <2>3
<1> QED BY <1>4, <1>7, <1>10 DEF w, heads, d, f, slots

LEMMA FillsSound ==
    ASSUME Sane, op.pc \in {"fill", "short"}, NEW label \in {"short", "grow", "undo"}, NEW m,
           \A e \in HeadsOf(op.pc, op, ino) \ {op.d} : ViewOf(fat, m, e) = ViewOf(fat, buf, e),
           \A x : Stands(x, fat, buf, DirsOf(ino)) => Stands(x, fat, m, DirsOf(ino)),
           Adding(label, op, fat, m)
    PROVE  Sound(label, op, fat, m, ino)
<1> DEFINE l == op.pc
<1>1. l \in Fill /\ Sound(l, op, fat, buf, ino) /\ Nodes(ino)
  BY FillKnown DEF Fill
<1>2. PendingOf(label, op) = PendingOf(l, op) /\ GrownOf(label, op) = {}
  BY <1>1 DEF Sound, Knows, PendingOf, GrownOf, Fill, Rests
<1>3. Owned(label, op, fat, ino)
  BY <1>1, <1>2, OwnedFewer DEF Sound
<1>4. Knows(label, op, fat, ino)
  BY <1>1 DEF Sound, Knows, Labels, Fill, Adds, Moves, Cuts, Rests
<1>5. ASSUME NEW e \in WholeOnes(label, op, DirsOf(ino))  PROVE Whole(ViewOf(fat, m, e))
  <2>1. e \in WholeOnes(l, op, DirsOf(ino)) /\ e # op.d
    BY <1>2, <1>5 DEF WholeOnes, Fill, Adds
  <2>2. e \in HeadsOf(l, op, ino)
    BY <1>1, <2>1, DirsHeads DEF WholeOnes, HeadsOf
  <2> QED BY <1>1, <2>1, <2>2 DEF Sound, Fit
<1>6. Renaming(label, op, fat, m, DirsOf(ino))
  BY <1>1 DEF Sound, Fit, Renaming, Adds, Moves
<1>7. Cutting(label, op, fat, m, DirsOf(ino))
  BY DEF Cutting
<1> QED BY <1>3, <1>4, <1>5, <1>6, <1>7 DEF Sound, Fit

LEMMA FillLongCore == ASSUME Sane, FillLong  PROVE Core(op', fat', buf', disk', ino')
<1> DEFINE d == op.d
           f == op.first
           n == Len(op.slots)
           L == LenOf(fat, d)
           blocks == {BlockOf(NewPlace(j)) : j \in LongPart}
           ok == IF Fits THEN "short" ELSE "grow"
           w == ViewOf(fat, buf', d)
           heads == HeadsOf(op.pc, op, ino)
<1>1. /\ op.pc = "fill" /\ fat' = fat /\ disk' = disk /\ ino' = ino
      /\ op' = Syncing(op, blocks, ok, "undo") /\ Put(LongPart)
  BY DEF FillLong, Sync
<1>2. op.pc \in Fill
  BY <1>1 DEF Fill
<1>3. /\ Resolved /\ Sound(op.pc, op, fat, buf, ino) /\ Device(buf) /\ Nodes(ino) /\ d \in heads
      /\ Chains(fat, heads) /\ IsChain(fat, d, ChainOf(fat, d)) /\ op.n \in Names
      /\ Built(op.slots, op.n, op.start) /\ f \in Nat \ {0} /\ n \in Nat \ {0} /\ L \in Nat /\ f <= L + 1
  BY <1>2, FillKnown
<1>4. /\ Room \in 0..n /\ f + Room - 1 <= L /\ (Fits <=> Room = n) /\ (Fits <=> LastOf(op) <= L)
      /\ (~Fits => f + Room - 1 = L)
      /\ \A j : NewPlace(j) = PlaceOf(fat, d, f + j - 1)
  BY <1>2, RoomIs
<1>5. LongPart \in SUBSET (1..Room) /\ \A j \in LongPart : j < n
  <2>1. ASSUME NEW j \in LongPart  PROVE j \in 1..Room /\ j < n
    <3>1. j \in 1..Room /\ ~InLast(j)
      BY DEF LongPart
    <3>2. ~Fits \/ j # Room
      BY <3>1 DEF InLast
    <3> QED BY <1>3, <1>4, <3>1, <3>2
  <2> QED BY <2>1
<1>6. Writes(fat, d, f, op.slots, LongPart, buf, buf')
  BY <1>1, <1>2, <1>5, PutWrites
<1>7. Within(fat, d, f, LongPart) /\ \A j \in LongPart : IsSlot(op.slots[j])
  <2>1. \A j \in LongPart : j \in 1..n /\ j \in 1..Room
    BY <1>3, <1>4, <1>5
  <2>2. \A j \in LongPart : IsSlot(op.slots[j])
    BY <1>3, <2>1, BuiltSlots
  <2>3. \A j \in LongPart : j \in Nat /\ f + j - 1 \in 1..L
    BY <1>3, <1>4, <2>1
  <2> QED BY <2>2, <2>3 DEF Within
<1>8. /\ Device(buf') /\ \A j \in LongPart : w[f + j - 1] = op.slots[j]
  BY <1>3, <1>6, <1>7, WritesIs
<1>9. ASSUME NEW m, Device(m), Between(m, buf, buf')
      PROVE  /\ Begun(ViewOf(fat, m, d), f, op.slots)
             /\ \A e \in heads \ {d} : ViewOf(fat, m, e) = ViewOf(fat, buf, e)
             /\ \A x : Stands(x, fat, buf, DirsOf(ino)) => Stands(x, fat, m, DirsOf(ino))
  BY <1>2, <1>5, <1>6, <1>9, FilledBegun
<1>10. Between(buf', buf, buf')
  BY DEF Between
<1>11. \A k \in f..f + Room - 1 :
          (Fits => BlockAt(fat, d, k) # BlockAt(fat, d, LastOf(op))) => Filled(op, fat, buf', k)
  <2> TAKE k \in f..f + Room - 1
  <2> DEFINE j == k - f + 1
  <2> SUFFICES ASSUME Fits => BlockAt(fat, d, k) # BlockAt(fat, d, LastOf(op))
               PROVE  Filled(op, fat, buf', k)
    OBVIOUS
  <2>1. j \in 1..Room /\ f + j - 1 = k
    <3>1. f \in Nat /\ Room \in Nat
      BY <1>3, <1>4
    <3> HIDE DEF f
    <3> QED BY <3>1
  <2>2. NewPlace(j) = PlaceOf(fat, d, k)
    BY <1>4, <2>1
  <2>3. Fits => NewPlace(Room) = PlaceOf(fat, d, LastOf(op))
    BY <1>4 DEF LastOf
  <2>4. ~InLast(j)
    BY <2>2, <2>3 DEF InLast, BlockAt
  <2>5. j \in LongPart
    BY <2>1, <2>4 DEF LongPart
  <2> HIDE DEF j
  <2>6. w[k] = op.slots[j]
    BY <1>8, <2>1, <2>5
  <2> QED BY <2>6 DEF Filled, j
<1>12. Adding(ok, op, fat, buf')
  <2>0. Begun(w, f, op.slots)
    BY <1>8, <1>9, <1>10
  <2>1. CASE Fits
    <3>1. LastOf(op) <= L /\ LastOf(op) = f + Room - 1 /\ ok = "short"
      BY <1>4, <2>1 DEF LastOf
    <3>2. \A k \in f..LastOf(op) : BlockAt(fat, d, k) # BlockAt(fat, d, LastOf(op)) => Filled(op, fat, buf', k)
      BY <1>11, <3>1
    <3> QED BY <2>0, <3>1, <3>2 DEF Adding
  <2>2. CASE ~Fits
    <3>1. L < LastOf(op) /\ L = f + Room - 1 /\ ok = "grow"
      BY <1>3, <1>4, <2>2 DEF LastOf
    <3>2. \A k \in f..L : Filled(op, fat, buf', k)
      BY <1>11, <2>2, <3>1
    <3> QED BY <2>0, <3>1, <3>2 DEF Adding
  <2> QED BY <2>1, <2>2
<1>13. Sound(ok, op, fat, buf', ino)
  BY <1>1, <1>8, <1>9, <1>10, <1>12, FillsSound
<1>14. \A m : setup.dirsync /\ Device(m) /\ (\A p \in Places : m[p] \in {buf[p], buf'[p]})
              => Sound("undo", op, fat, m, ino)
  <2> SUFFICES ASSUME NEW m, Device(m), \A p \in Places : m[p] \in {buf[p], buf'[p]}
               PROVE  Sound("undo", op, fat, m, ino)
    OBVIOUS
  <2>1. Between(m, buf, buf')
    BY DEF Between
  <2>2. /\ Begun(ViewOf(fat, m, d), f, op.slots)
        /\ \A e \in heads \ {d} : ViewOf(fat, m, e) = ViewOf(fat, buf, e)
        /\ \A x : Stands(x, fat, buf, DirsOf(ino)) => Stands(x, fat, m, DirsOf(ino))
    BY <1>9, <2>1
  <2>3. Adding("undo", op, fat, m)
    BY <2>2 DEF Adding
  <2> QED BY <1>1, <2>2, <2>3, FillsSound
<1>15. \A p \in Places : BlockOf(p) \notin blocks => buf'[p] = buf[p]
  <2> SUFFICES ASSUME NEW p \in Places, BlockOf(p) \notin blocks
               PROVE  \A j \in LongPart : p # PlaceOf(fat, d, f + j - 1)
    BY <1>6 DEF Writes
  <2> QED BY <1>4
<1>16. Core(Syncing(op, blocks, ok, "undo"), fat, buf', disk, ino)
  <2>1. ok \in Labels /\ "undo" \in Bads
    BY DEF Labels, Adds, Bads
  <2>2. Typed(fat, buf', disk, ino)
    BY <1>3, <1>8 DEF Resolved, Typed
  <2>3. setup.dirsync => Likes(buf, disk)
    BY <1>3 DEF Resolved
  <2>4. op.sync = {} /\ DOMAIN op = OpFields
    BY <1>3 DEF Resolved
  <2> HIDE DEF blocks, ok
  <2> QED BY <1>3, <1>13, <1>14, <1>15, <2>1, <2>2, <2>3, <2>4, SyncsAll
<1> QED BY <1>1, <1>16

(* The last slot of a new name makes it one: what there was, and it.        *)
LEMMA AddedSound ==
    ASSUME NEW label \in {"short", "link"}, NEW t, NEW dev, NEW in, NEW o, Sound(label, o, t, dev, in),
           NEW u, NEW b, Owned("added", o, u, in), NEW w, w = ViewOf(u, b, o.d),
           Whole(w), IsDirectory(w), Full(w, o.first, LastOf(o)), Run(o.first, LastOf(o)),
           LastOf(o) - o.first = Len(o.slots) - 1, LastOf(o) <= LenOf(u, o.d),
           \A e \in DirsOf(in) \cup PendingOf(label, o) : e # o.d => ViewOf(u, b, e) = ViewOf(t, dev, e),
           \A x : Points(x, t, DirsOf(in)) => Points(x, u, DirsOf(in)),
           \A x : Stands(x, t, dev, DirsOf(in)) => Stands(x, u, b, DirsOf(in))
    PROVE  Sound("added", o, u, b, in)
<1> DEFINE ad == "added"
           ds == DirsOf(in)
<1>1. o.d \in ds /\ label \in Fill /\ label \in Adds
  BY DEF Sound, Knows, Fill, Adds, Rests
<1>2. Knows(ad, o, u, in)
  BY <1>1 DEF Sound, Knows, Labels, Fill, Adds, Moves, Cuts, Rests
<1>3. PendingOf(ad, o) = PendingOf(label, o)
  BY DEF PendingOf, Rests
<1>4. ASSUME NEW e \in WholeOnes(ad, o, ds)  PROVE Whole(ViewOf(u, b, e))
  <2>1. CASE e = o.d
    BY <2>1
  <2>2. CASE e # o.d
    <3>1. e \in WholeOnes(label, o, ds) /\ e \in ds \cup PendingOf(label, o)
      BY <1>1, <1>3, <1>4, <2>2 DEF WholeOnes, Fill, Adds
    <3> QED BY <2>2, <3>1 DEF Sound, Fit
  <2> QED BY <2>1, <2>2
<1>5. Adding(ad, o, u, b) /\ Cutting(ad, o, u, b, ds)
  BY DEF Adding, Cutting, Fill
<1>6. Stands(NewInfoOf(o), u, b, ds)
  <2> DEFINE x == NewInfoOf(o)
  <2>1. x.d = o.d /\ x.at = LastOf(o) /\ x.longs = LastOf(o) - o.first
    BY DEF NewInfoOf
  <2> HIDE DEF x
  <2>2. Has(w, x)
    BY <2>1, HasNew
  <2> QED BY <1>1, <2>1, <2>2 DEF Stands, x
<1>7. Renaming(ad, o, u, b, ds)
  BY <1>1, <1>6 DEF Sound, Fit, Renaming, Adds, Moves
<1> QED BY <1>2, <1>4, <1>5, <1>7 DEF Sound, Fit

LEMMA FillShortRead ==
    ASSUME Sane, FillShort
    PROVE  /\ Device(buf') /\ LastOf(op) <= LenOf(fat, op.d) /\ LastOf(op) = op.first + Len(op.slots) - 1
           /\ LastOf(op) - op.first = Len(op.slots) - 1 /\ Run(op.first, LastOf(op))
           /\ IsDirectory(ViewOf(fat, buf, op.d)) /\ IsDirectory(ViewOf(fat, buf', op.d))
           /\ Half(ViewOf(fat, buf, op.d), op.first, LastOf(op))
           /\ Whole(ViewOf(fat, buf', op.d)) /\ Full(ViewOf(fat, buf', op.d), op.first, LastOf(op))
           /\ Agree(ViewOf(fat, buf, op.d), ViewOf(fat, buf', op.d), op.first, LastOf(op))
           /\ HasAll(ViewOf(fat, buf', op.d), op.first, op.slots)
           /\ \A e \in HeadsOf("short", op, ino) \ {op.d} : ViewOf(fat, buf', e) = ViewOf(fat, buf, e)
           /\ \A p \in Places : BlockOf(p) # BlockOf(NewPlace(Room)) => buf'[p] = buf[p]
<1> DEFINE d == op.d
           f == op.first
           n == Len(op.slots)
           L == LenOf(fat, d)
           q == LastOf(op)
           block == BlockOf(NewPlace(Room))
           v == ViewOf(fat, buf, d)
           w == ViewOf(fat, buf', d)
           sh == "short"
           heads == HeadsOf(sh, op, ino)
<1>1. /\ op.pc = sh /\ fat' = fat /\ disk' = disk /\ ino' = ino
      /\ op' = Syncing(op, {block}, "added", "undo") /\ Put(ShortPart)
  BY DEF FillShort, Sync
<1>2. op.pc \in Fill
  BY <1>1 DEF Fill
<1>3. /\ Resolved /\ Sound(sh, op, fat, buf, ino) /\ Device(buf) /\ Nodes(ino) /\ d \in heads
      /\ Chains(fat, heads) /\ IsChain(fat, d, ChainOf(fat, d)) /\ op.n \in Names
      /\ Built(op.slots, op.n, op.start) /\ f \in Nat \ {0} /\ n \in Nat \ {0} /\ L \in Nat
      /\ Begun(v, f, op.slots)
  BY <1>1, <1>2, FillKnown
<1>4. /\ Room \in 0..n /\ f + Room - 1 <= L /\ (Fits <=> Room = n) /\ (Fits <=> q <= L)
      /\ \A j : NewPlace(j) = PlaceOf(fat, d, f + j - 1)
  BY <1>2, RoomIs
<1>5. /\ q <= L
      /\ \A k \in f..q : BlockAt(fat, d, k) # BlockAt(fat, d, q) => Filled(op, fat, buf, k)
  BY <1>3 DEF Sound, Fit, Adding
<1>6. Fits /\ Room = n /\ q = f + n - 1 /\ NewPlace(Room) = PlaceOf(fat, d, q)
  BY <1>4, <1>5 DEF LastOf
<1>7. ShortPart \in SUBSET (1..Room) /\ \A j \in 1..n : j \in ShortPart <=> BlockOf(NewPlace(j)) = block
  BY <1>6 DEF ShortPart, InLast
<1>8. Writes(fat, d, f, op.slots, ShortPart, buf, buf')
  BY <1>1, <1>2, <1>7, PutWrites
<1>9. Within(fat, d, f, ShortPart) /\ \A j \in ShortPart : IsSlot(op.slots[j])
  <2>1. \A j \in ShortPart : j \in 1..n
    BY <1>6, <1>7
  <2>2. \A j \in ShortPart : IsSlot(op.slots[j])
    BY <1>3, <2>1, BuiltSlots
  <2>3. \A j \in ShortPart : j \in Nat /\ f + j - 1 \in 1..L
    BY <1>3, <1>5, <1>6, <2>1
  <2> QED BY <2>2, <2>3 DEF Within
<1>10. /\ Device(buf') /\ \A j \in ShortPart : w[f + j - 1] = op.slots[j]
       /\ \A k \in 1..L : k - f + 1 \notin ShortPart => w[k] = v[k]
  BY <1>3, <1>8, <1>9, WritesIs
<1>11. /\ DOMAIN w = 1..L /\ DOMAIN v = 1..L
       /\ \A e \in heads \ {d} : ViewOf(fat, buf', e) = ViewOf(fat, buf, e)
  <2>1. Between(buf', buf, buf')
    BY DEF Between
  <2> QED BY <1>3, <1>8, <1>9, <2>1, WritesView
<1>12. IsDirectory(v) /\ IsDirectory(w)
  BY <1>3, <1>10, SoundDirectory DEF Sound
<1> HIDE DEF v, w, heads, sh
<1>13. \A j \in 1..n : f + j - 1 \in DOMAIN w /\ w[f + j - 1] = op.slots[j]
  <2> TAKE j \in 1..n
  <2> DEFINE k == f + j - 1
  <2>1. k \in 1..L /\ k \in f..q /\ k - f + 1 = j
    <3>1. f \in Nat /\ f >= 1 /\ n \in Nat
      BY <1>3
    <3>2. q \in Int /\ L \in Int /\ f + n - 1 <= L /\ q = f + n - 1
      BY <1>3, <1>5, <1>6
    <3> HIDE DEF f, n, q, L
    <3> QED BY <3>1, <3>2
  <2>2. CASE j \in ShortPart
    BY <1>10, <1>11, <2>1, <2>2
  <2>3. CASE j \notin ShortPart
    <3>1. BlockAt(fat, d, k) # BlockAt(fat, d, q)
      BY <1>4, <1>6, <1>7, <2>3 DEF BlockAt
    <3> HIDE DEF k
    <3>2. v[k] = op.slots[j]
      BY <1>5, <2>1, <3>1 DEF Filled, v
    <3> QED BY <1>10, <1>11, <2>1, <2>3, <3>2 DEF k
  <2> QED BY <2>2, <2>3
<1>14. Agree(v, w, f, q)
  <2> SUFFICES ASSUME NEW k \in 1..L, k \notin f..q  PROVE v[k] = w[k]
    BY <1>11 DEF Agree
  <2>1. k - f + 1 \notin 1..n
    <3>1. f \in Nat /\ n \in Nat /\ q = f + n - 1 /\ k \in Int
      BY <1>3, <1>6
    <3> HIDE DEF f, n, q
    <3> QED BY <3>1
  <2> QED BY <1>6, <1>7, <1>10, <2>1
<1>15. Whole(w) /\ Full(w, f, q) /\ q - f = n - 1
  <2>1. Agree(v, w, f, f + n - 1) /\ Begun(v, f, op.slots)
    BY <1>3, <1>6, <1>14 DEF v
  <2>2. f \in Nat \ {0} /\ op.n \in Names /\ Built(op.slots, op.n, op.start)
    BY <1>3
  <2>3. HasAll(w, f, op.slots)
    BY <1>13 DEF HasAll
  <2>4. Whole(w) /\ Full(w, f, f + n - 1) /\ (f + n - 1) - f = n - 1
    BY ONLY <1>12, <2>1, <2>2, <2>3, BegunDone
  <2> QED BY <1>6, <2>4
<1>16. Run(f, q) /\ Half(v, f, q)
  BY <1>3, <1>6, <1>12, BegunHalf
<1>17. \A p \in Places : BlockOf(p) # block => buf'[p] = buf[p]
  <2> SUFFICES ASSUME NEW p \in Places, BlockOf(p) # block
               PROVE  \A j \in ShortPart : p # PlaceOf(fat, d, f + j - 1)
    BY <1>8 DEF Writes
  <2> QED BY <1>4, <1>6, <1>7
<1>18. HasAll(w, f, op.slots)
  BY <1>13 DEF HasAll
<1> QED BY <1>5, <1>6, <1>10, <1>11, <1>12, <1>14, <1>15, <1>16, <1>17, <1>18 DEF v, w, heads, sh

LEMMA FillShortCore == ASSUME Sane, FillShort  PROVE Core(op', fat', buf', disk', ino')
<1> DEFINE d == op.d
           f == op.first
           n == Len(op.slots)
           L == LenOf(fat, d)
           q == LastOf(op)
           block == BlockOf(NewPlace(Room))
           v == ViewOf(fat, buf, d)
           w == ViewOf(fat, buf', d)
           sh == "short"
           heads == HeadsOf(sh, op, ino)
           ds == DirsOf(ino)
<1>1. /\ op.pc = sh /\ fat' = fat /\ disk' = disk /\ ino' = ino
      /\ op' = Syncing(op, {block}, "added", "undo")
  BY DEF FillShort, Sync
<1>2. op.pc \in Fill
  BY <1>1 DEF Fill
<1>3. /\ Resolved /\ Sound(sh, op, fat, buf, ino) /\ Device(buf) /\ Nodes(ino) /\ d \in heads
      /\ Chains(fat, heads) /\ IsChain(fat, d, ChainOf(fat, d)) /\ op.n \in Names
      /\ Built(op.slots, op.n, op.start) /\ f \in Nat \ {0} /\ n \in Nat \ {0} /\ L \in Nat
      /\ Begun(v, f, op.slots)
  BY <1>1, <1>2, FillKnown
<1>4. /\ Device(buf') /\ q <= L /\ q - f = n - 1 /\ Run(f, q) /\ IsDirectory(v) /\ IsDirectory(w) /\ Half(v, f, q)
      /\ Whole(w) /\ Full(w, f, q) /\ Agree(v, w, f, q)
      /\ \A e \in heads \ {d} : ViewOf(fat, buf', e) = ViewOf(fat, buf, e)
      /\ \A p \in Places : BlockOf(p) # block => buf'[p] = buf[p]
  BY FillShortRead
<1> HIDE DEF v, w, heads, sh
<1>5. Safe(fat, buf, ds)
  BY <1>3, SoundSafe
<1>6. ASSUME NEW x, Stands(x, fat, buf, ds)  PROVE Stands(x, fat, buf', ds)
  <2>1. x.d \in ds /\ Has(ViewOf(fat, buf, x.d), x) /\ x.d \in heads
    BY <1>3, <1>6, DirsHeads DEF Stands, heads
  <2>2. CASE x.d = d
    <3>1. Has(w, x)
      BY <1>4, <1>5, <2>1, <2>2, HasElsewhere DEF v
    <3> QED BY <2>1, <2>2, <3>1 DEF Stands, w
  <2>3. CASE x.d # d
    BY <1>4, <2>1, <2>3 DEF Stands
  <2> QED BY <2>2, <2>3
<1>7. Owned("added", op, fat, ino)
  <2>1. PendingOf("added", op) = PendingOf(sh, op) /\ GrownOf("added", op) = {}
    BY DEF PendingOf, GrownOf, Rests, sh
  <2> QED BY <1>3, <2>1, OwnedFewer DEF Sound
<1>8. Sound("added", op, fat, buf', ino)
  <2>1. \A e \in ds \cup PendingOf(sh, op) : e # d => ViewOf(fat, buf', e) = ViewOf(fat, buf, e)
    BY <1>3, <1>4, DirsHeads DEF HeadsOf, heads
  <2>2. sh \in {"short", "link"}
    BY DEF sh
  <2>3. w = ViewOf(fat, buf', d)
    BY DEF w
  <2> HIDE DEF ds
  <2> QED BY <1>3, <1>4, <1>5, <1>6, <1>7, <2>1, <2>2, <2>3, AddedSound DEF ds
<1>9. Core(Syncing(op, {block}, "added", "undo"), fat, buf', disk, ino)
  <2>1. "added" \in Labels /\ sh \in Fill /\ "undo" \in Bads
    BY DEF Labels, Adds, Fill, sh, Bads
  <2>2. Typed(fat, buf', disk, ino)
    BY <1>3, <1>4 DEF Resolved, Typed
  <2>3. setup.dirsync => Likes(buf, disk)
    BY <1>3 DEF Resolved
  <2>4. op.sync = {} /\ DOMAIN op = OpFields
    BY <1>3 DEF Resolved
  <2>5. Sound("undo", op, fat, buf, ino)
    BY <1>3, <2>1, UndoSound
  <2> HIDE DEF block
  <2> QED BY <1>3, <1>4, <1>5, <1>8, <2>1, <2>2, <2>3, <2>4, <2>5, SyncsOne
<1> QED BY <1>1, <1>9

-----------------------------------------------------------------------------
(* Steps that free clusters: what is read elsewhere stays.                  *)
Emptied(dev, cs) == [p \in Places |-> IF p[1] \in cs THEN Zero ELSE dev[p]]
Rid(t, u, cs) == \A c \in Clusters \ cs : u[c] = t[c]
Apart(t, heads, cs) == \A r \in heads : ClustersOf(t, r) \cap cs = {}

LEMMA EmptiedIs ==
    ASSUME NEW dev, Device(dev), NEW cs
    PROVE  /\ Device(Emptied(dev, cs))
           /\ \A p \in Places : p[1] \notin cs => Emptied(dev, cs)[p] = dev[p]
  BY ZeroSlot DEF Device, Emptied

LEMMA EmptiedLikes ==
    ASSUME NEW a, NEW b, Likes(a, b), NEW cs
    PROVE  Likes(Emptied(a, cs), Emptied(b, cs))
  BY DEF Likes, AsIn, Emptied

LEMMA RidViews ==
    ASSUME NEW t, NEW heads, Chains(t, heads), NEW kept \in SUBSET heads, NEW cs, Apart(t, kept, cs),
           NEW u, Rid(t, u, cs), NEW dev
    PROVE  /\ Chains(u, kept)
           /\ \A r \in kept : ChainOf(u, r) = ChainOf(t, r) /\ LenOf(u, r) = LenOf(t, r)
           /\ \A r \in kept : ViewOf(u, Emptied(dev, cs), r) = ViewOf(t, dev, r)
<1>1. Chains(t, kept)
  BY ChainsFewer
<1>2. \A r \in kept : \A c \in ClustersOf(t, r) : u[c] = t[c]
  BY <1>1, ChainCells DEF Chains, Apart, Rid
<1>3. Chains(u, kept) /\ \A r \in kept : ChainOf(u, r) = ChainOf(t, r)
  BY <1>1, <1>2, ChainsStay
<1>4. ASSUME NEW r \in kept  PROVE ViewOf(u, Emptied(dev, cs), r) = ViewOf(t, dev, r)
  <2>1. IsChain(t, r, ChainOf(t, r)) /\ ChainOf(u, r) = ChainOf(t, r)
    BY <1>1, <1>3 DEF Chains
  <2> DEFINE b == Emptied(dev, cs)
  <2>2. \A p \in Places : p[1] \in ClustersOf(t, r) => b[p] = dev[p]
    BY DEF Apart, Emptied
  <2> HIDE DEF b
  <2>3. ViewOf(u, b, r) = ViewOf(t, dev, r)
    BY <2>1, <2>2, ViewSame
  <2> QED BY <2>3 DEF b
<1>5. \A r \in kept : LenOf(u, r) = LenOf(t, r)
  BY <1>3 DEF LenOf
<1> QED BY <1>3, <1>4, <1>5

LEMMA UndoCore == ASSUME Sane, Undo  PROVE Core(op', fat', buf', disk', ino')
<1> DEFINE d == op.d
           f == op.first
           n == Len(op.slots)
           L == LenOf(fat, d)
           un == "undo"
           cl == "clear"
           to == f + Room - 1
           g == op.grown
           cs == {g}
           ds == DirsOf(ino)
           heads == HeadsOf(un, op, ino)
           kept == HeadsOf(cl, op', ino)
<1>1. /\ op.pc = un \/ op.pc = "link"
      /\ fat' = (IF g = None THEN fat ELSE [fat EXCEPT ![g] = "free"])
      /\ buf' = Emptied(buf, cs) /\ disk' = Emptied(disk, cs) /\ ino' = ino
      /\ op' = Clearing(d, f, to, "refused")
  BY DEF Undo, LinkFails, Forgotten, Emptied
<1>2. op.pc \in Fill
  BY <1>1 DEF Fill
<1>3. /\ Resolved /\ Sound(op.pc, op, fat, buf, ino) /\ Device(buf) /\ Nodes(ino) /\ d \in ds
      /\ IsChain(fat, d, ChainOf(fat, d)) /\ op.n \in Names
      /\ Built(op.slots, op.n, op.start) /\ f \in Nat \ {0} /\ n \in Nat \ {0} /\ L \in Nat
      /\ Begun(ViewOf(fat, buf, d), f, op.slots)
  BY <1>2, FillKnown
<1>4. /\ Room \in 0..n /\ to <= L /\ (Fits <=> Room = n)
      /\ (~Fits => to = L)
  BY <1>2, RoomIs
<1>5. Sound(un, op, fat, buf, ino)
  BY <1>2, <1>3, UndoSound
<1>6. Removing(ViewOf(fat, buf, d), f, f + n - 1, f, to)
  <2> DEFINE v == ViewOf(fat, buf, d)
  <2>1. IsDirectory(v) /\ Len(v) = L
    BY <1>3, SlotsOf, ViewDirectory, ViewIs
  <2>2. to \in Int /\ to <= f + n - 1 /\ (to = f + n - 1 \/ to = L)
    <3>1. Room \in Nat /\ f \in Nat /\ n \in Nat /\ Room <= n /\ (Room = n \/ to = L)
      BY <1>3, <1>4
    <3> HIDE DEF f, n, L
    <3> QED BY <3>1
  <2> HIDE DEF v, to
  <2>3. Removing(v, f, f + n - 1, f, to)
    BY <1>3, <1>4, <2>1, <2>2, BegunUndone DEF v
  <2> QED BY <2>3 DEF v
<1> HIDE DEF to
<1>7. /\ op'.pc = cl /\ op'.cut.d = d /\ op'.from = f /\ op'.to = to
      /\ op'.after = "refused" /\ op'.call = op.call /\ op'.d = op.d /\ op'.n = op.n
      /\ op'.i = op.i /\ op'.over = op.over /\ op'.start = op.start /\ op'.old = op.old
      /\ op'.new = op.new /\ op'.undoing = op.undoing /\ op'.grown = op.grown /\ op'.sync = {}
  BY <1>1, <1>3, ClearingIs DEF Sane, Resolved
<1>8. PendingOf(cl, op') = PendingOf(un, op) /\ GrownOf(cl, op') = {}
  BY <1>7 DEF PendingOf, GrownOf, Rests
<1>9. kept \subseteq heads /\ Chains(fat, heads)
  BY <1>5, <1>8 DEF HeadsOf, Sound, Owned
<1>10. Rid(fat, fat', cs) /\ fat' \in [Clusters -> Clusters \cup {"free", "eof"}]
  BY <1>1, <1>3 DEF Rid, Resolved, Typed
<1>11. Apart(fat, kept, cs)
  <2>1. CASE g = None
    <3>1. \A r \in kept : ClustersOf(fat, r) \subseteq Clusters
      BY <1>9, ChainCells DEF Chains
    <3> QED BY <2>1, <3>1, RootAssumption DEF Apart
  <2>2. CASE g # None
    <3>1. GrownOf(un, op) = {g}
      BY <2>2 DEF GrownOf
    <3>2. g \in heads /\ g \notin kept
      BY <1>5, <1>8, <3>1 DEF HeadsOf, Sound, Owned
    <3>3. g \in ClustersOf(fat, g)
      BY <1>9, <3>2, ChainCells DEF Chains
    <3>4. \A r \in kept : ClustersOf(fat, r) \cap ClustersOf(fat, g) = {}
      BY <1>9, <3>2 DEF Chains
    <3> QED BY <3>3, <3>4 DEF Apart
  <2> QED BY <2>1, <2>2
<1> HIDE DEF heads, kept, cs
<1>12. /\ Chains(fat', kept)
       /\ \A r \in kept : LenOf(fat', r) = LenOf(fat, r) /\ ViewOf(fat', buf', r) = ViewOf(fat, buf, r)
  <2>1. kept \in SUBSET heads /\ Chains(fat, heads) /\ Rid(fat, fat', cs) /\ buf' = Emptied(buf, cs)
    BY <1>1, <1>9, <1>10
  <2>2. /\ Chains(fat', kept)
        /\ \A r \in kept : ChainOf(fat', r) = ChainOf(fat, r) /\ LenOf(fat', r) = LenOf(fat, r)
        /\ \A r \in kept : ViewOf(fat', Emptied(buf, cs), r) = ViewOf(fat, buf, r)
    BY ONLY <1>11, <2>1, RidViews
  <2> QED BY <2>1, <2>2
<1>13. /\ Device(buf') /\ Device(disk')
       /\ setup.dirsync => Likes(buf', disk')
  <2>1. Device(buf) /\ Device(disk) /\ buf' = Emptied(buf, cs) /\ disk' = Emptied(disk, cs)
    BY <1>1, <1>3 DEF Resolved, Typed
  <2>2. setup.dirsync => Likes(buf, disk)
    BY <1>3 DEF Resolved
  <2>3. Device(buf') /\ Device(disk')
    BY ONLY <2>1, EmptiedIs
  <2>4. Likes(buf, disk) => Likes(buf', disk')
    BY <2>1, EmptiedLikes
  <2> QED BY <2>2, <2>3, <2>4
<1>14. ds \subseteq kept
  BY <1>3, DirsHeads DEF kept
<1>15. Owned(cl, op', fat', ino)
  BY <1>5, <1>8, <1>12 DEF Sound, Owned, kept
<1>16. Knows(cl, op', fat', ino)
  <2>1. \A x : Points(x, fat, ds) => Points(x, fat', ds)
    BY <1>12, <1>14 DEF Points
  <2> QED BY <1>3, <1>5, <1>7, <2>1 DEF Sound, Knows, Labels, Fill, Adds, Moves, Cuts, Rests
<1>17. \A e \in WholeOnes(cl, op', ds) : Whole(ViewOf(fat', buf', e))
  <2>1. WholeOnes(cl, op', ds) \subseteq WholeOnes(un, op, ds) /\ WholeOnes(cl, op', ds) \subseteq ds
    BY <1>7 DEF WholeOnes, Fill, Adds
  <2> QED BY <1>5, <1>12, <1>14, <2>1 DEF Sound, Fit
<1>18. Adding(cl, op', fat', buf') /\ Renaming(cl, op', fat', buf', ds)
  BY DEF Adding, Fill, Renaming, Adds, Moves
<1>19. Cutting(cl, op', fat', buf', ds)
  <2>1. Removing(ViewOf(fat', buf', d), f, f + n - 1, f, to)
    BY <1>3, <1>6, <1>12, <1>14
  <2>2. f \in Nat /\ f + n - 1 \in Nat
    BY <1>3
  <2> QED BY <1>7, <2>1, <2>2 DEF Cutting
<1>20. Sound(cl, op', fat', buf', ino)
  BY <1>15, <1>16, <1>17, <1>18, <1>19 DEF Sound, Fit
<1>21. Typed(fat', buf', disk', ino)
  BY <1>3, <1>10, <1>13 DEF Typed
<1> HIDE DEF ds
<1>22. Core(op', fat', buf', disk', ino)
  BY <1>3, <1>7, <1>13, <1>20, <1>21, NoSyncs DEF Resolved
<1> QED BY <1>1, <1>22

-----------------------------------------------------------------------------
(* Steps that allocate a cluster: it is read by nobody before.              *)
Table(t) == t \in [Clusters -> Clusters \cup {"free", "eof"}]
NewAt(t, u, c) == t[c] = "free" /\ u[c] = "eof" /\ \A e \in Clusters \ {c} : u[e] = t[e]
OnlyAt(c, a, m) == \A p \in Places : p[1] # c => m[p] = a[p]

LEMMA FreeIs == ASSUME NEW c \in FreeCluster  PROVE c \in Clusters /\ fat[c] = "free"
<1>1. Free # {} /\ c = CHOOSE e \in Free : TRUE
  BY DEF FreeCluster
<1>2. c \in Free
  BY <1>1
<1> QED BY <1>2 DEF Free

LEMMA FreeTaken ==
    ASSUME NEW t \in [Clusters -> Clusters \cup {"free", "eof"}], NEW c \in Clusters, t[c] = "free",
           NEW u, u = [t EXCEPT ![c] = "eof"]
    PROVE  NewAt(t, u, c) /\ u \in [Clusters -> Clusters \cup {"free", "eof"}]
  BY DEF NewAt

NewRead(t, u, c, heads) ==
    /\ Chains(u, heads \cup {c}) /\ ChainOf(u, c) = <<c>> /\ c \notin heads
    /\ \A r \in heads : ChainOf(u, r) = ChainOf(t, r) /\ LenOf(u, r) = LenOf(t, r)
                        /\ \A k : PlaceOf(u, r, k) = PlaceOf(t, r, k)
    /\ \A a, m : OnlyAt(c, a, m) => \A r \in heads : ViewOf(u, m, r) = ViewOf(t, a, r)
LEMMA NewViews ==
    ASSUME NEW t, Table(t), NEW heads, Chains(t, heads),
           NEW c \in Clusters, NEW u, NewAt(t, u, c)
    PROVE  NewRead(t, u, c, heads)
<1>1. /\ Chains(u, heads \cup {c}) /\ ChainOf(u, c) = <<c>>
      /\ \A r \in heads : ChainOf(u, r) = ChainOf(t, r) /\ c \notin ClustersOf(t, r)
  BY ChainsNew DEF NewAt, Table
<1>2. \A r \in heads : IsChain(t, r, ChainOf(t, r)) /\ r \in ClustersOf(t, r)
  BY ChainCells DEF Chains
<1>3. \A r \in heads : LenOf(u, r) = LenOf(t, r) /\ \A k : PlaceOf(u, r, k) = PlaceOf(t, r, k)
  BY <1>1 DEF LenOf, PlaceOf
<1>4. ASSUME NEW a, NEW m, OnlyAt(c, a, m), NEW r \in heads
      PROVE  ViewOf(u, m, r) = ViewOf(t, a, r)
  <2>1. \A p \in Places : p[1] \in ClustersOf(t, r) => m[p] = a[p]
    BY <1>1, <1>4 DEF OnlyAt
  <2> QED BY <1>1, <1>2, <2>1, ViewSame
<1> QED BY <1>1, <1>2, <1>3, <1>4 DEF NewRead

LEMMA BlockIn == ASSUME NEW p \in Places  PROVE BlockOf(p) \in BlocksOf(p[1])
<1> DEFINE j == p[2]
           B == Spb
           n == Bpc
<1>1. j \in 1..B * n /\ B \in Nat \ {0} /\ n \in Nat \ {0}
  BY SizeAssumption DEF Places, Spc
<1>2. BlockOf(p) = <<p[1], (j - 1) \div B>>
  BY DEF BlockOf
<1> HIDE DEF j, B, n
<1>3. j - 1 \in Nat /\ j - 1 < B * n
  BY <1>1
<1>4. (j - 1) \div B \in 0..n - 1
  BY <1>1, <1>3
<1> QED BY <1>2, <1>4 DEF BlocksOf, n

(* A step of an operation that takes a cluster, at a label of its own.      *)
LEMMA GrownSound ==
    ASSUME Sound("grow", op, fat, buf, ino), Nodes(ino), NEW c \in Clusters,
           fat \in [Clusters -> Clusters \cup {"free", "eof"}], NEW u, NewAt(fat, u, c),
           DOMAIN op = OpFields, NEW r, r = [op EXCEPT !.grown = c],
           NEW m, OnlyAt(c, buf, m), NEW label \in {"link", "undo"}, Adding(label, r, u, m)
    PROVE  Sound(label, r, u, m, ino)
<1> DEFINE gr == "grow"
           heads == HeadsOf(gr, op, ino)
           ds == DirsOf(ino)
<1>1. Chains(fat, heads) /\ Owned(gr, op, fat, ino) /\ Knows(gr, op, fat, ino)
  BY DEF Sound, Owned
<1>2. /\ Chains(u, heads \cup {c}) /\ c \notin heads
      /\ \A e \in heads : LenOf(u, e) = LenOf(fat, e) /\ ViewOf(u, m, e) = ViewOf(fat, buf, e)
  <2> HIDE DEF heads
  <2>1. Chains(fat, heads) /\ Table(fat)
    BY <1>1 DEF Table
  <2>2. NewRead(fat, u, c, heads)
    BY <2>1, NewViews
  <2> QED BY <2>2 DEF NewRead
<1>3. /\ r.call = op.call /\ r.d = op.d /\ r.n = op.n /\ r.i = op.i /\ r.over = op.over
      /\ r.start = op.start /\ r.slots = op.slots /\ r.first = op.first
      /\ r.old = op.old /\ r.new = op.new /\ r.cut = op.cut
      /\ r.after = op.after /\ r.undoing = op.undoing /\ r.grown = c
  BY DEF OpFields
<1>4. PendingOf(label, r) = PendingOf(gr, op) /\ GrownOf(label, r) = {c} /\ GrownOf(gr, op) = {}
  BY <1>3, RootAssumption DEF PendingOf, GrownOf, Rests
<1>5. HeadsOf(label, r, ino) = heads \cup {c} /\ ds \subseteq heads
  BY <1>4, DirsHeads DEF HeadsOf
<1>6. Owned(label, r, u, ino)
  <2>1. Root \in heads /\ StartsOf(ino) \subseteq heads /\ PendingOf(label, r) \subseteq heads
    BY <1>4 DEF HeadsOf
  <2>2. u[c] = "eof"
    BY DEF NewAt
  <2> HIDE DEF heads
  <2> QED BY <1>1, <1>2, <1>4, <1>5, <2>1, <2>2 DEF Owned
<1> HIDE DEF heads
<1>7. Knows(label, r, u, ino)
  <2>1. \A x : Points(x, fat, ds) => Points(x, u, ds)
    BY <1>2, <1>5 DEF Points
  <2>2. LenOf(u, op.d) = LenOf(fat, op.d)
    BY <1>1, <1>2, <1>5 DEF Knows, Rests
  <2>3. c # None
    BY RootAssumption
  <2> QED BY <1>1, <1>3, <2>1, <2>2, <2>3 DEF Knows, Labels, Fill, Adds, Moves, Cuts, Rests
<1>8. \A e \in WholeOnes(label, r, ds) : Whole(ViewOf(u, m, e))
  <2>1. WholeOnes(label, r, ds) \subseteq WholeOnes(gr, op, ds)
    BY <1>3, <1>4 DEF WholeOnes, Fill, Adds
  <2>2. WholeOnes(gr, op, ds) \subseteq heads
    BY <1>5 DEF WholeOnes, heads, HeadsOf
  <2> QED BY <1>2, <2>1, <2>2 DEF Sound, Fit
<1>9. Cutting(label, r, u, m, ds)
  BY DEF Cutting
<1>10. Renaming(label, r, u, m, ds)
  <2>1. \A x : Stands(x, fat, buf, ds) => Stands(x, u, m, ds)
    BY <1>2, <1>5 DEF Stands
  <2> QED BY <1>3, <2>1 DEF Sound, Fit, Renaming, Adds, Moves
<1> QED BY <1>6, <1>7, <1>8, <1>9, <1>10 DEF Sound, Fit

LEMMA GrowCore == ASSUME Sane, Grow  PROVE Core(op', fat', buf', disk', ino')
<1> DEFINE d == op.d
           f == op.first
           n == Len(op.slots)
           L == LenOf(fat, d)
           gr == "grow"
           heads == HeadsOf(gr, op, ino)
<1>1. op.pc = gr /\ disk' = disk /\ ino' = ino
  BY DEF Grow
<1>2. op.pc \in Fill
  BY <1>1 DEF Fill
<1>3. /\ Resolved /\ Sound(gr, op, fat, buf, ino) /\ Device(buf) /\ Nodes(ino) /\ d \in heads
      /\ Chains(fat, heads) /\ f \in Nat \ {0} /\ n \in Nat \ {0} /\ L \in Nat
      /\ op.n \in Names /\ Built(op.slots, op.n, op.start) /\ Begun(ViewOf(fat, buf, d), f, op.slots)
  BY <1>1, <1>2, FillKnown
<1>4. CASE Free = {} /\ Goto("undo") /\ UNCHANGED <<fat, buf>>
  <2>1. Sound("undo", op, fat, buf, ino)
    BY <1>1, <1>2, <1>3, UndoSound
  <2> QED BY <1>1, <1>3, <1>4, <2>1, GotoCore
<1>5. ASSUME NEW c \in FreeCluster, fat' = [fat EXCEPT ![c] = "eof"], SetSlots(NewEntries(c)),
             op' = Syncing([op EXCEPT !.grown = c], BlocksOf(c), "link", "undo")
      PROVE  Core(op', fat', buf', disk', ino')
  <2> DEFINE r == [op EXCEPT !.grown = c]
             blocks == BlocksOf(c)
  <2>1. /\ c \in Clusters /\ fat[c] = "free" /\ fat \in [Clusters -> Clusters \cup {"free", "eof"}]
        /\ DOMAIN op = OpFields
    BY <1>3, <1>5, FreeIs DEF Resolved, Typed
  <2>2. NewAt(fat, fat', c) /\ fat' \in [Clusters -> Clusters \cup {"free", "eof"}]
    BY <1>5, <2>1, FreeTaken
  <2>3. /\ L < LastOf(op) /\ LastOf(op) = f + n - 1
        /\ \A k \in f..L : Filled(op, fat, buf, k)
    BY <1>3 DEF Sound, Fit, Adding, LastOf
  <2>4. Room \in 0..n /\ f + Room - 1 = L
    BY <1>2, <1>3, <2>3, RoomIs
  <2>5. /\ buf' = [p \in Places |-> buf'[p]]
        /\ \A p \in Places : p[1] # c => buf'[p] = buf[p]
        /\ \A j \in 1..Spc : buf'[<<c, j>>] = IF j <= n - Room THEN op.slots[Room + j] ELSE Zero
    <3> DEFINE z == ZeroedCluster(c)
               x == NewEntries(c)
    <3>1. z = [p \in {c} \X (1..Spc) |-> Zero]
      BY DEF ZeroedCluster
    <3>2. DOMAIN z = {c} \X (1..Spc) /\ \A p \in {c} \X (1..Spc) : z[p] = Zero
      BY <3>1
    <3> HIDE DEF z
    <3>3. x = [p \in DOMAIN z |-> IF p[2] <= n - Room THEN op.slots[Room + p[2]] ELSE z[p]]
      BY DEF NewEntries, z
    <3>4. DOMAIN x = {c} \X (1..Spc)
      BY <3>2, <3>3
    <3>5. ASSUME NEW j \in 1..Spc  PROVE x[<<c, j>>] = IF j <= n - Room THEN op.slots[Room + j] ELSE Zero
      <4>1. <<c, j>> \in {c} \X (1..Spc)
        OBVIOUS
      <4> QED BY <3>2, <3>3, <4>1
    <3> HIDE DEF x
    <3>6. buf' = [p \in Places |-> IF p \in DOMAIN x THEN x[p] ELSE buf[p]]
      BY <1>5 DEF SetSlots, x
    <3>7. \A p \in Places : p[1] # c => p \notin {c} \X (1..Spc)
      OBVIOUS
    <3>8. \A j \in 1..Spc : <<c, j>> \in Places /\ <<c, j>> \in {c} \X (1..Spc)
      BY <2>1 DEF Places
    <3> QED BY <3>4, <3>5, <3>6, <3>7, <3>8
  <2>6. Device(buf')
    <3>1. ASSUME NEW p \in Places  PROVE IsSlot(buf'[p])
      <4>1. CASE p[1] # c
        BY <1>3, <2>5, <4>1 DEF Device
      <4>2. CASE p[1] = c
        <5>1. PICK j \in 1..Spc : p = <<c, j>>
          BY <4>2 DEF Places
        <5>2. j <= n - Room => Room + j \in 1..n
          <6>1. Room \in Nat /\ n \in Nat /\ j \in Nat /\ j >= 1
            BY <1>3, <2>4, SpcNat
          <6> HIDE DEF n
          <6> QED BY <6>1
        <5>3. j <= n - Room => IsSlot(op.slots[Room + j])
          BY <1>3, <5>2, BuiltSlots
        <5> QED BY <2>5, <5>1, <5>3, ZeroSlot
      <4> QED BY <4>1, <4>2
    <3> QED BY <2>5, <3>1 DEF Device
  <2>7. \A e \in heads : /\ LenOf(fat', e) = LenOf(fat, e)
                         /\ \A m : OnlyAt(c, buf, m) => ViewOf(fat', m, e) = ViewOf(fat, buf, e)
    <3> HIDE DEF heads
    <3>1. Chains(fat, heads) /\ Table(fat) /\ c \in Clusters /\ NewAt(fat, fat', c)
      BY <1>3, <2>1, <2>2 DEF Table
    <3>2. NewRead(fat, fat', c, heads)
      BY <3>1, NewViews
    <3> QED BY <3>2 DEF NewRead
  <2>8. /\ r.d = d /\ r.first = f /\ r.slots = op.slots /\ r.grown = c /\ r.sync = {}
        /\ DOMAIN r = OpFields
    BY <1>3, <2>1 DEF OpFields, Resolved
  <2>9. ASSUME NEW m, OnlyAt(c, buf, m)
        PROVE  Begun(ViewOf(fat', m, d), f, op.slots)
    BY <1>3, <2>7, <2>9
  <2>10. OnlyAt(c, buf, buf')
    BY <2>5 DEF OnlyAt
  <2> HIDE DEF r, heads
  <2>11. Adding("link", r, fat', buf')
    <3>1. Begun(ViewOf(fat', buf', d), f, op.slots) /\ LenOf(fat', d) = L /\ LastOf(r) = LastOf(op)
      BY <1>3, <2>7, <2>8, <2>9, <2>10 DEF LastOf
    <3>2. \A k \in f..L : Filled(r, fat', buf', k)
      BY <1>3, <2>3, <2>7, <2>8, <2>10 DEF Filled
    <3>3. ASSUME NEW j \in 1..Spc
          PROVE  buf'[<<c, j>>] = IF L + j <= LastOf(op) THEN op.slots[(L + j) - f + 1] ELSE Zero
      <4>1. (j <= n - Room <=> L + j <= LastOf(op)) /\ Room + j = (L + j) - f + 1
        <5>1. /\ f \in Nat /\ n \in Nat /\ L \in Nat /\ Room \in Nat /\ j \in Nat
              /\ LastOf(op) = f + n - 1 /\ f + Room - 1 = L
          BY <1>3, <2>3, <2>4, SpcNat
        <5> HIDE DEF f, n, L
        <5> QED BY <5>1
      <4> QED BY <2>5, <4>1
    <3>4. \A j \in 1..Spc : buf'[<<r.grown, j>>] =
              LET k == LenOf(fat', r.d) + j IN IF k <= LastOf(r) THEN r.slots[k - r.first + 1] ELSE Zero
      BY <2>8, <3>1, <3>3
    <3>5. LenOf(fat', r.d) < LastOf(r) /\ \A k \in r.first..LenOf(fat', r.d) : Filled(r, fat', buf', k)
      BY <2>3, <2>8, <3>1, <3>2
    <3>6. Begun(ViewOf(fat', buf', r.d), r.first, r.slots)
      BY <2>8, <3>1
    <3> QED BY <3>4, <3>5, <3>6 DEF Adding
  <2>12. Sound("link", r, fat', buf', ino)
    BY <1>3, <2>1, <2>2, <2>10, <2>11, GrownSound DEF r
  <2>13. \A m : setup.dirsync /\ Device(m) /\ (\A p \in Places : m[p] \in {buf[p], buf'[p]})
                => Sound("undo", r, fat', m, ino)
    <3> SUFFICES ASSUME NEW m, \A p \in Places : m[p] \in {buf[p], buf'[p]}
                 PROVE  Sound("undo", r, fat', m, ino)
      OBVIOUS
    <3>1. OnlyAt(c, buf, m)
      BY <2>5 DEF OnlyAt
    <3>2. Adding("undo", r, fat', m)
      BY <2>8, <2>9, <3>1 DEF Adding
    <3> QED BY <1>3, <2>1, <2>2, <3>1, <3>2, GrownSound DEF r
  <2>14. \A p \in Places : BlockOf(p) \notin blocks => buf'[p] = buf[p]
    <3> SUFFICES ASSUME NEW p \in Places, BlockOf(p) \notin blocks  PROVE p[1] # c
      BY <2>5
    <3> QED BY BlockIn
  <2>15. Typed(fat', buf', disk, ino)
    BY <1>3, <2>2, <2>6 DEF Resolved, Typed
  <2>16. setup.dirsync => Likes(buf, disk)
    BY <1>3 DEF Resolved
  <2>17. "link" \in Labels /\ "undo" \in Bads
    BY DEF Labels, Adds, Bads
  <2> HIDE DEF blocks
  <2>18. Core(Syncing(r, blocks, "link", "undo"), fat', buf', disk, ino)
    BY <1>3, <2>8, <2>12, <2>13, <2>14, <2>15, <2>16, <2>17, SyncsAll
  <2> QED BY <1>1, <1>5, <2>18 DEF r, blocks
<1>6. \/ Free = {} /\ Goto("undo") /\ UNCHANGED <<fat, buf>>
      \/ \E c \in FreeCluster :
            /\ fat' = [fat EXCEPT ![c] = "eof"] /\ SetSlots(NewEntries(c))
            /\ op' = Syncing([op EXCEPT !.grown = c], BlocksOf(c), "link", "undo")
  BY DEF Grow, Sync
<1> QED BY <1>4, <1>5, <1>6

(* fat_chain_add: the new cluster is read behind the others.                *)
LEMMA LinkedPlaces ==
    ASSUME NEW t, NEW d, IsChain(t, d, ChainOf(t, d)), NEW g \in Clusters,
           NEW u, ChainOf(u, d) = Append(ChainOf(t, d), g)
    PROVE  /\ LenOf(u, d) = LenOf(t, d) + Spc
           /\ \A k \in 1..LenOf(t, d) : PlaceOf(u, d, k) = PlaceOf(t, d, k)
           /\ \A j \in 1..Spc : PlaceOf(u, d, LenOf(t, d) + j) = <<g, j>>
<1> DEFINE s == ChainOf(t, d)
           w == Append(s, g)
           n == Len(s)
           S == Spc
<1>1. s \in Seq(Clusters) /\ n \in Nat /\ S \in Nat \ {0}
  BY ChainLength, SpcNat DEF IsChain
<1>2. Len(w) = n + 1 /\ (\A k \in 1..n : w[k] = s[k]) /\ w[n + 1] = g
  <2> HIDE DEF s
  <2> QED BY <1>1, AppendProperties
<1>3. LenOf(u, d) = (n + 1) * S /\ LenOf(t, d) = n * S
  BY <1>2 DEF LenOf
<1>4. \A k : /\ PlaceOf(u, d, k) = <<w[(k - 1) \div S + 1], ((k - 1) % S) + 1>>
             /\ PlaceOf(t, d, k) = <<s[(k - 1) \div S + 1], ((k - 1) % S) + 1>>
  BY DEF PlaceOf
<1>5. ASSUME NEW k \in 1..LenOf(t, d)  PROVE PlaceOf(u, d, k) = PlaceOf(t, d, k)
  <2>1. (k - 1) \div S + 1 \in 1..n
    BY <1>1, <1>3, Position
  <2> HIDE DEF s, w, n, S
  <2> QED BY <1>2, <1>4, <2>1
<1>6. ASSUME NEW j \in 1..S  PROVE PlaceOf(u, d, n * S + j) = <<g, j>>
  <2> HIDE DEF s, w, n, S
  <2> DEFINE i == j - 1
             x == (n * S + j) - 1
             y == x \div S
             z == x % S
  <2>0. n * S \in Nat /\ j \in Nat /\ j >= 1
    BY <1>1
  <2>1. i \in Nat /\ i < S /\ x = n * S + i /\ x \in Nat
    BY <1>1, <2>0
  <2> HIDE DEF i, x
  <2>2. y = n /\ z = i
    BY <1>1, <2>1
  <2>3. w[y + 1] = g /\ z + 1 = j
    BY <1>1, <1>2, <2>0, <2>2 DEF i
  <2>4. PlaceOf(u, d, n * S + j) = <<w[y + 1], z + 1>>
    BY <1>4 DEF x
  <2> QED BY <2>3, <2>4
<1>7. (n + 1) * S = n * S + S
  BY <1>1
<1> QED BY <1>3, <1>5, <1>6, <1>7

LEMMA LinkRead ==
    ASSUME Sane, Link
    PROVE  LET v == ViewOf(fat, buf, op.d)
               w == ViewOf(fat', buf, op.d)
               q == LastOf(op)
               kept == HeadsOf("added", op, ino)
           IN /\ buf' = buf /\ Table(fat') /\ Chains(fat', kept) /\ Owned("added", op, fat', ino)
              /\ LenOf(fat', op.d) = LenOf(fat, op.d) + Spc /\ LenOf(fat, op.d) \in Nat /\ Spc \in Nat
              /\ DOMAIN v = 1..LenOf(fat, op.d) /\ q <= LenOf(fat', op.d)
              /\ \A k \in 1..LenOf(fat, op.d) : PlaceOf(fat', op.d, k) = PlaceOf(fat, op.d, k)
              /\ IsDirectory(v) /\ IsDirectory(w) /\ Agree(v, w, op.first, q) /\ HasAll(w, op.first, op.slots)
              /\ Whole(w) /\ Full(w, op.first, q) /\ q - op.first = Len(op.slots) - 1
              /\ Run(op.first, q) /\ Half(v, op.first, q)
              /\ DirsOf(ino) \subseteq kept /\ PendingOf("link", op) \subseteq kept
              /\ \A r \in kept : r # op.d => /\ ViewOf(fat', buf, r) = ViewOf(fat, buf, r)
                                           /\ ChainOf(fat', r) = ChainOf(fat, r)
<1> DEFINE d == op.d
           f == op.first
           n == Len(op.slots)
           g == op.grown
           L == LenOf(fat, d)
           q == f + n - 1
           li == "link"
           ad == "added"
           v == ViewOf(fat, buf, d)
           w == ViewOf(fat', buf, d)
           heads == HeadsOf(li, op, ino)
           kept == HeadsOf(ad, op, ino)
           ds == DirsOf(ino)
           l == ChainOf(fat, d)[Len(ChainOf(fat, d))]
<1>1. /\ op.pc = li /\ disk' = disk /\ ino' = ino /\ buf' = buf /\ Goto(ad)
      /\ fat' = [fat EXCEPT ![l] = g]
  BY ChainNow DEF Link
<1>2. op.pc \in Fill
  BY <1>1 DEF Fill
<1>3. /\ Resolved /\ Sound(li, op, fat, buf, ino) /\ Device(buf) /\ Nodes(ino)
      /\ d \in ds /\ d \in heads
      /\ Chains(fat, heads) /\ IsChain(fat, d, ChainOf(fat, d)) /\ op.n \in Names
      /\ Built(op.slots, op.n, op.start) /\ f \in Nat \ {0} /\ n \in Nat \ {0} /\ L \in Nat
      /\ f <= L + 1 /\ Begun(v, f, op.slots)
  BY <1>1, <1>2, FillKnown
<1>4. /\ g \in Clusters /\ GrownOf(li, op) = {g} /\ g \in heads /\ fat[g] = "eof" /\ d # g
      /\ PendingOf(ad, op) = PendingOf(li, op) /\ GrownOf(ad, op) = {} /\ kept = heads \ {g}
  <2>1. g \in Clusters /\ g # None /\ Owned(li, op, fat, ino)
    BY <1>3 DEF Sound, Knows
  <2>2. GrownOf(li, op) = {g} /\ PendingOf(ad, op) = PendingOf(li, op) /\ GrownOf(ad, op) = {}
    BY <2>1 DEF GrownOf, PendingOf, Rests
  <2>3. g \notin {Root} \cup StartsOf(ino) \cup PendingOf(li, op) /\ fat[g] = "eof"
    BY <2>1, <2>2 DEF Owned
  <2>4. d # g
    BY <1>3, <2>3, DirsHeads DEF DirsOf, StartsOf, Nodes
  <2> QED BY <2>1, <2>2, <2>3, <2>4 DEF HeadsOf
<1>5. l \in Clusters
  <2>1. Len(ChainOf(fat, d)) \in Nat /\ Len(ChainOf(fat, d)) >= 1
        /\ \A k \in 1..Len(ChainOf(fat, d)) : ChainOf(fat, d)[k] \in Clusters
    BY <1>3, ChainLength
  <2> QED BY <2>1
<1>6. /\ Table(fat') /\ fat'[l] = g /\ \A c \in Clusters \ {l} : fat'[c] = fat[c]
  BY <1>1, <1>3, <1>4, <1>5 DEF Resolved, Typed, Table
<1> HIDE DEF v, w, l, heads, kept, ds
<1>7. /\ Chains(fat', heads \ {g}) /\ ChainOf(fat', d) = Append(ChainOf(fat, d), g)
      /\ \A r \in heads \ {d, g} : ChainOf(fat', r) = ChainOf(fat, r)
  <2>1. Chains(fat, heads) /\ d \in heads /\ g \in heads /\ d # g /\ fat[g] = "eof"
    BY <1>3, <1>4
  <2>2. LinkedAt(fat, fat', d, g)
    BY <1>6 DEF LinkedAt, l
  <2>3. LinkedTo(fat, fat', heads, d, g)
    BY <2>1, <2>2, ChainsLinked
  <2> QED BY <2>3 DEF LinkedTo
<1>8. /\ LenOf(fat', d) = L + Spc
      /\ \A k \in 1..L : PlaceOf(fat', d, k) = PlaceOf(fat, d, k)
      /\ \A j \in 1..Spc : PlaceOf(fat', d, L + j) = <<g, j>>
  BY <1>3, <1>4, <1>7, LinkedPlaces
<1>9. IsChain(fat', d, ChainOf(fat', d)) /\ d \in kept
  BY <1>3, <1>4, <1>7 DEF Chains
<1>10. /\ DOMAIN v = 1..L /\ \A k \in 1..L : v[k] = buf[PlaceOf(fat, d, k)]
       /\ DOMAIN w = 1..LenOf(fat', d) /\ \A k \in 1..LenOf(fat', d) : w[k] = buf[PlaceOf(fat', d, k)]
  BY <1>3, <1>9, ViewIs DEF v, w
<1>11. IsDirectory(v) /\ IsDirectory(w)
  BY <1>3, <1>9, SlotsOf, ViewDirectory DEF v, w
<1>12. Spc \in Nat /\ n <= Spc
  <2>1. n = Form[op.n].longs + 1 /\ Form[op.n].longs \in Nat
    BY <1>3, BuiltIs
  <2>2. Form[op.n].longs < Spc
    BY <1>3, ClusterAssumption
  <2> HIDE DEF n
  <2> QED BY <2>1, <2>2, SpcNat
<1>13. /\ L < q /\ q <= L + Spc /\ q = LastOf(op) /\ f <= q
       /\ \A k \in f..L : v[k] = op.slots[k - f + 1]
       /\ \A j \in 1..Spc : buf[<<g, j>>] = IF L + j <= q THEN op.slots[(L + j) - f + 1] ELSE Zero
  <2>1. /\ L < LastOf(op) /\ \A k \in f..L : v[k] = op.slots[k - f + 1]
        /\ \A j \in 1..Spc : buf[<<g, j>>] =
               LET k == L + j IN IF k <= LastOf(op) THEN op.slots[k - f + 1] ELSE Zero
    BY <1>3 DEF Sound, Fit, Adding, Filled, v
  <2>2. q = LastOf(op)
    BY DEF LastOf
  <2>3. q <= L + Spc /\ f <= q
    <3> HIDE DEF f, n, L
    <3> QED BY <1>3, <1>12
  <2> QED BY <2>1, <2>2, <2>3
<1>14. /\ \A k \in 1..L : w[k] = v[k]
       /\ \A j \in 1..Spc : w[L + j] = buf[<<g, j>>]
       /\ DOMAIN w = 1..L + Spc
  <2>1. 1..L \subseteq 1..L + Spc /\ \A j \in 1..Spc : L + j \in 1..L + Spc
    <3> HIDE DEF L
    <3> QED BY <1>3, <1>12
  <2> QED BY <1>8, <1>10, <2>1
<1>15. HasAll(w, f, op.slots)
  <2> SUFFICES ASSUME NEW j \in 1..n  PROVE f + j - 1 \in DOMAIN w /\ w[f + j - 1] = op.slots[j]
    BY DEF HasAll
  <2> DEFINE k == f + j - 1
  <2>1. k \in 1..L + Spc /\ k \in f..q /\ k - f + 1 = j /\ (k > L => k - L \in 1..Spc /\ L + (k - L) = k)
    <3>1. /\ f \in Nat /\ f >= 1 /\ n \in Nat /\ L \in Nat /\ Spc \in Nat /\ q <= L + Spc
          /\ q = f + n - 1
      BY <1>3, <1>12, <1>13
    <3> HIDE DEF f, n, L, q
    <3> QED BY <3>1
  <2>2. CASE k <= L
    <3>1. k \in f..L /\ k \in 1..L
      BY <1>3, <2>1, <2>2
    <3> HIDE DEF k
    <3> QED BY <1>13, <1>14, <2>1, <3>1 DEF k
  <2>3. CASE k > L
    <3>1. k - L \in 1..Spc /\ L + (k - L) = k /\ k <= q
      BY <2>1, <2>3
    <3>2. w[L + (k - L)] = op.slots[(L + (k - L)) - f + 1]
      <4> HIDE DEF k
      <4> QED BY <1>13, <1>14, <3>1
    <3> QED BY <1>14, <2>1, <3>1, <3>2
  <2>4. k <= L \/ k > L
    BY <1>3, <2>1
  <2> QED BY <2>2, <2>3, <2>4
<1>16. Agree(v, w, f, f + n - 1)
  <2> SUFFICES ASSUME NEW i \in 1..L + Spc, i \notin f..q
               PROVE  IF i \in 1..L THEN v[i] = w[i] ELSE Blank(w[i])
    <3>1. DOMAIN v \subseteq 1..L + Spc
      <4>1. DOMAIN v = 1..L /\ L \in Nat /\ Spc \in Nat
        BY <1>3, <1>10, <1>12
      <4> HIDE DEF L
      <4> QED BY <4>1
    <3> QED BY <1>10, <1>14, <3>1 DEF Agree
  <2>1. CASE i \in 1..L
    BY <1>14, <2>1
  <2>2. CASE i \notin 1..L
    <3>1. i - L \in 1..Spc /\ L + (i - L) = i /\ ~(i <= q)
      <4>1. f \in Nat /\ L \in Nat /\ Spc \in Nat /\ f <= L + 1 /\ q \in Int
        BY <1>3, <1>12
      <4> HIDE DEF f, L, q
      <4> QED BY <2>2, <4>1
    <3>2. w[L + (i - L)] = Zero
      BY <1>13, <1>14, <3>1
    <3> QED BY <2>2, <3>1, <3>2, ZeroSlot
  <2> QED BY <2>1, <2>2
<1>17. Whole(w) /\ Full(w, f, q) /\ q - f = n - 1
  <2>1. f \in Nat \ {0} /\ op.n \in Names /\ Built(op.slots, op.n, op.start) /\ Begun(v, f, op.slots)
    BY <1>3
  <2> QED BY ONLY <1>11, <1>15, <1>16, <2>1, BegunDone
<1>18. Run(f, q) /\ Half(v, f, q)
  BY <1>3, <1>11, BegunHalf
<1>19. /\ ds \subseteq kept /\ PendingOf(li, op) \subseteq kept
       /\ \A r \in kept : r # d => ViewOf(fat', buf, r) = ViewOf(fat, buf, r) /\ ChainOf(fat', r) = ChainOf(fat, r)
  <2>1. ds \subseteq kept /\ PendingOf(li, op) \subseteq kept
    BY <1>3, <1>4, DirsHeads DEF ds, kept, HeadsOf
  <2>2. ASSUME NEW r \in kept, r # d
        PROVE  ViewOf(fat', buf, r) = ViewOf(fat, buf, r) /\ ChainOf(fat', r) = ChainOf(fat, r)
    <3>1. IsChain(fat, r, ChainOf(fat, r)) /\ ChainOf(fat', r) = ChainOf(fat, r)
      BY <1>3, <1>4, <1>7, <2>2 DEF Chains
    <3> QED BY <3>1, ViewSame
  <2> QED BY <2>1, <2>2
<1>20. Owned(ad, op, fat', ino) /\ Chains(fat', kept)
  BY <1>3, <1>4, <1>7 DEF Sound, Owned, kept
<1>21. Agree(v, w, f, q) /\ q = LastOf(op) /\ q <= LenOf(fat', d)
  BY <1>8, <1>13, <1>16
<1> QED BY <1>1, <1>3, <1>6, <1>8, <1>10, <1>11, <1>12, <1>15, <1>17, <1>18, <1>19, <1>20, <1>21 DEF v, w, kept, ds

LEMMA LinkCore == ASSUME Sane, Link  PROVE Core(op', fat', buf', disk', ino')
<1> DEFINE d == op.d
           f == op.first
           n == Len(op.slots)
           L == LenOf(fat, d)
           q == LastOf(op)
           li == "link"
           ad == "added"
           v == ViewOf(fat, buf, d)
           w == ViewOf(fat', buf, d)
           kept == HeadsOf(ad, op, ino)
           ds == DirsOf(ino)
<1>1. op.pc = li /\ disk' = disk /\ ino' = ino /\ Goto(ad)
  BY DEF Link
<1>2. op.pc \in Fill
  BY <1>1 DEF Fill
<1>3. Resolved /\ Sound(li, op, fat, buf, ino)
  BY <1>1, <1>2, FillKnown
<1>4. /\ buf' = buf /\ Table(fat') /\ Owned(ad, op, fat', ino)
      /\ LenOf(fat', d) = L + Spc /\ L \in Nat /\ Spc \in Nat /\ q <= LenOf(fat', d)
      /\ IsDirectory(v) /\ IsDirectory(w) /\ Agree(v, w, f, q) /\ Whole(w) /\ Full(w, f, q) /\ q - f = n - 1
      /\ Run(f, q) /\ Half(v, f, q) /\ ds \subseteq kept /\ PendingOf(li, op) \subseteq kept
  BY LinkRead
<1>5. \A r \in kept : r # d => ViewOf(fat', buf, r) = ViewOf(fat, buf, r) /\ LenOf(fat', r) = LenOf(fat, r)
  BY LinkRead DEF LenOf
<1> HIDE DEF v, w, kept, ds
<1>6. ASSUME NEW x, Stands(x, fat, buf, ds)  PROVE Stands(x, fat', buf, ds)
  <2>1. x.d \in ds /\ Has(ViewOf(fat, buf, x.d), x) /\ x.d \in kept
    BY <1>4, <1>6 DEF Stands
  <2>2. CASE x.d = d
    <3>1. Has(v, x)
      BY <2>1, <2>2 DEF v
    <3>2. Has(w, x)
      BY <1>4, <3>1, HasElsewhere
    <3> QED BY <2>1, <2>2, <3>2 DEF Stands, w
  <2>3. CASE x.d # d
    BY <1>5, <2>1, <2>3 DEF Stands
  <2> QED BY <2>2, <2>3
<1>7. ASSUME NEW x, Points(x, fat, ds)  PROVE Points(x, fat', ds)
  <2>1. x.d \in ds /\ x.at \in 1..LenOf(fat, x.d) /\ x.d \in kept
    BY <1>4, <1>7 DEF Points
  <2>2. CASE x.d = d
    <3>1. x.at \in 1..L + Spc
      <4>1. x.at \in 1..L /\ L \in Nat /\ Spc \in Nat
        BY <1>4, <2>1, <2>2
      <4> HIDE DEF L
      <4> QED BY <4>1
    <3> QED BY <1>4, <2>1, <2>2, <3>1 DEF Points
  <2>3. CASE x.d # d
    BY <1>5, <2>1, <2>3 DEF Points
  <2> QED BY <2>2, <2>3
<1>8. Sound(ad, op, fat', buf, ino)
  <2>1. \A e \in ds \cup PendingOf(li, op) : e # d => ViewOf(fat', buf, e) = ViewOf(fat, buf, e)
    BY <1>4, <1>5
  <2>2. li \in {"short", "link"} /\ w = ViewOf(fat', buf, d)
    BY DEF w
  <2>3. q = LastOf(op)
    OBVIOUS
  <2> HIDE DEF li, q, n, f, d
  <2>4. Run(f, LastOf(op)) /\ Full(w, f, LastOf(op)) /\ LastOf(op) - f = n - 1 /\ LastOf(op) <= LenOf(fat', d)
    BY <1>4, <2>3
  <2> QED BY <1>3, <1>4, <1>6, <1>7, <2>1, <2>2, <2>4, AddedSound DEF f, n, d, ds
<1>9. Core(op', fat', buf, disk, ino)
  <2>1. Same(op, op') /\ op'.pc = ad /\ op'.sync = {}
    BY <1>1, <1>3, GotoIs DEF Resolved
  <2>2. Sound(ad, op', fat', buf, ino)
    BY <1>8, <2>1, SoundSame
  <2>3. Typed(fat', buf, disk, ino)
    BY <1>3, <1>4 DEF Resolved, Typed, Table
  <2> QED BY <1>3, <2>1, <2>2, <2>3, NoSyncs DEF Resolved
<1> QED BY <1>1, <1>4, <1>9

(* fat_alloc_new_dir: a directory of its own, that holds no long name.      *)
LEMMA NewDirIs ==
    ASSUME NEW c, NEW d
    PROVE  /\ DOMAIN NewDir(c, d) = {c} \X (1..Spc)
           /\ \A p \in {c} \X (1..Spc) : IsSlot(NewDir(c, d)[p]) /\ ~IsLong(NewDir(c, d)[p])
<1> DEFINE z == ZeroedCluster(c)
           s1 == Short(Dot, "dir", c)
           s2 == Short(DotDot, "dir", LogStart(d))
           x == NewDir(c, d)
<1>1. DOMAIN z = {c} \X (1..Spc) /\ \A p \in {c} \X (1..Spc) : z[p] = Zero
  BY DEF ZeroedCluster
<1>2. IsSlot(s1) /\ ~IsLong(s1) /\ IsSlot(s2) /\ ~IsLong(s2)
  BY DEF Short, Dot, DotDot, IsSlot, IsLong, NameLen
<1>3. IsSlot(Zero) /\ ~IsLong(Zero)
  BY ZeroSlot DEF Blank
<1> HIDE DEF z, s1, s2
<1>4. x = [z EXCEPT ![<<c, 1>>] = s1, ![<<c, 2>>] = s2]
  BY DEF NewDir, z, s1, s2
<1> HIDE DEF x
<1>5. DOMAIN x = DOMAIN z /\ \A p \in DOMAIN z : x[p] = z[p] \/ x[p] = s1 \/ x[p] = s2
  BY <1>4
<1> QED BY <1>1, <1>2, <1>3, <1>5 DEF x

LEMMA MkdirCore ==
    ASSUME Sane, NEW e \in Dentries, Mkdir(e)  PROVE Core(op', fat', buf', disk', ino')
<1> DEFINE r == [Resting EXCEPT !.call = "mkdir", !.d = e.d, !.n = e.n]
           ds == DirsOf(ino)
           heads == HeadsOf("idle", op, ino)
<1>1. op.pc = "idle" /\ MayAdd /\ disk' = disk /\ ino' = ino
  BY DEF Mkdir, Idle
<1>2. e.d \in ds /\ e.n \in Names
  BY <1>1, DentryKnown
<1>3. /\ Resolved /\ Sound("idle", op, fat, buf, ino) /\ Device(buf) /\ Nodes(ino) /\ Table(fat)
      /\ Chains(fat, heads)
  BY <1>1, Calm DEF Resolved, Typed, Table, Sound, Owned
<1>4. CASE Free = {} /\ op' = [r EXCEPT !.pc = "refused"] /\ UNCHANGED <<fat, buf>>
  <2>1. /\ op'.pc = "refused" /\ op'.call = "mkdir" /\ op'.d = e.d /\ op'.n = e.n
        /\ op'.over = None /\ op'.start = None /\ op'.after = None /\ ~op'.undoing
        /\ op'.grown = None /\ op'.sync = {}
    BY <1>4 DEF Resting
  <2>2. Knows("refused", op', fat, ino)
    BY <1>2, <2>1 DEF Knows, Labels, Fill, Adds, Moves, Cuts, Rests
  <2>3. Cutting("refused", op', fat, buf, DirsOf(ino)) /\ Renaming("refused", op', fat, buf, DirsOf(ino))
    BY <2>1 DEF Cutting, Renaming
  <2> QED BY <1>1, <1>4, <2>1, <2>2, <2>3, BeginsCore
<1>5. ASSUME NEW c \in FreeCluster, fat' = [fat EXCEPT ![c] = "eof"], SetSlots(NewDir(c, e.d)),
             op' = Syncing([r EXCEPT !.start = c], BlocksOf(c), "build", "refused")
      PROVE  Core(op', fat', buf', disk', ino')
  <2> DEFINE o == [r EXCEPT !.start = c]
             blocks == BlocksOf(c)
  <2>1. c \in Clusters /\ fat[c] = "free" /\ c # None
    BY FreeIs, RootAssumption
  <2>2. NewAt(fat, fat', c) /\ Table(fat')
    BY <1>3, <1>5, <2>1, FreeTaken DEF Table
  <2>3. /\ DOMAIN o = OpFields /\ o.sync = {} /\ o.call = "mkdir" /\ o.d = e.d /\ o.n = e.n
        /\ o.over = None /\ o.start = c /\ o.after = None /\ ~o.undoing /\ o.grown = None
    BY DEF Resting, OpFields
  <2> HIDE DEF o, heads
  <2>4. NewRead(fat, fat', c, heads)
    BY <1>3, <2>1, <2>2, NewViews
  <2>5. /\ buf' = [p \in Places |-> buf'[p]] /\ OnlyAt(c, buf, buf')
        /\ \A j \in 1..Spc : <<c, j>> \in Places /\ IsSlot(buf'[<<c, j>>]) /\ ~IsLong(buf'[<<c, j>>])
    <3> DEFINE x == NewDir(c, e.d)
    <3>1. DOMAIN x = {c} \X (1..Spc) /\ \A p \in {c} \X (1..Spc) : IsSlot(x[p]) /\ ~IsLong(x[p])
      BY NewDirIs
    <3> HIDE DEF x
    <3>2. buf' = [p \in Places |-> IF p \in DOMAIN x THEN x[p] ELSE buf[p]]
      BY <1>5 DEF SetSlots, x
    <3>3. \A p \in Places : p[1] # c => p \notin {c} \X (1..Spc)
      OBVIOUS
    <3>4. \A j \in 1..Spc : <<c, j>> \in Places /\ <<c, j>> \in {c} \X (1..Spc)
      BY <2>1 DEF Places
    <3> QED BY <3>1, <3>2, <3>3, <3>4 DEF OnlyAt
  <2>6. Device(buf')
    <3>1. ASSUME NEW p \in Places  PROVE IsSlot(buf'[p])
      <4>1. CASE p[1] # c
        BY <1>3, <2>5, <4>1 DEF Device, OnlyAt
      <4>2. CASE p[1] = c
        <5>1. PICK j \in 1..Spc : p = <<c, j>>
          BY <4>2 DEF Places
        <5> QED BY <2>5, <5>1
      <4> QED BY <4>1, <4>2
    <3> QED BY <2>5, <3>1 DEF Device
  <2>7. ds \subseteq heads /\ HeadsOf("build", o, ino) = heads \cup {c}
        /\ HeadsOf("refused", o, ino) = heads \cup {c}
    BY <1>3, <2>1, <2>3, DirsHeads DEF heads, HeadsOf, PendingOf, GrownOf, Rests
  <2>8. ASSUME NEW label \in {"build", "refused"}  PROVE Owned(label, o, fat', ino)
    <3>1. PendingOf(label, o) = {c} /\ GrownOf(label, o) = {}
      BY <2>1, <2>3 DEF PendingOf, GrownOf, Rests
    <3>2. Owned("idle", op, fat, ino) /\ Root \in heads /\ StartsOf(ino) \subseteq heads
      BY <1>3 DEF Sound, heads, HeadsOf
    <3> QED BY <2>4, <2>7, <3>1, <3>2 DEF Owned, NewRead
  <2>9. Knows("build", o, fat', ino) /\ Knows("refused", o, fat', ino)
    <3>1. \E i \in Inodes : ino[i] = None
      BY <1>1, AddsOne DEF Sane
    <3> HIDE DEF ds
    <3> QED BY <1>2, <2>1, <2>3, <3>1 DEF Knows, Labels, Fill, Adds, Moves, Cuts, Rests, ds
  <2>10. ASSUME NEW m, OnlyAt(c, buf, m), NEW d \in ds  PROVE Whole(ViewOf(fat', m, d))
    <3>1. Whole(ViewOf(fat, buf, d))
      BY <1>3, DirWhole DEF Fill
    <3> QED BY <2>4, <2>7, <2>10, <3>1 DEF NewRead
  <2>11. Whole(ViewOf(fat', buf', c))
    <3> DEFINE y == ViewOf(fat', buf', c)
    <3>1. IsChain(fat', c, ChainOf(fat', c)) /\ ChainOf(fat', c) = <<c>>
      BY <2>4 DEF NewRead, Chains
    <3>2. IsDirectory(y)
      BY <2>6, <3>1, SlotsOf, ViewDirectory
    <3>3. ASSUME NEW k \in DOMAIN y  PROVE ~IsLong(y[k])
      <4>1. k \in 1..LenOf(fat', c) /\ y[k] = buf'[PlaceOf(fat', c, k)]
        BY <3>1, ViewIs
      <4>2. PlaceOf(fat', c, k) \in Places /\ PlaceOf(fat', c, k)[1] \in ClustersOf(fat', c)
        BY <3>1, <4>1, PlaceIn
      <4>3. ClustersOf(fat', c) = {c}
        BY <3>1 DEF ClustersOf
      <4>4. PICK j \in 1..Spc : PlaceOf(fat', c, k) = <<c, j>>
        BY <4>2, <4>3 DEF Places
      <4> QED BY <2>5, <4>1, <4>4
    <3> HIDE DEF y
    <3>4. Whole(y)
      BY <3>2, <3>3 DEF Whole
    <3> QED BY <3>4 DEF y
  <2>12. Sound("build", o, fat', buf', ino)
    <3>1. WholeOnes("build", o, ds) \subseteq ds \cup {c}
      BY <2>1, <2>3 DEF WholeOnes, PendingOf
    <3>2. Adding("build", o, fat', buf') /\ Cutting("build", o, fat', buf', ds)
          /\ Renaming("build", o, fat', buf', ds)
      BY <2>3 DEF Adding, Cutting, Renaming, Fill
    <3>3. \A d \in WholeOnes("build", o, ds) : Whole(ViewOf(fat', buf', d))
      BY <2>5, <2>10, <2>11, <3>1
    <3> QED BY <2>8, <2>9, <3>2, <3>3 DEF Sound, Fit
  <2>13. \A m : setup.dirsync /\ Device(m) /\ (\A p \in Places : m[p] \in {buf[p], buf'[p]})
                => Sound("refused", o, fat', m, ino)
    <3> SUFFICES ASSUME NEW m, \A p \in Places : m[p] \in {buf[p], buf'[p]}
                 PROVE  Sound("refused", o, fat', m, ino)
      OBVIOUS
    <3>1. OnlyAt(c, buf, m)
      BY <2>5 DEF OnlyAt
    <3>2. WholeOnes("refused", o, ds) \subseteq ds
      BY DEF WholeOnes, Adds
    <3>3. Adding("refused", o, fat', m) /\ Cutting("refused", o, fat', m, ds)
          /\ Renaming("refused", o, fat', m, ds)
      BY <2>3 DEF Adding, Cutting, Renaming, Fill
    <3>4. \A d \in WholeOnes("refused", o, ds) : Whole(ViewOf(fat', m, d))
      BY <2>10, <3>1, <3>2
    <3> QED BY <2>8, <2>9, <3>3, <3>4 DEF Sound, Fit
  <2>14. \A p \in Places : BlockOf(p) \notin blocks => buf'[p] = buf[p]
    <3> SUFFICES ASSUME NEW p \in Places, BlockOf(p) \notin blocks  PROVE p[1] # c
      BY <2>5 DEF OnlyAt
    <3> QED BY BlockIn
  <2>15. Typed(fat', buf', disk, ino)
    BY <1>3, <2>2, <2>6 DEF Resolved, Typed, Table
  <2>16. setup.dirsync => Likes(buf, disk)
    BY <1>3 DEF Resolved
  <2>17. "build" \in Labels /\ "refused" \in Bads
    BY DEF Labels, Adds, Bads
  <2> HIDE DEF blocks
  <2>18. Core(Syncing(o, blocks, "build", "refused"), fat', buf', disk, ino)
    BY <1>3, <2>3, <2>12, <2>13, <2>14, <2>15, <2>16, <2>17, SyncsAll
  <2> QED BY <1>1, <1>5, <2>18 DEF o, blocks
<1>6. \/ Free = {} /\ op' = [r EXCEPT !.pc = "refused"] /\ UNCHANGED <<fat, buf>>
      \/ \E c \in FreeCluster :
            /\ fat' = [fat EXCEPT ![c] = "eof"] /\ SetSlots(NewDir(c, e.d))
            /\ op' = Syncing([r EXCEPT !.start = c], BlocksOf(c), "build", "refused")
  BY DEF Mkdir, Ask
<1> QED BY <1>4, <1>5, <1>6

-----------------------------------------------------------------------------
(* Clusters that are given back.                                            *)
LEMMA RidSound ==
    ASSUME Resolved, NEW label, label \notin Fill \cup {"cleared", "clear"},
           Sound(label, op, fat, buf, ino), Nodes(ino'), op'.pc = "idle" \/ op'.pc = "error", op'.sync = {},
           op'.start # None => op'.call = "mkdir" /\ op'.start \in Clusters,
           op'.grown \in Clusters \cup {None}, op'.undoing => op'.call = "rename",
           NEW cs, Apart(fat, {Root} \cup StartsOf(ino'), cs), Rid(fat, fat', cs), Table(fat'),
           buf' = Emptied(buf, cs), disk' = Emptied(disk, cs),
           StartsOf(ino') \subseteq StartsOf(ino), DirsOf(ino') = DirsOf(ino),
           \A i \in Inodes : ino'[i] # None => ino[i] # None /\ ino'[i] = ino[i]
    PROVE  Core(op', fat', buf', disk', ino')
<1> DEFINE then == op'.pc
           ds == DirsOf(ino)
           heads == HeadsOf(label, op, ino)
           kept == {Root} \cup StartsOf(ino')
<1>1. then \in Rests /\ then # "sync" /\ then \notin Fill \cup Adds \cup Moves \cup Cuts /\ then \in Labels
  BY DEF Rests, Labels, Fill, Adds, Moves, Cuts
<1>2. HeadsOf(then, op', ino') = kept /\ PendingOf(then, op') = {} /\ GrownOf(then, op') = {}
  BY <1>1 DEF HeadsOf, PendingOf, GrownOf, Rests
<1>3. kept \in SUBSET heads /\ Chains(fat, heads) /\ Device(buf) /\ Device(disk) /\ Nodes(ino)
  BY DEF HeadsOf, Sound, Owned, Resolved, Typed
<1> HIDE DEF heads, then
<1>4. /\ Chains(fat', kept)
      /\ \A r \in kept : ViewOf(fat', Emptied(buf, cs), r) = ViewOf(fat, buf, r)
  BY <1>3, RidViews
<1>5. /\ Device(buf') /\ Device(disk')
      /\ setup.dirsync => Likes(buf', disk')
  <2>1. Device(buf') /\ Device(disk')
    BY <1>3, EmptiedIs
  <2>2. Likes(buf, disk) => Likes(buf', disk')
    BY EmptiedLikes
  <2> QED BY <2>1, <2>2 DEF Resolved
<1>6. ds \subseteq kept
  <2>1. DirsOf(ino') \subseteq kept
    BY DEF DirsOf, StartsOf, Nodes
  <2> QED BY <2>1
<1>7. Owned(then, op', fat', ino')
  BY <1>2, <1>4 DEF Sound, Owned
<1>8. Knows(then, op', fat', ino')
  BY <1>1 DEF Knows, Rests
<1>9. \A d \in WholeOnes(then, op', DirsOf(ino')) : Whole(ViewOf(fat', buf', d))
  <2>1. WholeOnes(then, op', DirsOf(ino')) \subseteq ds
    BY <1>1 DEF WholeOnes
  <2>2. \A d \in ds : Whole(ViewOf(fat, buf, d))
    BY DirWhole
  <2> QED BY <1>4, <1>6, <2>1, <2>2
<1>10. Adding(then, op', fat', buf') /\ Cutting(then, op', fat', buf', DirsOf(ino'))
       /\ Renaming(then, op', fat', buf', DirsOf(ino'))
  BY <1>1 DEF Adding, Cutting, Renaming, Fill, Adds, Cuts, Moves
<1>11. Sound(then, op', fat', buf', ino')
  BY <1>7, <1>8, <1>9, <1>10 DEF Sound, Fit
<1>12. Typed(fat', buf', disk', ino')
  BY <1>5 DEF Typed, Table
<1>13. setup.dirsync => Likes(buf', disk')
  BY <1>5 DEF Resolved
<1> QED BY <1>1, <1>11, <1>12, <1>13, NoSyncs DEF then

LEMMA RefusedCore == ASSUME Sane, Refused  PROVE Core(op', fat', buf', disk', ino')
<1> DEFINE s == op.start
           cs == IF op.call = "mkdir" THEN {s} ELSE {}
           re == "refused"
           kept == {Root} \cup StartsOf(ino)
           heads == HeadsOf(re, op, ino)
<1>1. /\ op.pc = re /\ ino' = ino /\ Goto("error")
      /\ fat' = IF op.call = "mkdir" /\ s # None THEN [fat EXCEPT ![s] = "free"] ELSE fat
      /\ buf' = Emptied(buf, cs) /\ disk' = Emptied(disk, cs)
  BY DEF Refused, Done, Forgotten, Emptied
<1>2. Resolved /\ Sound(re, op, fat, buf, ino) /\ Nodes(ino)
  BY <1>1, Calm DEF Resolved, Typed
<1>3. /\ s # None => op.call = "mkdir" /\ s \in Clusters
      /\ op.grown \in Clusters \cup {None} /\ (op.undoing => op.call = "rename")
  BY <1>2 DEF Sound, Knows
<1>4. Same(op, op') /\ op'.pc = "error" /\ op'.sync = {}
  BY <1>1, <1>2, GotoIs DEF Resolved
<1>5. Rid(fat, fat', cs) /\ Table(fat')
  BY <1>1, <1>2, <1>3 DEF Rid, Resolved, Typed, Table
<1>6. Chains(fat, heads) /\ kept \subseteq heads
  BY <1>2 DEF Sound, Owned, HeadsOf
<1>7. Apart(fat, kept, cs)
  <2>1. CASE s = None
    <3>1. \A r \in kept : ClustersOf(fat, r) \subseteq Clusters
      BY <1>6, ChainCells DEF Chains
    <3> QED BY <2>1, <3>1, RootAssumption DEF Apart
  <2>2. CASE s # None
    <3>1. PendingOf(re, op) = {s}
      BY <2>2 DEF PendingOf, Rests
    <3>2. s \in heads /\ s \notin kept
      BY <1>2, <3>1 DEF HeadsOf, Sound, Owned
    <3> HIDE DEF heads, kept
    <3>3. s \in ClustersOf(fat, s)
      BY <1>6, <3>2, ChainCells DEF Chains
    <3>4. \A r \in kept : ClustersOf(fat, r) \cap ClustersOf(fat, s) = {}
      BY <1>6, <3>2 DEF Chains
    <3> QED BY <3>3, <3>4 DEF Apart
  <2> QED BY <2>1, <2>2
<1>8. re \notin Fill \cup {"cleared", "clear"}
  BY DEF Fill
<1> HIDE DEF cs, re, heads
<1>9. /\ op'.start # None => op'.call = "mkdir" /\ op'.start \in Clusters
      /\ op'.grown \in Clusters \cup {None} /\ (op'.undoing => op'.call = "rename")
  BY <1>3, <1>4 DEF Same
<1> QED BY <1>1, <1>2, <1>4, <1>5, <1>7, <1>8, <1>9, RidSound

LEMMA EvictCore == ASSUME Sane, NEW i \in Inodes, Evict(i)  PROVE Core(op', fat', buf', disk', ino')
<1> DEFINE s == ino[i].start
           cs == IF s = None THEN {} ELSE ClustersOf(fat, s)
           id == "idle"
           kept == {Root} \cup StartsOf(ino')
           heads == HeadsOf(id, op, ino)
<1>1. /\ op.pc = id /\ op' = op /\ ino[i] # None /\ ~ino[i].linked
      /\ ino' = [ino EXCEPT ![i] = None]
      /\ fat' = [c \in Clusters |-> IF c \in cs THEN "free" ELSE fat[c]]
      /\ buf' = Emptied(buf, cs) /\ disk' = Emptied(disk, cs)
  <2>1. \A c : Chained(c) = ClustersOf(fat, c)
    BY ChainNow DEF Chained, ClustersOf
  <2> QED BY <2>1 DEF Evict, Forgotten, Emptied
<1>2. Resolved /\ Sound(id, op, fat, buf, ino) /\ Nodes(ino) /\ Owned(id, op, fat, ino)
  BY <1>1, Calm DEF Resolved, Typed, Sound
<1>3. /\ op.start # None => op.call = "mkdir" /\ op.start \in Clusters
      /\ op.grown \in Clusters \cup {None} /\ (op.undoing => op.call = "rename")
  BY <1>2 DEF Sound, Knows
<1>4. ino'[i] = None /\ \A j \in Inodes : j # i => ino'[j] = ino[j]
  BY <1>1, <1>2 DEF Nodes
<1>5. Nodes(ino')
  BY <1>1, <1>2 DEF Nodes
<1>6. \A j \in Inodes : ino'[j] # None => ino[j] # None /\ ino'[j] = ino[j]
  BY <1>4
<1>7. StartsOf(ino') \subseteq StartsOf(ino) /\ (s # None => s \in StartsOf(ino) /\ s \notin StartsOf(ino'))
  <2>1. StartsOf(ino') \subseteq StartsOf(ino)
    BY <1>6 DEF StartsOf
  <2>2. s # None => s \in StartsOf(ino)
    BY <1>1 DEF StartsOf
  <2>3. ASSUME s # None, s \in StartsOf(ino')  PROVE FALSE
    <3>1. PICK j \in Inodes : ino'[j] # None /\ ino'[j].start = s
      BY <2>3 DEF StartsOf
    <3>2. j # i /\ ino[j] # None /\ ino[j].start = s
      BY <1>4, <3>1
    <3> QED BY <1>1, <1>2, <2>3, <3>2 DEF Owned
  <2> QED BY <2>1, <2>2, <2>3
<1>8. DirsOf(ino') = DirsOf(ino)
  <2>1. {j \in Inodes : ino'[j] # None /\ ino'[j].linked /\ ino'[j].dir}
        = {j \in Inodes : ino[j] # None /\ ino[j].linked /\ ino[j].dir}
    BY <1>1, <1>4
  <2>2. \A j \in {m \in Inodes : ino[m] # None /\ ino[m].linked /\ ino[m].dir} : ino'[j] = ino[j]
    BY <1>1, <1>4
  <2> QED BY <2>1, <2>2 DEF DirsOf
<1>9. Rid(fat, fat', cs) /\ Table(fat')
  BY <1>1, <1>2 DEF Rid, Resolved, Typed, Table
<1>10. Apart(fat, kept, cs)
  <2>1. CASE s = None
    BY <2>1 DEF Apart
  <2>2. CASE s # None
    <3>1. s \in heads /\ kept \subseteq heads /\ s \notin kept /\ Chains(fat, heads)
      BY <1>2, <1>7, <2>2 DEF HeadsOf, Owned
    <3> HIDE DEF heads, kept
    <3>2. \A r \in kept : ClustersOf(fat, r) \cap ClustersOf(fat, s) = {}
      BY <3>1 DEF Chains
    <3> QED BY <2>2, <3>2 DEF Apart
  <2> QED BY <2>1, <2>2
<1>11. id \notin Fill \cup {"cleared", "clear"} /\ op.sync = {}
  BY <1>2 DEF Fill, Resolved
<1> HIDE DEF cs, heads
<1> QED BY <1>1, <1>2, <1>3, <1>5, <1>6, <1>7, <1>8, <1>9, <1>10, <1>11, RidSound

-----------------------------------------------------------------------------
(* Steps between operations.                                                *)
LEMMA WriteBufferLikes ==
    ASSUME Sane, NEW block, WriteBuffer(block)
    PROVE  /\ Resolved /\ op' = op /\ fat' = fat /\ ino' = ino /\ op.pc = "idle"
           /\ Likes(buf, buf') /\ Likes(buf', disk') /\ Device(buf') /\ Device(disk')
<1>1. /\ op.pc = "idle" /\ setup.dirsync /\ op' = op /\ fat' = fat /\ ino' = ino
      /\ \/ disk' = From(buf, disk, {block}) /\ buf' = buf
         \/ buf' = From(disk, buf, {block}) /\ disk' = disk
  BY DEF WriteBuffer
<1>2. Resolved /\ Device(buf) /\ Device(disk) /\ Likes(buf, disk)
  BY <1>1, Calm DEF Resolved, Typed
<1>3. /\ Device(From(buf, disk, {block})) /\ Device(From(disk, buf, {block}))
      /\ \A p \in Places : /\ From(buf, disk, {block})[p] \in {buf[p], disk[p]}
                          /\ From(disk, buf, {block})[p] \in {buf[p], disk[p]}
  BY <1>2, FromDevice
<1>4. Likes(buf, buf') /\ Likes(buf', disk')
  BY <1>1, <1>2, <1>3 DEF Likes, AsIn
<1> QED BY <1>1, <1>2, <1>3, <1>4

LEMMA WriteBufferCore ==
    ASSUME Sane, NEW block, WriteBuffer(block)  PROVE Core(op', fat', buf', disk', ino')
<1>1. /\ Resolved /\ op' = op /\ fat' = fat /\ ino' = ino /\ op.pc = "idle"
      /\ Likes(buf, buf') /\ Likes(buf', disk') /\ Device(buf') /\ Device(disk')
  BY WriteBufferLikes
<1>2. Sound("idle", op, fat, buf', ino)
  BY <1>1, LikesSound DEF Resolved, Typed
<1>3. Typed(fat, buf', disk', ino)
  BY <1>1 DEF Resolved, Typed
<1>4. Core(op, fat, buf', disk', ino)
  BY <1>1, <1>2, <1>3, NoSyncs DEF Resolved
<1> QED BY <1>1, <1>4

LEMMA WriteCore == ASSUME Sane, NEW i \in Inodes, Write(i)  PROVE Core(op', fat', buf', disk', ino')
<1> DEFINE id == "idle"
           heads == HeadsOf(id, op, ino)
<1>0. /\ op.pc = id /\ op' = op /\ i \in Linked /\ ~ino[i].dir /\ ino[i].start = None
      /\ buf' = buf /\ disk' = disk
  BY DEF Write, Idle
<1>1. PICK c \in FreeCluster :
         /\ fat' = [fat EXCEPT ![c] = "eof"]
         /\ ino' = [ino EXCEPT ![i].start = c, ![i].dirty = TRUE]
  BY DEF Write
<1>2. Resolved /\ Sound(id, op, fat, buf, ino) /\ Nodes(ino) /\ Owned(id, op, fat, ino)
      /\ Device(buf) /\ Device(disk) /\ Table(fat)
  BY <1>0, Calm DEF Resolved, Typed, Sound, Table
<1>3. c \in Clusters /\ fat[c] = "free"
  BY FreeIs
<1>4. NewAt(fat, fat', c) /\ Table(fat')
  BY <1>1, <1>2, <1>3, FreeTaken DEF Table
<1>5. Chains(fat, heads)
  BY <1>2 DEF Owned
<1> HIDE DEF heads
<1>6. NewRead(fat, fat', c, heads)
  BY <1>2, <1>3, <1>4, <1>5, NewViews
<1> DEFINE x == ino[i]
           now == TRUE
           y == [pos |-> x.pos, start |-> c, dir |-> x.dir, dirty |-> now, linked |-> x.linked]
<1>7. /\ x \in Inode /\ x # None /\ x.linked /\ ~x.dir /\ x.start = None /\ DOMAIN ino = Inodes
      /\ \A j \in Inodes : ino[j] \in Inode \cup {None}
  BY <1>0, <1>2 DEF Linked, Nodes
<1>8. y \in Inode /\ y.start = c /\ ~y.dir /\ y.linked /\ y # None
  <2>1. y \in Inode
    BY <1>3, <1>7 DEF Inode
  <2> QED BY <1>7, <2>1, InodeAssumption
<1>9. /\ ino'[i] = y /\ DOMAIN ino' = Inodes /\ ino' = [j \in Inodes |-> ino'[j]]
      /\ \A j \in Inodes : j # i => ino'[j] = ino[j]
  <2> HIDE DEF now
  <2>1. [x EXCEPT !.start = c, !.dirty = now] = y
    <3>1. x = [pos |-> x.pos, start |-> x.start, dir |-> x.dir, dirty |-> x.dirty, linked |-> x.linked]
      BY <1>7 DEF Inode
    <3> DEFINE z == [x EXCEPT !.start = c]
    <3> HIDE DEF x
    <3>2. z = [pos |-> x.pos, start |-> c, dir |-> x.dir, dirty |-> x.dirty, linked |-> x.linked]
      BY <3>1
    <3> HIDE DEF z
    <3>3. [z EXCEPT !.dirty = now] = y
      BY <3>2
    <3> QED BY <3>3 DEF z
  <2>2. /\ ino' = [j \in Inodes |-> IF j = i THEN [x EXCEPT !.start = c, !.dirty = now]
                                    ELSE ino[j]]
    BY <1>1, <1>2, <1>7 DEF Nodes, now
  <2> HIDE DEF x, y
  <2> QED BY <2>1, <2>2
<1> HIDE DEF x, y, now
<1>10. Nodes(ino')
  BY <1>7, <1>8, <1>9, <1>2 DEF Nodes
<1>11. StartsOf(ino') = StartsOf(ino) \cup {c}
  <2>1. ASSUME NEW s \in StartsOf(ino')  PROVE s \in StartsOf(ino) \cup {c}
    <3>1. PICK j \in Inodes : ino'[j] # None /\ ino'[j].start = s
      BY DEF StartsOf
    <3>2. CASE j = i
      BY <1>8, <1>9, <3>1, <3>2
    <3>3. CASE j # i
      BY <1>9, <3>1, <3>3 DEF StartsOf
    <3> QED BY <3>2, <3>3
  <2>2. ASSUME NEW s \in StartsOf(ino)  PROVE s \in StartsOf(ino')
    <3>1. PICK j \in Inodes : ino[j] # None /\ ino[j].start = s /\ s # None
      BY DEF StartsOf
    <3>2. j # i
      BY <1>7, <3>1 DEF x
    <3> QED BY <1>9, <3>1, <3>2 DEF StartsOf
  <2>3. c \in StartsOf(ino')
    <3>1. c # None
      BY <1>3, RootAssumption
    <3> QED BY <1>8, <1>9, <3>1 DEF StartsOf
  <2> QED BY <2>1, <2>2, <2>3
<1>12. DirsOf(ino') = DirsOf(ino)
  <2>1. {j \in Inodes : ino'[j] # None /\ ino'[j].linked /\ ino'[j].dir}
        = {j \in Inodes : ino[j] # None /\ ino[j].linked /\ ino[j].dir}
    BY <1>7, <1>8, <1>9 DEF x
  <2>2. \A j \in {m \in Inodes : ino[m] # None /\ ino[m].linked /\ ino[m].dir} : ino'[j] = ino[j]
    BY <1>7, <1>9 DEF x
  <2> QED BY <2>1, <2>2 DEF DirsOf
<1>13. /\ PendingOf(id, op) = {} /\ GrownOf(id, op) = {}
       /\ heads = {Root} \cup StartsOf(ino) /\ HeadsOf(id, op, ino') = heads \cup {c}
  BY <1>11 DEF PendingOf, GrownOf, Rests, HeadsOf, heads
<1>14. Owned(id, op, fat', ino')
  <2>1. Chains(fat', HeadsOf(id, op, ino')) /\ c \notin heads
    BY <1>6, <1>13 DEF NewRead
  <2>2. Root \notin StartsOf(ino') /\ c \notin StartsOf(ino)
    BY <1>2, <1>11, <1>13, <2>1 DEF Owned
  <2>3. ASSUME NEW j \in Inodes, NEW m \in Inodes, ino'[j] # None, ino'[m] # None,
               ino'[j].start = ino'[m].start, ino'[j].start # None
        PROVE  j = m
    <3>1. \A k \in Inodes : k # i /\ ino'[k] # None => ino'[k].start # c
      <4> SUFFICES ASSUME NEW k \in Inodes, k # i, ino'[k] # None, ino'[k].start = c  PROVE FALSE
        OBVIOUS
      <4>1. ino[k] # None /\ ino[k].start = c /\ c # None
        BY <1>3, <1>9, RootAssumption
      <4> QED BY <2>2, <4>1 DEF StartsOf
    <3>2. CASE j = i \/ m = i
      BY <1>8, <1>9, <2>3, <3>1, <3>2
    <3>3. CASE j # i /\ m # i
      BY <1>2, <1>9, <2>3, <3>3 DEF Owned
    <3> QED BY <3>2, <3>3
  <2> QED BY <1>13, <2>1, <2>2, <2>3 DEF Owned
<1>15. Sound(id, op, fat', buf, ino')
  <2>1. Knows(id, op, fat', ino')
    BY <1>2 DEF Sound, Knows, Labels, Fill, Adds, Moves, Cuts, Rests
  <2>2. OnlyAt(c, buf, buf)
    BY DEF OnlyAt
  <2>3. \A r \in heads : ViewOf(fat', buf, r) = ViewOf(fat, buf, r)
    BY <1>6, <2>2 DEF NewRead
  <2>4. WholeOnes(id, op, DirsOf(ino')) = DirsOf(ino) /\ WholeOnes(id, op, DirsOf(ino)) = DirsOf(ino)
        /\ DirsOf(ino) \subseteq heads
    BY <1>2, <1>12, DirsHeads DEF WholeOnes, Adds, Fill, heads
  <2>5. \A d \in DirsOf(ino) : Whole(ViewOf(fat', buf, d))
    BY <1>2, <2>3, <2>4 DEF Sound, Fit
  <2>6. Adding(id, op, fat', buf) /\ Cutting(id, op, fat', buf, DirsOf(ino'))
        /\ Renaming(id, op, fat', buf, DirsOf(ino'))
    BY DEF Adding, Cutting, Renaming, Fill, Adds, Moves
  <2> QED BY <1>14, <2>1, <2>4, <2>5, <2>6 DEF Sound, Fit
<1>16. setup.dirsync => Likes(buf, disk)
  BY <1>2 DEF Resolved
<1>19. Typed(fat', buf', disk', ino') /\ op.sync = {} /\ op.pc # "sync"
  BY <1>0, <1>2, <1>4, <1>10 DEF Typed, Table, Resolved
<1>20. Core(op, fat', buf', disk', ino')
  BY <1>0, <1>15, <1>16, <1>19, NoSyncs
<1> QED BY <1>0, <1>20

-----------------------------------------------------------------------------
(* The shape of an operation.                                               *)
Formed(o) ==
    /\ DOMAIN o = OpFields
    /\ DOMAIN o.old = InfoFields /\ DOMAIN o.new = InfoFields /\ DOMAIN o.cut = InfoFields
    /\ o.pc = "idle" => o = Resting
    /\ o.pc = "sync" => o.ok # "idle" /\ o.bad \notin {"idle", "clear"}
    /\ LabelOf(o) = "clear" => o.after \in {"refused", "removed"}
LEMMA ShapeIs == Shape <=> setup \in Setups /\ Formed(op)
  BY DEF Shape, Formed
LEMMA ShapeNext == ASSUME Shape, UNCHANGED setup, Formed(op')  PROVE Shape'
<1>1. setup' \in Setups /\ Formed(op)'
  BY DEF Shape, Formed, LabelOf, Resting, NoInfo, OpFields, InfoFields
<1> QED BY <1>1 DEF Shape, Formed

LEMMA GotoFormed ==
    ASSUME NEW o, Formed(o), NEW label, label \notin {"idle", "sync", "clear"},
           NEW r, r = [o EXCEPT !.pc = label]
    PROVE  Formed(r)
<1>1. /\ r.pc = label /\ r.old = o.old /\ r.new = o.new /\ r.cut = o.cut /\ DOMAIN r = OpFields
  BY DEF Formed, OpFields
<1> QED BY <1>1 DEF Formed, LabelOf

Goes(o, r) ==
    /\ DOMAIN r = DOMAIN o /\ DOMAIN r.old = InfoFields /\ DOMAIN r.new = InfoFields
    /\ DOMAIN r.cut = InfoFields /\ r.pc \notin {"idle", "sync", "clear"}
LEMMA GoesFormed == ASSUME NEW o, Formed(o), NEW r, Goes(o, r)  PROVE Formed(r)
  BY DEF Formed, Goes, LabelOf

LEMMA SyncFormed ==
    ASSUME NEW o, DOMAIN o = OpFields, DOMAIN o.old = InfoFields, DOMAIN o.new = InfoFields,
           DOMAIN o.cut = InfoFields,
           NEW blocks, NEW label, NEW bad, label \notin {"idle", "sync"}, bad \notin {"idle", "clear"},
           label = "clear" => o.after \in {"refused", "removed"}
    PROVE  Formed(Syncing(o, blocks, label, bad))
<1> DEFINE r == Syncing(o, blocks, label, bad)
<1>1. CASE setup.dirsync /\ blocks # {}
  <2>1. r = [o EXCEPT !.pc = "sync", !.sync = blocks, !.ok = label, !.bad = bad]
    BY <1>1 DEF Syncing
  <2> HIDE DEF r
  <2>2. /\ r.pc = "sync" /\ r.ok = label /\ r.bad = bad /\ r.old = o.old /\ r.new = o.new
        /\ r.cut = o.cut /\ r.after = o.after /\ DOMAIN r = OpFields
    BY <2>1 DEF OpFields
  <2>3. Formed(r)
    BY <2>2 DEF Formed, LabelOf
  <2> QED BY <2>3 DEF r
<1>2. CASE ~(setup.dirsync /\ blocks # {})
  <2>1. r = [o EXCEPT !.pc = label]
    BY <1>2 DEF Syncing
  <2> HIDE DEF r
  <2>2. /\ r.pc = label /\ r.old = o.old /\ r.new = o.new
        /\ r.cut = o.cut /\ r.after = o.after /\ DOMAIN r = OpFields
    BY <2>1 DEF OpFields
  <2>3. Formed(r)
    BY <2>2 DEF Formed, LabelOf
  <2> QED BY <2>3 DEF r
<1> QED BY <1>1, <1>2

LEMMA DentryInfo == ASSUME NEW e \in Dentries  PROVE DOMAIN e.info = InfoFields
<1>1. PICK d \in Dirs, n \in setup.names : e = Dentry(d, View(buf, d), Records(View(buf, d)), n)
  BY DEF Dentries
<1> DEFINE all == {r \in Records(View(buf, d)) : Answers(View(buf, d), r, n)}
           r == FirstOf(all)
<1>2. e = IF <<d, n>> \in neg \/ all = {} THEN [d |-> d, n |-> n, info |-> NoInfo, obj |-> None]
          ELSE [d |-> d, n |-> n, info |-> [d |-> d, at |-> r.at, longs |-> r.longs],
                obj |-> ObjectAt(Place(d, r.at))]
  BY <1>1 DEF Dentry
<1> HIDE DEF all, r
<1>3. e.info = NoInfo \/ e.info = [d |-> d, at |-> r.at, longs |-> r.longs]
  BY <1>2
<1> QED BY <1>3 DEF NoInfo, InfoFields

LEMMA AskedFormed ==
    ASSUME Shape, Request  PROVE UNCHANGED setup /\ Formed(op')
<1> USE DEF Ask, volume
<1>0. Formed(op) /\ Formed(Resting)
  BY ShapeIs, RestingIs DEF Formed, LabelOf
<1>1. ASSUME NEW e \in Dentries, LookupMiss(e) \/ Create(e)  PROVE UNCHANGED setup /\ Formed(op')
  <2>1. CASE LookupMiss(e)
    BY <1>0, <2>1 DEF LookupMiss
  <2>2. CASE Create(e)
    <3>1. UNCHANGED setup /\ op' = [Resting EXCEPT !.pc = "build", !.call = "create", !.d = e.d, !.n = e.n]
      BY <2>2 DEF Create
    <3>2. Goes(Resting, op')
      BY <3>1, RestingIs DEF Goes, Resting
    <3> QED BY <1>0, <3>1, <3>2, GoesFormed
  <2> QED BY <1>1, <2>1, <2>2
<1>2. ASSUME NEW e \in Dentries, Mkdir(e)  PROVE UNCHANGED setup /\ Formed(op')
  <2> DEFINE r == [Resting EXCEPT !.call = "mkdir", !.d = e.d, !.n = e.n]
  <2>1. /\ UNCHANGED setup
        /\ \/ op' = [r EXCEPT !.pc = "refused"]
           \/ \E c \in FreeCluster : op' = Syncing([r EXCEPT !.start = c], BlocksOf(c), "build", "refused")
    BY <1>2 DEF Mkdir
  <2>2. CASE op' = [r EXCEPT !.pc = "refused"]
    <3>1. Goes(Resting, op')
      BY <2>2, RestingIs DEF Goes, Resting
    <3> QED BY <1>0, <2>1, <3>1, GoesFormed
  <2>3. CASE \E c \in FreeCluster : op' = Syncing([r EXCEPT !.start = c], BlocksOf(c), "build", "refused")
    <3>1. PICK c \in FreeCluster : op' = Syncing([r EXCEPT !.start = c], BlocksOf(c), "build", "refused")
      BY <2>3
    <3> DEFINE o == [r EXCEPT !.start = c]
    <3>2. /\ DOMAIN o = OpFields /\ DOMAIN o.old = InfoFields /\ DOMAIN o.new = InfoFields
          /\ DOMAIN o.cut = InfoFields
      BY RestingIs DEF Resting
    <3> HIDE DEF o
    <3>3. Formed(Syncing(o, BlocksOf(c), "build", "refused"))
      BY <3>2, SyncFormed
    <3> QED BY <2>1, <3>1, <3>3 DEF o
  <2> QED BY <2>1, <2>2, <2>3
<1>3. ASSUME NEW e \in Dentries, Unlink(e) \/ Rmdir(e)  PROVE UNCHANGED setup /\ Formed(op')
  <2>1. PICK pc \in {"rm", "refused"}, call \in {"unlink", "rmdir"} :
          op' = [Resting EXCEPT !.pc = pc, !.call = call, !.d = e.d, !.n = e.n, !.i = e.obj,
                                !.cut = e.info]
    BY <1>3 DEF Unlink, Rmdir
  <2>2. Goes(Resting, op')
    BY <2>1, RestingIs, DentryInfo DEF Goes, Resting
  <2> QED BY <1>0, <1>3, <2>2, GoesFormed DEF Unlink, Rmdir
<1>4. ASSUME NEW o \in Dentries, NEW e \in Dentries, Rename(o, e)  PROVE UNCHANGED setup /\ Formed(op')
  <2>1. PICK pc \in {"build", "refused", "move"} :
          op' = [Resting EXCEPT !.pc = pc, !.call = "rename", !.d = e.d, !.n = e.n,
                                !.i = o.obj, !.over = e.obj, !.old = o.info, !.new = e.info]
    <3>1. op' = [Resting EXCEPT !.pc = IF e.obj = None THEN "build"
                                  ELSE IF ino[o.obj].dir /\ ~EmptyDir(e.obj) THEN "refused"
                                  ELSE "move", !.call = "rename", !.d = e.d, !.n = e.n,
                                  !.i = o.obj, !.over = e.obj, !.old = o.info, !.new = e.info]
      BY <1>4 DEF Rename
    <3> QED BY <3>1
  <2>2. DOMAIN op' = OpFields /\ op'.pc = pc /\ op'.old = o.info /\ op'.new = e.info /\ op'.cut = NoInfo
    BY <2>1 DEF Resting, OpFields
  <2>3. Goes(Resting, op')
    BY <2>2, RestingIs, DentryInfo DEF Goes, InfoFields, NoInfo
  <2> QED BY <1>0, <1>4, <2>3, GoesFormed DEF Rename
<1>5. ASSUME NEW i \in Inodes, WriteInode(i) \/ Write(i)  PROVE UNCHANGED setup /\ Formed(op')
  BY <1>0, <1>5 DEF WriteInode, Write
<1>6. ASSUME NEW d \in Dirs, ReadOpen(d)  PROVE UNCHANGED setup /\ Formed(op')
  BY <1>0, <1>6 DEF ReadOpen
<1>7. CASE ReadEntry \/ ReadFull \/ ReadEnd
  BY <1>0, <1>7 DEF ReadEntry, ReadFull, ReadEnd
<1>8. ASSUME NEW b \in Blocks, WriteBuffer(b)  PROVE UNCHANGED setup /\ Formed(op')
  BY <1>0, <1>8 DEF WriteBuffer
<1> QED BY <1>1, <1>2, <1>3, <1>4, <1>5, <1>6, <1>7, <1>8 DEF Request

LEMMA StepFormed ==
    ASSUME Shape, Step  PROVE UNCHANGED setup /\ Formed(op')
<1>0. /\ Formed(op) /\ Formed(Resting) /\ DOMAIN op = OpFields
      /\ DOMAIN op.old = InfoFields /\ DOMAIN op.new = InfoFields /\ DOMAIN op.cut = InfoFields
  BY ShapeIs, RestingIs DEF Formed, LabelOf
<1>1. ASSUME SyncOk \/ SyncFail \/ Flush  PROVE UNCHANGED setup /\ Formed(op')
  <2>1. CASE SyncOk
    <3>1. UNCHANGED setup /\ op.pc = "sync" /\ op' = [op EXCEPT !.pc = op.ok, !.sync = {}]
      BY <2>1 DEF SyncOk
    <3>2. /\ op'.pc = op.ok /\ op'.ok = op.ok /\ op'.bad = op.bad /\ op'.after = op.after
          /\ op'.old = op.old /\ op'.new = op.new /\ op'.cut = op.cut /\ DOMAIN op' = OpFields
      BY <1>0, <3>1 DEF OpFields
    <3> QED BY <1>0, <3>1, <3>2 DEF Formed, LabelOf
  <2>2. CASE SyncFail
    <3>1. UNCHANGED setup /\ op.pc = "sync" /\ op' = [op EXCEPT !.pc = op.bad, !.sync = {}]
      BY <2>2 DEF SyncFail
    <3>2. /\ op'.pc = op.bad /\ op'.ok = op.ok /\ op'.bad = op.bad /\ op'.after = op.after
          /\ op'.old = op.old /\ op'.new = op.new /\ op'.cut = op.cut /\ DOMAIN op' = OpFields
      BY <1>0, <3>1 DEF OpFields
    <3> QED BY <1>0, <3>1, <3>2 DEF Formed, LabelOf
  <2>3. CASE Flush
    <3>1. UNCHANGED setup /\ op.pc = "sync" /\ \E b \in op.sync : op' = [op EXCEPT !.sync = @ \ {b}]
      BY <2>3 DEF Flush
    <3>2. /\ op'.pc = op.pc /\ op'.ok = op.ok /\ op'.bad = op.bad /\ op'.after = op.after
          /\ op'.old = op.old /\ op'.new = op.new /\ op'.cut = op.cut /\ DOMAIN op' = OpFields
      BY <1>0, <3>1 DEF OpFields
    <3> QED BY <1>0, <3>1, <3>2 DEF Formed, LabelOf
  <2> QED BY <1>1, <2>1, <2>2, <2>3
<1>2. ASSUME NEW label, label \notin {"idle", "sync", "clear"}, op' = [op EXCEPT !.pc = label]
      PROVE  Formed(op')
  BY <1>0, <1>2, GotoFormed
<1>3. ASSUME NEW o, DOMAIN o = OpFields, DOMAIN o.old = InfoFields, DOMAIN o.new = InfoFields,
             DOMAIN o.cut = InfoFields,
             NEW blocks, NEW label, NEW bad, label \notin {"idle", "sync", "clear"},
             bad \notin {"idle", "clear"}, op' = Syncing(o, blocks, label, bad)
      PROVE  Formed(op')
  BY <1>3, SyncFormed
<1>4. ASSUME Build  PROVE UNCHANGED setup /\ Formed(op')
  <2>1. UNCHANGED setup /\ Goes(op, op')
    BY <1>0, <1>4 DEF Build, Goto, Goes, OpFields
  <2> QED BY <1>0, <2>1, GoesFormed
<1>5. ASSUME FillLong  PROVE UNCHANGED setup /\ Formed(op')
  <2>1. UNCHANGED setup
        /\ op' = Syncing(op, {BlockOf(NewPlace(j)) : j \in LongPart}, IF Fits THEN "short" ELSE "grow", "undo")
    BY <1>5 DEF FillLong, Sync
  <2>2. (IF Fits THEN "short" ELSE "grow") \notin {"idle", "sync", "clear"}
    OBVIOUS
  <2> HIDE DEF Fits, LongPart
  <2> QED BY <1>0, <1>3, <2>1, <2>2
<1>6. ASSUME FillShort  PROVE UNCHANGED setup /\ Formed(op')
  <2> DEFINE bs == {BlockOf(NewPlace(Room))}
  <2>1. UNCHANGED setup /\ op' = Syncing(op, bs, "added", "undo")
    BY <1>6 DEF FillShort, Sync
  <2> HIDE DEF bs
  <2> QED BY <1>0, <1>3, <2>1
<1>7. ASSUME Grow  PROVE UNCHANGED setup /\ Formed(op')
  <2>1. CASE \E c \in FreeCluster : op' = Syncing([op EXCEPT !.grown = c], BlocksOf(c), "link", "undo")
    <3>1. PICK c \in FreeCluster : op' = Syncing([op EXCEPT !.grown = c], BlocksOf(c), "link", "undo")
      BY <2>1
    <3> DEFINE o == [op EXCEPT !.grown = c]
    <3>2. /\ DOMAIN o = OpFields /\ o.old = op.old /\ o.new = op.new /\ o.cut = op.cut
      BY <1>0 DEF OpFields
    <3> HIDE DEF o
    <3>3. op' = Syncing(o, BlocksOf(c), "link", "undo")
      BY <3>1 DEF o
    <3> QED BY <1>0, <1>3, <1>7, <3>2, <3>3 DEF Grow
  <2>2. CASE Goto("undo")
    BY <1>2, <1>7, <2>2 DEF Goto, Grow
  <2> QED BY <1>7, <2>1, <2>2 DEF Grow, Sync
<1>8. ASSUME Link \/ Kept  PROVE UNCHANGED setup /\ Formed(op')
  <2>1. UNCHANGED setup /\ Goes(op, op')
    BY <1>0, <1>8 DEF Link, Kept, Goto, Goes, OpFields
  <2> QED BY <1>0, <2>1, GoesFormed
<1>9. ASSUME Undo \/ RemoveLongs  PROVE UNCHANGED setup /\ Formed(op')
  <2>1. /\ UNCHANGED setup
        /\ \E d, from, to : \E after \in {"refused", "removed"} : op' = Clearing(d, from, to, after)
    BY <1>9 DEF Undo, RemoveLongs
  <2>2. PICK d, from, to, after : after \in {"refused", "removed"} /\ op' = Clearing(d, from, to, after)
    BY <2>1
  <2>3. op' = [op EXCEPT !.pc = "clear", !.cut = [op.cut EXCEPT !.d = d], !.from = from, !.to = to,
                         !.after = after]
    BY <1>0, <2>2 DEF Clearing, OpFields
  <2>4. /\ op'.pc = "clear" /\ op'.after = after /\ op'.old = op.old /\ op'.new = op.new
        /\ op'.cut = [op.cut EXCEPT !.d = d] /\ DOMAIN op' = OpFields
    BY <1>0, <2>3 DEF OpFields
  <2>5. DOMAIN op'.cut = InfoFields
    BY <1>0, <2>4
  <2> QED BY <1>0, <2>1, <2>2, <2>4, <2>5 DEF Formed, LabelOf
<1>10. ASSUME Clear  PROVE UNCHANGED setup /\ Formed(op')
  <2>1. op.pc = "clear" /\ op.after \in {"refused", "removed"}
    BY <1>0, <1>10 DEF Clear, Formed, LabelOf
  <2>2. CASE op.from > op.to
    BY <1>2, <1>10, <2>1, <2>2 DEF Clear, Goto
  <2>3. CASE ~(op.from > op.to)
    <3> DEFINE part == {k \in op.from..op.to : SameBlock(op.cut.d, k, op.from)}
               o == [op EXCEPT !.from = @ + Cardinality(part)]
               bs == {BlockOf(Place(op.cut.d, op.from))}
    <3>1. UNCHANGED setup /\ op' = Syncing(o, bs, "clear", op.after)
      BY <1>10, <2>3 DEF Clear, Sync
    <3> HIDE DEF part, bs
    <3>2. /\ DOMAIN o = OpFields /\ o.old = op.old /\ o.new = op.new /\ o.cut = op.cut /\ o.after = op.after
      BY <1>0 DEF OpFields
    <3> HIDE DEF o
    <3>3. Formed(Syncing(o, bs, "clear", op.after))
      BY <1>0, <2>1, <3>2, SyncFormed
    <3> QED BY <3>1, <3>3
  <2> QED BY <2>2, <2>3
<1>11. ASSUME RemoveShort  PROVE UNCHANGED setup /\ Formed(op')
  <2> DEFINE bad == IF op.undoing THEN "refused" ELSE "kept"
  <2> DEFINE bs == {BlockOf(InfoPlace(op.cut))}
  <2>1. UNCHANGED setup /\ op' = Syncing(op, bs, "cleared", bad)
    BY <1>11 DEF RemoveShort, Sync
  <2>2. bad \notin {"idle", "clear"}
    OBVIOUS
  <2> HIDE DEF bad, bs
  <2> QED BY <1>0, <1>3, <2>1, <2>2
<1>12. ASSUME Added \/ Removed \/ Refused \/ Renamed  PROVE UNCHANGED setup /\ Formed(op')
  <2>1. UNCHANGED setup /\ Goes(op, op')
    BY <1>0, <1>12 DEF Added, Removed, Refused, Renamed, Done, Goto, Goes, OpFields
  <2> QED BY <1>0, <2>1, GoesFormed
<1>13. ASSUME Move  PROVE UNCHANGED setup /\ Formed(op')
  <2> DEFINE r == IF op.over = None THEN [op EXCEPT !.new = NewInfo] ELSE op
             bs == {BlockOf(InfoPlace(r.new))}
  <2>1. UNCHANGED setup /\ op' = Syncing(r, bs, "dotdot", "undo_move")
    BY <1>13 DEF Move, Sync
  <2> HIDE DEF bs
  <2>2. DOMAIN r = OpFields /\ r.old = op.old /\ r.cut = op.cut /\ DOMAIN r.new = InfoFields
    BY <1>0 DEF OpFields, InfoFields, NewInfo
  <2> HIDE DEF r
  <2> QED BY <1>0, <1>3, <2>1, <2>2
<1>14. ASSUME SetDotDot  PROVE UNCHANGED setup /\ Formed(op')
  <2>1. CASE UpdateDotDot
    <3> DEFINE bs == {BlockOf(DotDotPlace)}
    <3>1. UNCHANGED setup /\ op' = Syncing(op, bs, "count", "undo_dotdot")
      BY <1>14, <2>1 DEF SetDotDot, Sync
    <3> HIDE DEF bs
    <3> QED BY <1>0, <1>3, <3>1
  <2>2. CASE ~UpdateDotDot
    <3>1. UNCHANGED setup /\ Goes(op, op')
      BY <1>0, <1>14, <2>2 DEF SetDotDot, Goes, OpFields
    <3> QED BY <1>0, <3>1, GoesFormed
  <2> QED BY <2>1, <2>2
<1>15. ASSUME Count  PROVE UNCHANGED setup /\ Formed(op')
  <2>1. UNCHANGED setup /\ Goes(op, op')
    BY <1>0, <1>15 DEF Count, Goes, OpFields
  <2> QED BY <1>0, <2>1, GoesFormed
<1>16. ASSUME UndoDotDot  PROVE UNCHANGED setup /\ Formed(op')
  <2> DEFINE o == [op EXCEPT !.undoing = TRUE]
  <2>1. CASE UpdateDotDot
    <3> DEFINE bs == {BlockOf(DotDotPlace)}
    <3>1. UNCHANGED setup /\ op' = Syncing(o, bs, "undo_move", "undo_move")
      BY <1>16, <2>1 DEF UndoDotDot, Sync
    <3> HIDE DEF bs
    <3>2. DOMAIN o = OpFields /\ o.old = op.old /\ o.new = op.new /\ o.cut = op.cut
      BY <1>0 DEF OpFields
    <3> HIDE DEF o
    <3> QED BY <1>0, <1>3, <3>1, <3>2
  <2>2. CASE ~UpdateDotDot
    <3>1. UNCHANGED setup /\ Goes(op, op')
      BY <1>0, <1>16, <2>2 DEF UndoDotDot, Goes, OpFields
    <3> QED BY <1>0, <3>1, GoesFormed
  <2> QED BY <2>1, <2>2
<1>17. ASSUME UndoMove  PROVE UNCHANGED setup /\ Formed(op')
  <2>1. CASE op.over # None
    <3> DEFINE bs == IF op.undoing THEN {BlockOf(InfoPlace(op.new))} ELSE {}
    <3>1. UNCHANGED setup /\ op' = Syncing(op, bs, "refused", "refused")
      BY <1>17, <2>1 DEF UndoMove, Sync
    <3> HIDE DEF bs
    <3> QED BY <1>0, <1>3, <3>1
  <2>2. CASE op.over = None
    <3>1. UNCHANGED setup /\ Goes(op, op')
      BY <1>0, <1>17, <2>2 DEF UndoMove, Goes, OpFields
    <3> QED BY <1>0, <3>1, GoesFormed
  <2> QED BY <2>1, <2>2
<1>18. ASSUME Return  PROVE UNCHANGED setup /\ Formed(op')
  BY <1>0, <1>18 DEF Return
<1> QED BY <1>1, <1>4, <1>5, <1>6, <1>7, <1>8, <1>9, <1>10, <1>11, <1>12, <1>13, <1>14, <1>15, <1>16,
           <1>17, <1>18 DEF Step

LEMMA ShapeStep == ASSUME Shape, [NextRecovery]_recoveryVars  PROVE Shape'
<1>1. CASE Mounted
  <2>1. CASE Step
    BY <2>1, StepFormed, ShapeNext
  <2>2. CASE Request
    BY <2>2, AskedFormed, ShapeNext
  <2>3. CASE \E i \in Inodes : Evict(i)
    <3>1. UNCHANGED <<setup, op>>
      BY <2>3 DEF Evict
    <3> QED BY <3>1, ShapeIs, ShapeNext
  <2> QED BY <1>1, <2>1, <2>2, <2>3 DEF Mounted
<1>2. CASE Unmount \/ (\E arg \in Args : Recover(arg)) \/ Restart \/ UNCHANGED recoveryVars
  <2>1. UNCHANGED <<setup, op>>
    BY <1>2 DEF Unmount, Recover, Restart, recoveryVars, vars
  <2> QED BY <2>1, ShapeIs, ShapeNext
<1> QED BY <1>1, <1>2 DEF NextRecovery

-----------------------------------------------------------------------------
(* A new volume, every step, and what follows.                              *)
NoNodes == [i \in Inodes |-> None]
LEMMA FormatCore == ASSUME setup \in Setups  PROVE Core(Resting, EmptyTable, EmptyRoot, EmptyRoot, NoNodes)
<1> DEFINE s == <<Root>>
           t == EmptyTable
           id == "idle"
<1>1. t \in [Clusters -> Clusters \cup {"free", "eof"}] /\ t[Root] = "eof" /\ Root \in Clusters
  BY RootAssumption DEF EmptyTable
<1>2. IsChain(t, Root, s)
  <2>1. s \in Seq(Clusters) /\ Len(s) = 1 /\ s[1] = Root /\ s # <<>>
    BY <1>1
  <2> HIDE DEF s, t
  <2>2. \A k, m \in 1..Len(s) : k = m
    BY <2>1
  <2>3. \A k \in 1..Len(s) - 1 : t[s[k]] = s[k + 1]
    BY <2>1
  <2> QED BY <1>1, <2>1, <2>2, <2>3 DEF IsChain
<1>3. ChainOf(t, Root) = s
  BY <1>2, ChainIs
<1>4. ASSUME NEW p \in Places
      PROVE  IsSlot(EmptyRoot[p]) /\ ~IsLong(EmptyRoot[p])
  <2>1. EmptyRoot[p] = Zero \/ EmptyRoot[p] = [Zero EXCEPT !.text = <<86, 79, 76>>, !.attr = "label"]
    BY DEF EmptyRoot
  <2>2. IsSlot(Zero) /\ ~IsLong(Zero)
    BY ZeroSlot DEF Zero, IsLong
  <2> DEFINE l == [Zero EXCEPT !.text = <<86, 79, 76>>, !.attr = "label"]
  <2>3. IsSlot(l) /\ ~IsLong(l)
    <3> DEFINE a == <<86, 79, 76>>
               z == [Zero EXCEPT !.text = a]
    <3>0. z = [text |-> a, attr |-> "none", name |-> None, sum |-> None, start |-> None]
      <4> HIDE DEF a
      <4> QED BY DEF Zero
    <3>1. l = [text |-> a, attr |-> "label", name |-> None, sum |-> None, start |-> None]
      <4> HIDE DEF z
      <4>1. [z EXCEPT !.attr = "label"]
            = [text |-> a, attr |-> "label", name |-> None, sum |-> None, start |-> None]
        BY <3>0
      <4> QED BY <4>1 DEF z
    <3>2. a \in [1..NameLen -> Nat]
      BY DEF NameLen
    <3> HIDE DEF l, a
    <3> QED BY <3>1, <3>2 DEF IsSlot, IsLong
  <2> QED BY <2>1, <2>2, <2>3
<1>5. EmptyRoot = [p \in Places |-> EmptyRoot[p]]
  BY DEF EmptyRoot
<1>6. Device(EmptyRoot)
  BY <1>4, <1>5 DEF Device
<1>7. Nodes(NoNodes) /\ \A i \in Inodes : NoNodes[i] = None
  BY DEF Nodes, NoNodes
<1>8. StartsOf(NoNodes) = {} /\ DirsOf(NoNodes) = {Root}
  BY <1>7 DEF StartsOf, DirsOf
<1>9. PendingOf(id, Resting) = {} /\ GrownOf(id, Resting) = {} /\ HeadsOf(id, Resting, NoNodes) = {Root}
  BY <1>8 DEF PendingOf, GrownOf, Rests, HeadsOf
<1> HIDE DEF s, t
<1>10. Owned(id, Resting, t, NoNodes)
  BY <1>2, <1>3, <1>7, <1>8, <1>9 DEF Owned, Chains
<1>11. Knows(id, Resting, t, NoNodes)
  BY RestingIs DEF Knows, Labels, Fill, Adds, Moves, Cuts, Rests
<1>12. Whole(ViewOf(t, EmptyRoot, Root))
  <2> DEFINE v == ViewOf(t, EmptyRoot, Root)
  <2>1. IsDirectory(v)
    BY <1>2, <1>3, <1>6, SlotsOf, ViewDirectory
  <2>2. DOMAIN v = 1..LenOf(t, Root) /\ \A k \in 1..LenOf(t, Root) : v[k] = EmptyRoot[PlaceOf(t, Root, k)]
    BY <1>2, <1>3, ViewIs
  <2>3. \A k \in 1..LenOf(t, Root) : PlaceOf(t, Root, k) \in Places
    BY <1>2, <1>3, PlaceIn
  <2>4. \A k \in DOMAIN v : ~IsLong(v[k])
    BY <1>4, <2>2, <2>3
  <2> QED BY <2>1, <2>4 DEF Whole
<1>13. Fit(id, Resting, t, EmptyRoot, DirsOf(NoNodes))
  <2>1. WholeOnes(id, Resting, DirsOf(NoNodes)) \subseteq {Root}
    BY <1>8 DEF WholeOnes, Adds
  <2>2. Adding(id, Resting, t, EmptyRoot) /\ Cutting(id, Resting, t, EmptyRoot, DirsOf(NoNodes))
        /\ Renaming(id, Resting, t, EmptyRoot, DirsOf(NoNodes))
    BY DEF Adding, Cutting, Renaming, Fill, Adds, Moves
  <2> QED BY <1>12, <2>1, <2>2 DEF Fit
<1>14. Typed(t, EmptyRoot, EmptyRoot, NoNodes) /\ Sound(Resting.pc, Resting, t, EmptyRoot, NoNodes)
  BY <1>1, <1>6, <1>7, <1>10, <1>11, <1>13, RestingIs DEF Typed, Sound, t
<1>16. Likes(EmptyRoot, EmptyRoot)
  BY DEF Likes, AsIn
<1>15. Core(Resting, t, EmptyRoot, EmptyRoot, NoNodes)
  BY <1>14, <1>16, RestingIs, NoSyncs
<1> QED BY <1>15 DEF t

LEMMA StepCore ==
    ASSUME Sane, Step, ~broken'  PROVE Core(op', fat', buf', disk', ino')
  BY SyncOkCore, SyncFailCore, FlushCore, BuildCore, FillLongCore, FillShortCore, GrowCore, LinkCore,
     UndoCore, ClearedCore, ClearCore, RemoveShortCore, RemoveLongsCore, KeptCore, AddedCore,
     RemovedCore, RefusedCore, MoveCore, SetDotDotCore, CountCore, RenamedCore, UndoDotDotCore,
     UndoMoveCore, ReturnCore DEF Step

LEMMA RequestCore ==
    ASSUME Sane, Request  PROVE Core(op', fat', buf', disk', ino')
<1>1. ASSUME UNCHANGED <<op, volume, ino>>  PROVE Core(op', fat', buf', disk', ino')
  BY <1>1 DEF Sane, volume
<1>2. ASSUME NEW e \in Dentries, LookupMiss(e)  PROVE Core(op', fat', buf', disk', ino')
  BY <1>1, <1>2 DEF LookupMiss
<1>3. ASSUME NEW d \in Dirs, ReadOpen(d)  PROVE Core(op', fat', buf', disk', ino')
  BY <1>1, <1>3 DEF ReadOpen
<1>4. CASE ReadEntry \/ ReadFull \/ ReadEnd
  BY <1>1, <1>4 DEF ReadEntry, ReadFull, ReadEnd
<1>5. ASSUME NEW i \in Inodes, WriteInode(i) \/ Write(i)  PROVE Core(op', fat', buf', disk', ino')
  BY <1>5, WriteInodeCore, WriteCore
<1>6. ASSUME NEW e \in Dentries, Create(e) \/ Mkdir(e) \/ Unlink(e) \/ Rmdir(e)
      PROVE  Core(op', fat', buf', disk', ino')
  BY <1>6, CreateCore, MkdirCore, UnlinkCore
<1>7. ASSUME NEW o \in Dentries, NEW e \in Dentries, Rename(o, e)  PROVE Core(op', fat', buf', disk', ino')
  BY <1>7, RenameCore
<1>8. ASSUME NEW b \in Blocks, WriteBuffer(b)  PROVE Core(op', fat', buf', disk', ino')
  BY <1>8, WriteBufferCore
<1> QED BY <1>2, <1>3, <1>4, <1>5, <1>6, <1>7, <1>8 DEF Request

(* Only a new volume makes good what a failed write has broken.             *)
LEMMA BrokenStays ==
    ASSUME Mounted, broken  PROVE broken'
<1> USE DEF notes, marks
<1>1. CASE Step
  <2>1. CASE SyncFail
    BY <2>1 DEF SyncFail
  <2>2. CASE ~SyncFail
    BY <1>1, <2>2 DEF Step, SyncOk, Flush, Build, FillLong, FillShort, Grow, Link, Undo, Clear,
        RemoveShort, RemoveLongs, Kept, Added, Removed, Refused, Move, SetDotDot, Count, Renamed,
        UndoDotDot, UndoMove, Return
  <2> QED BY <2>1, <2>2
<1>2. CASE Request
  <2>1. UNCHANGED broken
    <3>1. ASSUME NEW o, NEW e, LookupMiss(e) \/ Create(e) \/ Mkdir(e) \/ Unlink(e) \/ Rmdir(e) \/ Rename(o, e)
          PROVE  UNCHANGED broken
      BY <3>1 DEF LookupMiss, Create, Mkdir, Unlink, Rmdir, Rename, Ask
    <3>2. ASSUME NEW i, WriteInode(i) \/ Write(i)  PROVE UNCHANGED broken
      BY <3>2 DEF WriteInode, Write
    <3>3. ASSUME NEW d, ReadOpen(d)  PROVE UNCHANGED broken
      BY <3>3 DEF ReadOpen
    <3>4. CASE ReadEntry \/ ReadFull \/ ReadEnd
      BY <3>4 DEF ReadEntry, ReadFull, ReadEnd
    <3>5. ASSUME NEW b, WriteBuffer(b)  PROVE UNCHANGED broken
      BY <3>5 DEF WriteBuffer
    <3> QED BY <1>2, <3>1, <3>2, <3>3, <3>4, <3>5 DEF Request
  <2> QED BY <2>1
<1>3. CASE \E i \in Inodes : Evict(i)
  BY <1>3 DEF Evict
<1> QED BY <1>1, <1>2, <1>3 DEF Mounted

LEMMA SetupStays == ASSUME Shape, [NextRecovery]_recoveryVars  PROVE UNCHANGED setup
<1>1. CASE Mounted
  <2>1. (\E i \in Inodes : Evict(i)) => UNCHANGED setup
    BY DEF Evict
  <2> QED BY <1>1, <2>1, StepFormed, AskedFormed DEF Mounted
<1>2. CASE Unmount \/ (\E arg \in Args : Recover(arg)) \/ Restart \/ UNCHANGED recoveryVars
  BY <1>2 DEF Unmount, Recover, Restart, recoveryVars, vars
<1> QED BY <1>1, <1>2 DEF NextRecovery

LEMMA SlotsStep ==
    ASSUME Shape, SlotsInv, [NextRecovery]_recoveryVars  PROVE SlotsInv'
<1> SUFFICES ASSUME mounted', ~broken'  PROVE Core(op', fat', buf', disk', ino')
  <2>1. UNCHANGED setup
    BY SetupStays
  <2>2. Core(op, fat, buf, disk, ino)' <=> Core(op', fat', buf', disk', ino')
    BY <2>1 DEF Core, Synced
  <2> QED BY <2>2 DEF SlotsInv
<1>1. CASE Mounted
  <2>1. mounted /\ ~broken
    BY <1>1, BrokenStays DEF Mounted
  <2>2. Sane
    BY <2>1 DEF SlotsInv, Sane
  <2>3. CASE Step
    BY <2>2, <2>3, StepCore
  <2>4. CASE Request
    BY <2>2, <2>4, RequestCore
  <2>5. CASE \E i \in Inodes : Evict(i)
    BY <2>2, <2>5, EvictCore
  <2> QED BY <1>1, <2>3, <2>4, <2>5 DEF Mounted
<1>2. CASE Restart
  <2>1. op' = Resting /\ setup \in Setups
    BY <1>2 DEF Restart, AtRest, Shape
  <2>2. fat' = EmptyTable /\ buf' = EmptyRoot /\ disk' = EmptyRoot /\ ino' = NoNodes
    BY <1>2 DEF Restart, NoNodes
  <2> QED BY <2>1, <2>2, FormatCore
<1>3. CASE UNCHANGED recoveryVars
  <2>1. mounted /\ ~broken /\ UNCHANGED <<op, fat, buf, disk, ino>>
    BY <1>3 DEF recoveryVars, vars, volume, notes
  <2> QED BY <2>1 DEF SlotsInv
<1> QED BY <1>1, <1>2, <1>3 DEF NextRecovery, Unmount, Recover

LEMMA NoStraysNow == ASSUME Shape, SlotsInv, mounted  PROVE NoStrays
<1> SUFFICES ASSUME ~broken, NEW d \in Dirs
             PROVE  /\ AtRest => Whole(View(buf, d))
                    /\ setup.dirsync => Tidy(View(disk, d))
  BY DEF NoStrays
<1>1. Core(op, fat, buf, disk, ino)
  BY DEF SlotsInv
<1>2. d \in DirsOf(ino) /\ View(buf, d) = ViewOf(fat, buf, d) /\ View(disk, d) = ViewOf(fat, disk, d)
  BY DirsNow, ViewNow
<1>3. AtRest => Whole(View(buf, d))
  <2> SUFFICES ASSUME AtRest  PROVE Whole(View(buf, d))
    OBVIOUS
  <2> DEFINE id == "idle"
  <2>1. Sound(id, op, fat, buf, ino)
    BY <1>1 DEF AtRest, Core, LabelOf
  <2>2. id \notin Fill \cup {"cleared", "clear"}
    BY DEF Fill
  <2> HIDE DEF id
  <2> QED BY <1>2, <2>1, <2>2, DirWhole
<1>4. setup.dirsync => Tidy(View(disk, d))
  <2> SUFFICES ASSUME setup.dirsync  PROVE Tidy(View(disk, d))
    OBVIOUS
  <2>1. Device(buf) /\ Device(disk) /\ Nodes(ino)
    BY <1>1 DEF Core, Typed
  <2>2. Safe(fat, disk, DirsOf(ino))
    <3>1. CASE op.pc = "sync"
      <4>1. {} \in (SUBSET op.sync) \ {op.sync}
        BY <1>1, <3>1 DEF Core, Synced
      <4>2. From(buf, disk, {}) = disk
        BY <2>1, FromNone
      <4> QED BY <1>1, <3>1, <4>1, <4>2 DEF Core, Secure
    <3>2. CASE op.pc # "sync"
      <4>1. Likes(buf, disk)
        BY <1>1, <3>2 DEF Core, Synced, Likes
      <4>2. Safe(fat, buf, DirsOf(ino)) /\ Owned(LabelOf(op), op, fat, ino)
        BY <1>1, <2>1, SoundSafe DEF Core, Sound
      <4> QED BY <2>1, <4>1, <4>2, LikesSafe
    <3> QED BY <3>1, <3>2
  <2> QED BY <1>2, <2>2 DEF Safe
<1> QED BY <1>3, <1>4

LEMMA SlotsInit == ASSUME InitRecovery  PROVE Shape /\ SlotsInv
<1>1. op = Resting /\ setup \in Setups /\ fat = EmptyTable /\ buf = EmptyRoot /\ disk = EmptyRoot
      /\ ino = NoNodes
  BY DEF InitRecovery, Init, NoNodes
<1>2. Shape
  BY <1>1, RestingIs DEF Shape, LabelOf
<1> QED BY <1>1, <1>2, FormatCore DEF SlotsInv

(* Whatever is created, removed and renamed, and whatever write fails or is *)
(* not yet done: no long-name slot is left behind, and with dirsync the     *)
(* disk has no half of a name at any time.  It is said of mounted volumes:  *)
(* fat_recovery makes a cluster the end of a chain without asking whose.    *)
THEOREM StraysNever == SpecRecovery => [](mounted => NoStrays)
<1>1. InitRecovery => Shape /\ SlotsInv
  BY SlotsInit
<1>2. Shape /\ SlotsInv /\ [NextRecovery]_recoveryVars => (Shape /\ SlotsInv)'
  BY ShapeStep, SlotsStep
<1>3. Shape /\ SlotsInv => (mounted => NoStrays)
  BY NoStraysNow
<1> QED BY <1>1, <1>2, <1>3, PTL DEF SpecRecovery

(* What DoneOnDisk says, without the first clusters: with dirsync, when an  *)
(* operation has returned, with success or with an error, every slot of a   *)
(* directory is on the disk, with its text, attribute and long name.        *)
SlotsDone ==
    setup.dirsync /\ ~broken /\ AtRest =>
        \A d \in Dirs :
            LET v == View(buf, d)  w == View(disk, d)
            IN DOMAIN w = DOMAIN v /\ \A k \in DOMAIN v : AsIn(w[k], v[k])

LEMMA SlotsDoneNow == ASSUME SlotsInv, mounted  PROVE SlotsDone
<1> SUFFICES ASSUME setup.dirsync, ~broken, AtRest, NEW d \in Dirs
             PROVE  LET v == View(buf, d)  w == View(disk, d)
                    IN DOMAIN w = DOMAIN v /\ \A k \in DOMAIN v : AsIn(w[k], v[k])
  BY DEF SlotsDone
<1>1. Core(op, fat, buf, disk, ino) /\ op.pc = "idle"
  BY DEF SlotsInv, AtRest
<1>2. d \in DirsOf(ino) /\ View(buf, d) = ViewOf(fat, buf, d) /\ View(disk, d) = ViewOf(fat, disk, d)
  BY DirsNow, ViewNow
<1>3. Likes(buf, disk) /\ Nodes(ino) /\ Owned("idle", op, fat, ino) /\ Device(buf)
  BY <1>1 DEF Core, Synced, Likes, Typed, LabelOf, Sound
<1>4. IsChain(fat, d, ChainOf(fat, d))
  BY <1>2, <1>3, DirsHeads, SoundDirectory
<1>5. \A k \in 1..LenOf(fat, d) : PlaceOf(fat, d, k) \in Places
  BY <1>4, PlaceIn
<1> QED BY <1>2, <1>3, <1>4, <1>5, ViewIs DEF Likes

(* With dirsync no name is lost, or comes back, when the power fails after  *)
(* an operation has returned.                                               *)
THEOREM SlotsAreDone == SpecRecovery => [](mounted => SlotsDone)
<1>1. InitRecovery => Shape /\ SlotsInv
  BY SlotsInit
<1>2. Shape /\ SlotsInv /\ [NextRecovery]_recoveryVars => (Shape /\ SlotsInv)'
  BY ShapeStep, SlotsStep
<1>3. Shape /\ SlotsInv => (mounted => SlotsDone)
  BY SlotsDoneNow
<1> QED BY <1>1, <1>2, <1>3, PTL DEF SpecRecovery

-----------------------------------------------------------------------------
(* What the abstract specification of the tree promises is enough for names *)
(* to be unique.  The invariant: Distinct, and entries are records of these *)
(* three fields, so that two of them are equal when their fields are.       *)
IsEntry(e) == e = [dir |-> e.dir, name |-> e.name, obj |-> e.obj]
DistinctInv == Tree!Distinct /\ (~broken => \A e \in listed : IsEntry(e))

(* An entry for an object that has none, under a name nobody has.           *)
LEMMA AddedDistinct ==
    ASSUME ~broken, DistinctInv, NEW STATE kept, kept \subseteq listed,
           NEW STATE d, NEW STATE n, NEW STATE o,
           Tree!Named(d, n) = {}, \A e \in kept : e.obj # o,
           listed' = kept \cup {[dir |-> d, name |-> n, obj |-> o]}
    PROVE  DistinctInv'
<1> DEFINE new == [dir |-> d, name |-> n, obj |-> o]
<1>1. \A e \in kept : IsEntry(e) /\ e.obj # o /\ ~(e.dir = d /\ e.name = n)
  BY DEF DistinctInv, Tree!Named
<1>2. IsEntry(new) /\ new.dir = d /\ new.name = n /\ new.obj = o
  BY DEF IsEntry
<1>3. \A e, f \in kept : (e.dir = f.dir /\ e.name = f.name) \/ e.obj = f.obj => e = f
  BY DEF DistinctInv, Tree!Distinct
<1>4. \A e \in listed' : e \in kept \/ e = new
  OBVIOUS
<1>5. Tree!Distinct'
  <2> SUFFICES ASSUME NEW e \in listed', NEW f \in listed',
                      (e.dir = f.dir /\ e.name = f.name) \/ e.obj = f.obj
               PROVE  e = f
    BY DEF Tree!Distinct
  <2>1. CASE e \in kept /\ f \in kept
    BY <2>1, <1>3
  <2>2. CASE e = new \/ f = new
    BY <2>2, <1>1, <1>2, <1>4
  <2> QED BY <2>1, <2>2, <1>4
<1> HIDE DEF new
<1>6. \A e \in listed' : IsEntry(e)
  BY <1>1, <1>2, <1>4
<1> QED BY <1>5, <1>6 DEF DistinctInv

(* An object takes over the entry of another.                               *)
LEMMA TakenDistinct ==
    ASSUME ~broken, DistinctInv, NEW STATE o, NEW STATE over,
           listed' = (listed \ Tree!Of({o, over}))
                       \cup {[dir |-> e.dir, name |-> e.name, obj |-> o] : e \in Tree!Of({over})}
    PROVE  DistinctInv'
<1> DEFINE Taken(e) == [dir |-> e.dir, name |-> e.name, obj |-> o]
           kept == listed \ Tree!Of({o, over})
<1>1. \A e \in kept : e \in listed /\ IsEntry(e) /\ e.obj # o /\ e.obj # over
  BY DEF DistinctInv, Tree!Of
<1>2. \A e \in listed' : e \in kept \/ \E g \in listed : g.obj = over /\ e = Taken(g)
  BY DEF Tree!Of
<1>3. \A g : Taken(g).dir = g.dir /\ Taken(g).name = g.name /\ Taken(g).obj = o /\ IsEntry(Taken(g))
  BY DEF IsEntry
<1>4. \A e, f \in listed : (e.dir = f.dir /\ e.name = f.name) \/ e.obj = f.obj => e = f
  BY DEF DistinctInv, Tree!Distinct
<1> HIDE DEF Taken, kept
<1>5. Tree!Distinct'
  <2> SUFFICES ASSUME NEW e \in listed', NEW f \in listed',
                      (e.dir = f.dir /\ e.name = f.name) \/ e.obj = f.obj
               PROVE  e = f
    BY DEF Tree!Distinct
  <2>1. CASE e \in kept /\ f \in kept
    BY <2>1, <1>1, <1>4
  <2>2. CASE e \in kept /\ f \notin kept
    <3>1. PICK g \in listed : g.obj = over /\ f = Taken(g)
      BY <2>2, <1>2
    <3>2. e.dir = g.dir /\ e.name = g.name
      BY <2>2, <3>1, <1>1, <1>3
    <3> QED BY <2>2, <3>1, <3>2, <1>1, <1>4
  <2>3. CASE e \notin kept /\ f \in kept
    <3>1. PICK g \in listed : g.obj = over /\ e = Taken(g)
      BY <2>3, <1>2
    <3>2. f.dir = g.dir /\ f.name = g.name
      BY <2>3, <3>1, <1>1, <1>3
    <3> QED BY <2>3, <3>1, <3>2, <1>1, <1>4
  <2>4. CASE e \notin kept /\ f \notin kept
    <3>1. PICK g \in listed : g.obj = over /\ e = Taken(g)
      BY <2>4, <1>2
    <3>2. PICK h \in listed : h.obj = over /\ f = Taken(h)
      BY <2>4, <1>2
    <3> QED BY <3>1, <3>2, <1>4
  <2> QED BY <2>1, <2>2, <2>3, <2>4
<1>6. \A e \in listed' : IsEntry(e)
  BY <1>1, <1>2, <1>3
<1> QED BY <1>5, <1>6 DEF DistinctInv

LEMMA FewerDistinct == ASSUME DistinctInv, UNCHANGED ~broken, listed' \subseteq listed PROVE DistinctInv'
  BY DEF DistinctInv, Tree!Distinct, IsEntry

LEMMA AnswerDistinct == ASSUME DistinctInv, Tree!Answer PROVE DistinctInv'
<1>0. ~broken /\ UNCHANGED ~broken
  BY DEF Tree!Answer
<1>1. CASE Asked.call \in {"create", "mkdir"} /\ Tree!Named(Asked.dir, Asked.name) = {} /\
           \E o \in Inodes :
               /\ Tree!Of({o}) = {}
               /\ listed' = listed \cup {[dir |-> Asked.dir, name |-> Asked.name, obj |-> o]}
  <2>1. PICK o \in Inodes :
               /\ Tree!Of({o}) = {}
               /\ listed' = listed \cup {[dir |-> Asked.dir, name |-> Asked.name, obj |-> o]}
    BY <1>1
  <2>2. \A e \in listed : e.obj # o
    BY <2>1 DEF Tree!Of
  <2>3. listed \subseteq listed
    OBVIOUS
  <2>4. Tree!Named(Asked.dir, Asked.name) = {}
    BY <1>1
  <2>5. listed' = listed \cup {[dir |-> Asked.dir, name |-> Asked.name, obj |-> o]}
    BY <2>1
  <2> HIDE <2>1
  <2> QED BY <1>0, <2>2, <2>3, <2>4, <2>5, AddedDistinct
<1>2. CASE Asked.call \in {"unlink", "rmdir"} /\ listed' = listed \ Tree!Of({Asked.obj})
  BY <1>0, <1>2, FewerDistinct
<1>3. CASE Tree!Named(Asked.dir, Asked.name) = {} /\
           listed' = (listed \ Tree!Of({Asked.obj}))
                        \cup {[dir |-> Asked.dir, name |-> Asked.name, obj |-> Asked.obj]}
  <2>1. \A e \in listed \ Tree!Of({Asked.obj}) : e.obj # Asked.obj
    BY DEF Tree!Of
  <2>2. listed \ Tree!Of({Asked.obj}) \subseteq listed
    OBVIOUS
  <2> QED BY <1>0, <1>3, <2>1, <2>2, AddedDistinct
<1>4. CASE listed' = (listed \ Tree!Of({Asked.obj, Asked.over}))
                        \cup {[dir |-> e.dir, name |-> e.name, obj |-> Asked.obj] : e \in Tree!Of({Asked.over})}
  BY <1>0, <1>4, TakenDistinct
<1> QED BY <1>1, <1>2, <1>3, <1>4 DEF Tree!Answer

LEMMA DistinctStep == ASSUME DistinctInv, [Tree!Next]_Tree!vars  PROVE DistinctInv'
<1>1. CASE Tree!Ask
  BY <1>1, FewerDistinct DEF Tree!Ask
<1>2. CASE Tree!Refuse
  BY <1>2, FewerDistinct DEF Tree!Refuse
<1>3. CASE Tree!Answer
  BY <1>3, AnswerDistinct
<1>4. CASE Tree!Fail
  BY <1>4 DEF Tree!Fail, DistinctInv, Tree!Distinct
<1>5. CASE Tree!Format
  BY <1>5 DEF Tree!Format, DistinctInv, Tree!Distinct
<1>6. CASE UNCHANGED Tree!vars
  BY <1>6, FewerDistinct DEF Tree!vars
<1> QED BY <1>1, <1>2, <1>3, <1>4, <1>5, <1>6 DEF Tree!Next

(* While nothing went wrong for good, a name of a directory is listed once, *)
(* and a file or directory has one name: whatever keeps to DirTree has this *)
(* too, and FatDir does (TreeKept in FatNameProofs).                        *)
THEOREM NamesDistinct == Tree!Spec => []Tree!Distinct
<1>1. Tree!Init => DistinctInv
  BY DEF Tree!Init, DistinctInv, Tree!Distinct
<1>2. DistinctInv /\ [Tree!Next]_Tree!vars => DistinctInv'
  BY DistinctStep
<1>3. DistinctInv => Tree!Distinct
  BY DEF DistinctInv
<1> QED BY <1>1, <1>2, <1>3, PTL DEF Tree!Spec
=============================================================================
