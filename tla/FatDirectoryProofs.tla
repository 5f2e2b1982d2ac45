------------------------- MODULE FatDirectoryProofs -------------------------
(***************************************************************************)
(* What the operators of FatTable and FatDirectory compute, for every size *)
(* of the volume and every set of names: the window over the chip, chains  *)
(* of clusters, tables of entries and the names in them.                   *)
(***************************************************************************)
EXTENDS FatDirectory, FoldLemmas, FunctionTheorems, SequenceTheorems

-----------------------------------------------------------------------------
(* Places in a table, and recursions along numbers *)

\* An entry's sector and slot say where it is, and the other way round.
LEMMA PlaceOfEntry ==
  ASSUME NEW i \in Nat, i # 0
  PROVE  /\ Slot(i) \in 1..U
         /\ SectNo(i) \in Nat /\ SectNo(i) # 0
         /\ i = U * (SectNo(i) - 1) + Slot(i)
<1>1. U \in Nat /\ U >= 2
  BY FatAssumption
<1>2. PICK a \in Nat : a = i - 1
  OBVIOUS
<1>3. a = U * (a \div U) + (a % U) /\ a % U \in 0..(U - 1) /\ a \div U \in Int /\ a \div U >= 0
  BY <1>1
<1> QED BY <1>1, <1>2, <1>3 DEF Slot, SectNo

\* The entry in slot j of the table's k-th sector.
LEMMA EntryOfPlace ==
  ASSUME NEW k \in Nat, k # 0, NEW j \in 1..U
  PROVE  /\ U * (k - 1) + j \in Nat /\ U * (k - 1) + j # 0
         /\ SectNo(U * (k - 1) + j) = k /\ Slot(U * (k - 1) + j) = j
<1>1. U \in Nat /\ U >= 2 /\ j \in Nat
  BY FatAssumption
<1>2. PICK m \in Nat : m = U * (k - 1)
  BY <1>1
<1>3. ((m + j - 1) \div U) = k - 1 /\ ((m + j - 1) % U) = j - 1
  <2>1. m + j - 1 \in Nat /\ m + j - 1 = U * (k - 1) + (j - 1) /\ j - 1 \in 0..(U - 1) /\ k - 1 \in Nat
    BY <1>1, <1>2
  <2>2. PICK q \in Int, r \in 0..(U - 1) : m + j - 1 = U * q + r /\ q = (m + j - 1) \div U /\ r = (m + j - 1) % U
    BY <1>1, <2>1
  <2>3. q = k - 1
    <3>1. U * (q - (k - 1)) = (j - 1) - r
      BY <1>1, <2>1, <2>2
    <3>2. q - (k - 1) \in Int /\ ((j - 1) - r) < U /\ ((j - 1) - r) > 0 - U
      BY <1>1, <2>1, <2>2
    <3>3. ~(q - (k - 1) >= 1)
      <4> SUFFICES ASSUME q - (k - 1) >= 1 PROVE FALSE
        OBVIOUS
      <4>1. U * (q - (k - 1)) >= U
        BY <1>1, <3>2
      <4> QED BY <3>1, <3>2, <4>1, <1>1
    <3>4. ~(q - (k - 1) <= 0 - 1)
      <4> SUFFICES ASSUME q - (k - 1) <= 0 - 1 PROVE FALSE
        OBVIOUS
      <4>1. U * (q - (k - 1)) <= 0 - U
        BY <1>1, <3>2
      <4> QED BY <3>1, <3>2, <4>1, <1>1
    <3> QED BY <3>2, <3>3, <3>4
  <2> QED BY <1>1, <2>1, <2>2, <2>3
<1> QED BY <1>1, <1>2, <1>3 DEF SectNo, Slot

\* The first k sectors of a table hold its first U * k entries.
LEMMA EntriesOfSectors ==
  ASSUME NEW i \in Nat, i # 0, NEW k \in Nat
  PROVE  SectNo(i) <= k <=> i <= U * k
<1>1. U \in Nat /\ U >= 2
  BY FatAssumption
<1>2. Slot(i) \in 1..U /\ SectNo(i) \in Nat /\ SectNo(i) # 0 /\ i = U * (SectNo(i) - 1) + Slot(i)
  BY PlaceOfEntry
<1>3. ASSUME SectNo(i) <= k PROVE i <= U * k
  <2>1. U * SectNo(i) <= U * k
    BY <1>1, <1>2, <1>3
  <2>2. U * (SectNo(i) - 1) = U * SectNo(i) - U /\ U * SectNo(i) \in Nat /\ U * k \in Nat
    BY <1>1, <1>2
  <2>3. i = U * SectNo(i) - U + Slot(i)
    BY <1>2, <2>2
  <2> QED BY <1>1, <1>2, <2>1, <2>2, <2>3
<1>4. ASSUME SectNo(i) >= k + 1 PROVE ~(i <= U * k)
  <2>1. U * (SectNo(i) - 1) >= U * k
    BY <1>1, <1>2, <1>4
  <2>2. PICK a \in Int : a = U * (SectNo(i) - 1)
    BY <1>1, <1>2
  <2>3. PICK b \in Int : b = U * k
    BY <1>1
  <2>4. PICK j \in 1..U : j = Slot(i)
    BY <1>2
  <2>5. a >= b /\ i = a + j /\ j \in Nat /\ j >= 1
    BY <1>1, <1>2, <2>1, <2>2, <2>3, <2>4
  <2>6. i > b
    BY <2>5
  <2> QED BY <1>1, <2>3, <2>6
<1>5. PICK n \in Nat : n = SectNo(i)
  BY <1>2
<1>6. n <= k \/ n >= k + 1
  OBVIOUS
<1>7. CASE n <= k
  BY <1>3, <1>5, <1>7
<1>8. CASE n >= k + 1
  <2>1. ~(n <= k)
    BY <1>8
  <2> QED BY <1>4, <1>5, <1>8, <2>1
<1> QED BY <1>6, <1>7, <1>8

\* Sectors follow each other as their entries do.
LEMMA SectorsAscend ==
  ASSUME NEW i \in Nat, i # 0, NEW j \in Nat, i <= j
  PROVE  SectNo(i) <= SectNo(j)
<1>1. U \in Nat /\ SectNo(j) \in Nat /\ j = U * (SectNo(j) - 1) + Slot(j) /\ Slot(j) \in 1..U
  BY PlaceOfEntry, FatAssumption
<1>2. j <= U * SectNo(j)
  BY <1>1
<1>3. i <= U * SectNo(j)
  BY <1>1, <1>2
<1> QED BY <1>1, <1>3, EntriesOfSectors

\* The next entry is in the next slot, or the first of the next sector.
LEMMA NextEntry ==
  ASSUME NEW i \in Nat, i # 0
  PROVE  /\ SectNo(i + 1) \in {SectNo(i), SectNo(i) + 1}
         /\ SectNo(1) = 1 /\ Slot(1) = 1
<1>1. U \in Nat /\ U >= 2
  BY FatAssumption
<1>2. Slot(i) \in 1..U /\ SectNo(i) \in Nat /\ SectNo(i) # 0 /\ i = U * (SectNo(i) - 1) + Slot(i)
  BY PlaceOfEntry
<1>3. i + 1 <= U * (SectNo(i) + 1)
  BY <1>1, <1>2
<1>4. SectNo(i + 1) <= SectNo(i) + 1 /\ SectNo(i) <= SectNo(i + 1)
  BY <1>2, <1>3, EntriesOfSectors, SectorsAscend
<1>5. SectNo(i + 1) \in Nat
  BY PlaceOfEntry
<1>6. SectNo(1) = 1 /\ Slot(1) = 1
  BY <1>1 DEF SectNo, Slot
<1> QED BY <1>2, <1>4, <1>5, <1>6

\* g takes n steps from b: F takes the number of a step and the value before it.
IsSteps(g, n, b, F) ==
  /\ DOMAIN g = 0..n
  /\ \A i \in 0..n : g[i] = IF i = 0 THEN b ELSE F[<<i, g[i - 1]>>]

\* A recursion along the numbers has a solution.
LEMMA StepsExist ==
  ASSUME NEW n \in Nat, NEW V, NEW b \in V, NEW F, Adds(F, 1..n, V)
  PROVE  \E g \in [0..n -> V] : IsSteps(g, n, b, F)
<1> DEFINE Reached(m) == \E g \in [0..m -> V] : IsSteps(g, m, b, F)
           T == {m \in Nat : m <= n => Reached(m)}
<1>0. \A i \in 1..n, x \in V : F[<<i, x>>] \in V
  BY DEF Adds
<1>1. 0 \in T
  <2>1. [i \in 0..0 |-> b] \in [0..0 -> V] /\ IsSteps([i \in 0..0 |-> b], 0, b, F)
    BY DEF IsSteps
  <2> QED BY <2>1
<1>2. \A m \in Nat : m \in T => m + 1 \in T
  <2> SUFFICES ASSUME NEW m \in Nat, m \in T, m + 1 <= n PROVE Reached(m + 1)
    OBVIOUS
  <2>1. PICK g \in [0..m -> V] : IsSteps(g, m, b, F)
    OBVIOUS
  <2> DEFINE h == [i \in 0..(m + 1) |-> IF i = m + 1 THEN F[<<m + 1, g[m]>>] ELSE g[i]]
  <2>2. g[m] \in V /\ m + 1 \in 1..n
    OBVIOUS
  <2>3. h \in [0..(m + 1) -> V]
    <3>1. \A i \in 0..(m + 1) : i # m + 1 => i \in 0..m
      OBVIOUS
    <3> QED BY <1>0, <2>2, <3>1
  <2>4. \A i \in 0..(m + 1) : h[i] = IF i = 0 THEN b ELSE F[<<i, h[i - 1]>>]
    <3> SUFFICES ASSUME NEW i \in 0..(m + 1)
                 PROVE  h[i] = IF i = 0 THEN b ELSE F[<<i, h[i - 1]>>]
      OBVIOUS
    <3>1. CASE i = m + 1
      <4>1. i - 1 = m /\ i # 0 /\ m \in 0..(m + 1) /\ m # m + 1
        BY <3>1
      <4>2. h[m] = g[m]
        BY <4>1
      <4> QED BY <3>1, <4>1, <4>2
    <3>2. CASE i # m + 1
      <4>1. i \in 0..m /\ (i # 0 => i - 1 \in 0..m /\ i - 1 # m + 1 /\ i - 1 \in 0..(m + 1))
        BY <3>2
      <4>2. g[i] = IF i = 0 THEN b ELSE F[<<i, g[i - 1]>>]
        BY <2>1, <4>1 DEF IsSteps
      <4>3. h[i] = g[i] /\ (i # 0 => h[i - 1] = g[i - 1])
        BY <3>2, <4>1
      <4> HIDE DEF h
      <4> QED BY <4>2, <4>3
    <3> QED BY <3>1, <3>2
  <2>5. DOMAIN h = 0..(m + 1)
    OBVIOUS
  <2> HIDE DEF h
  <2>6. IsSteps(h, m + 1, b, F)
    BY <2>4, <2>5 DEF IsSteps
  <2> QED BY <2>3, <2>6
<1>3. n \in T
  <2> HIDE DEF T
  <2> QED BY <1>1, <1>2, SetInduction
<1>4. Reached(n)
  BY <1>3
<1> QED BY <1>4

-----------------------------------------------------------------------------
(* Chains of clusters *)

FatTables == [Cluster -> {FREE, EOC} \cup Cluster]

\* s is the chain that begins with c: it has every cluster once and comes to an end.
IsChain(s, fat, c) ==
  /\ s \in Seq(Cluster) /\ Len(s) # 0 /\ s[1] = c
  /\ \A i, j \in 1..Len(s) : s[i] = s[j] => i = j
  /\ \A i \in 1..(Len(s) - 1) : fat[s[i]] = s[i + 1]
  /\ fat[s[Len(s)]] = EOC

\* What is known of clusters and their sectors.
LEMMA Clusters ==
  /\ LastCluster \in Nat /\ LastCluster >= 2
  /\ \A c \in Cluster : c \in Nat /\ c >= 2 /\ c <= LastCluster /\ c # FREE /\ c # EOC
  /\ FREE \notin Cluster /\ EOC \notin Cluster /\ FREE # EOC
  /\ IsFiniteSet(Cluster) /\ Cardinality(Cluster) = LastCluster - 1
<1>1. LastCluster \in Nat /\ LastCluster >= 2
  BY FatAssumption
<1>2. IsFiniteSet(2..LastCluster) /\ Cardinality(2..LastCluster) = LastCluster - 2 + 1
  BY <1>1, FS_Interval
<1> QED BY <1>1, <1>2 DEF Cluster, FREE, EOC

\* No chain has more clusters than there are.
LEMMA ChainShort ==
  ASSUME NEW fat, NEW c, NEW s, IsChain(s, fat, c)
  PROVE  Len(s) \in Nat /\ Len(s) >= 1 /\ Len(s) <= LastCluster - 1
<1>1. s \in Seq(Cluster) /\ Len(s) \in Nat /\ Len(s) # 0
  BY DEF IsChain
<1>2. s \in Injection(1..Len(s), Cluster)
  <2>1. s \in [1..Len(s) -> Cluster]
    BY <1>1
  <2>2. \A i, j \in 1..Len(s) : s[i] = s[j] => i = j
    BY DEF IsChain
  <2> QED BY <2>1, <2>2 DEF Injection, IsInjective
<1>3. Cardinality(1..Len(s)) <= Cardinality(Cluster)
  BY <1>2, Clusters, FS_Injection
<1>4. Cardinality(1..Len(s)) = Len(s)
  <2>1. 1 \in Int /\ Len(s) \in Int
    BY <1>1
  <2>2. Cardinality(1..Len(s)) = IF 1 > Len(s) THEN 0 ELSE Len(s) - 1 + 1
    BY <2>1, FS_Interval
  <2> QED BY <1>1, <2>2
<1> QED BY <1>1, <1>3, <1>4, Clusters

\* One more link.
Link(fat, s) ==
  IF s # <<>> /\ fat[s[Len(s)]] \in Cluster \ ToSet(s) THEN Append(s, fat[s[Len(s)]]) ELSE s

\* What Chain is, when what it walks through is known.
LEMMA ChainBy ==
  ASSUME NEW fat, NEW c, NEW p,
         p[0] = IF c \in Cluster THEN <<c>> ELSE <<>>,
         \A n \in 1..LastCluster : p[n] = Link(fat, p[n - 1])
  PROVE  Chain(fat, c) = p[LastCluster]
<1> DEFINE Eq(g) == g = [n \in 0..LastCluster |->
                           IF n = 0 THEN IF c \in Cluster THEN <<c>> ELSE <<>>
                           ELSE LET s == g[n - 1]
                                IN  IF s # <<>> /\ fat[s[Len(s)]] \in Cluster \ ToSet(s)
                                    THEN Append(s, fat[s[Len(s)]]) ELSE s]
           links == CHOOSE g : Eq(g)
<1>0. LastCluster \in Nat
  BY Clusters
<1>1. PICK g : g = [n \in 0..LastCluster |-> p[n]]
  OBVIOUS
<1>2. Eq(g)
  <2>1. \A n \in 0..LastCluster : g[n] = p[n] /\ (n # 0 => n \in 1..LastCluster /\ g[n - 1] = p[n - 1])
    BY <1>0, <1>1
  <2> QED BY <1>1, <2>1 DEF Link
<1>3. Eq(links)
  <2> HIDE DEF Eq
  <2> QED BY <1>2
<1>4. /\ links[0] = p[0]
      /\ \A n \in 1..LastCluster : links[n] = Link(fat, links[n - 1])
  <2>1. \A n \in 0..LastCluster :
          links[n] = IF n = 0 THEN IF c \in Cluster THEN <<c>> ELSE <<>>
                     ELSE Link(fat, links[n - 1])
    <3> HIDE DEF links
    <3> QED BY <1>3 DEF Link
  <2> HIDE DEF links
  <2> QED BY <1>0, <2>1
<1>5. Chain(fat, c) = links[LastCluster]
  BY DEF Chain
<1> HIDE DEF links
<1> DEFINE Same(n) == n <= LastCluster => links[n] = p[n]
           T == {n \in Nat : Same(n)}
<1>6. 0 \in T
  BY <1>4
<1>7. \A n \in Nat : n \in T => n + 1 \in T
  <2>1. ASSUME NEW n \in Nat, Same(n), n + 1 <= LastCluster PROVE links[n + 1] = p[n + 1]
    <3>1. n + 1 \in 1..LastCluster /\ (n + 1) - 1 = n /\ n <= LastCluster
      BY <1>0, <2>1
    <3>2. links[n] = p[n]
      BY <2>1, <3>1
    <3> QED BY <1>4, <3>1, <3>2
  <2>2. \A n \in Nat : Same(n) => Same(n + 1)
    BY <2>1
  <2>3. \A n \in Nat : n + 1 \in Nat
    OBVIOUS
  <2> QED BY <2>2, <2>3
<1>8. Same(LastCluster)
  <2>1. LastCluster \in T
    <3> HIDE DEF T
    <3> QED BY <1>0, <1>6, <1>7, SetInduction
  <2> QED BY <2>1
<1> QED BY <1>0, <1>5, <1>8

\* The chain of a cluster is the one that it begins.
LEMMA ChainIs ==
  ASSUME NEW fat, NEW c, NEW s, IsChain(s, fat, c)
  PROVE  Chain(fat, c) = s
<1>0. /\ s \in Seq(Cluster) /\ Len(s) \in Nat /\ Len(s) # 0 /\ s[1] = c
      /\ \A i \in 1..Len(s) : s[i] \in Cluster
      /\ Len(s) <= LastCluster - 1 /\ LastCluster \in Nat
  <2>1. s \in Seq(Cluster) /\ Len(s) # 0 /\ s[1] = c
    BY DEF IsChain
  <2>2. Len(s) \in Nat /\ Len(s) <= LastCluster - 1 /\ LastCluster \in Nat
    BY ChainShort, Clusters
  <2> QED BY <2>1, <2>2
<1>1. PICK p : p = [n \in 0..LastCluster |-> IF n < Len(s) THEN SubSeq(s, 1, n + 1) ELSE s]
  OBVIOUS
<1>2. p[0] = IF c \in Cluster THEN <<c>> ELSE <<>>
  <2>1. SubSeq(s, 1, 1) = <<s[1]>>
    <3>1. PICK r : r = SubSeq(s, 1, 1)
      OBVIOUS
    <3>2. r \in Seq(Cluster) /\ Len(r) = 1 /\ r[1] = s[1]
      BY <1>0, <3>1
    <3>3. <<s[1]>> \in Seq(Cluster) /\ Len(<<s[1]>>) = 1 /\ <<s[1]>>[1] = s[1]
      BY <1>0
    <3>4. \A i \in 1..Len(r) : r[i] = <<s[1]>>[i]
      BY <3>2, <3>3
    <3> QED BY <3>1, <3>2, <3>3, <3>4, SeqEqual
  <2>2. c \in Cluster /\ 0 < Len(s) /\ 0 + 1 = 1
    BY <1>0
  <2> QED BY <1>0, <1>1, <2>1, <2>2
<1>3. ASSUME NEW n \in 1..LastCluster PROVE p[n] = Link(fat, p[n - 1])
  <2>1. n - 1 \in 0..LastCluster /\ n \in 0..LastCluster /\ (n - 1) + 1 = n
    BY <1>0
  <2>2. CASE n < Len(s)
    <3>1. p[n - 1] = SubSeq(s, 1, n) /\ p[n] = SubSeq(s, 1, n + 1)
      BY <1>0, <1>1, <2>1, <2>2
    <3>2. PICK r : r = SubSeq(s, 1, n)
      OBVIOUS
    <3>3. /\ r \in Seq(Cluster) /\ Len(r) = n /\ \A i \in 1..n : r[i] = s[i]
      BY <1>0, <2>2, <3>2
    <3>4. fat[s[n]] = s[n + 1] /\ s[n + 1] \in Cluster
      BY <1>0, <2>2 DEF IsChain
    <3>5. s[n + 1] \notin ToSet(r)
      <4>1. \A i \in 1..n : s[i] # s[n + 1]
        <5>1. n + 1 \in 1..Len(s) /\ \A i \in 1..n : i \in 1..Len(s) /\ i # n + 1
          BY <1>0, <2>2
        <5> QED BY <5>1 DEF IsChain
      <4>2. DOMAIN r = 1..n
        BY <3>3
      <4> QED BY <3>3, <4>1, <4>2 DEF ToSet
    <3>6. SubSeq(s, 1, n + 1) = Append(r, s[n + 1])
      BY <1>0, <2>2, <3>2
    <3>7. r # <<>> /\ r[Len(r)] = s[n]
      BY <3>3
    <3> QED BY <3>1, <3>2, <3>4, <3>5, <3>6, <3>7 DEF Link
  <2>3. CASE ~(n < Len(s))
    <3>1. p[n - 1] = s
      <4>1. CASE n - 1 < Len(s)
        <5>1. n = Len(s)
          BY <1>0, <2>3, <4>1
        <5>2. SubSeq(s, 1, Len(s)) = s
          BY <1>0
        <5> QED BY <1>1, <2>1, <4>1, <5>1, <5>2
      <4>2. CASE ~(n - 1 < Len(s))
        BY <1>1, <2>1, <4>2
      <4> QED BY <4>1, <4>2
    <3>2. p[n] = s
      BY <1>1, <2>1, <2>3
    <3>3. fat[s[Len(s)]] = EOC
      BY DEF IsChain
    <3> QED BY <3>1, <3>2, <3>3, Clusters DEF Link
  <2> QED BY <2>2, <2>3
<1>4. p[LastCluster] = s
  BY <1>0, <1>1
<1> QED BY <1>2, <1>3, <1>4, ChainBy

\* What is no cluster begins no chain.
LEMMA ChainOfNothing ==
  ASSUME NEW fat, NEW c, c \notin Cluster
  PROVE  Chain(fat, c) = <<>>
<1>1. PICK p : p = [n \in 0..LastCluster |-> <<>>]
  OBVIOUS
<1>2. LastCluster \in Nat
  BY Clusters
<1>3. p[0] = <<>> /\ p[LastCluster] = <<>> /\ \A n \in 1..LastCluster : p[n] = <<>> /\ p[n - 1] = <<>>
  BY <1>1, <1>2
<1>4. \A n \in 1..LastCluster : p[n] = Link(fat, p[n - 1])
  BY <1>3 DEF Link
<1> QED BY <1>3, <1>4, ChainBy

-----------------------------------------------------------------------------
(* What the FAT holds together *)

\* The chains of the clusters in H end, no two of them meet and, unless the table
\* is loose, nothing else is in use.
FatSound(fat, H, loose) ==
  /\ fat \in FatTables /\ H \subseteq Cluster
  /\ \A h \in H : IsChain(Chain(fat, h), fat, h)
  /\ \A h, g \in H : h # g => ToSet(Chain(fat, h)) \cap ToSet(Chain(fat, g)) = {}
  /\ loose \/ \A c \in Cluster : fat[c] # FREE => \E h \in H : c \in ToSet(Chain(fat, h))

\* The FAT with c as the end of its chain, and with c after prev.
Begun(fat, c)        == [fat EXCEPT ![c] = EOC]
Linked(fat, c, prev) == [fat EXCEPT ![c] = EOC, ![prev] = c]

\* The FAT without the chain that begins with c.
Without(fat, c) == [d \in Cluster |-> IF d \in ToSet(Chain(fat, c)) THEN FREE ELSE fat[d]]

\* What is in a sequence.
LEMMA InSequence ==
  ASSUME NEW S, NEW s \in Seq(S), NEW d
  PROVE  /\ d \in ToSet(s) <=> \E i \in 1..Len(s) : s[i] = d
         /\ ToSet(s) \subseteq S
<1>1. DOMAIN s = 1..Len(s) /\ \A i \in 1..Len(s) : s[i] \in S
  OBVIOUS
<1> QED BY <1>1 DEF ToSet

\* The clusters of a chain are in use.
LEMMA ChainInUse ==
  ASSUME NEW fat, NEW c, NEW s, IsChain(s, fat, c)
  PROVE  /\ \A d \in ToSet(s) : d \in Cluster /\ fat[d] \in ToSet(s) \cup {EOC} /\ fat[d] # FREE
         /\ c \in ToSet(s) /\ c \in Cluster
<1>1. s \in Seq(Cluster) /\ Len(s) \in Nat /\ Len(s) # 0 /\ s[1] = c
  BY DEF IsChain
<1>2. ASSUME NEW d \in ToSet(s)
      PROVE  d \in Cluster /\ fat[d] \in ToSet(s) \cup {EOC} /\ fat[d] # FREE
  <2>1. PICK i \in 1..Len(s) : s[i] = d
    BY <1>1, InSequence
  <2>2. d \in Cluster
    BY <1>1, <2>1
  <2>3. CASE i = Len(s)
    BY <2>1, <2>2, <2>3, Clusters DEF IsChain
  <2>4. CASE i # Len(s)
    <3>1. i \in 1..(Len(s) - 1) /\ i + 1 \in 1..Len(s)
      BY <1>1, <2>4
    <3>2. fat[d] = s[i + 1] /\ s[i + 1] \in Cluster
      BY <1>1, <2>1, <3>1 DEF IsChain
    <3>3. fat[d] \in ToSet(s)
      BY <1>1, <3>1, <3>2, InSequence
    <3> QED BY <2>2, <3>2, <3>3, Clusters
  <2> QED BY <2>3, <2>4
<1>3. c \in ToSet(s)
  BY <1>1, InSequence
<1> QED BY <1>2, <1>3

\* A chain does not change where the table does not.
LEMMA ChainKept ==
  ASSUME NEW fat, NEW c, NEW s, IsChain(s, fat, c),
         NEW new, \A d \in ToSet(s) : new[d] = fat[d]
  PROVE  IsChain(s, new, c) /\ Chain(new, c) = s /\ Chain(fat, c) = s
<1>1. s \in Seq(Cluster) /\ Len(s) \in Nat /\ Len(s) # 0 /\ s[1] = c
  BY DEF IsChain
<1>2. \A i \in 1..Len(s) : new[s[i]] = fat[s[i]]
  BY <1>1, InSequence
<1>3. \A i \in 1..(Len(s) - 1) : i \in 1..Len(s)
  BY <1>1
<1>4. Len(s) \in 1..Len(s)
  BY <1>1
<1>5. IsChain(s, new, c)
  BY <1>1, <1>2, <1>3, <1>4 DEF IsChain
<1> QED BY <1>5, ChainIs

\* create_chain(obj, 0): a free cluster becomes a chain.
THEOREM NewChainSound ==
  ASSUME NEW fat, NEW H, NEW loose, FatSound(fat, H, loose),
         NEW c \in Cluster, fat[c] = FREE,
         NEW new, new = Begun(fat, c)
  PROVE  /\ FatSound(new, H \cup {c}, loose) /\ Chain(new, c) = <<c>> /\ c \notin H
         /\ \A h \in H : Chain(new, h) = Chain(fat, h) /\ c \notin ToSet(Chain(fat, h))
<1>1. /\ new \in FatTables /\ new[c] = EOC /\ \A d \in Cluster : d # c => new[d] = fat[d]
      /\ fat \in FatTables
  BY DEF FatSound, FatTables, Begun
<1>2. ASSUME NEW h \in H
      PROVE  /\ IsChain(Chain(fat, h), new, h) /\ Chain(new, h) = Chain(fat, h)
             /\ c \notin ToSet(Chain(fat, h)) /\ h # c
  <2>1. PICK s : s = Chain(fat, h) /\ IsChain(s, fat, h)
    BY DEF FatSound
  <2>2. /\ \A d \in ToSet(s) : d \in Cluster /\ fat[d] # FREE
        /\ h \in ToSet(s)
    BY <2>1, ChainInUse
  <2>3. c \notin ToSet(s)
    BY <2>2
  <2>4. \A d \in ToSet(s) : new[d] = fat[d]
    BY <1>1, <2>2, <2>3
  <2>5. IsChain(s, new, h) /\ Chain(new, h) = s
    BY <2>1, <2>4, ChainKept
  <2> QED BY <2>1, <2>2, <2>3, <2>5
<1>3. IsChain(<<c>>, new, c)
  <2>1. <<c>> \in Seq(Cluster) /\ Len(<<c>>) = 1 /\ <<c>>[1] = c
    OBVIOUS
  <2> QED BY <1>1, <2>1 DEF IsChain
<1>4. Chain(new, c) = <<c>>
  BY <1>3, ChainIs
<1>5. ToSet(<<c>>) = {c}
  <2>1. <<c>> \in Seq(Cluster) /\ Len(<<c>>) = 1 /\ <<c>>[1] = c /\ 1..1 = {1}
    OBVIOUS
  <2>2. \A d : d \in ToSet(<<c>>) <=> \E i \in 1..1 : <<c>>[i] = d
    BY <2>1, InSequence
  <2> QED BY <2>1, <2>2
<1>6. c \notin H
  BY <1>2
<1>7. \A h \in H \cup {c} : IsChain(Chain(new, h), new, h)
  BY <1>2, <1>3, <1>4
<1>8. ASSUME NEW h \in H \cup {c}, NEW g \in H \cup {c}, h # g
      PROVE  ToSet(Chain(new, h)) \cap ToSet(Chain(new, g)) = {}
  <2>1. CASE h \in H /\ g \in H
    BY <1>2, <1>8, <2>1 DEF FatSound
  <2>2. CASE h = c
    BY <1>2, <1>4, <1>5, <1>8, <2>2
  <2>3. CASE g = c
    <3>1. h \in H /\ Chain(new, h) = Chain(fat, h) /\ c \notin ToSet(Chain(fat, h))
      BY <1>2, <1>8, <2>3
    <3> QED BY <1>4, <1>5, <2>3, <3>1
  <2> QED BY <2>1, <2>2, <2>3
<1>9. ASSUME ~loose, NEW d \in Cluster, new[d] # FREE
      PROVE  \E h \in H \cup {c} : d \in ToSet(Chain(new, h))
  <2>1. CASE d = c
    BY <1>4, <1>5, <2>1
  <2>2. CASE d # c
    <3>1. PICK h \in H : d \in ToSet(Chain(fat, h))
      BY <1>1, <1>9, <2>2 DEF FatSound
    <3> QED BY <1>2, <3>1
  <2> QED BY <2>1, <2>2
<1>10. H \cup {c} \subseteq Cluster
  BY DEF FatSound
<1>11. FatSound(new, H \cup {c}, loose)
  BY <1>1, <1>7, <1>8, <1>9, <1>10 DEF FatSound
<1> QED BY <1>2, <1>4, <1>6, <1>11

\* create_chain(obj, clst) at the end of a chain: it goes on with a free cluster.
THEOREM StretchSound ==
  ASSUME NEW fat, NEW H, NEW loose, FatSound(fat, H, loose),
         NEW c \in Cluster, fat[c] = FREE,
         NEW h \in H, NEW p, p = Last(Chain(fat, h)),
         NEW new, new = Linked(fat, c, p)
  PROVE  /\ FatSound(new, H, loose) /\ Chain(new, h) = Append(Chain(fat, h), c)
         /\ \A g \in H : c \notin ToSet(Chain(fat, g)) /\ (g # h => Chain(new, g) = Chain(fat, g))
<1>1. PICK s : s = Chain(fat, h) /\ IsChain(s, fat, h)
  BY DEF FatSound
<1>2. s \in Seq(Cluster) /\ Len(s) \in Nat /\ Len(s) # 0 /\ s[1] = h /\ p = s[Len(s)]
  BY <1>1 DEF IsChain, Last
<1>3. p \in Cluster /\ p \in ToSet(s)
  BY <1>2, InSequence
<1>4. ASSUME NEW g \in H PROVE c \notin ToSet(Chain(fat, g)) /\ IsChain(Chain(fat, g), fat, g)
  <2>1. IsChain(Chain(fat, g), fat, g)
    BY DEF FatSound
  <2> QED BY <2>1, ChainInUse
<1>5. c # p
  BY <1>1, <1>3, <1>4
<1>6. /\ new \in FatTables /\ new[c] = EOC /\ new[p] = c
      /\ \A d \in Cluster : d # c /\ d # p => new[d] = fat[d]
  BY <1>3, <1>5 DEF FatSound, FatTables, Linked
<1>7. PICK t : t = Append(s, c)
  OBVIOUS
<1>8. /\ t \in Seq(Cluster) /\ Len(t) = Len(s) + 1 /\ t[Len(s) + 1] = c
      /\ \A i \in 1..Len(s) : t[i] = s[i]
  BY <1>2, <1>7
<1>9. IsChain(t, new, h)
  <2>1. Len(t) # 0 /\ t[1] = h
    BY <1>2, <1>8
  <2>2. ASSUME NEW i \in 1..Len(t), NEW j \in 1..Len(t), t[i] = t[j] PROVE i = j
    <3>0. \A k \in 1..Len(s) : s[k] # c
      BY <1>1, <1>2, <1>4, InSequence
    <3>1. CASE i \in 1..Len(s) /\ j \in 1..Len(s)
      BY <1>1, <1>8, <2>2, <3>1 DEF IsChain
    <3>2. CASE i = Len(s) + 1
      BY <1>2, <1>8, <2>2, <3>0, <3>2
    <3>3. CASE j = Len(s) + 1
      BY <1>2, <1>8, <2>2, <3>0, <3>3
    <3> QED BY <1>2, <1>8, <3>1, <3>2, <3>3
  <2>3. ASSUME NEW i \in 1..(Len(t) - 1) PROVE new[t[i]] = t[i + 1]
    <3>1. i \in 1..Len(s)
      BY <1>2, <1>8
    <3>2. CASE i = Len(s)
      BY <1>2, <1>6, <1>8, <3>1, <3>2
    <3>3. CASE i # Len(s)
      <4>1. i \in 1..(Len(s) - 1) /\ i + 1 \in 1..Len(s) /\ Len(s) \in 1..Len(s)
        BY <1>2, <3>1, <3>3
      <4>2. s[i] # p
        BY <1>1, <1>2, <3>3, <4>1, <3>1 DEF IsChain
      <4>3. s[i] \in ToSet(s) /\ s[i] \in Cluster
        BY <1>2, <3>1, InSequence
      <4>4. s[i] # c
        BY <1>1, <1>4, <4>3
      <4>5. fat[s[i]] = s[i + 1]
        BY <1>1, <4>1 DEF IsChain
      <4> QED BY <1>6, <1>8, <3>1, <4>1, <4>2, <4>3, <4>4, <4>5
    <3> QED BY <3>2, <3>3
  <2>4. new[t[Len(t)]] = EOC
    BY <1>2, <1>6, <1>8
  <2> QED BY <1>8, <2>1, <2>2, <2>3, <2>4 DEF IsChain
<1>10. Chain(new, h) = t
  BY <1>9, ChainIs
<1>11. ASSUME NEW g \in H, g # h
       PROVE  IsChain(Chain(fat, g), new, g) /\ Chain(new, g) = Chain(fat, g)
  <2>1. ToSet(Chain(fat, g)) \cap ToSet(s) = {}
    BY <1>1, <1>11 DEF FatSound
  <2>2. \A d \in ToSet(Chain(fat, g)) : d # p /\ d # c /\ d \in Cluster
    BY <1>3, <1>4, <2>1, ChainInUse
  <2>3. \A d \in ToSet(Chain(fat, g)) : new[d] = fat[d]
    BY <1>6, <2>2
  <2>4. IsChain(Chain(fat, g), fat, g)
    BY <1>4
  <2>5. PICK u : u = Chain(fat, g)
    OBVIOUS
  <2>6. \A w : (\A d \in ToSet(u) : w[d] = fat[d]) => IsChain(u, w, g) /\ Chain(w, g) = u
    BY <2>4, <2>5, ChainKept
  <2> QED BY <2>3, <2>5, <2>6
<1>12. ToSet(t) = ToSet(s) \cup {c}
  <2>1. ASSUME NEW d PROVE d \in ToSet(t) <=> d \in ToSet(s) \cup {c}
    <3>1. d \in ToSet(t) <=> \E i \in 1..Len(t) : t[i] = d
      BY <1>8, InSequence
    <3>2. d \in ToSet(s) <=> \E i \in 1..Len(s) : s[i] = d
      BY <1>2, InSequence
    <3>3. ASSUME d \in ToSet(t) PROVE d \in ToSet(s) \cup {c}
      <4>1. PICK i \in 1..Len(t) : t[i] = d
        BY <3>1, <3>3
      <4>2. i \in 1..Len(s) \/ i = Len(s) + 1
        BY <1>2, <1>8
      <4> QED BY <1>8, <3>2, <4>1, <4>2
    <3>4. ASSUME d \in ToSet(s) PROVE d \in ToSet(t)
      <4>1. PICK i \in 1..Len(s) : s[i] = d
        BY <3>2, <3>4
      <4>2. i \in 1..Len(t) /\ t[i] = d
        BY <1>2, <1>8, <4>1
      <4> QED BY <3>1, <4>2
    <3>5. c \in ToSet(t)
      <4>1. Len(s) + 1 \in 1..Len(t)
        BY <1>2, <1>8
      <4> QED BY <1>8, <4>1, InSequence
    <3> QED BY <3>3, <3>4, <3>5
  <2> QED BY <2>1
<1>13. \A g \in H : IsChain(Chain(new, g), new, g)
  BY <1>9, <1>10, <1>11
<1>14. ASSUME NEW f \in H, NEW g \in H, f # g
       PROVE  ToSet(Chain(new, f)) \cap ToSet(Chain(new, g)) = {}
  <2>1. ToSet(Chain(fat, f)) \cap ToSet(Chain(fat, g)) = {}
    BY <1>14 DEF FatSound
  <2>2. CASE f = h
    BY <1>1, <1>4, <1>10, <1>11, <1>12, <1>14, <2>1, <2>2
  <2>3. CASE g = h
    BY <1>1, <1>4, <1>10, <1>11, <1>12, <1>14, <2>1, <2>3
  <2>4. CASE f # h /\ g # h
    BY <1>11, <2>1, <2>4
  <2> QED BY <2>2, <2>3, <2>4
<1>15. ASSUME ~loose, NEW d \in Cluster, new[d] # FREE
       PROVE  \E g \in H : d \in ToSet(Chain(new, g))
  <2>1. CASE d = c \/ d = p
    BY <1>3, <1>10, <1>12, <2>1
  <2>2. CASE d # c /\ d # p
    <3>1. PICK g \in H : d \in ToSet(Chain(fat, g))
      BY <1>6, <1>15, <2>2 DEF FatSound
    <3> QED BY <1>1, <1>10, <1>11, <1>12, <3>1
  <2> QED BY <2>1, <2>2
<1>16. FatSound(new, H, loose)
  BY <1>6, <1>13, <1>14, <1>15 DEF FatSound
<1> QED BY <1>1, <1>4, <1>7, <1>10, <1>11, <1>16

\* remove_chain(): its clusters are free, and no other chain changes.
THEOREM RemoveSound ==
  ASSUME NEW fat, NEW H, NEW loose, FatSound(fat, H, loose), NEW h \in H,
         NEW new, new = Without(fat, h)
  PROVE  /\ FatSound(new, H \ {h}, loose)
         /\ \A g \in H \ {h} : Chain(new, g) = Chain(fat, g)
<1>1. new \in FatTables
  BY DEF FatSound, FatTables, Without
<1>2. ASSUME NEW g \in H, g # h
      PROVE  IsChain(Chain(fat, g), new, g) /\ Chain(new, g) = Chain(fat, g)
  <2>1. ToSet(Chain(fat, g)) \cap ToSet(Chain(fat, h)) = {} /\ IsChain(Chain(fat, g), fat, g)
    BY <1>2 DEF FatSound
  <2>2. \A d \in ToSet(Chain(fat, g)) : d \in Cluster
    BY <2>1, ChainInUse
  <2>3. \A d \in ToSet(Chain(fat, g)) : new[d] = fat[d]
    BY <2>1, <2>2 DEF Without
  <2> QED BY <2>1, <2>3, ChainKept
<1>3. \A g \in H \ {h} : IsChain(Chain(new, g), new, g)
  BY <1>2
<1>4. \A f, g \in H \ {h} : f # g => ToSet(Chain(new, f)) \cap ToSet(Chain(new, g)) = {}
  BY <1>2 DEF FatSound
<1>5. ASSUME ~loose, NEW d \in Cluster, new[d] # FREE
      PROVE  \E g \in H \ {h} : d \in ToSet(Chain(new, g))
  <2>1. d \notin ToSet(Chain(fat, h)) /\ fat[d] # FREE
    BY <1>5 DEF Without
  <2>2. PICK g \in H : d \in ToSet(Chain(fat, g))
    BY <1>5, <2>1 DEF FatSound
  <2> QED BY <1>2, <2>1, <2>2
<1>6. FatSound(new, H \ {h}, loose)
  BY <1>1, <1>3, <1>4, <1>5 DEF FatSound
<1> QED BY <1>2, <1>6

\* A table that is sound is so with fewer chains, if it may be loose.
LEMMA FewerChains ==
  ASSUME NEW fat, NEW H, NEW loose, FatSound(fat, H, loose), NEW G, G \subseteq H
  PROVE  FatSound(fat, G, TRUE)
BY DEF FatSound

\* The search of create_chain() finds a free cluster if there is one.
LEMMA FirstFreeIs ==
  ASSUME NEW fat \in FatTables, NEW scl \in 1..LastCluster
  PROVE  LET c == FirstFree(fat, scl)
         IN  /\ c \in Cluster => fat[c] = FREE
             /\ c \notin Cluster => c = 0 /\ \A d \in Cluster : fat[d] # FREE
<1> DEFINE free == {c \in Cluster : fat[c] = FREE}
<1>1. CASE free = {}
  <2>1. FirstFree(fat, scl) = 0
    BY <1>1 DEF FirstFree
  <2> QED BY <1>1, <2>1, Clusters DEF FREE
<1>2. CASE free # {}
  <2> DEFINE Dist(c) == Distance(scl, c)
             Best(n) == \E c \in free : Dist(c) <= n
             Least == \E c \in free : \A d \in free : Dist(c) <= Dist(d)
             T == {n \in Nat : Best(n) => Least}
  <2>1. \A c \in Cluster : Dist(c) \in Nat
    BY Clusters DEF Distance, Cluster
  <2>2. 0 \in T
    BY <2>1
  <2>3. ASSUME NEW n \in Nat, Best(n) => Least PROVE Best(n + 1) => Least
    <3>1. CASE Best(n)
      BY <2>3, <3>1
    <3>2. CASE ~Best(n) /\ Best(n + 1)
      <4>1. PICK c \in free : Dist(c) <= n + 1
        BY <3>2
      <4>2. \A d \in free : ~(Dist(d) <= n) /\ Dist(d) \in Nat
        BY <2>1, <3>2
      <4>3. \A d \in free : Dist(c) <= Dist(d)
        <5> HIDE DEF Dist
        <5> QED BY <4>1, <4>2
      <4> QED BY <4>3
    <3> QED BY <3>1, <3>2
  <2>4. \A n \in Nat : n \in T => n + 1 \in T
    <3> HIDE DEF Best, Least
    <3> QED BY <2>3
  <2>5. PICK c \in free : TRUE
    BY <1>2
  <2>6. Dist(c) \in Nat /\ Best(Dist(c))
    BY <2>1, <2>5
  <2>7. Dist(c) \in T
    <3> HIDE DEF T, Dist
    <3> QED BY <2>2, <2>4, <2>6, SetInduction
  <2>8. Least
    BY <2>6, <2>7
  <2>9. FirstFree(fat, scl) = CHOOSE x \in free : \A d \in free : Dist(x) <= Dist(d)
    BY <1>2 DEF FirstFree
  <2>10. FirstFree(fat, scl) \in free
    <3> HIDE DEF free, Dist
    <3> QED BY <2>8, <2>9 DEF Least
  <2> QED BY <2>10
<1> QED BY <1>1, <1>2

-----------------------------------------------------------------------------
(* The window over the chip *)

\* The sectors that hold something of their own, what FatFs takes them to hold,
\* and what they hold on the chip.
Image   == Sect \ {FAT2}
Show(v) == [s \in Image |-> See(v, s)]
Chip(v) == [s \in Image |-> v.disk[s]]

\* A volume whose window is on the boot record, on the FAT or on one of Z.
VolOK(v, Z) ==
  /\ v = [disk |-> v.disk, win |-> v.win, winsect |-> v.winsect, wflag |-> v.wflag,
          last_clst |-> v.last_clst, mount |-> v.mount]
  /\ v.disk = [s \in Sect |-> v.disk[s]] /\ v.disk[FAT2] = v.disk[FAT]
  /\ v.wflag \in BOOLEAN /\ v.last_clst \in 0..LastCluster
  /\ v.winsect \in {NoWindow, VBR, FAT} \cup Z
  /\ v.wflag => v.winsect \in {FAT} \cup Z
  /\ ~v.wflag /\ v.winsect # NoWindow => v.win = v.disk[v.winsect]
  /\ Z \subseteq ROOT..(LastCluster + 2)

\* w is v after the window was moved, some number of times.
Moved(v, w) ==
  /\ Show(w) = Show(v) /\ Chip(w) \in {Chip(v), Show(v)}
  /\ w.last_clst = v.last_clst /\ w.mount = v.mount

\* Which sectors there are.
LEMMA Sectors ==
  /\ ROOT..(LastCluster + 2) \subseteq Image
  /\ VBR \in Image /\ FAT \in Image /\ ROOT \in Image
  /\ VBR # FAT /\ VBR # ROOT /\ FAT # ROOT /\ FAT2 \notin Image /\ NoWindow \notin Sect
  /\ VBR \notin ROOT..(LastCluster + 2) /\ FAT \notin ROOT..(LastCluster + 2)
  /\ ROOT \in ROOT..(LastCluster + 2)
  /\ FAT \in Sect /\ FAT2 \in Sect /\ FAT # FAT2 /\ ROOT # FAT2 /\ FAT2 \notin ROOT..(LastCluster + 2)
  /\ \A c \in Cluster : /\ clst2sect(c) \in ROOT..(LastCluster + 2) /\ clst2sect(c) # ROOT
                        /\ clst2sect(c) # FAT
  /\ \A c, d \in Cluster : clst2sect(c) = clst2sect(d) => c = d
<1>1. LastCluster \in Nat /\ LastCluster >= 2
  BY FatAssumption
<1> QED BY <1>1 DEF Image, Sect, ROOT, VBR, FAT, FAT2, NoWindow, Cluster, clst2sect

\* sync_window(): what was seen is on the chip.
LEMMA SyncIs ==
  ASSUME NEW Z, NEW v, VolOK(v, Z)
  PROVE  /\ VolOK(Sync(v), Z) /\ Show(Sync(v)) = Show(v) /\ Chip(Sync(v)) = Show(v)
         /\ ~Sync(v).wflag /\ Sync(v).winsect = v.winsect /\ Sync(v).win = v.win
         /\ Sync(v).last_clst = v.last_clst /\ Sync(v).mount = v.mount
<1>0. /\ NoWindow \notin Sect /\ Image \subseteq Sect /\ FAT2 \in Sect \ Image /\ FAT \in Image
      /\ FAT2 # FAT /\ Z \subseteq Image /\ FAT \notin Z /\ VBR # FAT
  BY Sectors, FatAssumption DEF Image, VolOK, Sect, FAT2
<1>1. CASE ~v.wflag
  <2>1. Sync(v) = v
    BY <1>1 DEF Sync
  <2>2. Chip(v) = Show(v)
    BY <1>0, <1>1 DEF Chip, Show, See, VolOK
  <2> QED BY <1>1, <2>1, <2>2
<1>2. CASE v.wflag
  <2>1. PICK w : w = Sync(v)
    OBVIOUS
  <2>2. v.winsect \in {FAT} \cup Z /\ v.winsect \in Sect /\ v.winsect # FAT2 /\ v.winsect # NoWindow
    BY <1>0, <1>2 DEF VolOK
  <2>3. /\ w = [disk |-> w.disk, win |-> v.win, winsect |-> v.winsect, wflag |-> FALSE,
                last_clst |-> v.last_clst, mount |-> v.mount]
        /\ w.disk = [s \in Sect |-> w.disk[s]]
        /\ \A s \in Image : w.disk[s] = IF s = v.winsect THEN v.win ELSE v.disk[s]
        /\ w.disk[FAT2] = IF v.winsect = FAT THEN v.win ELSE v.disk[FAT2]
    <3>1. CASE v.winsect = FAT
      <4>1. w = [v EXCEPT !.disk[FAT] = v.win, !.disk[FAT2] = v.win, !.wflag = FALSE]
        BY <1>2, <2>1, <3>1 DEF Sync
      <4>2. w.disk = [[v.disk EXCEPT ![FAT] = v.win] EXCEPT ![FAT2] = v.win]
        BY <4>1 DEF VolOK
      <4>3. /\ w.disk[FAT] = v.win /\ w.disk[FAT2] = v.win
            /\ \A s \in Sect : s # FAT /\ s # FAT2 => w.disk[s] = v.disk[s]
            /\ w.disk = [s \in Sect |-> w.disk[s]]
        BY <1>0, <4>2 DEF VolOK
      <4>4. w = [disk |-> w.disk, win |-> v.win, winsect |-> v.winsect, wflag |-> FALSE,
                last_clst |-> v.last_clst, mount |-> v.mount]
        BY <4>1 DEF VolOK
      <4> QED BY <1>0, <3>1, <4>3, <4>4
    <3>2. CASE v.winsect # FAT
      <4>1. w = [v EXCEPT !.disk[v.winsect] = v.win, !.wflag = FALSE]
        BY <1>2, <2>1, <3>2 DEF Sync
      <4>2. w.disk = [v.disk EXCEPT ![v.winsect] = v.win]
        BY <4>1 DEF VolOK
      <4>3. /\ w.disk[v.winsect] = v.win
            /\ \A s \in Sect : s # v.winsect => w.disk[s] = v.disk[s]
            /\ w.disk = [s \in Sect |-> w.disk[s]]
        BY <1>0, <2>2, <4>2 DEF VolOK
      <4>4. w = [disk |-> w.disk, win |-> v.win, winsect |-> v.winsect, wflag |-> FALSE,
                last_clst |-> v.last_clst, mount |-> v.mount]
        BY <4>1 DEF VolOK
      <4> QED BY <1>0, <2>2, <3>2, <4>3, <4>4
    <3> QED BY <3>1, <3>2
  <2>4. /\ w.win = v.win /\ w.winsect = v.winsect /\ w.wflag = FALSE
        /\ w.last_clst = v.last_clst /\ w.mount = v.mount
    BY <2>3
  <2>5. w.disk[FAT2] = w.disk[FAT]
    BY <1>0, <2>3 DEF VolOK
  <2>6. VolOK(w, Z)
    <3>1. w.win = w.disk[w.winsect]
      BY <1>0, <2>2, <2>3, <2>4 DEF VolOK
    <3> QED BY <2>3, <2>4, <2>5, <3>1 DEF VolOK
  <2>7. Show(w) = Show(v) /\ Chip(w) = Show(v)
    BY <2>3, <2>4 DEF Show, Chip, See
  <2> QED BY <2>1, <2>4, <2>6, <2>7
<1> QED BY <1>1, <1>2 DEF VolOK

\* move_window(): the window is on the sector and nothing looks different.
LEMMA MoveIs ==
  ASSUME NEW Z, NEW v, VolOK(v, Z), NEW s \in {VBR, FAT} \cup Z,
         NEW w, w = MoveWindow(v, s)
  PROVE  VolOK(w, Z) /\ Moved(v, w) /\ w.winsect = s /\ w.win = Show(v)[s]
<1>0. s \in Image /\ s # NoWindow /\ Image \subseteq Sect
  BY Sectors DEF VolOK, Image
<1>1. CASE s = v.winsect
  <2>1. w = v
    BY <1>1 DEF MoveWindow
  <2>2. Show(v)[s] = v.win
    BY <1>0, <1>1 DEF Show, See
  <2> QED BY <1>1, <2>1, <2>2 DEF Moved
<1>2. CASE s # v.winsect
  <2>1. PICK u : u = Sync(v)
    OBVIOUS
  <2>2. /\ VolOK(u, Z) /\ Show(u) = Show(v) /\ Chip(u) = Show(v) /\ ~u.wflag
        /\ u.winsect = v.winsect /\ u.last_clst = v.last_clst /\ u.mount = v.mount
    BY <2>1, SyncIs
  <2>3. w = [u EXCEPT !.win = u.disk[s], !.winsect = s]
    BY <1>2, <2>1 DEF MoveWindow
  <2>4. /\ w = [disk |-> u.disk, win |-> u.disk[s], winsect |-> s, wflag |-> u.wflag,
                last_clst |-> u.last_clst, mount |-> u.mount]
    BY <2>2, <2>3 DEF VolOK
  <2>5. /\ w.disk = u.disk /\ w.win = u.disk[s] /\ w.winsect = s /\ w.wflag = u.wflag
        /\ w.last_clst = u.last_clst /\ w.mount = u.mount
    BY <2>4
  <2>6. VolOK(w, Z)
    BY <2>2, <2>4, <2>5 DEF VolOK
  <2>7. \A t \in Image : u.disk[t] = Show(v)[t]
    BY <2>2 DEF Chip
  <2>8. Chip(w) = Show(v)
    BY <2>2, <2>5 DEF Chip
  <2>9. Show(w) = Show(v)
    <3>1. \A t \in Image : See(w, t) = u.disk[t]
      BY <2>5 DEF See
    <3> QED BY <2>2, <3>1 DEF Show, Chip
  <2> QED BY <1>0, <2>2, <2>5, <2>6, <2>7, <2>8, <2>9 DEF Moved
<1> QED BY <1>1, <1>2

\* get_fat() as MoveIs has it.
LEMMA FatIs ==
  ASSUME NEW Z, NEW v, VolOK(v, Z)
  PROVE  /\ VolOK(InFat(v), Z) /\ Moved(v, InFat(v)) /\ InFat(v).winsect = FAT
         /\ InFat(v).win = Show(v)[FAT] /\ FatOf(v) = Show(v)[FAT]
<1>1. FatOf(v) = Show(v)[FAT]
  BY Sectors DEF FatOf, Show
<1> QED BY <1>1, MoveIs DEF InFat

\* One move after another.
LEMMA MovedOn ==
  ASSUME NEW u, NEW v, NEW w, Moved(u, v), Moved(v, w)
  PROVE  Moved(u, w)
BY DEF Moved

\* A volume is moved from itself by nothing.
LEMMA NotMoved ==
  ASSUME NEW v
  PROVE  Moved(v, v)
BY DEF Moved

\* What the window, and what a sector outside it, may become.
SetWindow(v, x, c) == [v EXCEPT !.win = x, !.wflag = TRUE, !.last_clst = c]
SetData(v, s, d)   == [v EXCEPT !.disk[s] = d]

\* The window is changed.
LEMMA SetIs ==
  ASSUME NEW Z, NEW v, VolOK(v, Z), v.winsect \in {FAT} \cup Z, NEW x, NEW c \in 0..LastCluster,
         NEW w, w = SetWindow(v, x, c)
  PROVE  /\ VolOK(w, Z) /\ Show(w) = [Show(v) EXCEPT ![v.winsect] = x] /\ Chip(w) = Chip(v)
         /\ w.win = x /\ w.winsect = v.winsect /\ w.wflag /\ w.last_clst = c /\ w.mount = v.mount
<1>1. w = [disk |-> v.disk, win |-> x, winsect |-> v.winsect, wflag |-> TRUE,
           last_clst |-> c, mount |-> v.mount]
  BY DEF VolOK, SetWindow
<1>2. /\ w.disk = v.disk /\ w.win = x /\ w.winsect = v.winsect /\ w.wflag = TRUE
      /\ w.last_clst = c /\ w.mount = v.mount
  BY <1>1
<1>3. VolOK(w, Z)
  BY <1>1, <1>2 DEF VolOK
<1>4. v.winsect \in Image
  BY Sectors DEF VolOK
<1>5. Show(w) = [Show(v) EXCEPT ![v.winsect] = x]
  <2>1. \A t \in Image : See(w, t) = IF t = v.winsect THEN x ELSE See(v, t)
    BY <1>2 DEF See
  <2> QED BY <1>4, <2>1 DEF Show
<1>6. Chip(w) = Chip(v)
  BY <1>2 DEF Chip
<1> QED BY <1>2, <1>3, <1>5, <1>6

\* A sector outside the window is written.
LEMMA DataIs ==
  ASSUME NEW Z, NEW v, VolOK(v, Z), NEW s \in ROOT..(LastCluster + 2), s # v.winsect, NEW d,
         NEW w, w = SetData(v, s, d)
  PROVE  /\ VolOK(w, Z) /\ Show(w) = [Show(v) EXCEPT ![s] = d] /\ Chip(w) = [Chip(v) EXCEPT ![s] = d]
         /\ w.win = v.win /\ w.winsect = v.winsect /\ w.wflag = v.wflag
         /\ w.last_clst = v.last_clst /\ w.mount = v.mount
<1>0. s \in Image /\ s \in Sect /\ s # FAT /\ s # FAT2
  BY Sectors DEF Image
<1>1. w = [disk |-> [v.disk EXCEPT ![s] = d], win |-> v.win, winsect |-> v.winsect,
           wflag |-> v.wflag, last_clst |-> v.last_clst, mount |-> v.mount]
  BY DEF VolOK, SetData
<1>2. /\ w.disk = [v.disk EXCEPT ![s] = d] /\ w.win = v.win /\ w.winsect = v.winsect
      /\ w.wflag = v.wflag /\ w.last_clst = v.last_clst /\ w.mount = v.mount
  BY <1>1
<1>3. /\ w.disk[s] = d /\ \A t \in Sect : t # s => w.disk[t] = v.disk[t]
      /\ w.disk = [t \in Sect |-> w.disk[t]] /\ w.disk[FAT2] = v.disk[FAT2]
      /\ w.disk[FAT] = v.disk[FAT]
  <2>1. v.disk = [t \in Sect |-> v.disk[t]]
    BY DEF VolOK
  <2> QED BY <1>0, <1>2, <2>1, Sectors
<1>4. VolOK(w, Z)
  <2>1. ~w.wflag /\ w.winsect # NoWindow => w.win = w.disk[w.winsect]
    <3>1. v.winsect # NoWindow => v.winsect \in Sect
      BY Sectors DEF VolOK, Image
    <3> QED BY <1>2, <1>3, <3>1 DEF VolOK
  <2> QED BY <1>1, <1>2, <1>3, <2>1 DEF VolOK
<1>5. Show(w) = [Show(v) EXCEPT ![s] = d]
  <2>1. \A t \in Image : See(w, t) = IF t = s THEN d ELSE See(v, t)
    BY <1>0, <1>2, <1>3 DEF See, Image
  <2> QED BY <2>1 DEF Show
<1>6. Chip(w) = [Chip(v) EXCEPT ![s] = d]
  BY <1>0, <1>3 DEF Chip, Image
<1> QED BY <1>2, <1>4, <1>5, <1>6

\* The image S with x in sector s.
WithSect(S, s, x) == [S EXCEPT ![s] = x]

\* dir_clear(): the cluster is all zeros, on the chip and in the window.
LEMMA ClearIs ==
  ASSUME NEW Z, NEW v, VolOK(v, Z), NEW c \in Cluster, NEW w, w = DirClear(v, c)
  PROVE  /\ VolOK(w, Z \cup {clst2sect(c)})
         /\ Show(w) = WithSect(Show(v), clst2sect(c), ZEROS) /\ Chip(w) = Show(w)
         /\ w.winsect = clst2sect(c) /\ w.win = ZEROS
         /\ w.last_clst = v.last_clst /\ w.mount = v.mount
<1>1. PICK u : u = Sync(v)
  OBVIOUS
<1>2. /\ VolOK(u, Z) /\ Show(u) = Show(v) /\ Chip(u) = Show(v) /\ ~u.wflag
      /\ u.winsect = v.winsect /\ u.last_clst = v.last_clst /\ u.mount = v.mount
  BY <1>1, SyncIs
<1>3. PICK s \in ROOT..(LastCluster + 2) : s = clst2sect(c) /\ s \in Image /\ s \in Sect /\ s # FAT /\ s # FAT2
  BY Sectors DEF Image
<1>4. w = [u EXCEPT !.disk[s] = ZEROS, !.win = ZEROS, !.winsect = s]
  BY <1>1, <1>3 DEF DirClear
<1>5. w = [disk |-> [u.disk EXCEPT ![s] = ZEROS], win |-> ZEROS, winsect |-> s,
           wflag |-> u.wflag, last_clst |-> u.last_clst, mount |-> u.mount]
  BY <1>2, <1>4 DEF VolOK
<1>6. /\ w.disk = [u.disk EXCEPT ![s] = ZEROS] /\ w.win = ZEROS /\ w.winsect = s
      /\ w.wflag = u.wflag /\ w.last_clst = u.last_clst /\ w.mount = u.mount
  BY <1>5
<1>7. /\ w.disk[s] = ZEROS /\ \A t \in Sect : t # s => w.disk[t] = u.disk[t]
      /\ w.disk = [t \in Sect |-> w.disk[t]] /\ w.disk[FAT2] = u.disk[FAT2]
      /\ w.disk[FAT] = u.disk[FAT]
  <2>1. u.disk = [t \in Sect |-> u.disk[t]]
    BY <1>2 DEF VolOK
  <2> QED BY <1>3, <1>6, <2>1, Sectors
<1>8. VolOK(w, Z \cup {s})
  <2>1. Z \cup {s} \subseteq ROOT..(LastCluster + 2)
    BY <1>2, <1>3 DEF VolOK
  <2> QED BY <1>2, <1>5, <1>6, <1>7, <2>1 DEF VolOK
<1>9. Chip(w) = [Show(v) EXCEPT ![s] = ZEROS]
  <2>1. \A t \in Image : u.disk[t] = Show(v)[t]
    BY <1>2 DEF Chip
  <2>2. \A t \in Image : w.disk[t] = IF t = s THEN ZEROS ELSE Show(v)[t]
    BY <1>7, <2>1 DEF Image
  <2>3. DOMAIN Show(v) = Image
    BY DEF Show
  <2> QED BY <2>2, <2>3 DEF Chip, Show
<1>10. Show(w) = Chip(w)
  <2>1. \A t \in Image : See(w, t) = w.disk[t]
    BY <1>6, <1>7 DEF See
  <2> QED BY <2>1 DEF Show, Chip
<1> QED BY <1>2, <1>3, <1>6, <1>8, <1>9, <1>10 DEF WithSect

-----------------------------------------------------------------------------
(* Allocating and freeing *)

\* w is v with S to be seen; at most what was seen before has come to the chip.
Becomes(v, w, S) ==
  Show(w) = S /\ Chip(w) \in {Chip(v), Show(v)} /\ w.mount = v.mount

\* A window that was moved shows what it showed.
LEMMA MovedBecomes ==
  ASSUME NEW u, NEW v, NEW w, NEW S, Moved(u, v), Becomes(v, w, S)
  PROVE  Becomes(u, w, S)
BY DEF Moved, Becomes

\* A new cluster, at the end of the chain of prev if there is one.
LEMMA AllocatedIs ==
  ASSUME NEW Z, NEW v, VolOK(v, Z), v.winsect = FAT, NEW fat \in FatTables, Show(v)[FAT] = fat,
         NEW c \in Cluster, NEW prev \in {0} \cup Cluster, NEW w, w = Allocated(v, c, prev)
  PROVE  /\ VolOK(w, Z) /\ w.winsect = FAT
         /\ Becomes(v, w, [Show(v) EXCEPT ![FAT] =
              IF prev = 0 THEN [fat EXCEPT ![c] = EOC] ELSE [fat EXCEPT ![c] = EOC, ![prev] = c]])
<1>1. c # 0 /\ c \in 0..LastCluster /\ (prev # 0 => prev \in Cluster)
  BY Clusters DEF FREE
<1>2. v.win = fat
  BY Sectors DEF Show, See
<1>3. PICK u : u = [v EXCEPT !.win[c] = EOC, !.wflag = TRUE, !.last_clst = c]
  OBVIOUS
<1>4. u = [v EXCEPT !.win = [fat EXCEPT ![c] = EOC], !.wflag = TRUE, !.last_clst = c]
  BY <1>2, <1>3 DEF VolOK
<1>5. /\ VolOK(u, Z) /\ u.winsect = FAT /\ u.win = [fat EXCEPT ![c] = EOC]
      /\ Show(u) = [Show(v) EXCEPT ![FAT] = [fat EXCEPT ![c] = EOC]]
      /\ Chip(u) = Chip(v) /\ u.mount = v.mount /\ u.last_clst = c /\ u.wflag = TRUE
  <2>1. PICK x : x = [fat EXCEPT ![c] = EOC]
    OBVIOUS
  <2>2. u = SetWindow(v, x, c)
    BY <1>4, <2>1 DEF SetWindow
  <2>3. /\ VolOK(u, Z) /\ Show(u) = [Show(v) EXCEPT ![v.winsect] = x] /\ Chip(u) = Chip(v)
         /\ u.win = x /\ u.winsect = v.winsect /\ u.wflag /\ u.last_clst = c /\ u.mount = v.mount
    BY <1>1, <2>2, SetIs
  <2>4. u.wflag = TRUE
    BY <2>3 DEF VolOK
  <2> QED BY <2>1, <2>3, <2>4
<1>6. CASE prev = 0
  <2>1. w = u
    BY <1>1, <1>3, <1>6 DEF Allocated
  <2> QED BY <1>5, <1>6, <2>1 DEF Becomes
<1>7. CASE prev # 0
  <2>1. w = [u EXCEPT !.win[prev] = c]
    BY <1>1, <1>3, <1>7 DEF Allocated
  <2>2. PICK x : x = [u.win EXCEPT ![prev] = c]
    OBVIOUS
  <2>3. w = SetWindow(u, x, c)
    BY <1>5, <2>1, <2>2 DEF VolOK, SetWindow
  <2>4. /\ VolOK(w, Z) /\ Show(w) = [Show(u) EXCEPT ![FAT] = x] /\ Chip(w) = Chip(u)
        /\ w.winsect = FAT /\ w.mount = u.mount
    <3>1. VolOK(u, Z) /\ u.winsect = FAT /\ u.winsect \in {FAT} \cup Z
      BY <1>5
    <3> QED BY <1>1, <2>3, <3>1, SetIs
  <2>5. x = [fat EXCEPT ![c] = EOC, ![prev] = c]
    BY <1>5, <2>2
  <2>6. Show(w) = [Show(v) EXCEPT ![FAT] = x]
    BY <1>5, <2>4
  <2> QED BY <1>5, <1>7, <2>4, <2>5, <2>6 DEF Becomes
<1> QED BY <1>6, <1>7

\* create_chain(obj, 0)
LEMMA NewChainIs ==
  ASSUME NEW Z, NEW v, VolOK(v, Z), NEW fat \in FatTables, Show(v)[FAT] = fat,
         NEW r, r = NewChain(v)
  PROVE  /\ VolOK(r.v, Z) /\ r.v.winsect = FAT
         /\ \/ r.clst = 0 /\ Moved(v, r.v) /\ \A c \in Cluster : fat[c] # FREE
            \/ /\ r.clst \in Cluster /\ fat[r.clst] = FREE
               /\ Becomes(v, r.v, WithSect(Show(v), FAT, Begun(fat, r.clst)))
<1>1. PICK w : w = InFat(v)
  OBVIOUS
<1>2. /\ VolOK(w, Z) /\ Moved(v, w) /\ w.winsect = FAT /\ w.win = fat /\ FatOf(v) = fat
      /\ Show(w) = Show(v)
  BY <1>1, FatIs DEF Moved
<1>3. PICK scl : scl = IF v.last_clst \in Cluster THEN v.last_clst ELSE 1
  OBVIOUS
<1>4. scl \in 1..LastCluster
  BY <1>3, Clusters DEF Cluster
<1>5. PICK c : c = FirstFree(fat, scl)
  OBVIOUS
<1>6. /\ c \in Cluster => fat[c] = FREE
      /\ c \notin Cluster => c = 0 /\ \A d \in Cluster : fat[d] # FREE
  BY <1>4, <1>5, FirstFreeIs
<1>7. r = [v |-> Allocated(w, c, 0), clst |-> c]
  BY <1>1, <1>2, <1>3, <1>5 DEF NewChain
<1>8. CASE c \in Cluster
  <2>1. PICK u : u = Allocated(w, c, 0)
    OBVIOUS
  <2>2. /\ VolOK(u, Z) /\ u.winsect = FAT
        /\ Becomes(w, u, WithSect(Show(w), FAT, Begun(fat, c)))
    BY <1>2, <1>8, <2>1, AllocatedIs DEF WithSect, Begun
  <2>3. Becomes(v, u, WithSect(Show(v), FAT, Begun(fat, c)))
    BY <1>2, <2>2, MovedBecomes
  <2>4. r.v = u /\ r.clst = c
    BY <1>7, <2>1
  <2> QED BY <1>6, <1>8, <2>2, <2>3, <2>4
<1>9. CASE c \notin Cluster
  <2>1. Allocated(w, c, 0) = w
    BY <1>6, <1>9 DEF Allocated
  <2>2. r.v = w /\ r.clst = 0
    BY <1>6, <1>7, <1>9, <2>1
  <2> QED BY <1>2, <1>6, <1>9, <2>2
<1> QED BY <1>8, <1>9

\* create_chain(obj, clst)
LEMMA StretchIs ==
  ASSUME NEW Z, NEW v, VolOK(v, Z), NEW fat \in FatTables, Show(v)[FAT] = fat,
         NEW prev \in Cluster, NEW r, r = Stretch(v, prev)
  PROVE  /\ VolOK(r.v, Z) /\ r.v.winsect = FAT
         /\ \/ r.clst = fat[prev] /\ fat[prev] \in Cluster /\ Moved(v, r.v)
            \/ /\ r.clst = 0 /\ fat[prev] \notin Cluster /\ Moved(v, r.v)
               /\ \A c \in Cluster : fat[c] # FREE
            \/ /\ r.clst \in Cluster /\ fat[r.clst] = FREE /\ fat[prev] \notin Cluster
               /\ Becomes(v, r.v, WithSect(Show(v), FAT, Linked(fat, r.clst, prev)))
<1>1. PICK w : w = InFat(v)
  OBVIOUS
<1>2. /\ VolOK(w, Z) /\ Moved(v, w) /\ w.winsect = FAT /\ w.win = fat
      /\ Show(w) = Show(v)
  BY <1>1, FatIs DEF Moved
<1>3. PICK scl : scl = IF v.last_clst \in Cluster THEN v.last_clst ELSE prev
  OBVIOUS
<1>4. scl \in 1..LastCluster
  BY <1>3, Clusters DEF Cluster
<1>5. PICK next : next = IF prev + 1 \in Cluster THEN prev + 1 ELSE 2
  OBVIOUS
<1>6. next \in Cluster
  BY <1>5, Clusters DEF Cluster
<1>7. PICK c : c = IF fat[next] = FREE THEN next ELSE FirstFree(fat, scl)
  OBVIOUS
<1>8. /\ c \in Cluster => fat[c] = FREE
      /\ c \notin Cluster => c = 0 /\ \A d \in Cluster : fat[d] # FREE
  BY <1>4, <1>6, <1>7, FirstFreeIs
<1>9. r = IF fat[prev] \in Cluster THEN [v |-> w, clst |-> fat[prev]]
          ELSE [v |-> Allocated(w, c, prev), clst |-> c]
  BY <1>1, <1>2, <1>3, <1>5, <1>7 DEF Stretch
<1>10. CASE fat[prev] \in Cluster
  <2>1. r.v = w /\ r.clst = fat[prev]
    BY <1>9, <1>10
  <2> QED BY <1>2, <1>10, <2>1
<1>11. CASE fat[prev] \notin Cluster /\ c \in Cluster
  <2>1. PICK u : u = Allocated(w, c, prev)
    OBVIOUS
  <2>2. prev # 0
    BY Clusters DEF FREE
  <2>3. /\ VolOK(u, Z) /\ u.winsect = FAT
        /\ Becomes(w, u, WithSect(Show(w), FAT, Linked(fat, c, prev)))
    BY <1>2, <1>11, <2>1, <2>2, AllocatedIs DEF WithSect, Linked
  <2>4. Becomes(v, u, WithSect(Show(v), FAT, Linked(fat, c, prev)))
    BY <1>2, <2>3, MovedBecomes
  <2>5. r.v = u /\ r.clst = c
    BY <1>9, <1>11, <2>1
  <2> QED BY <1>8, <1>11, <2>3, <2>4, <2>5
<1>12. CASE fat[prev] \notin Cluster /\ c \notin Cluster
  <2>1. Allocated(w, c, prev) = w
    BY <1>8, <1>12 DEF Allocated
  <2>2. r.v = w /\ r.clst = 0
    BY <1>8, <1>9, <1>12, <2>1
  <2> QED BY <1>2, <1>8, <1>12, <2>2
<1> QED BY <1>10, <1>11, <1>12

\* remove_chain()
LEMMA RemoveChainIs ==
  ASSUME NEW Z, NEW v, VolOK(v, Z), NEW fat, Show(v)[FAT] = fat, NEW c, NEW w, w = RemoveChain(v, c)
  PROVE  /\ VolOK(w, Z) /\ w.winsect = FAT
         /\ Becomes(v, w, WithSect(Show(v), FAT, Without(fat, c)))
<1>1. PICK u : u = InFat(v)
  OBVIOUS
<1>2. /\ VolOK(u, Z) /\ Moved(v, u) /\ u.winsect = FAT /\ u.win = fat
      /\ Show(u) = Show(v)
  BY <1>1, FatIs DEF Moved
<1>3. PICK x : x = Without(fat, c)
  OBVIOUS
<1>4. w = [u EXCEPT !.win = x, !.wflag = TRUE]
  BY <1>1, <1>2, <1>3 DEF RemoveChain, VolOK, Without
<1>5. w = SetWindow(u, x, u.last_clst) /\ u.last_clst \in 0..LastCluster
  BY <1>2, <1>4 DEF VolOK, SetWindow
<1>6. /\ VolOK(w, Z) /\ Show(w) = [Show(u) EXCEPT ![FAT] = x] /\ Chip(w) = Chip(u)
      /\ w.winsect = FAT /\ w.mount = u.mount
  BY <1>2, <1>5, SetIs
<1>7. Becomes(u, w, WithSect(Show(v), FAT, x))
  BY <1>2, <1>6 DEF Becomes, WithSect
<1> QED BY <1>2, <1>3, <1>6, <1>7, MovedBecomes

-----------------------------------------------------------------------------
(* Tables of entries *)

\* The short names that name n may have.
SfnOf(n) == IF Info[n].loss THEN {Info[n].num[k] : k \in 1..Tries} ELSE {Info[n].sfn}

\* What may be an entry.
ShortNames == UNION {SfnOf(n) : n \in Name}
FileEnt  == [kind : {"sfn"}, of : Name, sfn : ShortNames, dir : BOOLEAN,
             clust : {0} \cup Cluster, size : Nat]
PieceEnt == [kind : {"lfn"}, of : Name, ord : Nat, last : BOOLEAN, sum : ShortNames]
DotEnt   == [kind : {"dot"}, sfn : {<<".", 0>>, <<"..", 0>>}, dir : {TRUE}, clust : {0} \cup Cluster]
DirEnt   == {Zero, Deleted} \cup FileEnt \cup PieceEnt \cup DotEnt

\* The sectors of table t, and how an image of the volume holds its entries.
IsTable(fat, t) == t = 0 \/ IsChain(Chain(fat, t), fat, t)
SectsIn(fat, t) ==
  IF t = 0 THEN <<ROOT>>
  ELSE [k \in 1..Len(Chain(fat, t)) |-> clst2sect(Chain(fat, t)[k])]
TabSects(fat, t) == ToSet(SectsIn(fat, t))
InSect(es, k) == [j \in 1..U |-> es[U * (k - 1) + j]]

Holds(S, t, es) ==
  /\ IsTable(S[FAT], t) /\ es \in Seq(DirEnt) /\ Len(es) = U * Len(SectsIn(S[FAT], t))
  /\ \A k \in 1..Len(SectsIn(S[FAT], t)) : S[SectsIn(S[FAT], t)[k]] = InSect(es, k)

\* The image S with es in table t.
NumberOf(fat, t, s) == CHOOSE k \in 1..Len(SectsIn(fat, t)) : SectsIn(fat, t)[k] = s
WithTab(S, t, es) ==
  [s \in Image |-> IF s \in TabSects(S[FAT], t) THEN InSect(es, NumberOf(S[FAT], t, s)) ELSE S[s]]

\* The sectors of a table.
LEMMA SectsAre ==
  ASSUME NEW fat, NEW t, IsTable(fat, t), NEW s, s = SectsIn(fat, t)
  PROVE  /\ s \in Seq(ROOT..(LastCluster + 2)) /\ Len(s) \in Nat /\ Len(s) >= 1
         /\ \A j, k \in 1..Len(s) : s[j] = s[k] => j = k
         /\ \A k \in 1..Len(s) : s[k] \in Image /\ s[k] # FAT /\ s[k] # VBR /\ s[k] # NoWindow
                                 /\ s[k] \in TabSects(fat, t)
         /\ TabSects(fat, t) \subseteq ROOT..(LastCluster + 2)
         /\ FAT \notin TabSects(fat, t)
         /\ t = 0 => Len(s) = 1 /\ s[1] = ROOT /\ TabSects(fat, t) = {ROOT}
         /\ t # 0 => /\ Len(s) = Len(Chain(fat, t)) /\ t \in Cluster /\ ROOT \notin TabSects(fat, t)
                     /\ \A k \in 1..Len(s) : s[k] = clst2sect(Chain(fat, t)[k])
                     /\ TabSects(fat, t) = {clst2sect(c) : c \in ToSet(Chain(fat, t))}
<1>1. CASE t = 0
  <2>1. s = <<ROOT>> /\ 1..1 = {1}
    BY <1>1 DEF SectsIn
  <2>2. s \in Seq(ROOT..(LastCluster + 2)) /\ Len(s) = 1 /\ s[1] = ROOT
    BY <2>1, Sectors
  <2>3. TabSects(fat, t) = {ROOT}
    <3>1. \A d : d \in TabSects(fat, t) <=> \E i \in 1..1 : s[i] = d
      BY <2>2, InSequence DEF TabSects
    <3> QED BY <2>1, <2>2, <3>1
  <2>4. \A k \in 1..Len(s) : k = 1
    BY <2>1, <2>2
  <2>5. ROOT \in Image /\ ROOT # FAT /\ ROOT # VBR /\ ROOT # NoWindow
    BY Sectors DEF Image
  <2>6. \A k \in 1..Len(s) : s[k] \in Image /\ s[k] # FAT /\ s[k] # VBR /\ s[k] # NoWindow
                             /\ s[k] \in TabSects(fat, t)
    BY <2>2, <2>3, <2>4, <2>5
  <2> QED BY <1>1, <2>2, <2>3, <2>4, <2>5, <2>6, Sectors
<1>2. CASE t # 0
  <2>1. PICK c : c = Chain(fat, t) /\ IsChain(c, fat, t)
    BY <1>2 DEF IsTable
  <2>2. /\ c \in Seq(Cluster) /\ Len(c) \in Nat /\ Len(c) >= 1 /\ t \in Cluster
        /\ \A i, j \in 1..Len(c) : c[i] = c[j] => i = j
    <3>1. c \in Seq(Cluster) /\ \A i, j \in 1..Len(c) : c[i] = c[j] => i = j
      BY <2>1 DEF IsChain
    <3>2. t \in Cluster
      BY <2>1, ChainInUse
    <3>3. Len(c) \in Nat /\ Len(c) >= 1
      BY <2>1, ChainShort
    <3> QED BY <3>1, <3>2, <3>3
  <2>3. s = [k \in 1..Len(c) |-> clst2sect(c[k])]
    BY <1>2, <2>1 DEF SectsIn
  <2>4. \A k \in 1..Len(c) : /\ c[k] \in Cluster /\ clst2sect(c[k]) \in ROOT..(LastCluster + 2)
                             /\ clst2sect(c[k]) \in Image
                             /\ clst2sect(c[k]) # ROOT /\ clst2sect(c[k]) # FAT
    BY <2>2, Sectors
  <2>5. s \in Seq(ROOT..(LastCluster + 2)) /\ Len(s) = Len(c) /\ DOMAIN s = 1..Len(s)
    BY <2>2, <2>3, <2>4
  <2>6. \A k \in 1..Len(s) : s[k] = clst2sect(c[k])
    BY <2>3, <2>5
  <2>7. ASSUME NEW j \in 1..Len(s), NEW k \in 1..Len(s), s[j] = s[k] PROVE j = k
    <3>1. c[j] = c[k]
      BY <2>4, <2>5, <2>6, <2>7, Sectors
    <3> QED BY <2>2, <2>5, <3>1
  <2>8. \A d : d \in TabSects(fat, t) <=> \E i \in 1..Len(s) : s[i] = d
    <3>1. TabSects(fat, t) = ToSet(s)
      BY DEF TabSects
    <3> QED BY <2>5, <3>1, InSequence
  <2>9. \A d : d \in ToSet(c) <=> \E i \in 1..Len(c) : c[i] = d
    BY <2>2, InSequence
  <2>10. TabSects(fat, t) = {clst2sect(d) : d \in ToSet(c)}
    BY <2>5, <2>6, <2>8, <2>9
  <2>11. /\ TabSects(fat, t) \subseteq ROOT..(LastCluster + 2)
         /\ FAT \notin TabSects(fat, t) /\ ROOT \notin TabSects(fat, t)
    BY <2>4, <2>5, <2>6, <2>8
  <2>12. \A k \in 1..Len(s) : s[k] \in Image /\ s[k] # FAT /\ s[k] # VBR /\ s[k] # NoWindow
    BY <2>4, <2>5, <2>6, Sectors DEF Image
  <2> QED BY <1>2, <2>1, <2>2, <2>5, <2>6, <2>7, <2>8, <2>10, <2>11, <2>12
<1> QED BY <1>1, <1>2

\* The directory code walks through the same sectors and finds these entries.
LEMMA EntriesAre ==
  ASSUME NEW v, NEW t, NEW es, Holds(Show(v), t, es)
  PROVE  /\ Entries(v, t) = es /\ DirSects(v, t) = SectsIn(Show(v)[FAT], t)
         /\ Len(es) \in Nat /\ Len(es) >= U /\ FatOf(v) = Show(v)[FAT]
<1>1. FatOf(v) = Show(v)[FAT]
  BY Sectors DEF FatOf, Show
<1>2. PICK s : s = SectsIn(Show(v)[FAT], t)
  OBVIOUS
<1>3. DirSects(v, t) = s
  BY <1>1, <1>2 DEF DirSects, SectsIn
<1>4. /\ Len(s) \in Nat /\ Len(s) >= 1 /\ IsTable(Show(v)[FAT], t)
      /\ \A k \in 1..Len(s) : s[k] \in Image /\ Show(v)[s[k]] = InSect(es, k)
      /\ es \in Seq(DirEnt) /\ Len(es) = U * Len(s) /\ U \in Nat /\ U >= 2
  BY <1>2, SectsAre, FatAssumption DEF Holds
<1>5. Entries(v, t) = [i \in 1..(U * Len(s)) |-> See(v, s[SectNo(i)])[Slot(i)]]
  BY <1>3 DEF Entries
<1>6. ASSUME NEW i \in 1..(U * Len(s)) PROVE See(v, s[SectNo(i)])[Slot(i)] = es[i]
  <2>1. i \in Nat /\ i # 0 /\ i <= U * Len(s)
    BY <1>4
  <2>2. /\ Slot(i) \in 1..U /\ SectNo(i) \in Nat /\ SectNo(i) # 0
        /\ i = U * (SectNo(i) - 1) + Slot(i)
    BY <2>1, PlaceOfEntry
  <2>3. SectNo(i) <= Len(s)
    BY <1>4, <2>1, EntriesOfSectors
  <2>4. SectNo(i) \in 1..Len(s)
    BY <1>4, <2>2, <2>3
  <2>5. See(v, s[SectNo(i)]) = InSect(es, SectNo(i))
    BY <1>4, <2>4 DEF Show
  <2> QED BY <2>2, <2>5 DEF InSect
<1>7. es = [i \in 1..(U * Len(s)) |-> es[i]]
  <2>1. DOMAIN es = 1..(U * Len(s))
    BY <1>4
  <2> QED BY <1>4, <2>1
<1>8. Entries(v, t) = es
  BY <1>5, <1>6, <1>7
<1>9. Len(es) \in Nat /\ Len(es) >= U
  BY <1>4
<1> QED BY <1>1, <1>2, <1>3, <1>8, <1>9

\* Where an entry of a table is.
LEMMA EntryAt ==
  ASSUME NEW S, NEW t, NEW es, Holds(S, t, es), NEW i \in 1..Len(es),
         NEW s, s = SectsIn(S[FAT], t)
  PROVE  /\ SectNo(i) \in 1..Len(s) /\ Slot(i) \in 1..U /\ s[SectNo(i)] \in TabSects(S[FAT], t)
         /\ S[s[SectNo(i)]][Slot(i)] = es[i] /\ i = U * (SectNo(i) - 1) + Slot(i)
         /\ S[s[SectNo(i)]] = InSect(es, SectNo(i)) /\ es[i] \in DirEnt
<1>1. /\ Len(s) \in Nat /\ Len(s) >= 1
      /\ \A k \in 1..Len(s) : S[s[k]] = InSect(es, k) /\ s[k] \in TabSects(S[FAT], t)
      /\ es \in Seq(DirEnt) /\ Len(es) = U * Len(s) /\ U \in Nat
  BY SectsAre, FatAssumption DEF Holds
<1>2. i \in Nat /\ i # 0 /\ i <= U * Len(s)
  BY <1>1
<1>3. /\ Slot(i) \in 1..U /\ SectNo(i) \in Nat /\ SectNo(i) # 0
      /\ i = U * (SectNo(i) - 1) + Slot(i) /\ SectNo(i) <= Len(s)
  BY <1>1, <1>2, PlaceOfEntry, EntriesOfSectors
<1>4. SectNo(i) \in 1..Len(s)
  BY <1>1, <1>3
<1>5. es[i] \in DirEnt
  BY <1>1
<1>6. S[s[SectNo(i)]] = InSect(es, SectNo(i)) /\ s[SectNo(i)] \in TabSects(S[FAT], t)
  BY <1>1, <1>4
<1>7. InSect(es, SectNo(i))[Slot(i)] = es[U * (SectNo(i) - 1) + Slot(i)]
  BY <1>3 DEF InSect
<1> QED BY <1>3, <1>4, <1>5, <1>6, <1>7

\* What WithTab makes of an image.
LEMMA WithTabIs ==
  ASSUME NEW S, NEW t, NEW es, Holds(S, t, es), S = [s \in Image |-> S[s]],
         NEW fs \in Seq(DirEnt), Len(fs) = Len(es), NEW R, R = WithTab(S, t, fs)
  PROVE  /\ Holds(R, t, fs) /\ R = [s \in Image |-> R[s]] /\ R[FAT] = S[FAT]
         /\ \A s \in Image : s \notin TabSects(S[FAT], t) => R[s] = S[s]
         /\ \A gs : WithTab(R, t, gs) = WithTab(S, t, gs)
         /\ WithTab(S, t, es) = S
<1>1. PICK ss : ss = SectsIn(S[FAT], t)
  OBVIOUS
<1>2. /\ Len(ss) \in Nat /\ \A j, k \in 1..Len(ss) : ss[j] = ss[k] => j = k
      /\ \A k \in 1..Len(ss) : ss[k] \in Image /\ ss[k] \in TabSects(S[FAT], t) /\ S[ss[k]] = InSect(es, k)
      /\ FAT \notin TabSects(S[FAT], t) /\ ss \in Seq(ROOT..(LastCluster + 2))
      /\ IsTable(S[FAT], t)
  <2>1. IsTable(S[FAT], t) /\ \A k \in 1..Len(ss) : S[ss[k]] = InSect(es, k)
    BY <1>1 DEF Holds
  <2>2. PICK fat : fat = S[FAT]
    OBVIOUS
  <2>3. IsTable(fat, t) /\ ss = SectsIn(fat, t)
    BY <1>1, <2>1, <2>2
  <2>4. /\ Len(ss) \in Nat /\ \A j, k \in 1..Len(ss) : ss[j] = ss[k] => j = k
        /\ \A k \in 1..Len(ss) : ss[k] \in Image /\ ss[k] \in TabSects(fat, t)
        /\ FAT \notin TabSects(fat, t) /\ ss \in Seq(ROOT..(LastCluster + 2))
    BY <2>3, SectsAre
  <2> QED BY <2>1, <2>2, <2>4
<1>3. \A gs : \A k \in 1..Len(ss) : WithTab(S, t, gs)[ss[k]] = InSect(gs, k)
  <2> SUFFICES ASSUME NEW gs, NEW k \in 1..Len(ss) PROVE WithTab(S, t, gs)[ss[k]] = InSect(gs, k)
    OBVIOUS
  <2>1. PICK j : j = CHOOSE i \in 1..Len(ss) : ss[i] = ss[k]
    OBVIOUS
  <2>2. j = k
    BY <1>2, <2>1
  <2>3. WithTab(S, t, gs)[ss[k]] = InSect(gs, j)
    BY <1>1, <1>2, <2>1 DEF WithTab, NumberOf
  <2> QED BY <2>2, <2>3
<1>4. \A gs : \A s \in Image : s \notin TabSects(S[FAT], t) => WithTab(S, t, gs)[s] = S[s]
  BY DEF WithTab
<1>5. \A gs : WithTab(S, t, gs) = [s \in Image |-> WithTab(S, t, gs)[s]]
  BY DEF WithTab
<1>6. R[FAT] = S[FAT]
  BY <1>2, <1>4, Sectors
<1>7. Holds(R, t, fs)
  BY <1>1, <1>3, <1>6 DEF Holds
<1>8. \A gs : WithTab(R, t, gs) = WithTab(S, t, gs)
  <2>1. \A s \in Image : s \notin TabSects(S[FAT], t) => R[s] = S[s]
    BY <1>4
  <2>2. ASSUME NEW gs, NEW s \in Image PROVE WithTab(R, t, gs)[s] = WithTab(S, t, gs)[s]
    <3>1. CASE s \in TabSects(S[FAT], t)
      BY <1>6, <3>1 DEF WithTab
    <3>2. CASE s \notin TabSects(S[FAT], t)
      <4>1. WithTab(R, t, gs)[s] = R[s] /\ WithTab(S, t, gs)[s] = S[s]
        BY <1>6, <3>2 DEF WithTab
      <4> QED BY <2>1, <3>2, <4>1
    <3> QED BY <3>1, <3>2
  <2>3. \A gs : /\ WithTab(S, t, gs) = [s \in Image |-> WithTab(S, t, gs)[s]]
                /\ WithTab(R, t, gs) = [s \in Image |-> WithTab(R, t, gs)[s]]
    BY DEF WithTab
  <2> QED BY <2>2, <2>3
<1>9. WithTab(S, t, es) = S
  <2>1. \A s \in Image : WithTab(S, t, es)[s] = S[s]
    <3> SUFFICES ASSUME NEW s \in Image, s \in TabSects(S[FAT], t) PROVE WithTab(S, t, es)[s] = S[s]
      BY <1>4
    <3>1. PICK k \in 1..Len(ss) : ss[k] = s
      BY <1>1, <1>2, InSequence DEF TabSects
    <3> QED BY <1>2, <1>3, <3>1
  <2>2. WithTab(S, t, es) = [s \in Image |-> WithTab(S, t, es)[s]]
    BY <1>5
  <2> QED BY <2>1, <2>2
<1>10. R = [s \in Image |-> R[s]]
  BY <1>5
<1> QED BY <1>4, <1>6, <1>7, <1>8, <1>9, <1>10

\* Another image holds the same table where it shows the same sectors.
LEMMA HoldsKept ==
  ASSUME NEW S, NEW t, NEW es, Holds(S, t, es), NEW R, IsTable(R[FAT], t),
         t # 0 => Chain(R[FAT], t) = Chain(S[FAT], t),
         \A s \in TabSects(S[FAT], t) : R[s] = S[s]
  PROVE  Holds(R, t, es) /\ SectsIn(R[FAT], t) = SectsIn(S[FAT], t)
<1>1. SectsIn(R[FAT], t) = SectsIn(S[FAT], t)
  BY DEF SectsIn
<1>2. \A k \in 1..Len(SectsIn(S[FAT], t)) : SectsIn(S[FAT], t)[k] \in TabSects(S[FAT], t)
  BY SectsAre DEF Holds
<1> QED BY <1>1, <1>2 DEF Holds

\* The table with one more sector of zeros.
Grown(es) == [i \in 1..(Len(es) + U) |-> IF i <= Len(es) THEN es[i] ELSE Zero]

\* The table of a chain that got a zeroed cluster is the grown one.
LEMMA HoldsGrown ==
  ASSUME NEW S, NEW t, t # 0, NEW es, Holds(S, t, es), NEW R, IsTable(R[FAT], t),
         NEW c \in Cluster, Chain(R[FAT], t) = Append(Chain(S[FAT], t), c),
         R[clst2sect(c)] = ZEROS,
         \A s \in TabSects(S[FAT], t) : R[s] = S[s]
  PROVE  Holds(R, t, Grown(es)) /\ Len(Grown(es)) = Len(es) + U
<1>1. PICK s, r : s = SectsIn(S[FAT], t) /\ r = SectsIn(R[FAT], t)
  OBVIOUS
<1>2. PICK a : a = Chain(S[FAT], t)
  OBVIOUS
<1>3. /\ a \in Seq(Cluster) /\ Len(a) \in Nat
  BY <1>2 DEF Holds, IsTable, IsChain
<1>4. PICK b : b = Append(a, c)
  OBVIOUS
<1>5. /\ Len(b) = Len(a) + 1 /\ b[Len(a) + 1] = c /\ \A k \in 1..Len(a) : b[k] = a[k]
  BY <1>3, <1>4
<1>6. /\ Len(s) \in Nat /\ Len(s) = Len(a) /\ \A k \in 1..Len(s) : s[k] = clst2sect(a[k])
      /\ \A k \in 1..Len(s) : s[k] \in TabSects(S[FAT], t)
  BY <1>1, <1>2, SectsAre DEF Holds
<1>7. /\ Len(r) \in Nat /\ Len(r) = Len(b) /\ \A k \in 1..Len(r) : r[k] = clst2sect(b[k])
  BY <1>1, <1>2, <1>4, SectsAre
<1>8. Len(r) = Len(s) + 1 /\ r[Len(s) + 1] = clst2sect(c) /\ \A k \in 1..Len(s) : r[k] = s[k]
  BY <1>5, <1>6, <1>7
<1>9. U \in Nat /\ U >= 2 /\ Len(es) \in Nat /\ Len(es) = U * Len(s) /\ es \in Seq(DirEnt)
  BY <1>1, FatAssumption DEF Holds
<1>10. PICK g : g = Grown(es)
  OBVIOUS
<1>11. /\ g \in Seq(DirEnt) /\ Len(g) = Len(es) + U
       /\ \A i \in 1..(Len(es) + U) : g[i] = IF i <= Len(es) THEN es[i] ELSE Zero
  <2>1. Zero \in DirEnt
    BY DEF DirEnt
  <2>2. \A i \in 1..(Len(es) + U) : i <= Len(es) => i \in 1..Len(es)
    BY <1>9
  <2>3. Len(es) + U \in Nat
    BY <1>9
  <2>4. g \in [1..(Len(es) + U) -> DirEnt]
    BY <1>9, <1>10, <2>1, <2>2 DEF Grown
  <2> QED BY <1>10, <2>3, <2>4 DEF Grown
<1>12. U * (Len(s) + 1) = Len(es) + U
  BY <1>6, <1>9
<1>13. ASSUME NEW k \in 1..Len(r) PROVE R[r[k]] = InSect(g, k)
  <2>1. CASE k \in 1..Len(s)
    <3>1. R[r[k]] = InSect(es, k)
      BY <1>1, <1>6, <1>8, <2>1 DEF Holds
    <3>2. ASSUME NEW j \in 1..U PROVE g[U * (k - 1) + j] = es[U * (k - 1) + j]
      <4>1. U * (k - 1) + j \in Nat /\ U * (k - 1) + j # 0 /\ SectNo(U * (k - 1) + j) = k
        <5>1. k \in Nat /\ k # 0
          BY <1>6, <2>1
        <5> QED BY <5>1, EntryOfPlace
      <4>2. PICK i \in Nat : i = U * (k - 1) + j /\ i # 0 /\ SectNo(i) = k
        BY <4>1
      <4>3. i <= U * Len(s)
        BY <1>6, <2>1, <4>2, EntriesOfSectors
      <4>4. i \in 1..(Len(es) + U) /\ i <= Len(es)
        BY <1>9, <4>2, <4>3
      <4>5. g[i] = es[i]
        BY <1>11, <4>4
      <4> QED BY <4>2, <4>5
    <3> QED BY <3>1, <3>2 DEF InSect
  <2>2. CASE k = Len(s) + 1
    <3>1. R[r[k]] = ZEROS
      BY <1>8, <2>2
    <3>2. ASSUME NEW j \in 1..U PROVE g[U * (k - 1) + j] = Zero
      <4>1. PICK i \in Int : i = U * (k - 1) + j
        BY <1>6, <1>9, <2>2
      <4>2. U * (k - 1) = Len(es)
        BY <1>6, <1>9, <2>2
      <4>3. i = Len(es) + j
        BY <4>1, <4>2
      <4>4. i \in 1..(Len(es) + U) /\ ~(i <= Len(es))
        BY <1>9, <4>3
      <4> QED BY <1>11, <4>1, <4>4
    <3> QED BY <3>1, <3>2 DEF InSect, ZEROS
  <2> QED BY <1>6, <1>8, <2>1, <2>2
<1>14. Holds(R, t, g)
  BY <1>1, <1>6, <1>8, <1>9, <1>11, <1>12, <1>13 DEF Holds
<1> QED BY <1>10, <1>11, <1>14

-----------------------------------------------------------------------------
(* Walking through a table, and storing into it *)

\* The window is on a sector of the table, or nothing was looked at.
OnEntry(w, S, t, i) ==
  /\ w.winsect = SectsIn(S[FAT], t)[SectNo(i)] /\ w.win = S[SectsIn(S[FAT], t)[SectNo(i)]]

\* dir_next() from entry to entry: only the window moves.
LEMMA ScanIs ==
  ASSUME NEW Z, NEW v, VolOK(v, Z), NEW t, NEW es, Holds(Show(v), t, es),
         TabSects(Show(v)[FAT], t) \subseteq Z,
         NEW i \in 1..Len(es), NEW j \in i..(Len(es) + 1), NEW w, w = Scan(v, t, i, j)
  PROVE  /\ VolOK(w, Z) /\ Moved(v, w)
         /\ j <= Len(es) => OnEntry(w, Show(v), t, j)
<1>1. PICK ss : ss = SectsIn(Show(v)[FAT], t)
  OBVIOUS
<1>2. PICK a, b : a = SectNo(i) /\ b = SectNo(j)
  OBVIOUS
<1>3. DirSects(v, t) = ss /\ Len(es) \in Nat
  BY <1>1, EntriesAre
<1>4. Len(ss) \in Nat /\ \A k \in 1..Len(ss) : ss[k] \in Z
  <2>1. IsTable(Show(v)[FAT], t)
    BY DEF Holds
  <2> QED BY <1>1, <2>1, SectsAre
<1>5. a \in Nat /\ b \in Nat /\ a >= 1 /\ a <= b /\ a <= Len(ss) /\ (j <= Len(es) => b <= Len(ss))
  <2>1. i \in Nat /\ i # 0 /\ j \in Nat /\ j # 0 /\ i <= j
    BY <1>3
  <2>2. a \in Nat /\ a # 0 /\ b \in Nat /\ a <= b
    BY <1>2, <2>1, PlaceOfEntry, SectorsAscend
  <2>3. Len(es) = U * Len(ss)
    BY <1>1 DEF Holds
  <2>4. a <= Len(ss) /\ (j <= Len(es) => b <= Len(ss))
    BY <1>2, <1>3, <1>4, <2>1, <2>3, EntriesOfSectors
  <2> QED BY <2>2, <2>4
<1> DEFINE On(u, k) == IF t = 0 THEN u
                       ELSE IF k > Len(ss) THEN InFat(u)
                       ELSE MoveWindow(InFat(u), ss[k])
           Eq(g) == g = [k \in a..b |-> IF k = a THEN MoveWindow(v, ss[k]) ELSE On(g[k - 1], k)]
           it == CHOOSE g : Eq(g)
<1>6. w = it[b]
  BY <1>2, <1>3 DEF Scan
<1>7. \E g : Eq(g)
  <2> HIDE DEF On
  <2> DEFINE Reached(m) == \E g : /\ DOMAIN g = a..m
                                  /\ \A k \in a..m : g[k] = IF k = a THEN MoveWindow(v, ss[k])
                                                            ELSE On(g[k - 1], k)
             T == {n \in Nat : Reached(a + n)}
  <2>1. 0 \in T
    <3>1. a..(a + 0) = {a}
      BY <1>5
    <3>2. PICK g : g = [k \in {a} |-> MoveWindow(v, ss[k])]
      OBVIOUS
    <3>3. DOMAIN g = {a} /\ \A k \in {a} : k = a /\ g[k] = MoveWindow(v, ss[k])
      BY <3>2
    <3>4. DOMAIN g = a..(a + 0)
          /\ \A k \in a..(a + 0) : g[k] = IF k = a THEN MoveWindow(v, ss[k]) ELSE On(g[k - 1], k)
      BY <3>1, <3>3
    <3> QED BY <3>4
  <2>2. ASSUME NEW n \in Nat, Reached(a + n) PROVE Reached(a + (n + 1))
    <3>1. PICK m \in Nat : m = a + n /\ a + (n + 1) = m + 1 /\ m >= a
      BY <1>5
    <3>2. PICK g : /\ DOMAIN g = a..m
                   /\ \A k \in a..m : g[k] = IF k = a THEN MoveWindow(v, ss[k]) ELSE On(g[k - 1], k)
      BY <2>2, <3>1
    <3>3. PICK h : h = [k \in a..(m + 1) |-> IF k = m + 1 THEN On(g[m], m + 1) ELSE g[k]]
      OBVIOUS
    <3>4. \A k \in a..(m + 1) : h[k] = IF k = m + 1 THEN On(g[m], m + 1) ELSE g[k]
      BY <3>3
    <3>5. \A k \in a..(m + 1) : h[k] = IF k = a THEN MoveWindow(v, ss[k]) ELSE On(h[k - 1], k)
      <4> SUFFICES ASSUME NEW k \in a..(m + 1)
                   PROVE  h[k] = IF k = a THEN MoveWindow(v, ss[k]) ELSE On(h[k - 1], k)
        OBVIOUS
      <4>1. CASE k = m + 1
        <5>1. m \in a..(m + 1) /\ m # m + 1 /\ k # a /\ k - 1 = m
          BY <1>5, <3>1, <4>1
        <5> QED BY <3>4, <4>1, <5>1
      <4>2. CASE k # m + 1
        <5>1. k \in a..m /\ (k # a => k - 1 \in a..(m + 1) /\ k - 1 # m + 1)
          BY <1>5, <3>1, <4>2
        <5> QED BY <3>2, <3>4, <4>2, <5>1
      <4> QED BY <4>1, <4>2
    <3>6. DOMAIN h = a..(m + 1)
      BY <3>3
    <3> QED BY <3>1, <3>5, <3>6
  <2>3. b - a \in Nat /\ a + (b - a) = b
    BY <1>5
  <2>4. Reached(b)
    <3>1. \A n \in Nat : n \in T => n + 1 \in T
      <4> HIDE DEF Reached
      <4> QED BY <2>2
    <3>2. b - a \in T
      <4> HIDE DEF T
      <4> QED BY <2>1, <2>3, <3>1, SetInduction
    <3> HIDE DEF Reached
    <3> QED BY <2>3, <3>2
  <2>5. PICK g : /\ DOMAIN g = a..b
                 /\ \A k \in a..b : g[k] = IF k = a THEN MoveWindow(v, ss[k]) ELSE On(g[k - 1], k)
    BY <2>4
  <2>6. PICK h : h = [k \in a..b |-> g[k]]
    OBVIOUS
  <2>7. \A k \in a..b : h[k] = g[k] /\ (k # a => k - 1 \in a..b)
    BY <1>5, <2>6
  <2>8. \A k \in a..b : h[k] = IF k = a THEN MoveWindow(v, ss[k]) ELSE On(h[k - 1], k)
    BY <2>5, <2>7
  <2>9. Eq(h)
    BY <2>6, <2>8
  <2> QED BY <2>9
<1>8. Eq(it)
  <2> HIDE DEF Eq
  <2> QED BY <1>7
<1> HIDE DEF it
<1>9. \A k \in a..b : it[k] = IF k = a THEN MoveWindow(v, ss[k]) ELSE On(it[k - 1], k)
  <2> HIDE DEF On
  <2> QED BY <1>8
<1> DEFINE Right(k) == /\ VolOK(it[k], Z) /\ Moved(v, it[k])
                       /\ k <= Len(ss) => it[k].winsect = ss[k] /\ it[k].win = Show(v)[ss[k]]
           T == {n \in Nat : a + n <= b => Right(a + n)}
<1>10. 0 \in T
  <2>1. it[a] = MoveWindow(v, ss[a]) /\ ss[a] \in Z /\ a + 0 = a
    BY <1>4, <1>5, <1>9
  <2>2. Right(a)
    BY <2>1, MoveIs
  <2> HIDE DEF Right
  <2> QED BY <2>1, <2>2
<1>11. ASSUME NEW k \in (a + 1)..b, Right(k - 1) PROVE Right(k)
  <2>1. it[k] = On(it[k - 1], k) /\ k \in Nat
    BY <1>5, <1>9
  <2>2. PICK x : x = it[k - 1]
    OBVIOUS
  <2>3. VolOK(x, Z) /\ Moved(v, x) /\ Show(x) = Show(v)
    BY <1>11, <2>2 DEF Moved
  <2>4. CASE t = 0
    <3>1. it[k] = x /\ Len(ss) = 1
      <4>1. IsTable(Show(v)[FAT], t)
        BY DEF Holds
      <4> QED BY <1>1, <2>1, <2>2, <2>4, <4>1, SectsAre
    <3>2. ~(k <= Len(ss))
      BY <1>5, <3>1
    <3> QED BY <2>3, <3>1, <3>2
  <2>5. CASE t # 0 /\ k > Len(ss)
    <3>1. it[k] = InFat(x) /\ ~(k <= Len(ss))
      BY <1>4, <2>1, <2>2, <2>5
    <3>2. VolOK(InFat(x), Z) /\ Moved(x, InFat(x))
      BY <2>3, FatIs
    <3> QED BY <2>3, <3>1, <3>2, MovedOn
  <2>6. CASE t # 0 /\ k <= Len(ss)
    <3>1. PICK y : y = InFat(x)
      OBVIOUS
    <3>2. VolOK(y, Z) /\ Moved(x, y) /\ Moved(v, y) /\ Show(y) = Show(v)
      <4>1. VolOK(y, Z) /\ Moved(x, y)
        BY <2>3, <3>1, FatIs
      <4> QED BY <2>3, <4>1, MovedOn DEF Moved
    <3>3. it[k] = MoveWindow(y, ss[k]) /\ ss[k] \in Z
      BY <1>4, <1>5, <2>1, <2>2, <2>6, <3>1
    <3>4. VolOK(it[k], Z) /\ Moved(y, it[k]) /\ it[k].winsect = ss[k] /\ it[k].win = Show(y)[ss[k]]
      BY <3>2, <3>3, MoveIs
    <3> QED BY <3>2, <3>4, MovedOn
  <2> QED BY <1>4, <2>1, <2>4, <2>5, <2>6
<1>12. \A n \in Nat : n \in T => n + 1 \in T
  <2> HIDE DEF Right
  <2> SUFFICES ASSUME NEW n \in Nat, n \in T, a + (n + 1) <= b PROVE Right(a + (n + 1))
    OBVIOUS
  <2>1. PICK k \in (a + 1)..b : k = a + (n + 1) /\ k - 1 = a + n /\ a + n <= b
    BY <1>5
  <2> QED BY <1>11, <2>1
<1>13. Right(b)
  <2>1. b - a \in Nat /\ a + (b - a) = b
    BY <1>5
  <2>2. b - a \in T
    <3> HIDE DEF T
    <3> QED BY <1>10, <1>12, <2>1, SetInduction
  <2> HIDE DEF Right
  <2> QED BY <1>5, <2>1, <2>2
<1> QED BY <1>1, <1>2, <1>5, <1>6, <1>13 DEF OnEntry

\* dir_sdi() and move_window(): the window is on the entry's sector.
LEMMA GoToIs ==
  ASSUME NEW Z, NEW v, VolOK(v, Z), NEW t, NEW es, Holds(Show(v), t, es),
         TabSects(Show(v)[FAT], t) \subseteq Z,
         NEW i \in 1..Len(es), NEW reads, NEW w, w = GoTo(v, t, i, reads)
  PROVE  VolOK(w, Z) /\ Moved(v, w) /\ OnEntry(w, Show(v), t, i)
<1>1. PICK s : s = SectsIn(Show(v)[FAT], t)[SectNo(i)]
  OBVIOUS
<1>2. s \in Z /\ DirSects(v, t)[SectNo(i)] = s
  BY <1>1, EntryAt, EntriesAre
<1>3. PICK u : u = IF reads THEN InFat(v) ELSE v
  OBVIOUS
<1>4. VolOK(u, Z) /\ Moved(v, u) /\ Show(u) = Show(v)
  <2>1. VolOK(InFat(v), Z) /\ Moved(v, InFat(v))
    BY FatIs
  <2> QED BY <1>3, <2>1, NotMoved DEF Moved
<1>5. w = MoveWindow(u, s)
  BY <1>2, <1>3 DEF GoTo
<1>6. VolOK(w, Z) /\ Moved(u, w) /\ w.winsect = s /\ w.win = Show(u)[s]
  BY <1>2, <1>4, <1>5, MoveIs
<1> QED BY <1>1, <1>4, <1>6, MovedOn DEF OnEntry

\* The first k of the units are in the entries from i on.
Put(es, i, units, k) ==
  [j \in 1..Len(es) |-> IF j \in i..(i + k - 1) THEN units[j - i + 1] ELSE es[j]]

\* Which entries storing some units changes.
LEMMA PutIs ==
  ASSUME NEW es \in Seq(DirEnt), NEW i \in Nat, i # 0, NEW k \in Nat, i + k - 1 <= Len(es),
         NEW units \in Seq(DirEnt), k <= Len(units)
  PROVE  /\ Put(es, i, units, k) \in Seq(DirEnt) /\ Len(Put(es, i, units, k)) = Len(es)
         /\ \A j \in 1..Len(es) : Put(es, i, units, k)[j] =
              IF i <= j /\ j <= i + k - 1 THEN units[j - i + 1] ELSE es[j]
         /\ Put(es, i, units, 0) = es
<1>1. \A j \in 1..Len(es) : j \in i..(i + k - 1) <=> i <= j /\ j <= i + k - 1
  OBVIOUS
<1>2. \A j \in 1..Len(es) : i <= j /\ j <= i + k - 1 => j - i + 1 \in 1..Len(units)
  OBVIOUS
<1>3. Put(es, i, units, k) \in [1..Len(es) -> DirEnt]
  BY <1>1, <1>2 DEF Put
<1>4. Len(es) \in Nat
  OBVIOUS
<1>5. Put(es, i, units, k) \in Seq(DirEnt) /\ Len(Put(es, i, units, k)) = Len(es)
  <2>1. PICK p : p = Put(es, i, units, k)
    OBVIOUS
  <2>2. p \in Seq(DirEnt) /\ DOMAIN p = 1..Len(es)
    BY <1>3, <1>4, <2>1
  <2> QED BY <1>4, <2>1, <2>2
<1>6. Put(es, i, units, 0) = es
  <2>1. \A j \in 1..Len(es) : j \notin i..(i + 0 - 1)
    OBVIOUS
  <2>2. es = [j \in 1..Len(es) |-> es[j]]
    OBVIOUS
  <2> QED BY <2>1, <2>2 DEF Put
<1> QED BY <1>1, <1>5, <1>6 DEF Put

\* An entry is stored in the window.
LEMMA SetUnitIs ==
  ASSUME NEW Z, NEW v, VolOK(v, Z), NEW t, NEW es, Holds(Show(v), t, es),
         TabSects(Show(v)[FAT], t) \subseteq Z,
         NEW i \in 1..Len(es), OnEntry(v, Show(v), t, i), NEW u \in DirEnt,
         NEW w, w = SetUnit(v, Slot(i), u)
  PROVE  /\ VolOK(w, Z) /\ Show(w) = WithTab(Show(v), t, [es EXCEPT ![i] = u])
         /\ Chip(w) = Chip(v) /\ w.mount = v.mount /\ w.last_clst = v.last_clst
         /\ w.winsect = v.winsect /\ w.wflag
<1>1. PICK S : S = Show(v) /\ S = [s \in Image |-> S[s]]
  BY DEF Show
<1>2. PICK ss : ss = SectsIn(S[FAT], t)
  OBVIOUS
<1>3. /\ SectNo(i) \in 1..Len(ss) /\ Slot(i) \in 1..U /\ i = U * (SectNo(i) - 1) + Slot(i)
      /\ S[ss[SectNo(i)]] = InSect(es, SectNo(i)) /\ ss[SectNo(i)] \in TabSects(S[FAT], t)
  BY <1>1, <1>2, EntryAt
<1>4. PICK s : s = ss[SectNo(i)] /\ s \in Z /\ v.winsect = s /\ v.win = InSect(es, SectNo(i))
  BY <1>1, <1>2, <1>3 DEF OnEntry
<1>5. PICK x : x = [InSect(es, SectNo(i)) EXCEPT ![Slot(i)] = u]
  OBVIOUS
<1>6. w = SetWindow(v, x, v.last_clst) /\ v.last_clst \in 0..LastCluster
  BY <1>4, <1>5 DEF SetUnit, SetWindow, VolOK
<1>7. /\ VolOK(w, Z) /\ Show(w) = [S EXCEPT ![s] = x] /\ Chip(w) = Chip(v)
      /\ w.winsect = v.winsect /\ w.wflag /\ w.last_clst = v.last_clst /\ w.mount = v.mount
  <2>1. v.winsect \in {FAT} \cup Z
    BY <1>4
  <2>2. /\ VolOK(w, Z) /\ Show(w) = [Show(v) EXCEPT ![v.winsect] = x] /\ Chip(w) = Chip(v)
        /\ w.winsect = v.winsect /\ w.wflag /\ w.last_clst = v.last_clst /\ w.mount = v.mount
    BY <1>6, <2>1, SetIs
  <2> QED BY <1>1, <1>4, <2>2
<1>8. PICK fs : fs = [es EXCEPT ![i] = u]
  OBVIOUS
<1>9. /\ es \in Seq(DirEnt) /\ fs \in Seq(DirEnt) /\ Len(fs) = Len(es) /\ fs[i] = u
      /\ \A j \in 1..Len(es) : j # i => fs[j] = es[j]
      /\ Len(es) = U * Len(ss) /\ Len(ss) \in Nat /\ U \in Nat
  <2>1. es \in Seq(DirEnt) /\ Len(es) = U * Len(ss) /\ IsTable(S[FAT], t)
    BY <1>1, <1>2 DEF Holds
  <2>2. Len(ss) \in Nat
    BY <1>2, <2>1, SectsAre
  <2> QED BY <1>8, <2>1, <2>2, FatAssumption
<1>10. PICK R : R = WithTab(S, t, fs)
  OBVIOUS
<1>11. /\ Holds(R, t, fs) /\ R = [d \in Image |-> R[d]] /\ R[FAT] = S[FAT]
       /\ \A d \in Image : d \notin TabSects(S[FAT], t) => R[d] = S[d]
  <2>1. Holds(S, t, es)
    BY <1>1
  <2>2. S = [d \in Image |-> S[d]]
    BY <1>1
  <2>3. fs \in Seq(DirEnt) /\ Len(fs) = Len(es)
    BY <1>9
  <2> QED BY <2>1, <2>2, <2>3, <1>10, WithTabIs
<1>12. \A k \in 1..Len(ss) : R[ss[k]] = InSect(fs, k)
  BY <1>2, <1>11 DEF Holds
<1>13. IsTable(S[FAT], t)
  BY <1>1 DEF Holds
<1>14. ASSUME NEW k \in 1..Len(ss), NEW j \in 1..U
       PROVE  /\ k = SectNo(i) /\ j = Slot(i) => U * (k - 1) + j = i
              /\ k # SectNo(i) \/ j # Slot(i) => U * (k - 1) + j # i
              /\ U * (k - 1) + j \in 1..Len(es)
  <2>1. k \in Nat /\ k # 0 /\ k <= Len(ss)
    BY <1>9
  <2>2. /\ U * (k - 1) + j \in Nat /\ U * (k - 1) + j # 0
        /\ SectNo(U * (k - 1) + j) = k /\ Slot(U * (k - 1) + j) = j
    BY <2>1, EntryOfPlace
  <2>3. PICK n \in Nat : n = U * (k - 1) + j /\ n # 0 /\ SectNo(n) = k /\ Slot(n) = j
    BY <2>2
  <2>4. n <= U * Len(ss)
    BY <1>9, <2>1, <2>3, EntriesOfSectors
  <2>5. n \in 1..Len(es)
    BY <1>9, <2>3, <2>4
  <2> QED BY <1>3, <2>3, <2>5
<1>15. ASSUME NEW d \in Image PROVE R[d] = [S EXCEPT ![s] = x][d]
  <2>1. CASE d \in TabSects(S[FAT], t)
    <3>1. PICK k \in 1..Len(ss) : ss[k] = d
      <4>1. ss \in Seq(ROOT..(LastCluster + 2)) /\ TabSects(S[FAT], t) = ToSet(ss)
        BY <1>2, <1>13, SectsAre DEF TabSects
      <4> QED BY <2>1, <4>1, InSequence
    <3>2. R[d] = InSect(fs, k) /\ S[d] = InSect(es, k)
      BY <1>1, <1>2, <1>12, <3>1 DEF Holds
    <3>3. CASE k = SectNo(i)
      <4>1. InSect(fs, k) = x
        <5>1. \A j \in 1..U : fs[U * (k - 1) + j] = IF j = Slot(i) THEN u ELSE es[U * (k - 1) + j]
          BY <1>9, <1>14, <3>3
        <5> QED BY <1>5, <3>3, <5>1 DEF InSect
      <4> QED BY <1>1, <1>4, <3>1, <3>2, <3>3, <4>1
    <3>4. CASE k # SectNo(i)
      <4>1. InSect(fs, k) = InSect(es, k)
        <5>1. \A j \in 1..U : fs[U * (k - 1) + j] = es[U * (k - 1) + j]
          BY <1>9, <1>14, <3>4
        <5> QED BY <5>1 DEF InSect
      <4>2. d # s
        BY <1>2, <1>3, <1>4, <1>13, <3>1, <3>4, SectsAre
      <4> QED BY <1>1, <3>2, <4>1, <4>2
    <3> QED BY <3>3, <3>4
  <2>2. CASE d \notin TabSects(S[FAT], t)
    <3>1. R[d] = S[d] /\ d # s
      BY <1>3, <1>4, <1>11, <2>2
    <3> QED BY <1>1, <3>1
  <2> QED BY <2>1, <2>2
<1>16. R = [S EXCEPT ![s] = x]
  BY <1>1, <1>11, <1>15
<1> QED BY <1>1, <1>7, <1>8, <1>10, <1>16

\* One more unit.
LEMMA PutNext ==
  ASSUME NEW es \in Seq(DirEnt), NEW i \in Nat, i # 0, NEW k \in Nat, i + k <= Len(es),
         NEW units \in Seq(DirEnt), k + 1 <= Len(units)
  PROVE  Put(es, i, units, k + 1) = [Put(es, i, units, k) EXCEPT ![i + k] = units[k + 1]]
<1>1. PICK p : p = Put(es, i, units, k)
  OBVIOUS
<1>2. PICK q : q = Put(es, i, units, k + 1)
  OBVIOUS
<1>3. /\ p \in Seq(DirEnt) /\ Len(p) = Len(es)
      /\ \A j \in 1..Len(es) : p[j] = IF i <= j /\ j <= i + k - 1 THEN units[j - i + 1] ELSE es[j]
  <2>1. i + k - 1 <= Len(es) /\ k <= Len(units)
    OBVIOUS
  <2> QED BY <1>1, <2>1, PutIs
<1>4. /\ q \in Seq(DirEnt) /\ Len(q) = Len(es)
      /\ \A j \in 1..Len(es) : q[j] = IF i <= j /\ j <= i + k THEN units[j - i + 1] ELSE es[j]
  <2>1. PICK K \in Nat : K = k + 1 /\ i + K - 1 <= Len(es) /\ i + K - 1 = i + k /\ K <= Len(units)
    OBVIOUS
  <2>2. /\ Put(es, i, units, K) \in Seq(DirEnt) /\ Len(Put(es, i, units, K)) = Len(es)
        /\ \A j \in 1..Len(es) :
             Put(es, i, units, K)[j] = IF i <= j /\ j <= i + K - 1 THEN units[j - i + 1] ELSE es[j]
    BY <2>1, PutIs
  <2> QED BY <1>2, <2>1, <2>2
<1>5. PICK r : r = [p EXCEPT ![i + k] = units[k + 1]]
  OBVIOUS
<1>6. /\ r \in Seq(DirEnt) /\ Len(r) = Len(es)
      /\ \A j \in 1..Len(es) : r[j] = IF j = i + k THEN units[k + 1] ELSE p[j]
  <2>1. i + k \in 1..Len(p) /\ units[k + 1] \in DirEnt
    BY <1>3
  <2> QED BY <1>3, <1>5, <2>1
<1>7. \A j \in 1..Len(es) : q[j] = r[j]
  <2> SUFFICES ASSUME NEW j \in 1..Len(es) PROVE q[j] = r[j]
    OBVIOUS
  <2>1. CASE j = i + k
    BY <1>4, <1>6, <2>1
  <2>2. CASE j # i + k
    BY <1>3, <1>4, <1>6, <2>2
  <2> QED BY <2>1, <2>2
<1>8. q = r
  BY <1>4, <1>6, <1>7, SeqEqual
<1> QED BY <1>1, <1>2, <1>5, <1>8

\* Units are stored one after the other: when the chip is written on the way, it
\* gets the table with the first of them in it.
LEMMA PutUnitsIs ==
  ASSUME NEW Z, NEW v, VolOK(v, Z), NEW t, NEW es, Holds(Show(v), t, es),
         TabSects(Show(v)[FAT], t) \subseteq Z,
         NEW i \in Nat, i # 0, NEW units \in Seq(DirEnt), Len(units) # 0, i + Len(units) - 1 <= Len(es),
         NEW w, w = PutUnits(v, t, i, units)
  PROVE  /\ VolOK(w, Z) /\ Show(w) = WithTab(Show(v), t, Put(es, i, units, Len(units)))
         /\ \/ Chip(w) = Chip(v)
            \/ \E m \in 0..Len(units) : Chip(w) = WithTab(Show(v), t, Put(es, i, units, m))
         /\ w.mount = v.mount
         /\ w.winsect = SectsIn(Show(v)[FAT], t)[SectNo(i + Len(units) - 1)]
<1>1. PICK S : S = Show(v) /\ S = [s \in Image |-> S[s]]
  BY DEF Show
<1>2. PICK n \in Nat : n = Len(units) /\ n # 0 /\ i + n - 1 <= Len(es)
  OBVIOUS
<1>3. es \in Seq(DirEnt) /\ Len(es) \in Nat
  BY DEF Holds
<1> DEFINE Leads(k) == SectNo(i + k - 1) > 1 /\ IF k = 1 THEN Len(units) > 1 ELSE Slot(i + k - 1) = 1
           Step(u, k) == SetUnit(GoTo(u, t, i + k - 1, Leads(k)), Slot(i + k - 1), units[k])
           Eq(g) == g = [k \in 0..n |-> IF k = 0 THEN v ELSE Step(g[k - 1], k)]
           it == CHOOSE g : Eq(g)
<1>4. w = it[n]
  BY <1>2 DEF PutUnits
<1>5. \E g : Eq(g)
  <2> HIDE DEF Step
  <2> DEFINE Steps(g, m) == /\ DOMAIN g = 0..m
                            /\ \A k \in 0..m : g[k] = IF k = 0 THEN v ELSE Step(g[k - 1], k)
             T == {m \in Nat : \E g : Steps(g, m)}
  <2>1. 0 \in T
    <3>1. 0..0 = {0}
      OBVIOUS
    <3>2. PICK g : g = [k \in {0} |-> v]
      OBVIOUS
    <3>3. Steps(g, 0)
      BY <3>1, <3>2
    <3> QED BY <3>3
  <2>2. ASSUME NEW m \in Nat, NEW g, Steps(g, m) PROVE \E h : Steps(h, m + 1)
    <3>1. PICK h : h = [k \in 0..(m + 1) |-> IF k = m + 1 THEN Step(g[m], m + 1) ELSE g[k]]
      OBVIOUS
    <3>2. \A k \in 0..(m + 1) : h[k] = IF k = m + 1 THEN Step(g[m], m + 1) ELSE g[k]
      BY <3>1
    <3>3. \A k \in 0..(m + 1) : h[k] = IF k = 0 THEN v ELSE Step(h[k - 1], k)
      <4> SUFFICES ASSUME NEW k \in 0..(m + 1)
                   PROVE  h[k] = IF k = 0 THEN v ELSE Step(h[k - 1], k)
        OBVIOUS
      <4>1. CASE k = m + 1
        <5>1. m \in 0..(m + 1) /\ m # m + 1 /\ k # 0 /\ k - 1 = m
          BY <4>1
        <5> QED BY <3>2, <4>1, <5>1
      <4>2. CASE k # m + 1
        <5>1. k \in 0..m /\ (k # 0 => k - 1 \in 0..(m + 1) /\ k - 1 # m + 1)
          BY <4>2
        <5> QED BY <2>2, <3>2, <4>2, <5>1
      <4> QED BY <4>1, <4>2
    <3>4. Steps(h, m + 1)
      BY <3>1, <3>3
    <3> QED BY <3>4
  <2>3. \A m \in Nat : m \in T => m + 1 \in T
    <3> HIDE DEF Steps
    <3> QED BY <2>2
  <2>4. n \in T
    <3> HIDE DEF T
    <3> QED BY <2>1, <2>3, SetInduction
  <2>5. PICK g : Steps(g, n)
    BY <2>4
  <2>6. PICK h : h = [k \in 0..n |-> g[k]]
    OBVIOUS
  <2>7. \A k \in 0..n : h[k] = g[k] /\ (k # 0 => k - 1 \in 0..n)
    BY <2>6
  <2>8. \A k \in 0..n : h[k] = IF k = 0 THEN v ELSE Step(h[k - 1], k)
    BY <2>5, <2>7
  <2>9. Eq(h)
    BY <2>6, <2>8
  <2> QED BY <2>9
<1>6. Eq(it)
  <2> HIDE DEF Eq
  <2> QED BY <1>5
<1> HIDE DEF it
<1>7. it[0] = v /\ \A k \in 1..n : it[k] = Step(it[k - 1], k)
  <2> HIDE DEF Step
  <2> QED BY <1>6
<1> DEFINE P(k) == Put(es, i, units, k)
           Right(k) == /\ VolOK(it[k], Z) /\ Show(it[k]) = WithTab(S, t, P(k))
                       /\ \/ Chip(it[k]) = Chip(v)
                          \/ \E m \in 0..k : Chip(it[k]) = WithTab(S, t, P(m))
                       /\ it[k].mount = v.mount
                       /\ k # 0 => it[k].winsect = SectsIn(S[FAT], t)[SectNo(i + k - 1)]
           T == {k \in Nat : k <= n => Right(k)}
<1>8. \A k \in 0..n : P(k) \in Seq(DirEnt) /\ Len(P(k)) = Len(es)
  BY <1>2, <1>3, PutIs
<1>9. Right(0)
  <2>1. P(0) = es
    <3>1. 0 \in Nat /\ i + 0 - 1 <= Len(es) /\ 0 <= Len(units)
      BY <1>2, <1>3
    <3> QED BY <1>3, <3>1, PutIs
  <2>2. WithTab(S, t, es) = S
    BY <1>1, <1>3, WithTabIs
  <2> QED BY <1>1, <1>7, <2>1, <2>2
<1>10. ASSUME NEW k \in Nat, k + 1 <= n, Right(k) PROVE Right(k + 1)
  <2>1. PICK x : x = it[k]
    OBVIOUS
  <2>2. PICK R : R = Show(x) /\ R = WithTab(S, t, P(k))
    BY <1>10, <2>1
  <2>3. /\ P(k) \in Seq(DirEnt) /\ Len(P(k)) = Len(es) /\ k \in 0..n
    BY <1>2, <1>8, <1>10
  <2>4. /\ Holds(R, t, P(k)) /\ R[FAT] = S[FAT] /\ \A gs : WithTab(R, t, gs) = WithTab(S, t, gs)
    <3> HIDE DEF P
    <3>1. Holds(S, t, es)
      BY <1>1
    <3>2. S = [d \in Image |-> S[d]]
      BY <1>1
    <3>3. P(k) \in Seq(DirEnt) /\ Len(P(k)) = Len(es) /\ R = WithTab(S, t, P(k))
      BY <2>2, <2>3
    <3>4. ASSUME NEW fs \in Seq(DirEnt), Len(fs) = Len(es), R = WithTab(S, t, fs)
          PROVE  /\ Holds(R, t, fs) /\ R[FAT] = S[FAT]
                 /\ \A gs : WithTab(R, t, gs) = WithTab(S, t, gs)
      <4>1. Holds(R, t, fs) /\ R[FAT] = S[FAT]
        BY <3>1, <3>2, <3>4, WithTabIs
      <4>2. ASSUME NEW gs PROVE WithTab(R, t, gs) = WithTab(S, t, gs)
        BY <3>1, <3>2, <3>4, WithTabIs
      <4> QED BY <4>1, <4>2
    <3> QED BY <3>3, <3>4
  <2>5. PICK j \in 1..Len(P(k)) : j = i + k /\ j = i + (k + 1) - 1
    BY <1>2, <1>3, <1>10, <2>3
  <2>6. PICK reads, y : reads = Leads(k + 1) /\ y = GoTo(x, t, j, reads)
    OBVIOUS
  <2>7. VolOK(x, Z) /\ VolOK(y, Z) /\ Moved(x, y) /\ OnEntry(y, R, t, j) /\ Show(y) = R
    <3>1. VolOK(x, Z) /\ TabSects(R[FAT], t) \subseteq Z
      BY <1>1, <1>10, <2>1, <2>4
    <3>2. PICK fs : fs = P(k) /\ Holds(Show(x), t, fs) /\ j \in 1..Len(fs)
      BY <2>2, <2>4, <2>5
    <3>3. VolOK(y, Z)
      BY <2>2, <2>6, <3>1, <3>2, GoToIs
    <3>4. Moved(x, y)
      BY <2>2, <2>6, <3>1, <3>2, GoToIs
    <3>5. OnEntry(y, R, t, j)
      BY <2>2, <2>6, <3>1, <3>2, GoToIs
    <3> QED BY <2>2, <3>1, <3>3, <3>4, <3>5 DEF Moved
  <2>8. PICK u \in DirEnt : u = units[k + 1]
    BY <1>2, <1>10
  <2>9. it[k + 1] = SetUnit(y, Slot(j), u)
    <3>1. k + 1 \in 1..n /\ (k + 1) - 1 = k
      BY <1>2, <1>10
    <3> QED BY <1>7, <2>1, <2>5, <2>6, <2>8, <3>1
  <2>10. /\ VolOK(it[k + 1], Z) /\ Show(it[k + 1]) = WithTab(R, t, [P(k) EXCEPT ![j] = u])
         /\ Chip(it[k + 1]) = Chip(y) /\ it[k + 1].mount = y.mount
         /\ it[k + 1].winsect = y.winsect
    <3>1. Holds(Show(y), t, P(k)) /\ TabSects(Show(y)[FAT], t) \subseteq Z /\ OnEntry(y, Show(y), t, j)
      BY <1>1, <2>4, <2>7
    <3> HIDE DEF P
    <3>2. PICK z : z = SetUnit(y, Slot(j), u)
      OBVIOUS
    <3>3. /\ VolOK(z, Z) /\ Show(z) = WithTab(Show(y), t, [P(k) EXCEPT ![j] = u])
          /\ Chip(z) = Chip(y) /\ z.mount = y.mount /\ z.winsect = y.winsect
      BY <2>7, <3>1, <3>2, SetUnitIs
    <3> QED BY <2>7, <2>9, <3>2, <3>3
  <2>11. P(k + 1) = [P(k) EXCEPT ![j] = u]
    <3>1. i + k <= Len(es) /\ k + 1 <= Len(units)
      BY <1>2, <1>3, <1>10
    <3>2. P(k + 1) = [P(k) EXCEPT ![i + k] = units[k + 1]]
      BY <1>3, <1>10, <3>1, PutNext
    <3> HIDE DEF P
    <3> QED BY <2>5, <2>8, <3>2
  <2>12. Show(it[k + 1]) = WithTab(S, t, P(k + 1))
    BY <2>4, <2>10, <2>11
  <2>13. \/ Chip(it[k + 1]) = Chip(v)
         \/ \E m \in 0..(k + 1) : Chip(it[k + 1]) = WithTab(S, t, P(m))
    <3>1. Chip(it[k + 1]) \in {Chip(x), WithTab(S, t, P(k))}
      BY <2>2, <2>7, <2>10 DEF Moved
    <3>2. k \in 0..(k + 1) /\ \A m \in 0..k : m \in 0..(k + 1)
      OBVIOUS
    <3> HIDE DEF P
    <3> QED BY <1>10, <2>1, <3>1, <3>2
  <2>14. it[k + 1].mount = v.mount
    BY <1>10, <2>1, <2>7, <2>10 DEF Moved
  <2>15. it[k + 1].winsect = SectsIn(S[FAT], t)[SectNo(i + (k + 1) - 1)]
    BY <2>4, <2>5, <2>7, <2>10 DEF OnEntry
  <2> HIDE DEF P
  <2> QED BY <2>10, <2>12, <2>13, <2>14, <2>15
<1>11. 0 \in T
  <2> HIDE DEF Right
  <2> QED BY <1>9
<1>12. \A k \in Nat : k \in T => k + 1 \in T
  <2> HIDE DEF Right
  <2>1. ASSUME NEW k \in Nat, k <= n => Right(k), k + 1 <= n PROVE Right(k + 1)
    <3>1. k <= n
      BY <2>1
    <3> QED BY <1>10, <2>1, <3>1
  <2> QED BY <2>1
<1>13. Right(n)
  <2>1. n \in T
    <3> HIDE DEF T
    <3> QED BY <1>11, <1>12, SetInduction
  <2> HIDE DEF Right
  <2> QED BY <2>1
<1> QED BY <1>1, <1>2, <1>4, <1>13

-----------------------------------------------------------------------------
(* The names in a table *)

Live(es) == {i \in 1..Len(es) : es[i].kind = "sfn"}

\* The pieces of the name at i are before it.
Behind(es, i) ==
  \A j \in 1..(NEnt(es[i].of) - 1) : i - j >= 1 /\ es[i - j] = Piece(es[i].of, j, es[i].sfn)

\* Entries are what registering makes of names, and nothing is behind a zero entry.
Written(es) ==
  /\ es \in Seq(DirEnt)
  /\ \A i \in Live(es) : es[i].sfn \in SfnOf(es[i].of)
  /\ \A i \in 1..Len(es) : es[i].kind = "lfn" =>
       /\ es[i].ord \in 1..(NEnt(es[i].of) - 1) /\ es[i].sum \in SfnOf(es[i].of)
       /\ es[i] = Piece(es[i].of, es[i].ord, es[i].sum)
  /\ \A i \in 1..Len(es) : es[i] = Zero => \A j \in i..Len(es) : es[j] = Zero

Different(es) ==
  \A i, j \in Live(es) : i # j => es[i].sfn # es[j].sfn /\ es[i].of # es[j].of

\* Every piece is of a name behind it.
Owned(es) ==
  \A i \in 1..Len(es) : es[i].kind = "lfn" => \E j \in Live(es) : j > i /\ j - i < NEnt(es[j].of)

NamesOK(es, loose) ==
  Written(es) /\ (\A i \in Live(es) : Behind(es, i)) /\ Different(es) /\ (loose \/ Owned(es))

\* What is known of a name.
LEMMA NameIs ==
  ASSUME NEW n \in Name
  PROVE  /\ Len(Info[n].pieces) \in 1..20
         /\ NEnt(n) \in Nat /\ NEnt(n) >= 1 /\ NEnt(n) <= U
         /\ Info[n].lfn => NEnt(n) = Len(Info[n].pieces) + 1
         /\ ~Info[n].lfn => NEnt(n) = 1 /\ ~Info[n].loss
         /\ Info[n].lfn \in BOOLEAN /\ Info[n].loss \in BOOLEAN
         /\ Info[n].sfn = <<Info[n].sfn[1], 0>> /\ Info[n].sfn[1] \notin {".", ".."}
BY NameAssumption, FatAssumption DEF NEnt

\* A numbered name is never a dot, nor a name without a number.
LEMMA NumberedIs ==
  ASSUME NEW n \in Name, Info[n].loss, NEW k \in 1..Tries
  PROVE  Info[n].num[k] \in SfnOf(n) /\ Info[n].num[k][1] \notin {".", ".."} /\ Info[n].num[k][2] # 0
BY NameAssumption DEF SfnOf

\* Two names with one short name have it with a number.
LEMMA SfnsDiffer ==
  ASSUME NEW n \in Name, NEW m \in Name, NEW s, s \in SfnOf(n), s \in SfnOf(m), n # m
  PROVE  Info[n].loss /\ Info[m].loss
<1>1. /\ Info[n].sfn = <<Info[n].sfn[1], 0>> /\ Info[m].sfn = <<Info[m].sfn[1], 0>>
      /\ Info[n].sfn # Info[m].sfn \/ Info[n].loss \/ Info[m].loss
      /\ Info[n].loss \in BOOLEAN /\ Info[m].loss \in BOOLEAN
  BY NameAssumption
<1>2. CASE ~Info[n].loss
  <2>1. s = Info[n].sfn /\ s[2] = 0
    BY <1>1, <1>2 DEF SfnOf
  <2>2. CASE Info[m].loss
    <3>1. PICK k \in 1..Tries : s = Info[m].num[k]
      BY <2>2 DEF SfnOf
    <3> QED BY <2>1, <2>2, <3>1, NumberedIs
  <2>3. CASE ~Info[m].loss
    BY <1>1, <1>2, <2>1, <2>3 DEF SfnOf
  <2> QED BY <2>2, <2>3
<1>3. CASE ~Info[m].loss
  <2>1. s = Info[m].sfn /\ s[2] = 0
    BY <1>1, <1>3 DEF SfnOf
  <2>2. CASE Info[n].loss
    <3>1. PICK k \in 1..Tries : s = Info[n].num[k]
      BY <2>2 DEF SfnOf
    <3> QED BY <2>1, <2>2, <3>1, NumberedIs
  <2>3. CASE ~Info[n].loss
    BY <1>2, <2>3
  <2> QED BY <2>2, <2>3
<1> QED BY <1>1, <1>2, <1>3

\* A short name is never a dot.
LEMMA SfnIs ==
  ASSUME NEW n \in Name, NEW s \in SfnOf(n)
  PROVE  s[1] \notin {".", ".."} /\ s \in ShortNames
<1>1. s \in ShortNames
  BY DEF ShortNames
<1>2. CASE Info[n].loss
  <2>1. PICK k \in 1..Tries : s = Info[n].num[k]
    BY <1>2 DEF SfnOf
  <2> QED BY <1>1, <1>2, <2>1, NumberedIs
<1>3. CASE ~Info[n].loss
  <2>1. s = Info[n].sfn
    BY <1>3 DEF SfnOf
  <2> QED BY <1>1, <2>1, NameIs
<1> QED BY <1>2, <1>3

\* The kinds of entries.
LEMMA Kinds ==
  ASSUME NEW e \in DirEnt
  PROVE  /\ e.kind \in {"zero", "deleted", "sfn", "lfn", "dot"}
         /\ e.kind = "zero" => e = Zero
         /\ e.kind = "deleted" => e = Deleted
         /\ e.kind = "sfn" => /\ e \in FileEnt /\ e.of \in Name /\ e.sfn \in ShortNames
                              /\ e.dir \in BOOLEAN /\ e.clust \in {0} \cup Cluster /\ e.size \in Nat
         /\ e.kind = "lfn" => e \in PieceEnt /\ e.of \in Name /\ e.ord \in Nat /\ e.sum \in ShortNames
         /\ e.kind = "dot" => e \in DotEnt /\ e.sfn \in {<<".", 0>>, <<"..", 0>>}
         /\ e = Zero => e.kind = "zero"
         /\ e = Deleted => e.kind = "deleted"
<1>1. e \in {Zero, Deleted} \cup FileEnt \cup PieceEnt \cup DotEnt
  BY DEF DirEnt
<1>2. Zero.kind = "zero" /\ Deleted.kind = "deleted" /\ Zero # Deleted
  BY DEF Zero, Deleted
<1>3. e \in FileEnt => /\ e.kind = "sfn" /\ e.of \in Name /\ e.sfn \in ShortNames
                       /\ e.dir \in BOOLEAN /\ e.clust \in {0} \cup Cluster /\ e.size \in Nat
  BY DEF FileEnt
<1>4. e \in PieceEnt => e.kind = "lfn" /\ e.of \in Name /\ e.ord \in Nat /\ e.sum \in ShortNames
  BY DEF PieceEnt
<1>5. e \in DotEnt => e.kind = "dot" /\ e.sfn \in {<<".", 0>>, <<"..", 0>>}
  BY DEF DotEnt
<1> HIDE DEF Zero, Deleted
<1> QED BY <1>1, <1>2, <1>3, <1>4, <1>5

-----------------------------------------------------------------------------
(* Looking a name up *)

\* The state of a search, and what a piece does to it.
Searching == [stop : Nat, found : BOOLEAN, ord : Nat, sum : ShortNames \cup {<<>>}, blk : Nat]

\* What the search knows after a piece: it goes on with the name, or begins anew.
LEMMA WithPieceIs ==
  ASSUME NEW s \in Searching, NEW i \in Nat, NEW m \in Name, NEW k \in 1..(NEnt(m) - 1),
         NEW c \in SfnOf(m), NEW e, e = Piece(m, k, c), NEW fits \in BOOLEAN,
         NEW r, r = WithPiece(s, i, e, fits)
  PROVE  /\ r \in Searching /\ r.stop = s.stop /\ r.found = s.found
         /\ k = NEnt(m) - 1 => r.blk = i /\ r.sum = c /\ r.ord = IF fits THEN k - 1 ELSE NoOrd
         /\ k # NEnt(m) - 1 => /\ r.blk = s.blk /\ r.sum = s.sum
                               /\ r.ord = IF k = s.ord /\ c = s.sum /\ fits THEN k - 1 ELSE NoOrd
         /\ r.ord # NoOrd => r.sum = c
         /\ Info[m].lfn
<1>1. /\ Info[m].lfn /\ NEnt(m) - 1 = Len(Info[m].pieces) /\ NEnt(m) \in Nat
  BY NameIs
<1>2. /\ e.last \in BOOLEAN /\ (e.last <=> k = NEnt(m) - 1)
      /\ e.ord = k /\ e.sum = c /\ k \in Nat /\ k - 1 \in Nat
  <2>1. e.last = (k = Len(Info[m].pieces)) /\ e.ord = k /\ e.sum = c
    BY DEF Piece
  <2>2. k \in Nat /\ k - 1 \in Nat
    BY <1>1
  <2> QED BY <1>1, <2>1, <2>2
<1>3. c \in ShortNames /\ NoOrd \in Nat
  BY SfnIs DEF NoOrd
<1>4. PICK q : q = IF e.last THEN [s EXCEPT !.sum = e.sum, !.ord = e.ord, !.blk = i] ELSE s
  OBVIOUS
<1>5. r = [q EXCEPT !.ord = IF e.ord = q.ord /\ e.sum = q.sum /\ fits THEN e.ord - 1 ELSE NoOrd]
  BY <1>4 DEF WithPiece
<1>6. /\ q \in Searching /\ q.stop = s.stop /\ q.found = s.found
      /\ k = NEnt(m) - 1 => q.blk = i /\ q.sum = c /\ q.ord = k
      /\ k # NEnt(m) - 1 => q = s
  BY <1>2, <1>3, <1>4 DEF Searching
<1>7. /\ r \in Searching /\ r.stop = q.stop /\ r.found = q.found /\ r.blk = q.blk /\ r.sum = q.sum
      /\ r.ord = IF k = q.ord /\ c = q.sum /\ fits THEN k - 1 ELSE NoOrd
  BY <1>2, <1>3, <1>5, <1>6 DEF Searching
<1> QED BY <1>1, <1>6, <1>7

\* Piece k of name m is what is expected of piece k of name n.
Fits(n, m, k) ==
  /\ k <= Len(Info[n].pieces) /\ Info[m].pieces[k] = Info[n].pieces[k]
  /\ k = Len(Info[m].pieces) => k = Len(Info[n].pieces)

\* Pieces compare equal when they are of one name, or could be.
LEMMA CmpIs ==
  ASSUME NEW n, NEW m, NEW k, NEW c
  PROVE  cmp_lfn(Piece(m, k, c), Info[n].pieces) <=> Fits(n, m, k)
BY DEF cmp_lfn, Piece, Fits

\* All pieces fit those of one name only.
LEMMA FitsAll ==
  ASSUME NEW n \in Name, NEW m \in Name, Info[m].lfn
  PROVE  (\A k \in 1..(NEnt(m) - 1) : Fits(n, m, k)) <=> m = n
<1>1. /\ Len(Info[m].pieces) \in 1..20 /\ Len(Info[n].pieces) \in 1..20
      /\ NEnt(m) - 1 = Len(Info[m].pieces)
  BY NameIs
<1>2. ASSUME \A k \in 1..(NEnt(m) - 1) : Fits(n, m, k) PROVE m = n
  <2>1. Fits(n, m, Len(Info[m].pieces))
    <3>1. Len(Info[m].pieces) \in 1..(NEnt(m) - 1)
      <4>1. PICK L : L = Len(Info[m].pieces)
        OBVIOUS
      <4>2. L \in 1..20 /\ NEnt(m) - 1 = L
        BY <1>1, <4>1
      <4>3. L \in 1..L
        BY <4>2
      <4> QED BY <4>1, <4>2, <4>3
    <3> QED BY <1>2, <3>1
  <2>2. Len(Info[m].pieces) = Len(Info[n].pieces)
    BY <2>1 DEF Fits
  <2>3. \A k \in 1..Len(Info[m].pieces) : Info[m].pieces[k] = Info[n].pieces[k]
    BY <1>1, <1>2 DEF Fits
  <2>4. /\ Info[m].pieces \in Seq(ToSet(Info[m].pieces)) /\ Info[n].pieces \in Seq(ToSet(Info[n].pieces))
        /\ m # n => Info[m].pieces # Info[n].pieces
    BY NameAssumption
  <2>5. PICK p, q : p = Info[m].pieces /\ q = Info[n].pieces
    OBVIOUS
  <2>6. PICK A, B : p \in Seq(A) /\ q \in Seq(B)
    BY <2>4, <2>5
  <2>7. p \in Seq(A \cup B) /\ q \in Seq(A \cup B)
    BY <2>6
  <2>8. p = q
    BY <2>2, <2>3, <2>5, <2>7, SeqEqual
  <2> QED BY <2>4, <2>5, <2>8
<1>3. ASSUME m = n, NEW k \in 1..(NEnt(m) - 1) PROVE Fits(n, m, k)
  BY <1>1, <1>3 DEF Fits
<1> QED BY <1>2, <1>3

\* What the search for n has seen of the pieces of the name at "at", of which i
\* is one.
Met(es, n, i, s, at) ==
  LET m == es[at].of
  IN  /\ s.blk = at - (NEnt(m) - 1)
      /\ IF \A k \in (at - i)..(NEnt(m) - 1) : Fits(n, m, k)
         THEN s.ord = at - i - 1 /\ s.sum = es[at].sfn ELSE s.ord = NoOrd

\* After i entries, n was not among them.
Looking(es, n, i, s) ==
  /\ s \in Searching /\ s.stop = 0 /\ ~s.found
  /\ \A j \in 1..i : es[j] # Zero /\ (es[j].kind = "sfn" => es[j].of # n)
  /\ s.blk <= i /\ (s.blk # 0 => \A j \in s.blk..i : es[j].kind = "lfn")
  /\ s.ord # NoOrd => \E m \in Name : Info[m].lfn /\ s.sum \in SfnOf(m)
  /\ \A at \in Live(es) : i < at /\ at - i < NEnt(es[at].of) => Met(es, n, i, s, at)

\* The search ended.
Ended(es, n, s) ==
  /\ s \in Searching /\ ~s.found /\ s.stop \in 1..(Len(es) + 1)
  /\ \A j \in Live(es) : es[j].of # n

Found(es, n, s) ==
  /\ s \in Searching /\ s.found /\ s.stop \in Live(es) /\ es[s.stop].of = n
  /\ s.blk # 0 => s.blk < s.stop /\ \A j \in s.blk..(s.stop - 1) : es[j].kind = "lfn"
  /\ Info[n].lfn => s.blk = s.stop - (NEnt(n) - 1)

\* Entries that are not pieces end what was seen of any.
LEMMA NotAPiece ==
  ASSUME NEW es, Written(es), NEW n \in Name, NEW i \in 1..Len(es), NEW s, Looking(es, n, i - 1, s),
         \A j \in Live(es) : Behind(es, j),
         es[i].kind # "lfn", es[i] # Zero, es[i].kind = "sfn" => es[i].of # n,
         NEW r, r = [s EXCEPT !.ord = NoOrd, !.blk = 0]
  PROVE  Looking(es, n, i, r)
<1>1. r \in Searching /\ r.stop = 0 /\ ~r.found /\ r.blk = 0 /\ r.ord = NoOrd
  <2>1. s \in Searching /\ s.stop = 0 /\ ~s.found
    BY DEF Looking
  <2>2. NoOrd \in Nat
    BY DEF NoOrd
  <2>3. s = [stop |-> s.stop, found |-> s.found, ord |-> s.ord, sum |-> s.sum, blk |-> s.blk]
    BY <2>1 DEF Searching
  <2>4. r = [stop |-> s.stop, found |-> s.found, ord |-> NoOrd, sum |-> s.sum, blk |-> 0]
    BY <2>3
  <2> QED BY <2>1, <2>2, <2>4 DEF Searching
<1>2. \A j \in 1..i : es[j] # Zero /\ (es[j].kind = "sfn" => es[j].of # n)
  <2> SUFFICES ASSUME NEW j \in 1..i PROVE es[j] # Zero /\ (es[j].kind = "sfn" => es[j].of # n)
    OBVIOUS
  <2>1. j = i \/ j \in 1..(i - 1)
    OBVIOUS
  <2> QED BY <2>1 DEF Looking
<1>3. ASSUME NEW at \in Live(es), i < at, at - i < NEnt(es[at].of) PROVE FALSE
  <2>1. es[at] \in DirEnt /\ es[at].kind = "sfn" /\ at \in Nat
    BY DEF Live, Written
  <2>2. NEnt(es[at].of) \in Nat
    BY <2>1, Kinds, NameIs
  <2>3. at - i \in 1..(NEnt(es[at].of) - 1) /\ at - (at - i) = i
    BY <1>3, <2>1, <2>2
  <2>4. es[i] = Piece(es[at].of, at - i, es[at].sfn)
    BY <2>3 DEF Behind
  <2> QED BY <2>4 DEF Piece
<1> QED BY <1>1, <1>2, <1>3 DEF Looking

\* A piece is met.
LEMMA APiece ==
  ASSUME NEW es, Written(es), NEW n \in Name, NEW i \in 1..Len(es), NEW s, Looking(es, n, i - 1, s),
         \A j \in Live(es) : Behind(es, j),
         es[i].kind = "lfn", NEW r, r = WithPiece(s, i, es[i], cmp_lfn(es[i], Info[n].pieces))
  PROVE  Looking(es, n, i, r)
<1>1. PICK m, k, c : m \in Name /\ k \in 1..(NEnt(m) - 1) /\ c \in SfnOf(m) /\ es[i] = Piece(m, k, c)
  <2>1. es[i] \in DirEnt
    BY DEF Written
  <2> QED BY <2>1, Kinds DEF Written
<1>2. PICK fits \in BOOLEAN : (fits <=> Fits(n, m, k)) /\ r = WithPiece(s, i, es[i], fits)
  <2>1. PICK f : f = cmp_lfn(es[i], Info[n].pieces)
    OBVIOUS
  <2>2. f \in BOOLEAN
    BY <2>1 DEF cmp_lfn
  <2> QED BY <1>1, <2>1, <2>2, CmpIs
<1>3. s \in Searching /\ i \in Nat /\ s.stop = 0 /\ ~s.found /\ s.blk \in Nat
  BY DEF Looking, Searching
<1>4. /\ r \in Searching /\ r.stop = s.stop /\ r.found = s.found
      /\ k = NEnt(m) - 1 => r.blk = i /\ r.sum = c /\ r.ord = IF fits THEN k - 1 ELSE NoOrd
      /\ k # NEnt(m) - 1 => /\ r.blk = s.blk /\ r.sum = s.sum
                            /\ r.ord = IF k = s.ord /\ c = s.sum /\ fits THEN k - 1 ELSE NoOrd
      /\ r.ord # NoOrd => r.sum = c
      /\ Info[m].lfn
  BY <1>1, <1>2, <1>3, WithPieceIs
<1>5. \A j \in 1..i : es[j] # Zero /\ (es[j].kind = "sfn" => es[j].of # n)
  <2>1. es[i] # Zero /\ es[i].kind # "sfn"
    BY DEF Zero
  <2> SUFFICES ASSUME NEW j \in 1..i PROVE es[j] # Zero /\ (es[j].kind = "sfn" => es[j].of # n)
    OBVIOUS
  <2>2. j = i \/ j \in 1..(i - 1)
    OBVIOUS
  <2> QED BY <2>1, <2>2 DEF Looking
<1>6. r.blk <= i /\ (r.blk # 0 => \A j \in r.blk..i : es[j].kind = "lfn")
  <2>1. CASE k = NEnt(m) - 1
    <3>1. \A j \in i..i : j = i
      OBVIOUS
    <3> QED BY <1>4, <2>1, <3>1
  <2>2. CASE k # NEnt(m) - 1
    <3>1. r.blk = s.blk /\ s.blk <= i - 1
      BY <1>4, <2>2 DEF Looking
    <3>2. \A j \in s.blk..i : j = i \/ j \in s.blk..(i - 1)
      BY <1>3
    <3> QED BY <1>3, <3>1, <3>2 DEF Looking
  <2> QED BY <2>1, <2>2
<1>7. r.ord # NoOrd => \E x \in Name : Info[x].lfn /\ r.sum \in SfnOf(x)
  BY <1>1, <1>4
<1>8. ASSUME NEW at \in Live(es), i < at, at - i < NEnt(es[at].of) PROVE Met(es, n, i, r, at)
  <2>1. /\ es[at] \in DirEnt /\ es[at].kind = "sfn" /\ at \in Nat
    BY DEF Live, Written
  <2>2. NEnt(es[at].of) \in Nat
    BY <2>1, Kinds, NameIs
  <2>3. at - i \in 1..(NEnt(es[at].of) - 1) /\ at - (at - i) = i
    BY <1>8, <2>1, <2>2
  <2>4. es[i] = Piece(es[at].of, at - i, es[at].sfn)
    BY <2>3 DEF Behind
  <2>5. es[at].of = m /\ k = at - i /\ es[at].sfn = c
    BY <1>1, <2>4 DEF Piece
  <2>6. CASE k = NEnt(m) - 1
    <3>1. r.blk = at - (NEnt(m) - 1)
      BY <1>4, <2>1, <2>5, <2>6
    <3>2. (\A x \in (at - i)..(NEnt(m) - 1) : Fits(n, m, x)) <=> Fits(n, m, k)
      <4>1. \A x \in k..k : x = k
        OBVIOUS
      <4> QED BY <2>5, <2>6, <4>1
    <3> QED BY <1>2, <1>4, <2>5, <2>6, <3>1, <3>2 DEF Met
  <2>7. CASE k # NEnt(m) - 1
    <3>1. (i - 1) < at /\ at - (i - 1) < NEnt(es[at].of)
      BY <1>1, <1>8, <2>1, <2>2, <2>3, <2>5, <2>7
    <3>2. Met(es, n, i - 1, s, at)
      BY <3>1 DEF Looking
    <3>3. /\ s.blk = at - (NEnt(m) - 1)
          /\ IF \A x \in (k + 1)..(NEnt(m) - 1) : Fits(n, m, x)
             THEN s.ord = k /\ s.sum = c ELSE s.ord = NoOrd
      <4>1. at - (i - 1) = k + 1 /\ at - (i - 1) - 1 = k
        BY <2>5, <2>1
      <4> QED BY <2>5, <3>2, <4>1 DEF Met
    <3>4. NoOrd # k
      <4>1. NEnt(m) <= 21
        <5>1. m \in Name /\ Info[m].lfn
          BY <1>1, <1>4
        <5>2. PICK L \in 1..20 : NEnt(m) = L + 1
          BY <5>1, NameIs
        <5> QED BY <5>2
      <4> QED BY <4>1, <1>1, <2>2, <2>5 DEF NoOrd
    <3>5. (\A x \in k..(NEnt(m) - 1) : Fits(n, m, x))
            <=> Fits(n, m, k) /\ \A x \in (k + 1)..(NEnt(m) - 1) : Fits(n, m, x)
      <4>1. \A x \in k..(NEnt(m) - 1) : x = k \/ x \in (k + 1)..(NEnt(m) - 1)
        BY <1>1, <2>2, <2>5
      <4>2. k \in k..(NEnt(m) - 1) /\ \A x \in (k + 1)..(NEnt(m) - 1) : x \in k..(NEnt(m) - 1)
        BY <1>1, <2>2, <2>3, <2>5
      <4> QED BY <4>1, <4>2
    <3>6. r.ord = IF \A x \in k..(NEnt(m) - 1) : Fits(n, m, x) THEN k - 1 ELSE NoOrd
      BY <1>2, <1>4, <2>7, <3>3, <3>4, <3>5
    <3>7. (\A x \in k..(NEnt(m) - 1) : Fits(n, m, x)) => r.sum = c
      BY <1>4, <2>7, <3>3, <3>5
    <3> QED BY <1>4, <2>5, <2>7, <3>3, <3>6, <3>7 DEF Met
  <2> QED BY <2>6, <2>7
<1> QED BY <1>3, <1>4, <1>5, <1>6, <1>7, <1>8 DEF Looking

\* A short name is looked at: it is taken just when it is that of n.
LEMMA AName ==
  ASSUME NEW es, Written(es), NEW n \in Name, NEW i \in Live(es), NEW s, Looking(es, n, i - 1, s),
         \A j \in Live(es) : Behind(es, j)
  PROVE  /\ LfnMatched(s, es[i]) \/ (~Info[n].loss /\ Info[n].sfn = es[i].sfn) <=> es[i].of = n
         /\ Info[es[i].of].lfn => s.blk = i - (NEnt(es[i].of) - 1)
<1>1. PICK m : m = es[i].of /\ m \in Name /\ es[i].sfn \in SfnOf(m) /\ i \in 1..Len(es)
  <2>1. es[i] \in DirEnt /\ es[i].kind = "sfn" /\ es[i].sfn \in SfnOf(es[i].of)
    BY DEF Written, Live
  <2> QED BY <2>1, Kinds DEF Live
<1>2. NEnt(m) \in Nat /\ NEnt(m) >= 1 /\ i \in Nat /\ NEnt(m) <= 21
  <2>1. NEnt(m) \in Nat /\ NEnt(m) >= 1
    BY <1>1, NameIs
  <2>2. CASE Info[m].lfn
    <3>1. PICK L \in 1..20 : NEnt(m) = L + 1
      BY <1>1, <2>2, NameIs
    <3> QED BY <1>1, <2>1, <3>1
  <2>3. CASE ~Info[m].lfn
    <3>1. NEnt(m) = 1
      BY <1>1, <2>3, NameIs
    <3> QED BY <1>1, <2>1, <3>1
  <2> QED BY <2>2, <2>3
<1>3. CASE Info[m].lfn
  <2>1. NEnt(m) >= 2
    <3>1. PICK L \in 1..20 : NEnt(m) = L + 1
      BY <1>1, <1>3, NameIs
    <3> QED BY <3>1
  <2>2. Met(es, n, i - 1, s, i)
    <3>1. i - 1 < i /\ i - (i - 1) < NEnt(m)
      BY <1>2, <2>1
    <3> QED BY <1>1, <3>1 DEF Looking
  <2>3. /\ s.blk = i - (NEnt(m) - 1)
        /\ IF \A k \in 1..(NEnt(m) - 1) : Fits(n, m, k) THEN s.ord = 0 /\ s.sum = es[i].sfn ELSE s.ord = NoOrd
    <3>1. i - (i - 1) = 1 /\ i - (i - 1) - 1 = 0
      BY <1>2
    <3> QED BY <1>1, <2>2, <3>1 DEF Met
  <2>4. LfnMatched(s, es[i]) <=> m = n
    BY <1>1, <1>3, <2>3, FitsAll DEF LfnMatched, NoOrd
  <2>5. ~Info[n].loss /\ Info[n].sfn = es[i].sfn => m = n
    <3>1. ~Info[n].loss => Info[n].sfn \in SfnOf(n)
      BY DEF SfnOf
    <3> QED BY <1>1, <3>1, SfnsDiffer
  <2> QED BY <1>1, <2>3, <2>4, <2>5
<1>4. CASE ~Info[m].lfn
  <2>1. ~Info[m].loss /\ es[i].sfn = Info[m].sfn
    <3>1. ~Info[m].loss
      BY <1>1, <1>4, NameIs
    <3> QED BY <1>1, <3>1 DEF SfnOf
  <2>2. ~LfnMatched(s, es[i])
    <3> SUFFICES ASSUME LfnMatched(s, es[i]) PROVE FALSE
      OBVIOUS
    <3>1. s.ord # NoOrd /\ s.sum = es[i].sfn
      BY DEF LfnMatched, NoOrd
    <3>2. PICK x \in Name : Info[x].lfn /\ s.sum \in SfnOf(x)
      BY <3>1 DEF Looking
    <3> QED BY <1>1, <1>4, <2>1, <3>1, <3>2, SfnsDiffer
  <2>3. ~Info[n].loss /\ Info[n].sfn = es[i].sfn <=> m = n
    <3>1. ~Info[n].loss => Info[n].sfn \in SfnOf(n)
      BY DEF SfnOf
    <3> QED BY <1>1, <2>1, <3>1, SfnsDiffer
  <2> QED BY <1>1, <1>4, <2>2, <2>3
<1> QED BY <1>3, <1>4

\* One entry more.
LEMMA FindOne ==
  ASSUME NEW es, Written(es), NEW n \in Name, NEW i \in 1..Len(es), NEW s, Looking(es, n, i - 1, s),
         \A j \in Live(es) : Behind(es, j), NEW r, r = FindStep(Key(n), s, i, es[i])
  PROVE  Looking(es, n, i, r) \/ Found(es, n, r) \/ Ended(es, n, r)
<1>1. PICK e : e = es[i] /\ e \in DirEnt
  BY DEF Written
<1>2. s \in Searching /\ s.stop = 0 /\ ~s.found /\ i \in Nat /\ i # 0 /\ Len(es) \in Nat
  BY DEF Looking, Written
<1>3. /\ Key(n).sfn = Info[n].sfn /\ Key(n).loss = Info[n].loss /\ Key(n).nolfn = FALSE
      /\ Key(n).pieces = Info[n].pieces
  BY DEF Key
<1>4. CASE e.kind = "zero"
  <2>1. r = [s EXCEPT !.stop = i] /\ e = Zero
    BY <1>1, <1>2, <1>4, Kinds DEF FindStep
  <2>2. r \in Searching /\ ~r.found /\ r.stop = i /\ r.stop \in 1..(Len(es) + 1)
    BY <1>2, <2>1 DEF Searching
  <2>3. ASSUME NEW j \in Live(es) PROVE es[j].of # n
    <3>1. j \in 1..(i - 1) \/ j \in i..Len(es)
      BY <1>2 DEF Live
    <3>2. CASE j \in 1..(i - 1)
      BY <3>2 DEF Looking, Live
    <3>3. CASE j \in i..Len(es)
      <4>1. es[j] = Zero
        BY <1>1, <2>1, <3>3 DEF Written
      <4> QED BY <4>1 DEF Live, Zero
    <3> QED BY <3>1, <3>2, <3>3
  <2> QED BY <2>2, <2>3 DEF Ended
<1>5. CASE e.kind = "deleted"
  <2>1. r = [s EXCEPT !.ord = NoOrd, !.blk = 0] /\ e # Zero
    BY <1>1, <1>2, <1>5, Kinds DEF FindStep, Zero
  <2> QED BY <1>1, <1>5, <2>1, NotAPiece
<1>6. CASE e.kind = "lfn"
  <2>1. r = WithPiece(s, i, e, cmp_lfn(e, Info[n].pieces))
    BY <1>1, <1>2, <1>3, <1>6 DEF FindStep
  <2> QED BY <1>1, <1>6, <2>1, APiece
<1>7. CASE e.kind = "sfn"
  <2>1. r = IF LfnMatched(s, e) \/ (~Info[n].loss /\ Info[n].sfn = e.sfn)
            THEN [s EXCEPT !.stop = i, !.found = TRUE] ELSE [s EXCEPT !.ord = NoOrd, !.blk = 0]
    BY <1>1, <1>2, <1>3, <1>7 DEF FindStep
  <2>2. i \in Live(es) /\ e # Zero
    BY <1>1, <1>7 DEF Live, Zero
  <2>3. /\ LfnMatched(s, e) \/ (~Info[n].loss /\ Info[n].sfn = e.sfn) <=> e.of = n
        /\ Info[e.of].lfn => s.blk = i - (NEnt(e.of) - 1)
    BY <1>1, <2>2, AName
  <2>4. CASE e.of = n
    <3>1. r = [s EXCEPT !.stop = i, !.found = TRUE]
      BY <2>1, <2>3, <2>4
    <3>2. r \in Searching /\ r.stop = i /\ r.found /\ r.blk = s.blk
      BY <1>2, <3>1 DEF Searching
    <3>3. s.blk # 0 => s.blk < i /\ \A j \in s.blk..(i - 1) : es[j].kind = "lfn"
      <4>1. s.blk \in Nat /\ s.blk <= i - 1
        BY <1>2 DEF Searching, Looking
      <4> QED BY <1>2, <4>1 DEF Looking
    <3> QED BY <1>1, <2>2, <2>3, <2>4, <3>2, <3>3 DEF Found
  <2>5. CASE e.of # n
    <3>1. r = [s EXCEPT !.ord = NoOrd, !.blk = 0]
      BY <2>1, <2>3, <2>5
    <3> QED BY <1>1, <1>7, <2>2, <2>5, <3>1, NotAPiece
  <2> QED BY <2>4, <2>5
<1>8. CASE e.kind = "dot"
  <2>1. r = IF LfnMatched(s, e) \/ (~Info[n].loss /\ Info[n].sfn = e.sfn)
            THEN [s EXCEPT !.stop = i, !.found = TRUE] ELSE [s EXCEPT !.ord = NoOrd, !.blk = 0]
    BY <1>1, <1>2, <1>3, <1>8 DEF FindStep
  <2>2. e.sfn \in {<<".", 0>>, <<"..", 0>>} /\ e # Zero
    BY <1>1, <1>8, Kinds DEF Zero
  <2>3. e.sfn[1] \in {".", ".."}
    BY <2>2
  <2>4. ~LfnMatched(s, e)
    <3> SUFFICES ASSUME LfnMatched(s, e) PROVE FALSE
      OBVIOUS
    <3>1. s.ord # NoOrd /\ s.sum = e.sfn
      BY DEF LfnMatched, NoOrd
    <3>2. PICK x \in Name : s.sum \in SfnOf(x)
      BY <3>1 DEF Looking
    <3> QED BY <2>3, <3>1, <3>2, SfnIs
  <2>5. Info[n].sfn # e.sfn
    BY <2>3, NameIs
  <2>6. r = [s EXCEPT !.ord = NoOrd, !.blk = 0]
    BY <2>1, <2>4, <2>5
  <2> QED BY <1>1, <1>8, <2>2, <2>6, NotAPiece
<1> QED BY <1>1, <1>4, <1>5, <1>6, <1>7, <1>8, Kinds

\* A search that has ended does not go on.
LEMMA FindNoMore ==
  ASSUME NEW key, NEW s, s.stop # 0, NEW i, NEW e
  PROVE  FindStep(key, s, i, e) = s
BY DEF FindStep

\* The states of a search for a key.
LEMMA FindStates ==
  ASSUME NEW v, NEW t, NEW es, Entries(v, t) = es, Len(es) \in Nat, NEW key,
         NEW r, r = DirFind(v, t, key)
  PROVE  \E s, x : /\ s[0] = Unnamed /\ \A i \in 1..Len(es) : s[i] = FindStep(key, s[i - 1], i, es[i])
                   /\ x = Stopped(s[Len(es)], Len(es))
                   /\ r = [v |-> Scan(v, t, 1, x.stop), found |-> x.found, at |-> x.stop, blk |-> x.blk]
<1>n. PICK n \in Nat : n = Len(es)
  OBVIOUS
<1> DEFINE Step(u, k) == FindStep(key, u, k, es[k])
           Eq(g) == g = [k \in 0..n |-> IF k = 0 THEN Unnamed ELSE Step(g[k - 1], k)]
           it == CHOOSE g : Eq(g)
<1>e1. PICK x : /\ x = Stopped(it[n], n)
                /\ r = [v |-> Scan(v, t, 1, x.stop), found |-> x.found, at |-> x.stop, blk |-> x.blk]
  BY <1>n DEF DirFind
<1>e2. \E g : Eq(g)
  <2> HIDE DEF Step
  <2> DEFINE Steps(g, m) == /\ DOMAIN g = 0..m
                            /\ \A k \in 0..m : g[k] = IF k = 0 THEN Unnamed ELSE Step(g[k - 1], k)
             T == {m \in Nat : \E g : Steps(g, m)}
  <2>1. 0 \in T
    <3>1. 0..0 = {0}
      OBVIOUS
    <3>2. PICK g : g = [k \in {0} |-> Unnamed]
      OBVIOUS
    <3>3. Steps(g, 0)
      BY <3>1, <3>2
    <3> QED BY <3>3
  <2>2. ASSUME NEW m \in Nat, NEW g, Steps(g, m) PROVE \E h : Steps(h, m + 1)
    <3>1. PICK h : h = [k \in 0..(m + 1) |-> IF k = m + 1 THEN Step(g[m], m + 1) ELSE g[k]]
      OBVIOUS
    <3>2. \A k \in 0..(m + 1) : h[k] = IF k = m + 1 THEN Step(g[m], m + 1) ELSE g[k]
      BY <3>1
    <3>3. \A k \in 0..(m + 1) : h[k] = IF k = 0 THEN Unnamed ELSE Step(h[k - 1], k)
      <4> SUFFICES ASSUME NEW k \in 0..(m + 1)
                   PROVE  h[k] = IF k = 0 THEN Unnamed ELSE Step(h[k - 1], k)
        OBVIOUS
      <4>1. CASE k = m + 1
        <5>1. m \in 0..(m + 1) /\ m # m + 1 /\ k # 0 /\ k - 1 = m
          BY <4>1
        <5> QED BY <3>2, <4>1, <5>1
      <4>2. CASE k # m + 1
        <5>1. k \in 0..m /\ (k # 0 => k - 1 \in 0..(m + 1) /\ k - 1 # m + 1)
          BY <4>2
        <5> QED BY <2>2, <3>2, <4>2, <5>1
      <4> QED BY <4>1, <4>2
    <3>4. Steps(h, m + 1)
      BY <3>1, <3>3
    <3> QED BY <3>4
  <2>3. \A m \in Nat : m \in T => m + 1 \in T
    <3> HIDE DEF Steps
    <3> QED BY <2>2
  <2>4. n \in T
    <3> HIDE DEF T
    <3> QED BY <1>n, <2>1, <2>3, SetInduction
  <2>5. PICK g : Steps(g, n)
    BY <2>4
  <2>6. PICK h : h = [k \in 0..n |-> g[k]]
    OBVIOUS
  <2>7. \A k \in 0..n : h[k] = g[k] /\ (k # 0 => k - 1 \in 0..n)
    BY <1>n, <2>6
  <2>8. \A k \in 0..n : h[k] = IF k = 0 THEN Unnamed ELSE Step(h[k - 1], k)
    BY <2>5, <2>7
  <2>9. Eq(h)
    BY <2>6, <2>8
  <2> QED BY <2>9
<1>e3. Eq(it)
  <2> HIDE DEF Eq
  <2> QED BY <1>e2
<1> HIDE DEF it
<1>e4. it[0] = Unnamed /\ \A k \in 1..n : it[k] = Step(it[k - 1], k)
  <2> HIDE DEF Step
  <2>1. 0 \in 0..n /\ \A k \in 1..n : k \in 0..n /\ k # 0
    BY <1>n
  <2> QED BY <1>e3, <2>1
<1> QED BY <1>n, <1>e1, <1>e4

\* All of a table is searched for n.
LEMMA FindAll ==
  ASSUME NEW es, NamesOK(es, TRUE), NEW n \in Name,
         NEW s, s[0] = Unnamed, \A i \in 1..Len(es) : s[i] = FindStep(Key(n), s[i - 1], i, es[i]),
         NEW x, x = Stopped(s[Len(es)], Len(es))
  PROVE  Found(es, n, x) \/ Ended(es, n, x)
<1>1. Written(es) /\ (\A j \in Live(es) : Behind(es, j)) /\ es \in Seq(DirEnt) /\ Len(es) \in Nat
  BY DEF NamesOK, Written
<1> DEFINE P(i) == Looking(es, n, i, s[i]) \/ Found(es, n, s[i]) \/ Ended(es, n, s[i])
           T == {i \in Nat : i <= Len(es) => P(i)}
<1>2. 0 \in T
  <2>1. Looking(es, n, 0, Unnamed)
    <3>1. Unnamed \in Searching /\ Unnamed.stop = 0 /\ ~Unnamed.found /\ Unnamed.ord = NoOrd /\ Unnamed.blk = 0
      BY DEF Unnamed, Searching, NoOrd
    <3>2. ASSUME NEW at \in Live(es), 0 < at, at - 0 < NEnt(es[at].of) PROVE FALSE
      <4>1. at \in Nat /\ es[at] \in DirEnt /\ es[at].kind = "sfn"
        BY <1>1 DEF Live
      <4>2. NEnt(es[at].of) \in Nat
        BY <4>1, Kinds, NameIs
      <4>3. at \in 1..(NEnt(es[at].of) - 1)
        BY <3>2, <4>1, <4>2
      <4>4. at - at >= 1
        BY <1>1, <4>3 DEF Behind
      <4> QED BY <4>1, <4>4
    <3> QED BY <3>1, <3>2 DEF Looking
  <2> QED BY <2>1
<1>3. \A i \in Nat : i \in T => i + 1 \in T
  <2> SUFFICES ASSUME NEW i \in Nat, i + 1 <= Len(es), P(i) PROVE P(i + 1)
    <3>1. \A i \in Nat : i + 1 <= Len(es) => i <= Len(es)
      BY <1>1
    <3> HIDE DEF P
    <3> QED BY <3>1
  <2>1. PICK k \in 1..Len(es) : k = i + 1 /\ k - 1 = i
    BY <1>1
  <2>2. s[k] = FindStep(Key(n), s[i], k, es[k])
    BY <2>1
  <2>3. CASE Looking(es, n, i, s[i])
    <3>1. Looking(es, n, k - 1, s[i])
      BY <2>1, <2>3
    <3> QED BY <1>1, <2>1, <2>2, <3>1, FindOne
  <2>4. CASE Found(es, n, s[i])
    <3>1. s[i].stop # 0
      BY <2>4 DEF Found, Live
    <3> QED BY <2>1, <2>2, <2>4, <3>1, FindNoMore
  <2>5. CASE Ended(es, n, s[i])
    <3>1. s[i].stop # 0
      BY <2>5 DEF Ended
    <3> QED BY <2>1, <2>2, <2>5, <3>1, FindNoMore
  <2> QED BY <2>3, <2>4, <2>5
<1>4. P(Len(es))
  <2>1. Len(es) \in T
    <3> HIDE DEF T
    <3> QED BY <1>1, <1>2, <1>3, SetInduction
  <2> HIDE DEF P
  <2> QED BY <1>1, <2>1
<1>5. PICK y : y = s[Len(es)]
  OBVIOUS
<1>6. CASE Looking(es, n, Len(es), y)
  <2>1. y \in Searching /\ y.stop = 0 /\ ~y.found
    BY <1>6 DEF Looking
  <2>2. x = [y EXCEPT !.stop = Len(es) + 1]
    BY <1>5, <2>1 DEF Stopped
  <2>3. x \in Searching /\ ~x.found /\ x.stop = Len(es) + 1 /\ x.stop \in 1..(Len(es) + 1)
    BY <1>1, <2>1, <2>2 DEF Searching
  <2>4. \A j \in Live(es) : es[j].of # n
    BY <1>6 DEF Looking, Live
  <2> QED BY <2>3, <2>4 DEF Ended
<1>7. CASE Found(es, n, y)
  <2>1. y.stop # 0
    BY <1>7 DEF Found, Live
  <2> QED BY <1>5, <1>7, <2>1 DEF Stopped
<1>8. CASE Ended(es, n, y)
  <2>1. y.stop # 0
    BY <1>8 DEF Ended
  <2> QED BY <1>5, <1>8, <2>1 DEF Stopped
<1> QED BY <1>4, <1>5, <1>6, <1>7, <1>8

\* dir_find() for the name n: it is found just when it is there, and the window is on it.
THEOREM DirFindIs ==
  ASSUME NEW Z, NEW v, VolOK(v, Z), NEW t, NEW es, Holds(Show(v), t, es), NamesOK(es, TRUE),
         TabSects(Show(v)[FAT], t) \subseteq Z, NEW n \in Name, NEW r, r = DirFind(v, t, Key(n))
  PROVE  /\ VolOK(r.v, Z) /\ Moved(v, r.v) /\ r.found \in BOOLEAN
         /\ r.found => /\ r.at \in Live(es) /\ es[r.at].of = n /\ OnEntry(r.v, Show(v), t, r.at)
                       /\ r.blk \in Nat
                       /\ r.blk # 0 => r.blk < r.at /\ \A j \in r.blk..(r.at - 1) : es[j].kind = "lfn"
                       /\ Info[n].lfn => r.blk = r.at - (NEnt(n) - 1)
         /\ ~r.found => \A j \in Live(es) : es[j].of # n
<1>1. Entries(v, t) = es /\ Len(es) \in Nat /\ Len(es) >= U
  BY EntriesAre
<1>2. PICK s, x : /\ s[0] = Unnamed /\ \A i \in 1..Len(es) : s[i] = FindStep(Key(n), s[i - 1], i, es[i])
                  /\ x = Stopped(s[Len(es)], Len(es))
                  /\ r = [v |-> Scan(v, t, 1, x.stop), found |-> x.found, at |-> x.stop, blk |-> x.blk]
  BY <1>1, FindStates
<1>3. Found(es, n, x) \/ Ended(es, n, x)
  BY <1>2, FindAll
<1>4. /\ r.v = Scan(v, t, 1, x.stop) /\ r.found = x.found /\ r.at = x.stop /\ r.blk = x.blk
      /\ x \in Searching
  BY <1>2, <1>3 DEF Found, Ended
<1>5. 1 \in 1..Len(es) /\ x.stop \in 1..(Len(es) + 1) /\ (x.found => x.stop <= Len(es))
  <2>1. 1 \in 1..Len(es)
    BY <1>1, FatAssumption
  <2> QED BY <1>1, <1>3, <2>1 DEF Found, Ended, Live
<1>6. VolOK(r.v, Z) /\ Moved(v, r.v) /\ (x.stop <= Len(es) => OnEntry(r.v, Show(v), t, x.stop))
  BY <1>4, <1>5, ScanIs
<1> QED BY <1>3, <1>4, <1>5, <1>6 DEF Found, Ended, Searching

\* After i entries, none had the short name c.
NotYet(es, c, i, s) ==
  /\ s \in Searching /\ s.stop = 0 /\ ~s.found /\ s.ord = NoOrd
  /\ \A j \in 1..i : es[j] # Zero /\ (es[j].kind = "sfn" => es[j].sfn # c)

SfnKnown(es, c, s) ==
  /\ s \in Searching /\ s.stop \in 1..(Len(es) + 1)
  /\ s.found <=> \E j \in Live(es) : es[j].sfn = c
  /\ s.found => s.stop <= Len(es)

\* A key that is a short name only.
LEMMA NumOne ==
  ASSUME NEW es, Written(es), NEW c, c[1] \notin {".", ".."}, NEW i \in 1..Len(es),
         NEW s, NotYet(es, c, i - 1, s),
         NEW key, key.nolfn, ~key.loss, key.sfn = c, NEW r, r = FindStep(key, s, i, es[i])
  PROVE  NotYet(es, c, i, r) \/ SfnKnown(es, c, r)
<1>1. PICK e : e = es[i] /\ e \in DirEnt
  BY DEF Written
<1>2. s \in Searching /\ s.stop = 0 /\ ~s.found /\ s.ord = NoOrd /\ i \in Nat /\ i # 0 /\ Len(es) \in Nat
  BY DEF NotYet, Written
<1>3. ~LfnMatched(s, e)
  BY <1>2 DEF LfnMatched, NoOrd
<1>4. \A j \in 1..(i - 1) : es[j] # Zero /\ (es[j].kind = "sfn" => es[j].sfn # c)
  BY DEF NotYet
<1>5. \A j \in 1..i : j = i \/ j \in 1..(i - 1)
  OBVIOUS
<1>6. CASE e.kind = "zero"
  <2>1. r = [s EXCEPT !.stop = i] /\ e = Zero
    BY <1>1, <1>2, <1>6, Kinds DEF FindStep
  <2>2. r \in Searching /\ ~r.found /\ r.stop = i /\ r.stop \in 1..(Len(es) + 1)
    BY <1>2, <2>1 DEF Searching
  <2>3. ASSUME NEW j \in Live(es) PROVE es[j].sfn # c
    <3>1. j \in 1..(i - 1) \/ j \in i..Len(es)
      BY <1>2 DEF Live
    <3>2. CASE j \in 1..(i - 1)
      BY <1>4, <3>2 DEF Live
    <3>3. CASE j \in i..Len(es)
      <4>1. es[j] = Zero
        BY <1>1, <2>1, <3>3 DEF Written
      <4> QED BY <4>1 DEF Live, Zero
    <3> QED BY <3>1, <3>2, <3>3
  <2> QED BY <2>2, <2>3 DEF SfnKnown
<1>7. CASE e.kind = "lfn"
  <2>1. r = s
    BY <1>1, <1>2, <1>7 DEF FindStep
  <2>2. e # Zero
    BY <1>7 DEF Zero
  <2> QED BY <1>1, <1>2, <1>4, <1>5, <1>7, <2>1, <2>2 DEF NotYet
<1>8. CASE e.kind = "deleted" \/ (e.kind \in {"sfn", "dot"} /\ c # e.sfn)
  <2>1. r = [s EXCEPT !.ord = NoOrd, !.blk = 0]
    BY <1>1, <1>2, <1>3, <1>8 DEF FindStep
  <2>2. e # Zero
    BY <1>8 DEF Zero
  <2>3. r \in Searching /\ r.stop = 0 /\ ~r.found /\ r.ord = NoOrd
    <3>1. NoOrd \in Nat
      BY DEF NoOrd
    <3> QED BY <1>2, <2>1, <3>1 DEF Searching
  <2> QED BY <1>1, <1>4, <1>5, <1>8, <2>2, <2>3 DEF NotYet
<1>9. CASE e.kind \in {"sfn", "dot"} /\ c = e.sfn
  <2>1. e.kind = "sfn"
    <3>1. CASE e.kind = "dot"
      <4>1. e.sfn \in {<<".", 0>>, <<"..", 0>>}
        BY <1>1, <3>1, Kinds
      <4>2. e.sfn[1] \in {".", ".."}
        BY <4>1
      <4> QED BY <1>9, <4>2
    <3> QED BY <1>9, <3>1
  <2>2. r = [s EXCEPT !.stop = i, !.found = TRUE]
    BY <1>1, <1>2, <1>9, <2>1 DEF FindStep
  <2>3. r \in Searching /\ r.stop = i /\ r.found /\ i \in 1..(Len(es) + 1) /\ i <= Len(es)
    <3>1. i \in 1..(Len(es) + 1) /\ i <= Len(es)
      BY <1>2
    <3>2. r \in Searching /\ r.stop = i /\ r.found
      BY <1>2, <2>2 DEF Searching
    <3> QED BY <3>1, <3>2
  <2>4. i \in Live(es) /\ es[i].sfn = c
    BY <1>1, <1>9, <2>1 DEF Live
  <2> QED BY <2>3, <2>4 DEF SfnKnown
<1> QED BY <1>1, <1>6, <1>7, <1>8, <1>9, Kinds

\* dir_find() for a short name only.
Numbered(n, k) == Info[n].num[k]
InUse(es, c)   == \E j \in Live(es) : es[j].sfn = c

\* dir_find() for a numbered short name finds it when it is in use.
LEMMA NumIs ==
  ASSUME NEW v, NEW t, NEW es, Holds(Show(v), t, es), NamesOK(es, TRUE),
         NEW n \in Name, Info[n].loss, NEW k \in 1..Tries, NEW r, r = DirFind(v, t, NumKey(n, k))
  PROVE  /\ r.found <=> InUse(es, Numbered(n, k))
         /\ r.found \in BOOLEAN
         /\ r.v = Scan(v, t, 1, r.at) /\ r.at \in 1..(Len(es) + 1) /\ (r.found => r.at <= Len(es))
<1>1. Entries(v, t) = es /\ Len(es) \in Nat /\ Written(es)
  BY EntriesAre DEF NamesOK
<1>2. PICK key, c : key = NumKey(n, k) /\ c = Info[n].num[k]
  OBVIOUS
<1>3. key.nolfn /\ ~key.loss /\ key.sfn = c /\ c[1] \notin {".", ".."}
  <2>1. key.nolfn /\ ~key.loss /\ key.sfn = Info[n].num[k]
    BY <1>2 DEF NumKey, Key
  <2> QED BY <1>2, <2>1, NumberedIs
<1>4. PICK s, x : /\ s[0] = Unnamed /\ \A i \in 1..Len(es) : s[i] = FindStep(key, s[i - 1], i, es[i])
                  /\ x = Stopped(s[Len(es)], Len(es))
                  /\ r = [v |-> Scan(v, t, 1, x.stop), found |-> x.found, at |-> x.stop, blk |-> x.blk]
  BY <1>1, <1>2, FindStates
<1> DEFINE P(i) == NotYet(es, c, i, s[i]) \/ SfnKnown(es, c, s[i])
           T == {i \in Nat : i <= Len(es) => P(i)}
<1>5. 0 \in T
  <2>1. Unnamed \in Searching /\ Unnamed.stop = 0 /\ ~Unnamed.found /\ Unnamed.ord = NoOrd
    BY DEF Unnamed, Searching, NoOrd
  <2>2. \A j \in 1..0 : FALSE
    OBVIOUS
  <2>3. NotYet(es, c, 0, s[0])
    BY <1>4, <2>1, <2>2 DEF NotYet
  <2> QED BY <2>3
<1>6. \A i \in Nat : i \in T => i + 1 \in T
  <2> SUFFICES ASSUME NEW i \in Nat, i + 1 <= Len(es), P(i) PROVE P(i + 1)
    <3>1. \A i \in Nat : i + 1 <= Len(es) => i <= Len(es)
      BY <1>1
    <3> HIDE DEF P
    <3> QED BY <3>1
  <2>1. PICK j \in 1..Len(es) : j = i + 1 /\ j - 1 = i
    BY <1>1
  <2>2. s[j] = FindStep(key, s[i], j, es[j])
    BY <1>4, <2>1
  <2>3. CASE NotYet(es, c, i, s[i])
    <3>1. NotYet(es, c, j - 1, s[i])
      BY <2>1, <2>3
    <3> QED BY <1>1, <1>3, <2>1, <2>2, <3>1, NumOne
  <2>4. CASE SfnKnown(es, c, s[i])
    <3>1. s[i].stop # 0
      BY <2>4 DEF SfnKnown
    <3> QED BY <2>1, <2>2, <2>4, <3>1, FindNoMore
  <2> QED BY <2>3, <2>4
<1>7. P(Len(es))
  <2>1. Len(es) \in T
    <3> HIDE DEF T
    <3> QED BY <1>1, <1>5, <1>6, SetInduction
  <2> HIDE DEF P
  <2> QED BY <1>1, <2>1
<1>8. PICK y : y = s[Len(es)] /\ x = Stopped(y, Len(es))
  BY <1>4
<1>9. SfnKnown(es, c, x)
  <2>1. CASE NotYet(es, c, Len(es), y)
    <3>1. y \in Searching /\ y.stop = 0 /\ ~y.found
      BY <2>1 DEF NotYet
    <3>2. x = [y EXCEPT !.stop = Len(es) + 1]
      BY <1>8, <3>1 DEF Stopped
    <3>3. x \in Searching /\ ~x.found /\ x.stop \in 1..(Len(es) + 1)
      BY <1>1, <3>1, <3>2 DEF Searching
    <3>4. \A j \in Live(es) : es[j].sfn # c
      BY <2>1 DEF NotYet, Live
    <3> QED BY <3>3, <3>4 DEF SfnKnown
  <2>2. CASE SfnKnown(es, c, y)
    <3>1. y.stop # 0
      BY <2>2 DEF SfnKnown
    <3> QED BY <1>8, <2>2, <3>1 DEF Stopped
  <2> QED BY <1>7, <1>8, <2>1, <2>2
<1>10. r.v = Scan(v, t, 1, x.stop) /\ r.found = x.found /\ r.at = x.stop
  BY <1>4
<1> QED BY <1>2, <1>9, <1>10 DEF SfnKnown, Searching, InUse, Numbered

\* A set of numbers has a smallest one.
LEMMA SmallestIn ==
  ASSUME NEW T \in SUBSET Nat, T # {}
  PROVE  \E k \in T : \A j \in T : k <= j
<1> DEFINE L == {n \in Nat : (\E k \in T : k <= n) => \E k \in T : \A j \in T : k <= j}
<1>1. 0 \in L
  OBVIOUS
<1>2. ASSUME NEW n \in Nat, n \in L PROVE n + 1 \in L
  <2>1. CASE \E k \in T : k <= n
    BY <1>2, <2>1
  <2>2. CASE ~\E k \in T : k <= n
    <3>1. ASSUME NEW k \in T, k <= n + 1 PROVE \A j \in T : k <= j
      BY <2>2, <3>1
    <3> QED BY <3>1
  <2> QED BY <2>1, <2>2
<1>3. Nat \subseteq L
  <2>1. L \subseteq Nat
    OBVIOUS
  <2> HIDE DEF L
  <2> QED BY <1>1, <1>2, <2>1, SetInduction
<1>4. PICK m \in T : TRUE
  OBVIOUS
<1>5. m \in Nat /\ m <= m
  OBVIOUS
<1> QED BY <1>3, <1>4, <1>5

\* gen_numname() and dir_find() come to the first numbered name that no entry of
\* the table has, in sequence or hashed, or to the end of the tries when, and only
\* when, every one of them is taken.
THEOREM NumberIs ==
  ASSUME NEW v, NEW t, NEW es, Holds(Show(v), t, es), NamesOK(es, TRUE),
         NEW n \in Name, Info[n].loss, NEW k, k = Number(v, t, n)
  PROVE  \/ k = 0 /\ \A i \in 1..Tries : InUse(es, Numbered(n, i))
         \/ /\ k \in 1..Tries /\ Numbered(n, k) \in SfnOf(n)
            /\ ~InUse(es, Numbered(n, k)) /\ \A i \in 1..(k - 1) : InUse(es, Numbered(n, i))
<1> DEFINE Has(i) == DirFind(v, t, NumKey(n, i)).found
           Least(i) == ~Has(i) /\ \A j \in 1..(i - 1) : Has(j)
           Firsts == {i \in 1..Tries : Least(i)}
<1>1. k = IF Firsts = {} THEN 0 ELSE CHOOSE i \in Firsts : TRUE
  BY DEF Number, FirstFreeNumber
<1>2. \A i \in 1..Tries : Has(i) <=> InUse(es, Numbered(n, i))
  BY NumIs
<1>3. Tries \in Nat
  BY NameAssumption
<1> HIDE DEF Has
<1>4. CASE Firsts = {}
  <2>1. ASSUME NEW i \in 1..Tries, ~Has(i) PROVE FALSE
    <3>1. PICK B : B = {j \in 1..Tries : ~Has(j)}
      OBVIOUS
    <3>2. B \in SUBSET Nat /\ B # {}
      BY <1>3, <2>1, <3>1
    <3>3. PICK j \in B : \A q \in B : j <= q
      BY <3>2, SmallestIn
    <3>4. ASSUME NEW q \in 1..(j - 1) PROVE Has(q)
      <4>1. q \in 1..Tries /\ ~(j <= q)
        BY <1>3, <3>1, <3>3
      <4> QED BY <3>1, <3>3, <4>1
    <3>5. j \in Firsts
      BY <3>1, <3>3, <3>4
    <3> QED BY <1>4, <3>5
  <2> QED BY <1>1, <1>2, <1>4, <2>1
<1>5. CASE Firsts # {}
  <2>1. k \in Firsts
    <3> HIDE DEF Firsts
    <3> QED BY <1>1, <1>5
  <2>2. k \in 1..Tries /\ ~Has(k) /\ \A j \in 1..(k - 1) : Has(j)
    BY <2>1
  <2>3. \A j \in 1..(k - 1) : j \in 1..Tries
    BY <1>3, <2>2
  <2>4. Numbered(n, k) \in SfnOf(n)
    BY <2>2, NumberedIs DEF Numbered
  <2> QED BY <1>2, <2>2, <2>3, <2>4
<1> QED BY <1>4, <1>5

\* Looking for numbered names moves the window and nothing else.
LEMMA SearchedIs ==
  ASSUME NEW Z, NEW v, VolOK(v, Z), NEW t, NEW es, Holds(Show(v), t, es),
         TabSects(Show(v)[FAT], t) \subseteq Z, NamesOK(es, TRUE),
         NEW n \in Name, Info[n].loss, NEW q \in 0..Tries, NEW w, w = Searched(v, t, n, q)
  PROVE  VolOK(w, Z) /\ Moved(v, w)
<1>1. q \in Nat /\ Tries \in Nat /\ q <= Tries
  BY NameAssumption
<1> DEFINE Step(u, k) == DirFind(u, t, NumKey(n, k)).v
           Eq(g) == g = [k \in 0..q |-> IF k = 0 THEN v ELSE Step(g[k - 1], k)]
           it == CHOOSE g : Eq(g)
<1>2. w = it[q]
  BY DEF Searched
<1>3. \E g : Eq(g)
  <2> HIDE DEF Step
  <2> DEFINE Steps(g, m) == /\ DOMAIN g = 0..m
                            /\ \A k \in 0..m : g[k] = IF k = 0 THEN v ELSE Step(g[k - 1], k)
             T == {m \in Nat : \E g : Steps(g, m)}
  <2>1. 0 \in T
    <3>1. 0..0 = {0}
      OBVIOUS
    <3>2. PICK g : g = [k \in {0} |-> v]
      OBVIOUS
    <3>3. Steps(g, 0)
      BY <3>1, <3>2
    <3> QED BY <3>3
  <2>2. ASSUME NEW m \in Nat, NEW g, Steps(g, m) PROVE \E h : Steps(h, m + 1)
    <3>1. PICK h : h = [k \in 0..(m + 1) |-> IF k = m + 1 THEN Step(g[m], m + 1) ELSE g[k]]
      OBVIOUS
    <3>2. \A k \in 0..(m + 1) : h[k] = IF k = m + 1 THEN Step(g[m], m + 1) ELSE g[k]
      BY <3>1
    <3>3. \A k \in 0..(m + 1) : h[k] = IF k = 0 THEN v ELSE Step(h[k - 1], k)
      <4> SUFFICES ASSUME NEW k \in 0..(m + 1)
                   PROVE  h[k] = IF k = 0 THEN v ELSE Step(h[k - 1], k)
        OBVIOUS
      <4>1. CASE k = m + 1
        <5>1. m \in 0..(m + 1) /\ m # m + 1 /\ k # 0 /\ k - 1 = m
          BY <4>1
        <5> QED BY <3>2, <4>1, <5>1
      <4>2. CASE k # m + 1
        <5>1. k \in 0..m /\ (k # 0 => k - 1 \in 0..(m + 1) /\ k - 1 # m + 1)
          BY <4>2
        <5> QED BY <2>2, <3>2, <4>2, <5>1
      <4> QED BY <4>1, <4>2
    <3>4. Steps(h, m + 1)
      BY <3>1, <3>3
    <3> QED BY <3>4
  <2>3. \A m \in Nat : m \in T => m + 1 \in T
    <3> HIDE DEF Steps
    <3> QED BY <2>2
  <2>4. q \in T
    <3> HIDE DEF T
    <3> QED BY <1>1, <2>1, <2>3, SetInduction
  <2>5. PICK g : Steps(g, q)
    BY <2>4
  <2>6. PICK h : h = [k \in 0..q |-> g[k]]
    OBVIOUS
  <2>7. \A k \in 0..q : h[k] = g[k] /\ (k # 0 => k - 1 \in 0..q)
    BY <1>1, <2>6
  <2>8. \A k \in 0..q : h[k] = IF k = 0 THEN v ELSE Step(h[k - 1], k)
    BY <2>5, <2>7
  <2>9. Eq(h)
    BY <2>6, <2>8
  <2> QED BY <2>9
<1>4. Eq(it)
  <2> HIDE DEF Eq
  <2> QED BY <1>3
<1> HIDE DEF it
<1>5. it[0] = v /\ \A k \in 1..q : it[k] = Step(it[k - 1], k)
  <2> HIDE DEF Step
  <2>1. 0 \in 0..q /\ \A k \in 1..q : k \in 0..q /\ k # 0
    BY <1>1
  <2> QED BY <1>4, <2>1
<1> DEFINE Right(k) == VolOK(it[k], Z) /\ Moved(v, it[k])
           T == {k \in Nat : k <= q => Right(k)}
<1>6. 0 \in T
  BY <1>5, NotMoved
<1>7. ASSUME NEW k \in Nat, k + 1 <= q, Right(k) PROVE Right(k + 1)
  <2>1. k + 1 \in 1..q /\ k + 1 \in 1..Tries /\ (k + 1) - 1 = k
    BY <1>1, <1>7
  <2>2. PICK u, j : u = it[k] /\ j = k + 1 /\ VolOK(u, Z) /\ Moved(v, u)
    BY <1>7
  <2>3. Show(u) = Show(v)
    BY <2>2 DEF Moved
  <2>4. PICK x : x = DirFind(u, t, NumKey(n, j))
    OBVIOUS
  <2>5. x.v = Scan(u, t, 1, x.at) /\ x.at \in 1..(Len(es) + 1)
    <3>1. Holds(Show(u), t, es) /\ j \in 1..Tries
      BY <2>1, <2>2, <2>3
    <3> QED BY <2>4, <3>1, NumIs
  <2>6. VolOK(x.v, Z) /\ Moved(u, x.v)
    <3>1. Len(es) \in Nat /\ Len(es) >= U /\ U >= 2 /\ U \in Nat
      BY EntriesAre, FatAssumption
    <3>2. PICK i \in 1..Len(es) : i = 1
      BY <3>1
    <3>3. x.at \in i..(Len(es) + 1) /\ x.v = Scan(u, t, i, x.at)
      BY <2>5, <3>2
    <3>4. Holds(Show(u), t, es) /\ TabSects(Show(u)[FAT], t) \subseteq Z
      BY <2>3
    <3>5. VolOK(x.v, Z)
      BY <2>2, <3>3, <3>4, ScanIs
    <3>6. Moved(u, x.v)
      BY <2>2, <3>3, <3>4, ScanIs
    <3> QED BY <3>5, <3>6
  <2>7. it[k + 1] = x.v
    BY <1>5, <2>1, <2>2, <2>4
  <2> QED BY <2>2, <2>6, <2>7, MovedOn
<1>8. \A k \in Nat : k \in T => k + 1 \in T
  <2> HIDE DEF Right
  <2>1. ASSUME NEW k \in Nat, k <= q => Right(k), k + 1 <= q PROVE Right(k + 1)
    <3>1. k <= q
      BY <1>1, <2>1
    <3> QED BY <1>7, <2>1, <3>1
  <2> QED BY <2>1
<1>9. Right(q)
  <2>1. q \in T
    <3> HIDE DEF T
    <3> QED BY <1>1, <1>6, <1>8, SetInduction
  <2> HIDE DEF Right
  <2> QED BY <1>1, <2>1
<1> QED BY <1>2, <1>9

-----------------------------------------------------------------------------
(* Reading a table *)

\* Entry i is a piece of the name at "at", whose pieces begin at or after "from".
PieceOf(es, from, i, at) ==
  at \in Live(es) /\ i < at /\ at - i < NEnt(es[at].of) /\ at - (NEnt(es[at].of) - 1) >= from

\* From entry "from" to entry i, there was no name; the pieces up to entry i of the
\* name to come are remembered.
Reading(es, from, i, s) ==
  /\ s \in Searching /\ s.stop = 0 /\ ~s.found
  /\ \A j \in from..i : es[j] # Zero /\ es[j].kind # "sfn"
  /\ \A at \in Live(es) : PieceOf(es, from, i, at) =>
       s.ord = at - i - 1 /\ s.sum = es[at].sfn /\ s.blk = at - (NEnt(es[at].of) - 1)

ReadEnded(es, from, s) ==
  /\ s \in Searching /\ s.stop \in from..(Len(es) + 1)
  /\ s.found => /\ s.stop \in Live(es)
                /\ \A j \in Live(es) : j >= from => j >= s.stop
                /\ Info[es[s.stop].of].lfn /\ s.stop - (NEnt(es[s.stop].of) - 1) >= from => s.blk # 0
  /\ ~s.found => \A j \in Live(es) : j < from

\* What reading knows after one entry.
LEMMA ReadOne ==
  ASSUME NEW es, Written(es), \A j \in Live(es) : Behind(es, j),
         NEW from \in Nat, from # 0, NEW i \in from..Len(es),
         NEW s, Reading(es, from, i - 1, s), NEW r, r = ReadStep(s, i, es[i])
  PROVE  Reading(es, from, i, r) \/ ReadEnded(es, from, r)
<1>1. PICK e : e = es[i] /\ e \in DirEnt /\ i \in 1..Len(es)
  BY DEF Written
<1>2. s \in Searching /\ s.stop = 0 /\ ~s.found /\ i \in Nat /\ i # 0 /\ Len(es) \in Nat
  BY DEF Reading, Written
<1>3. \A j \in from..(i - 1) : es[j] # Zero /\ es[j].kind # "sfn"
  BY DEF Reading
<1>4. \A j \in from..i : j = i \/ j \in from..(i - 1)
  OBVIOUS
<1>5. i \in from..(Len(es) + 1)
  BY <1>1, <1>2
<1>p. ASSUME NEW at \in Live(es), PieceOf(es, from, i, at)
      PROVE  /\ e = Piece(es[at].of, at - i, es[at].sfn) /\ e.kind = "lfn"
             /\ at - i \in 1..(NEnt(es[at].of) - 1) /\ NEnt(es[at].of) \in Nat
             /\ es[at].of \in Name /\ es[at].sfn \in SfnOf(es[at].of)
             /\ at \in Nat /\ at - (NEnt(es[at].of) - 1) >= from
  <2>1. es[at].of \in Name /\ es[at].sfn \in SfnOf(es[at].of) /\ at \in 1..Len(es)
    <3>1. es[at] \in DirEnt /\ es[at].kind = "sfn" /\ es[at].sfn \in SfnOf(es[at].of) /\ at \in 1..Len(es)
      BY DEF Written, Live
    <3> QED BY <3>1, Kinds
  <2>2. PICK N \in Nat : N = NEnt(es[at].of)
    BY <2>1, NameIs
  <2>3. at - i \in 1..(N - 1) /\ at \in Nat /\ at - (N - 1) >= from
    BY <1>2, <1>p, <2>1, <2>2 DEF PieceOf
  <2>4. es[at - (at - i)] = Piece(es[at].of, at - i, es[at].sfn)
    BY <2>2, <2>3 DEF Behind
  <2>5. at - (at - i) = i
    BY <1>2, <2>3
  <2>6. e = Piece(es[at].of, at - i, es[at].sfn)
    BY <1>1, <2>4, <2>5
  <2>7. e.kind = "lfn"
    BY <2>6 DEF Piece
  <2> QED BY <2>1, <2>2, <2>3, <2>6, <2>7
<1>6. CASE e.kind = "zero"
  <2>1. r = [s EXCEPT !.stop = i] /\ e = Zero
    BY <1>1, <1>2, <1>6, Kinds DEF ReadStep
  <2>2. r \in Searching /\ ~r.found /\ r.stop = i
    BY <1>2, <2>1 DEF Searching
  <2>3. ASSUME NEW j \in Live(es), j >= from PROVE FALSE
    <3>1. j \in from..(i - 1) \/ j \in i..Len(es)
      BY <1>2, <2>3 DEF Live
    <3>2. CASE j \in from..(i - 1)
      BY <1>3, <3>2 DEF Live
    <3>3. CASE j \in i..Len(es)
      <4>1. es[j] = Zero
        BY <1>1, <2>1, <3>3 DEF Written
      <4> QED BY <4>1 DEF Live, Zero
    <3> QED BY <3>1, <3>2, <3>3
  <2>4. \A j \in Live(es) : j < from
    BY <2>3 DEF Live
  <2> QED BY <1>5, <2>2, <2>4 DEF ReadEnded
<1>7. CASE e.kind \in {"deleted", "dot"}
  <2>1. r = [s EXCEPT !.ord = NoOrd]
    BY <1>1, <1>2, <1>7 DEF ReadStep
  <2>0. e # Zero /\ NoOrd \in Nat
    BY <1>7 DEF Zero, NoOrd
  <2>2. r \in Searching /\ r.stop = 0 /\ ~r.found
    BY <1>2, <2>0, <2>1 DEF Searching
  <2>3. \A at \in Live(es) : ~PieceOf(es, from, i, at)
    BY <1>7, <1>p
  <2> QED BY <1>1, <1>3, <1>4, <1>7, <2>0, <2>2, <2>3 DEF Reading
<1>8. CASE e.kind = "lfn"
  <2>1. r = WithPiece(s, i, e, TRUE) /\ e # Zero
    BY <1>1, <1>2, <1>8 DEF ReadStep, Zero
  <2>2. e.of \in Name /\ e.ord \in 1..(NEnt(e.of) - 1) /\ e.sum \in SfnOf(e.of) /\ e = Piece(e.of, e.ord, e.sum)
    BY <1>1, <1>8, Kinds DEF Written
  <2>3. r \in Searching /\ r.stop = s.stop /\ r.found = s.found
    <3>1. PICK m \in Name, c \in SfnOf(e.of) : m = e.of /\ c = e.sum
      BY <2>2
    <3>2. PICK k \in 1..(NEnt(m) - 1) : k = e.ord
      BY <2>2, <3>1
    <3>3. e = Piece(m, k, c) /\ c \in SfnOf(m) /\ TRUE \in BOOLEAN /\ i \in Nat /\ s \in Searching
      BY <1>2, <2>2, <3>1, <3>2
    <3>4. PICK f \in BOOLEAN : f = TRUE
      OBVIOUS
    <3>5. r = WithPiece(s, i, e, f)
      BY <2>1, <3>4
    <3> QED BY <1>2, <3>3, <3>5, WithPieceIs
  <2>4. ASSUME NEW at \in Live(es), PieceOf(es, from, i, at)
        PROVE  r.ord = at - i - 1 /\ r.sum = es[at].sfn /\ r.blk = at - (NEnt(es[at].of) - 1)
    <3>1. PICK m \in Name : m = es[at].of /\ es[at].sfn \in SfnOf(m)
      BY <1>p, <2>4
    <3>0. PICK c \in SfnOf(m) : c = es[at].sfn
      BY <3>1
    <3>2. PICK N \in Nat : N = NEnt(m)
      BY <3>1, NameIs
    <3>3. PICK k \in 1..(N - 1) : k = at - i /\ at \in Nat /\ at - (N - 1) >= from
      BY <1>p, <2>4, <3>1, <3>2
    <3>4. e = Piece(m, k, c)
      BY <1>p, <2>4, <3>0, <3>1, <3>3
    <3>5. PICK f \in BOOLEAN : f = TRUE
      OBVIOUS
    <3>6. r = WithPiece(s, i, e, f)
      BY <2>1, <3>5
    <3>7. /\ k = N - 1 => r.blk = i /\ r.sum = c /\ r.ord = k - 1
          /\ k # N - 1 => /\ r.blk = s.blk /\ r.sum = s.sum
                          /\ r.ord = IF k = s.ord /\ c = s.sum THEN k - 1 ELSE NoOrd
      <4>1. k \in 1..(NEnt(m) - 1) /\ s \in Searching /\ i \in Nat
        BY <1>2, <3>2
      <4>2. c \in SfnOf(m)
        BY <3>0
      <4>3. /\ k = NEnt(m) - 1 => r.blk = i /\ r.sum = c /\ r.ord = IF f THEN k - 1 ELSE NoOrd
            /\ k # NEnt(m) - 1 => /\ r.blk = s.blk /\ r.sum = s.sum
                                  /\ r.ord = IF k = s.ord /\ c = s.sum /\ f THEN k - 1 ELSE NoOrd
        BY <3>4, <3>6, <4>1, <4>2, WithPieceIs
      <4> QED BY <3>2, <3>5, <4>3
    <3>8. CASE k = N - 1
      <4>1. i = at - (N - 1) /\ k - 1 = at - i - 1
        BY <1>2, <3>3, <3>8
      <4> QED BY <3>0, <3>1, <3>2, <3>7, <3>8, <4>1
    <3>9. CASE k # N - 1
      <4>1. i - 1 < at /\ at - (i - 1) < N /\ at - (i - 1) - 1 = k /\ k - 1 = at - i - 1
        BY <1>2, <3>3, <3>9
      <4>2. PieceOf(es, from, i - 1, at)
        BY <3>1, <3>2, <3>3, <4>1 DEF PieceOf
      <4>3. s.ord = k /\ s.sum = c /\ s.blk = at - (N - 1)
        BY <3>0, <3>1, <3>2, <4>1, <4>2 DEF Reading
      <4> QED BY <3>0, <3>1, <3>2, <3>7, <3>9, <4>1, <4>3
    <3> QED BY <3>8, <3>9
  <2> QED BY <1>1, <1>2, <1>3, <1>4, <1>8, <2>1, <2>3, <2>4 DEF Reading
<1>9. CASE e.kind = "sfn"
  <2>1. r = [s EXCEPT !.stop = i, !.found = TRUE, !.blk = IF LfnMatched(s, e) THEN @ ELSE 0]
    BY <1>1, <1>2, <1>9 DEF ReadStep
  <2>2. r \in Searching /\ r.found /\ r.stop = i
    BY <1>2, <2>1 DEF Searching
  <2>3. i \in Live(es) /\ e.of \in Name /\ e.sfn \in SfnOf(e.of)
    BY <1>1, <1>9, Kinds DEF Live, Written
  <2>4. ASSUME NEW j \in Live(es), j >= from PROVE j >= i
    <3>1. j \in 1..Len(es) /\ es[j].kind = "sfn"
      BY DEF Live
    <3>2. j \notin from..(i - 1)
      BY <1>3, <3>1
    <3> QED BY <1>2, <2>4, <3>1, <3>2
  <2>5. ASSUME Info[e.of].lfn, i - (NEnt(e.of) - 1) >= from PROVE r.blk # 0
    <3>1. PICK N \in Nat : N = NEnt(e.of) /\ N >= 2
      <4>1. NEnt(e.of) = Len(Info[e.of].pieces) + 1 /\ Len(Info[e.of].pieces) \in 1..20
        BY <2>3, <2>5, NameIs
      <4>2. PICK L \in 1..20 : L = Len(Info[e.of].pieces)
        BY <4>1
      <4>3. L + 1 \in Nat /\ L + 1 >= 2
        OBVIOUS
      <4> QED BY <4>1, <4>2, <4>3
    <3>2. i - 1 < i /\ i - (i - 1) = 1 /\ 1 < N /\ 1 - 1 = 0
      BY <1>2, <3>1
    <3>3. PieceOf(es, from, i - 1, i)
      BY <1>1, <2>3, <2>5, <3>1, <3>2 DEF PieceOf
    <3>4. s.ord = 0 /\ s.sum = e.sfn /\ s.blk = i - (N - 1)
      BY <1>1, <2>3, <3>1, <3>2, <3>3 DEF Reading
    <3>5. r.blk = s.blk
      BY <1>2, <2>1, <3>4 DEF LfnMatched, Searching
    <3> QED BY <1>2, <2>5, <3>1, <3>4, <3>5
  <2> QED BY <1>1, <1>5, <2>2, <2>3, <2>4, <2>5 DEF ReadEnded
<1> QED BY <1>1, <1>6, <1>7, <1>8, <1>9, Kinds

\* dir_read() comes to the next name from an entry on and skips none, or to the end
\* when there is none; the name is read as the caller's own, and not by its alias,
\* when its pieces begin at that entry or after it.
THEOREM DirReadIs ==
  ASSUME NEW Z, NEW v, VolOK(v, Z), NEW t, NEW es, Holds(Show(v), t, es), NamesOK(es, TRUE),
         TabSects(Show(v)[FAT], t) \subseteq Z, NEW from \in 1..Len(es), NEW r, r = DirRead(v, t, from)
  PROVE  /\ VolOK(r.v, Z) /\ Moved(v, r.v) /\ r.found \in BOOLEAN
         /\ r.at \in from..(Len(es) + 1)
         /\ r.found => /\ r.at \in Live(es) /\ r.entry = es[r.at]
                       /\ \A j \in Live(es) : j >= from => j >= r.at
                       /\ r.at - (NEnt(es[r.at].of) - 1) >= from => ~r.byAlias
         /\ ~r.found => \A j \in Live(es) : j < from
<1>0. /\ Entries(v, t) = es /\ Len(es) \in Nat /\ from \in Nat /\ from # 0
      /\ Written(es) /\ \A j \in Live(es) : Behind(es, j)
  BY EntriesAre DEF NamesOK
<1>n. PICK n \in Nat : n = Len(es) - from + 1
  BY <1>0
<1> DEFINE Step(u, k) == ReadStep(u, from - 1 + k, es[from - 1 + k])
           Eq(g) == g = [k \in 0..n |-> IF k = 0 THEN Unnamed ELSE Step(g[k - 1], k)]
           it == CHOOSE g : Eq(g)
<1>e1. \E g : Eq(g)
  <2> HIDE DEF Step
  <2> DEFINE Steps(g, m) == /\ DOMAIN g = 0..m
                            /\ \A k \in 0..m : g[k] = IF k = 0 THEN Unnamed ELSE Step(g[k - 1], k)
             T == {m \in Nat : \E g : Steps(g, m)}
  <2>1. 0 \in T
    <3>1. 0..0 = {0}
      OBVIOUS
    <3>2. PICK g : g = [k \in {0} |-> Unnamed]
      OBVIOUS
    <3>3. Steps(g, 0)
      BY <3>1, <3>2
    <3> QED BY <3>3
  <2>2. ASSUME NEW m \in Nat, NEW g, Steps(g, m) PROVE \E h : Steps(h, m + 1)
    <3>1. PICK h : h = [k \in 0..(m + 1) |-> IF k = m + 1 THEN Step(g[m], m + 1) ELSE g[k]]
      OBVIOUS
    <3>2. \A k \in 0..(m + 1) : h[k] = IF k = m + 1 THEN Step(g[m], m + 1) ELSE g[k]
      BY <3>1
    <3>3. \A k \in 0..(m + 1) : h[k] = IF k = 0 THEN Unnamed ELSE Step(h[k - 1], k)
      <4> SUFFICES ASSUME NEW k \in 0..(m + 1)
                   PROVE  h[k] = IF k = 0 THEN Unnamed ELSE Step(h[k - 1], k)
        OBVIOUS
      <4>1. CASE k = m + 1
        <5>1. m \in 0..(m + 1) /\ m # m + 1 /\ k # 0 /\ k - 1 = m
          BY <4>1
        <5> QED BY <3>2, <4>1, <5>1
      <4>2. CASE k # m + 1
        <5>1. k \in 0..m /\ (k # 0 => k - 1 \in 0..(m + 1) /\ k - 1 # m + 1)
          BY <4>2
        <5> QED BY <2>2, <3>2, <4>2, <5>1
      <4> QED BY <4>1, <4>2
    <3>4. Steps(h, m + 1)
      BY <3>1, <3>3
    <3> QED BY <3>4
  <2>3. \A m \in Nat : m \in T => m + 1 \in T
    <3> HIDE DEF Steps
    <3> QED BY <2>2
  <2>4. n \in T
    <3> HIDE DEF T
    <3> QED BY <1>n, <2>1, <2>3, SetInduction
  <2>5. PICK g : Steps(g, n)
    BY <2>4
  <2>6. PICK h : h = [k \in 0..n |-> g[k]]
    OBVIOUS
  <2>7. \A k \in 0..n : h[k] = g[k] /\ (k # 0 => k - 1 \in 0..n)
    BY <1>n, <2>6
  <2>8. \A k \in 0..n : h[k] = IF k = 0 THEN Unnamed ELSE Step(h[k - 1], k)
    BY <2>5, <2>7
  <2>9. Eq(h)
    BY <2>6, <2>8
  <2> QED BY <2>9
<1>e2. Eq(it)
  <2> HIDE DEF Eq
  <2> QED BY <1>e1
<1> HIDE DEF it
<1>e3. it[0] = Unnamed /\ \A k \in 1..n : it[k] = Step(it[k - 1], k)
  <2> HIDE DEF Step
  <2>1. 0 \in 0..n /\ \A k \in 1..n : k \in 0..n /\ k # 0
    BY <1>n
  <2> QED BY <1>e2, <2>1
<1> HIDE DEF Step, Eq
<1> DEFINE Eq2(g) == g = [i \in (from - 1)..Len(es) |->
                            IF i = from - 1 THEN Unnamed ELSE ReadStep(g[i - 1], i, es[i])]
           all == CHOOSE g : Eq2(g)
<1>1. PICK x : /\ x = Stopped(all[Len(es)], Len(es)) /\ r.v = Scan(v, t, from, x.stop)
               /\ r.found = x.found /\ r.at = x.stop /\ r.entry = IF x.found THEN es[x.stop] ELSE Zero
               /\ r.byAlias = ByAlias(es, x)
  <2>1. PICK x : x = Stopped(all[Len(es)], Len(es))
    OBVIOUS
  <2>2. r.v = Scan(v, t, from, x.stop)
    BY <1>0, <2>1 DEF DirRead
  <2>3. r.found = x.found
    BY <1>0, <2>1 DEF DirRead
  <2>4. r.at = x.stop
    BY <1>0, <2>1 DEF DirRead
  <2>5. r.entry = IF x.found THEN es[x.stop] ELSE Zero
    <3>1. r.entry = EntryRead(es, x)
      BY <1>0, <2>1 DEF DirRead
    <3> HIDE DEF all
    <3> QED BY <3>1 DEF EntryRead
  <2>6. r.byAlias = ByAlias(es, x)
    BY <1>0, <2>1 DEF DirRead
  <2> HIDE DEF all
  <2> QED BY <2>1, <2>2, <2>3, <2>4, <2>5, <2>6
<1>2. \E g : Eq2(g)
  <2>1. PICK h : h = [i \in (from - 1)..Len(es) |-> it[i - from + 1]]
    OBVIOUS
  <2>2. \A i \in (from - 1)..Len(es) : h[i] = it[i - from + 1]
    BY <2>1
  <2>3. \A i \in (from - 1)..Len(es) : h[i] = IF i = from - 1 THEN Unnamed ELSE ReadStep(h[i - 1], i, es[i])
    <3> SUFFICES ASSUME NEW i \in (from - 1)..Len(es)
                 PROVE  h[i] = IF i = from - 1 THEN Unnamed ELSE ReadStep(h[i - 1], i, es[i])
      OBVIOUS
    <3>1. CASE i = from - 1
      <4>1. i - from + 1 = 0
        BY <1>0, <3>1
      <4> QED BY <1>e3, <2>2, <3>1, <4>1
    <3>2. CASE i # from - 1
      <4>1. PICK k \in 1..n : k = i - from + 1 /\ from - 1 + k = i
        BY <1>0, <1>n, <3>2
      <4>2. i - 1 \in (from - 1)..Len(es) /\ (i - 1) - from + 1 = k - 1
        BY <1>0, <3>2, <4>1
      <4>3. it[k] = Step(it[k - 1], k)
        BY <1>e3, <4>1
      <4>4. it[k] = ReadStep(it[k - 1], i, es[i])
        BY <4>1, <4>3 DEF Step
      <4>5. h[i - 1] = it[k - 1] /\ h[i] = it[k]
        BY <2>2, <4>1, <4>2
      <4> QED BY <3>2, <4>4, <4>5
    <3> QED BY <3>1, <3>2
  <2>4. Eq2(h)
    BY <2>1, <2>3
  <2> QED BY <2>4
<1>3. Eq2(all)
  <2> HIDE DEF Eq2
  <2> QED BY <1>2
<1> HIDE DEF all
<1>4. /\ all[from - 1] = Unnamed
      /\ \A i \in from..Len(es) : all[i] = ReadStep(all[i - 1], i, es[i])
  <2>1. from - 1 \in (from - 1)..Len(es) /\ \A i \in from..Len(es) : i \in (from - 1)..Len(es) /\ i # from - 1
    BY <1>0
  <2> QED BY <1>3, <2>1
<1> HIDE DEF Eq2
<1> DEFINE P(i) == Reading(es, from, i, all[i]) \/ ReadEnded(es, from, all[i])
           T == {m \in Nat : from - 1 + m <= Len(es) => P(from - 1 + m)}
<1>5. 0 \in T
  <2>1. Unnamed \in Searching /\ Unnamed.stop = 0 /\ ~Unnamed.found
    BY DEF Unnamed, Searching, NoOrd
  <2>2. \A j \in from..(from - 1) : FALSE
    BY <1>0
  <2>5. ASSUME NEW at \in Live(es), PieceOf(es, from, from - 1, at) PROVE FALSE
    <3>1. es[at].of \in Name /\ at \in Nat
      <4>1. es[at] \in DirEnt /\ es[at].kind = "sfn" /\ at \in Nat
        BY <1>0 DEF Written, Live
      <4> QED BY <4>1, Kinds
    <3>2. PICK N \in Nat : N = NEnt(es[at].of)
      BY <3>1, NameIs
    <3>3. at - (from - 1) < N /\ at - (N - 1) >= from
      BY <2>5, <3>2 DEF PieceOf
    <3> QED BY <1>0, <3>1, <3>2, <3>3
  <2>3. Reading(es, from, from - 1, all[from - 1])
    BY <1>4, <2>1, <2>2, <2>5 DEF Reading
  <2>4. from - 1 + 0 = from - 1
    BY <1>0
  <2> QED BY <2>3, <2>4
<1>6. \A m \in Nat : m \in T => m + 1 \in T
  <2>1. ASSUME NEW m \in Nat, from - 1 + (m + 1) <= Len(es), P(from - 1 + m) PROVE P(from - 1 + (m + 1))
    <3>1. PICK j \in from..Len(es) : j = from - 1 + (m + 1) /\ j - 1 = from - 1 + m
      BY <1>0, <2>1
    <3>2. all[j] = ReadStep(all[j - 1], j, es[j])
      BY <1>4, <3>1
    <3>3. CASE Reading(es, from, j - 1, all[j - 1])
      BY <1>0, <3>1, <3>2, <3>3, ReadOne
    <3>4. CASE ReadEnded(es, from, all[j - 1])
      <4>1. all[j - 1].stop # 0
        BY <1>0, <3>4 DEF ReadEnded
      <4>2. all[j] = all[j - 1]
        BY <3>2, <4>1 DEF ReadStep
      <4> QED BY <3>1, <3>4, <4>2
    <3> QED BY <2>1, <3>1, <3>3, <3>4
  <2>2. \A m \in Nat : from - 1 + (m + 1) <= Len(es) => from - 1 + m <= Len(es)
    BY <1>0
  <2> HIDE DEF P
  <2> QED BY <2>1, <2>2
<1>7. P(Len(es))
  <2>1. n \in T
    <3> HIDE DEF T
    <3> QED BY <1>5, <1>6, SetInduction
  <2>2. from - 1 + n = Len(es)
    BY <1>0, <1>n
  <2> HIDE DEF P
  <2> QED BY <2>1, <2>2, <1>0
<1>8. PICK y : y = all[Len(es)] /\ x = Stopped(y, Len(es))
  BY <1>1
<1>9. ReadEnded(es, from, x)
  <2>1. CASE Reading(es, from, Len(es), y)
    <3>1. y \in Searching /\ y.stop = 0 /\ ~y.found
      BY <2>1 DEF Reading
    <3>2. x = [y EXCEPT !.stop = Len(es) + 1]
      BY <1>8, <3>1 DEF Stopped
    <3>3. x \in Searching /\ ~x.found /\ x.stop \in from..(Len(es) + 1)
      BY <1>0, <3>1, <3>2 DEF Searching
    <3>4. ASSUME NEW j \in Live(es) PROVE j < from
      <4>1. j \in 1..Len(es) /\ es[j].kind = "sfn"
        BY DEF Live
      <4> QED BY <1>0, <2>1, <4>1 DEF Reading
    <3> QED BY <3>3, <3>4 DEF ReadEnded
  <2>2. CASE ReadEnded(es, from, y)
    <3>1. y.stop # 0
      BY <1>0, <2>2 DEF ReadEnded
    <3> QED BY <1>8, <2>2, <3>1 DEF Stopped
  <2> QED BY <1>7, <1>8, <2>1, <2>2
<1>10. VolOK(r.v, Z) /\ Moved(v, r.v)
  <2>1. x.stop \in from..(Len(es) + 1)
    BY <1>9 DEF ReadEnded
  <2> QED BY <1>1, <2>1, ScanIs
<1>11. x \in Searching /\ x.stop \in from..(Len(es) + 1)
  BY <1>9 DEF ReadEnded
<1>12. x.found \in BOOLEAN
  BY <1>11 DEF Searching
<1>13. ASSUME x.found, x.stop - (NEnt(es[x.stop].of) - 1) >= from PROVE ~r.byAlias
  BY <1>1, <1>9, <1>13 DEF ByAlias, ReadEnded
<1> QED BY <1>1, <1>9, <1>10, <1>11, <1>12, <1>13 DEF ReadEnded

-----------------------------------------------------------------------------
(* Room for a name *)

\* dir_alloc() takes the first row that is long enough, or ends beyond the table.
LEMMA PlaceIs ==
  ASSUME NEW es \in Seq(DirEnt), NEW n \in Nat, n # 0, NEW i, i = Place(es, n)
  PROVE  /\ i \in n..(Len(es) + n) /\ FreeRow(es, n, i)
         /\ \A k \in n..(i - 1) : ~FreeRow(es, n, k)
<1> DEFINE T == {k \in n..(Len(es) + n) : FreeRow(es, n, k)}
<1>1. Len(es) + n \in T
  <2>1. Len(es) \in Nat /\ DOMAIN es = 1..Len(es)
    OBVIOUS
  <2>2. Len(es) + n \in n..(Len(es) + n)
    BY <2>1
  <2>3. ASSUME NEW j \in (Len(es) + n - n + 1)..(Len(es) + n) PROVE j \notin DOMAIN es
    BY <2>1
  <2> QED BY <2>2, <2>3 DEF FreeRow
<1>2. \A k \in T : k \in Nat
  OBVIOUS
<1>3. \E k \in T : \A j \in T : k <= j
  <2>1. T \in SUBSET Nat /\ T # {}
    BY <1>1, <1>2
  <2> HIDE DEF T
  <2> QED BY <2>1, SmallestIn
<1>4. PICK k \in T : \A j \in T : k <= j
  BY <1>3
<1>5. k \in n..(Len(es) + n) /\ FreeRow(es, n, k) /\ \A j \in n..(k - 1) : ~FreeRow(es, n, j)
  <2>1. k \in n..(Len(es) + n) /\ FreeRow(es, n, k) /\ Len(es) \in Nat
    OBVIOUS
  <2>2. ASSUME NEW j \in n..(k - 1), FreeRow(es, n, j) PROVE FALSE
    <3>1. j \in n..(Len(es) + n) /\ j < k
      BY <2>1
    <3> QED BY <1>4, <2>2, <3>1
  <2> QED BY <2>1, <2>2
<1> QED BY <1>5 DEF Place

\* The zeroed cluster c behind prev.
Cleared(S, c, prev) == WithSect(WithSect(S, FAT, Linked(S[FAT], c, prev)), clst2sect(c), ZEROS)

\* There is room at the end of the row, or there is none; or the table got a cluster.
RoomMade(Z, v, t, es, r) ==
  \/ (r.at <= Len(es) <=> r.ok) /\ VolOK(r.v, Z) /\ Moved(v, r.v)
  \/ /\ r.at > Len(es) /\ r.ok /\ t # 0
     /\ \E c \in Cluster : \E prev :
          /\ prev = Last(Chain(Show(v)[FAT], t)) /\ Show(v)[FAT][c] = FREE
          /\ VolOK(r.v, Z \cup {clst2sect(c)}) /\ r.v.mount = v.mount
          /\ Show(r.v) = Cleared(Show(v), c, prev) /\ Chip(r.v) = Show(r.v)

\* What dir_alloc() does to the volume.
LEMMA DirAllocIs ==
  ASSUME NEW Z, NEW v, VolOK(v, Z), NEW t, NEW es, Holds(Show(v), t, es),
         TabSects(Show(v)[FAT], t) \subseteq Z, Show(v)[FAT] \in FatTables,
         NEW n \in Nat, n # 0, n <= U, NEW r, r = DirAlloc(v, t, n)
  PROVE  /\ r.at = Place(es, n) /\ r.ok \in BOOLEAN
         /\ RoomMade(Z, v, t, es, r)
<1>1. Entries(v, t) = es /\ Len(es) \in Nat /\ Len(es) >= U /\ FatOf(v) = Show(v)[FAT]
  BY EntriesAre
<1>2. PICK S, fat : S = Show(v) /\ fat = S[FAT] /\ S = [s \in Image |-> S[s]]
  BY DEF Show
<1>3. PICK at \in Nat : at = Place(es, n) /\ at >= n /\ at # 0
  <2>1. es \in Seq(DirEnt)
    BY DEF Holds
  <2>2. Place(es, n) \in n..(Len(es) + n)
    BY <2>1, PlaceIs
  <2> QED BY <1>1, <2>2
<1>4. PICK j \in 1..(Len(es) + 1) : j = Lesser(at, Len(es) + 1)
  BY <1>1, <1>3 DEF Lesser
<1>5. PICK w : w = Scan(v, t, 1, j)
  OBVIOUS
<1>6. VolOK(w, Z) /\ Moved(v, w)
  <2>1. 1 \in 1..Len(es)
    BY <1>1, FatAssumption
  <2> QED BY <1>4, <1>5, <2>1, ScanIs
<1>7. PICK prev : prev = Last(Chain(fat, t))
  OBVIOUS
<1>8. PICK new : new = Stretch(w, prev)
  OBVIOUS
<1>9. r = IF at <= Len(es) THEN [v |-> w, at |-> at, ok |-> TRUE]
          ELSE IF t = 0 THEN [v |-> w, at |-> at, ok |-> FALSE]
          ELSE IF new.clst = 0 THEN [v |-> new.v, at |-> at, ok |-> FALSE]
          ELSE [v |-> DirClear(new.v, new.clst), at |-> at, ok |-> TRUE]
  BY <1>1, <1>2, <1>3, <1>4, <1>5, <1>7, <1>8 DEF DirAlloc
<1>10. CASE at <= Len(es)
  <2>1. r = [v |-> w, at |-> at, ok |-> TRUE]
    BY <1>9, <1>10
  <2>2. r.v = w /\ r.at = at /\ r.ok = TRUE
    BY <2>1
  <2> QED BY <1>3, <1>6, <1>10, <2>2 DEF RoomMade
<1>11. CASE at > Len(es) /\ t = 0
  <2>1. r = [v |-> w, at |-> at, ok |-> FALSE]
    BY <1>1, <1>9, <1>11
  <2>2. r.v = w /\ r.at = at /\ r.ok = FALSE
    BY <2>1
  <2>3. ~(r.at <= Len(es)) /\ r.ok \in BOOLEAN
    <3>1. ~(at <= Len(es))
      BY <1>1, <1>3, <1>11
    <3> QED BY <2>2, <3>1
  <2>4. VolOK(r.v, Z) /\ Moved(v, r.v)
    BY <1>6, <2>2
  <2> QED BY <1>3, <2>2, <2>3, <2>4 DEF RoomMade
<1>12. CASE at > Len(es) /\ t # 0
  <2>1. /\ r.v = (IF new.clst = 0 THEN new.v ELSE DirClear(new.v, new.clst))
        /\ r.at = at /\ (r.ok <=> new.clst # 0) /\ r.ok \in BOOLEAN
    <3>1. ~(at <= Len(es)) /\ t # 0
      BY <1>1, <1>3, <1>12
    <3>2. r = IF new.clst = 0 THEN [v |-> new.v, at |-> at, ok |-> FALSE]
              ELSE [v |-> DirClear(new.v, new.clst), at |-> at, ok |-> TRUE]
      BY <1>9, <3>1
    <3>3. CASE new.clst = 0
      BY <3>2, <3>3
    <3>4. CASE new.clst # 0
      <4>1. r = [v |-> DirClear(new.v, new.clst), at |-> at, ok |-> TRUE]
        BY <3>2, <3>4
      <4> QED BY <3>4, <4>1
    <3> QED BY <3>3, <3>4
  <2>2. IsChain(Chain(fat, t), fat, t)
    BY <1>2, <1>12 DEF Holds, IsTable
  <2>3. prev \in Cluster /\ fat[prev] = EOC
    <3>1. PICK s : s = Chain(fat, t) /\ IsChain(s, fat, t)
      BY <2>2
    <3>2. Len(s) \in Nat /\ Len(s) >= 1 /\ s \in Seq(Cluster)
      BY <3>1, ChainShort DEF IsChain
    <3>3. prev = s[Len(s)]
      BY <1>7, <3>1, <3>2 DEF Last
    <3> QED BY <3>1, <3>2, <3>3 DEF IsChain
  <2>4. Show(w) = S /\ Show(w)[FAT] = fat /\ fat \in FatTables
    BY <1>2, <1>6 DEF Moved
  <2>5. /\ VolOK(new.v, Z)
        /\ \/ new.clst = fat[prev] /\ fat[prev] \in Cluster /\ Moved(w, new.v)
           \/ /\ new.clst = 0 /\ Moved(w, new.v)
           \/ /\ new.clst \in Cluster /\ fat[new.clst] = FREE
              /\ Becomes(w, new.v, WithSect(Show(w), FAT, Linked(fat, new.clst, prev)))
    <3>1. VolOK(w, Z) /\ Show(w)[FAT] = fat
      BY <1>6, <2>4
    <3>2. fat \in FatTables /\ prev \in Cluster
      BY <2>3, <2>4
    <3>3. /\ VolOK(new.v, Z)
          /\ \/ new.clst = fat[prev] /\ fat[prev] \in Cluster /\ Moved(w, new.v)
             \/ /\ new.clst = 0 /\ fat[prev] \notin Cluster /\ Moved(w, new.v)
             \/ /\ new.clst \in Cluster /\ fat[new.clst] = FREE /\ fat[prev] \notin Cluster
                /\ Becomes(w, new.v, WithSect(Show(w), FAT, Linked(fat, new.clst, prev)))
      BY <1>8, <3>1, <3>2, StretchIs
    <3> QED BY <3>3
  <2>6. EOC \notin Cluster
    BY Clusters
  <2>7. CASE new.clst = 0
    <3>1. Moved(w, new.v) /\ 0 \notin Cluster
      BY <2>5, <2>7, Clusters
    <3>2. Moved(v, new.v)
      BY <1>6, <3>1, MovedOn
    <3> QED BY <1>1, <1>3, <1>12, <2>1, <2>5, <2>7, <3>2 DEF RoomMade
  <2>8. CASE new.clst # 0
    <3>1. PICK c \in Cluster : c = new.clst
      BY <2>3, <2>5, <2>6, <2>8
    <3>2. fat[c] = FREE /\ Becomes(w, new.v, WithSect(S, FAT, Linked(fat, c, prev)))
      BY <2>3, <2>4, <2>5, <2>6, <2>8, <3>1
    <3>3. r.v = DirClear(new.v, c) /\ r.ok
      BY <2>1, <2>8, <3>1
    <3>4. PICK x : x = new.v /\ VolOK(x, Z) /\ Show(x) = WithSect(S, FAT, Linked(fat, c, prev))
      BY <2>5, <3>2 DEF Becomes
    <3>5. /\ VolOK(r.v, Z \cup {clst2sect(c)})
          /\ Show(r.v) = WithSect(Show(x), clst2sect(c), ZEROS) /\ Chip(r.v) = Show(r.v)
          /\ r.v.mount = x.mount
      <4> HIDE <3>4
      <4>1. PICK y : y = r.v /\ y = DirClear(x, c)
        BY <3>3, <3>4
      <4>2. VolOK(x, Z)
        BY <3>4
      <4>3. /\ VolOK(y, Z \cup {clst2sect(c)})
            /\ Show(y) = WithSect(Show(x), clst2sect(c), ZEROS) /\ Chip(y) = Show(y)
            /\ y.mount = x.mount
        BY <4>1, <4>2, ClearIs
      <4> QED BY <4>1, <4>3
    <3>6. Show(r.v) = Cleared(S, c, prev)
      BY <1>2, <3>4, <3>5 DEF Cleared
    <3>7. r.v.mount = v.mount
      BY <1>6, <3>2, <3>4, <3>5 DEF Moved, Becomes
    <3> QED BY <1>1, <1>2, <1>3, <1>7, <1>12, <2>1, <3>2, <3>3, <3>5, <3>6, <3>7 DEF RoomMade
  <2> QED BY <2>7, <2>8
<1> QED BY <1>1, <1>3, <1>10, <1>11, <1>12

\* ... and what it gives.
LEMMA DirAllocGives ==
  ASSUME NEW v, NEW t, NEW n, NEW r, r = DirAlloc(v, t, n)
  PROVE  r = [v |-> r.v, at |-> r.at, ok |-> r.ok]
<1>1. \E x, y, b : r = [v |-> x, at |-> y, ok |-> b]
  BY DEF DirAlloc
<1> QED BY <1>1

-----------------------------------------------------------------------------
(* Names that come and go *)

\* The same names and dots, whatever else became of the entries.
SameNames(es, fs) ==
  /\ Live(fs) = Live(es) /\ \A i \in Live(es) : fs[i] = es[i]
  /\ \A i \in 1..Len(es) : es[i].kind = "dot" => i \in 1..Len(fs) /\ fs[i] = es[i]
  /\ \A i \in 1..Len(fs) : fs[i].kind = "dot" => i \in 1..Len(es) /\ fs[i] = es[i]

\* ... and entry e at place at.
Added(es, fs, at, e) ==
  /\ at \notin Live(es) /\ Live(fs) = Live(es) \cup {at} /\ fs[at] = e
  /\ \A i \in Live(es) : fs[i] = es[i]
  /\ \A i \in 1..Len(es) : es[i].kind = "dot" => i \in 1..Len(fs) /\ fs[i] = es[i]
  /\ \A i \in 1..Len(fs) : fs[i].kind = "dot" => i \in 1..Len(es) /\ fs[i] = es[i]

\* ... but for the name at place at.
Gone(es, fs, at) ==
  /\ at \in Live(es) /\ Live(fs) = Live(es) \ {at}
  /\ \A i \in Live(fs) : fs[i] = es[i]
  /\ \A i \in 1..Len(es) : es[i].kind = "dot" => i \in 1..Len(fs) /\ fs[i] = es[i]
  /\ \A i \in 1..Len(fs) : fs[i].kind = "dot" => i \in 1..Len(es) /\ fs[i] = es[i]

\* What a name is registered as.
LEMMA PiecesAre ==
  ASSUME NEW n \in Name, NEW sfn \in SfnOf(n), NEW p, p = Pieces(n, sfn), NEW N, N = NEnt(n)
  PROVE  /\ p \in Seq(DirEnt) /\ Len(p) = N /\ N \in Nat /\ N >= 1 /\ N <= U
         /\ p[N] = Entry(n, sfn) /\ Entry(n, sfn) \in FileEnt
         /\ \A j \in 1..(N - 1) : p[j] = Piece(n, N - j, sfn) /\ p[N - j] = Piece(n, j, sfn)
         /\ \A j \in 1..(N - 1) : Piece(n, j, sfn) \in PieceEnt
<1>1. N \in Nat /\ N >= 1 /\ N <= U /\ Len(Info[n].pieces) \in Nat
  BY NameIs
<1>2. sfn \in ShortNames
  BY SfnIs
<1>3. Entry(n, sfn) \in FileEnt
  BY <1>2 DEF Entry, FileEnt
<1>4. ASSUME NEW j \in 1..(N - 1) PROVE Piece(n, j, sfn) \in PieceEnt
  <2>1. PICK b \in BOOLEAN : b = (j = Len(Info[n].pieces))
    OBVIOUS
  <2>2. Piece(n, j, sfn) = [kind |-> "lfn", of |-> n, ord |-> j, last |-> b, sum |-> sfn]
    BY <2>1, Zenon DEF Piece
  <2>3. j \in Nat
    BY <1>1
  <2> QED BY <1>2, <2>1, <2>2, <2>3 DEF PieceEnt
<1>5. p = [j \in 1..N |-> IF j = N THEN Entry(n, sfn) ELSE Piece(n, N - j, sfn)]
  BY DEF Pieces
<1>6. ASSUME NEW j \in 1..(N - 1)
      PROVE  /\ p[j] = Piece(n, N - j, sfn) /\ p[N - j] = Piece(n, j, sfn)
             /\ N - j \in 1..(N - 1)
  <2>1. j \in 1..N /\ N - j \in 1..N /\ j # N /\ N - j # N /\ N - (N - j) = j /\ N - j \in 1..(N - 1)
    BY <1>1
  <2> QED BY <1>5, <2>1
<1>7. N \in 1..N
  BY <1>1
<1>8. \A j \in 1..N : p[j] \in DirEnt
  <2>1. ASSUME NEW j \in 1..N PROVE p[j] \in DirEnt
    <3>1. CASE j = N
      BY <1>3, <1>5, <1>7, <3>1 DEF DirEnt
    <3>2. CASE j # N
      <4>1. j \in 1..(N - 1)
        BY <1>1, <3>2
      <4>2. p[j] \in PieceEnt
        BY <1>4, <1>6, <4>1
      <4> QED BY <4>2 DEF DirEnt
    <3> QED BY <3>1, <3>2
  <2> QED BY <2>1
<1>9. p \in Seq(DirEnt) /\ Len(p) = N
  BY <1>1, <1>5, <1>8
<1> QED BY <1>1, <1>3, <1>4, <1>5, <1>6, <1>7, <1>9

\* Nothing before the first free row is a zero entry.
LEMMA NoZeroBefore ==
  ASSUME NEW es, Written(es), NEW N \in Nat, N # 0, NEW at \in N..Len(es),
         \A k \in N..(at - 1) : ~FreeRow(es, N, k),
         NEW i \in 1..(at - N)
  PROVE  es[i] # Zero
<1>1. SUFFICES ASSUME es[i] = Zero PROVE FALSE
  OBVIOUS
<1>2. Len(es) \in Nat /\ DOMAIN es = 1..Len(es)
  BY DEF Written
<1>3. \A j \in i..Len(es) : es[j] = Zero
  <2>1. i \in 1..Len(es)
    BY <1>2
  <2> QED BY <1>1, <2>1 DEF Written
<1>4. at - 1 \in N..(at - 1)
  BY <1>2
<1>5. FreeRow(es, N, at - 1)
  <2>1. ASSUME NEW j \in (at - 1 - N + 1)..(at - 1) PROVE es[j].kind = "zero"
    <3>1. j \in i..Len(es)
      BY <1>2
    <3> QED BY <1>3, <3>1 DEF Zero
  <2> QED BY <2>1 DEF FreeRow
<1> QED BY <1>4, <1>5

-----------------------------------------------------------------------------
\* The pieces of a name that is there are neither free nor a name.
LEMMA PieceBefore ==
  ASSUME NEW es, Written(es), NEW i \in Live(es), Behind(es, i),
         NEW j \in 1..(NEnt(es[i].of) - 1)
  PROVE  i - j \in 1..Len(es) /\ es[i - j].kind = "lfn" /\ es[i - j] = Piece(es[i].of, j, es[i].sfn)
<1>1. i \in 1..Len(es) /\ es[i].of \in Name
  <2>1. i \in 1..Len(es) /\ es[i] \in DirEnt /\ es[i].kind = "sfn"
    BY DEF Live, Written
  <2> QED BY <2>1, Kinds
<1>2. NEnt(es[i].of) \in Nat
  BY <1>1, NameIs
<1>3. i - j >= 1 /\ es[i - j] = Piece(es[i].of, j, es[i].sfn)
  BY DEF Behind
<1> QED BY <1>1, <1>2, <1>3 DEF Piece

\* The first row of N free entries ends at place at.
FirstRow(es, N, at) ==
  at \in N..Len(es) /\ FreeRow(es, N, at) /\ \A k \in N..(at - 1) : ~FreeRow(es, N, k)

\* Neither the name n nor the short name is in the table.
Unused(es, n, sfn) == \A j \in Live(es) : es[j].of # n /\ es[j].sfn # sfn

\* A name is registered in the first free row: while its pieces are stored one by
\* one, and when its entry is there.
LEMMA RegisterIs ==
  ASSUME NEW es, NEW loose \in BOOLEAN, NamesOK(es, loose), NEW n \in Name, NEW sfn \in SfnOf(n),
         NEW N \in Nat, N = NEnt(n), NEW at \in Nat, FirstRow(es, N, at), Unused(es, n, sfn),
         NEW m \in 0..N, NEW fs, fs = Put(es, at - N + 1, Pieces(n, sfn), m)
  PROVE  /\ m < N => NamesOK(fs, TRUE) /\ SameNames(es, fs)
         /\ m = N => NamesOK(fs, loose) /\ Added(es, fs, at, Entry(n, sfn))
         /\ Len(fs) = Len(es)
<1>0. /\ at \in N..Len(es) /\ FreeRow(es, N, at) /\ \A k \in N..(at - 1) : ~FreeRow(es, N, k)
      /\ \A j \in Live(es) : es[j].of # n /\ es[j].sfn # sfn
  BY DEF FirstRow, Unused
<1>1. PICK p : p = Pieces(n, sfn)
  OBVIOUS
<1>2. /\ p \in Seq(DirEnt) /\ Len(p) = N /\ N \in Nat /\ N >= 1 /\ N <= U
      /\ p[N] = Entry(n, sfn) /\ Entry(n, sfn) \in FileEnt
      /\ \A j \in 1..(N - 1) : p[j] = Piece(n, N - j, sfn) /\ p[N - j] = Piece(n, j, sfn)
      /\ \A j \in 1..(N - 1) : Piece(n, j, sfn) \in PieceEnt
  BY <1>1, PiecesAre
<1>3. PICK i0 \in Int : i0 = at - N + 1
  OBVIOUS
<1>4. Written(es) /\ es \in Seq(DirEnt) /\ Len(es) \in Nat /\ DOMAIN es = 1..Len(es)
  BY DEF NamesOK, Written
<1>5. i0 \in Nat /\ i0 # 0 /\ i0 + m - 1 <= Len(es) /\ m \in Nat /\ at \in 1..Len(es) /\ i0 <= at
  BY <1>0, <1>2, <1>3, <1>4
<1>50. /\ at \in Nat /\ N \in Nat /\ m \in Nat /\ i0 \in Nat /\ i0 = at - N + 1
       /\ m <= N /\ N >= 1 /\ at >= N /\ at <= Len(es) /\ Len(es) \in Nat
  BY <1>0, <1>2, <1>3, <1>4, <1>5
<1>6. /\ fs \in Seq(DirEnt) /\ Len(fs) = Len(es)
      /\ \A j \in 1..Len(es) : fs[j] = IF i0 <= j /\ j <= i0 + m - 1 THEN p[j - i0 + 1] ELSE es[j]
  <2>1. fs = Put(es, i0, p, m)
    BY <1>1, <1>3
  <2>2. m <= Len(p)
    BY <1>2, <1>50
  <2>3. /\ Put(es, i0, p, m) \in Seq(DirEnt) /\ Len(Put(es, i0, p, m)) = Len(es)
        /\ \A j \in 1..Len(es) : Put(es, i0, p, m)[j] =
              IF i0 <= j /\ j <= i0 + m - 1 THEN p[j - i0 + 1] ELSE es[j]
    BY <1>2, <1>4, <1>5, <2>2, PutIs
  <2> QED BY <2>1, <2>3
\* The row.
<1>7. \A j \in i0..at : j \in 1..Len(es) /\ es[j].kind \in {"zero", "deleted"}
  BY <1>0, <1>3, <1>4, <1>5 DEF FreeRow
<1>8. ASSUME NEW j \in 1..Len(es), i0 <= j, j <= i0 + m - 1, j # at
      PROVE  \E k \in 1..(N - 1) : k = at - j /\ fs[j] = Piece(n, k, sfn) /\ fs[j].kind = "lfn"
  <2>1. at - j \in 1..(N - 1) /\ j - i0 + 1 = N - (at - j)
    <3>1. j \in Nat /\ i0 <= j /\ j <= i0 + m - 1 /\ j # at
      BY <1>8
    <3>2. j <= at /\ at - j <= N - 1
      BY <1>50, <3>1
    <3>3. at - j >= 1
      BY <1>50, <3>1, <3>2
    <3>4. j - i0 + 1 = N - (at - j)
      BY <1>50
    <3> QED BY <1>50, <3>1, <3>2, <3>3, <3>4
  <2>2. p[N - (at - j)] = Piece(n, at - j, sfn)
    BY <1>2, <2>1
  <2>3. fs[j] = p[j - i0 + 1]
    BY <1>6, <1>8
  <2>4. Piece(n, at - j, sfn).kind = "lfn"
    BY DEF Piece
  <2> QED BY <2>1, <2>2, <2>3, <2>4
<1>9. m = N => i0 <= at /\ at <= i0 + m - 1 /\ fs[at] = Entry(n, sfn)
  <2>1. ASSUME m = N PROVE i0 <= at /\ at <= i0 + m - 1 /\ at - i0 + 1 = N /\ at \in 1..Len(es)
    BY <1>50, <2>1
  <2> QED BY <1>2, <1>6, <2>1
<1>10. m < N => ~(i0 <= at /\ at <= i0 + m - 1)
  BY <1>50
<1>11. \A j \in 1..Len(es) : ~(i0 <= j /\ j <= i0 + m - 1) => fs[j] = es[j]
  BY <1>6
<1>12. \A j \in 1..Len(es) : i0 <= j /\ j <= i0 + m - 1 => j \in i0..at
  BY <1>50
<1>13. Entry(n, sfn).kind = "sfn" /\ Entry(n, sfn).of = n /\ Entry(n, sfn).sfn = sfn
  BY DEF Entry
\* What stays.
<1>14. \A j \in Live(es) : j \in 1..Len(es) /\ j \notin i0..at /\ fs[j] = es[j] /\ es[j].kind = "sfn"
  <2>1. ASSUME NEW j \in Live(es) PROVE j \in 1..Len(es) /\ j \notin i0..at /\ es[j].kind = "sfn"
    BY <1>7 DEF Live
  <2> QED BY <1>11, <1>12, <2>1
<1>15. ASSUME NEW j \in 1..Len(es), fs[j].kind = "sfn" PROVE j \in Live(es) \/ (m = N /\ j = at)
  <2>1. CASE i0 <= j /\ j <= i0 + m - 1
    <3>1. j = at
      BY <1>8, <1>15, <2>1
    <3>2. m = N
      BY <1>10, <1>50, <2>1, <3>1
    <3> QED BY <3>1, <3>2
  <2>2. CASE ~(i0 <= j /\ j <= i0 + m - 1)
    BY <1>11, <1>15, <2>2 DEF Live
  <2> QED BY <2>1, <2>2
<1>16. at \notin Live(es)
  BY <1>5, <1>14
<1>17. Live(fs) = IF m = N THEN Live(es) \cup {at} ELSE Live(es)
  <2>1. \A j \in 1..Len(es) : j \in Live(fs) <=> fs[j].kind = "sfn"
    BY <1>6 DEF Live
  <2>2. Live(fs) \subseteq 1..Len(es) /\ Live(es) \subseteq 1..Len(es)
    BY <1>6 DEF Live
  <2>3. \A j \in Live(es) : j \in Live(fs)
    BY <1>14, <2>1
  <2>4. m = N => at \in Live(fs)
    BY <1>5, <1>9, <1>13, <2>1
  <2> QED BY <1>15, <2>1, <2>2, <2>3, <2>4
<1>18. \A j \in 1..Len(es) : /\ es[j].kind = "dot" => fs[j] = es[j]
                             /\ fs[j].kind = "dot" => fs[j] = es[j]
  <2>1. ASSUME NEW j \in 1..Len(es)
        PROVE  (es[j].kind = "dot" => fs[j] = es[j]) /\ (fs[j].kind = "dot" => fs[j] = es[j])
    <3>1. CASE i0 <= j /\ j <= i0 + m - 1
      <4>1. es[j].kind # "dot"
        BY <1>7, <1>12, <3>1
      <4>2. fs[j].kind # "dot"
        <5>1. CASE j = at
          <6>1. m = N
            BY <1>10, <1>50, <3>1, <5>1
          <6> QED BY <1>9, <1>13, <5>1, <6>1
        <5>2. CASE j # at
          BY <1>8, <3>1, <5>2
        <5> QED BY <5>1, <5>2
      <4> QED BY <4>1, <4>2
    <3>2. CASE ~(i0 <= j /\ j <= i0 + m - 1)
      BY <1>11, <3>2
    <3> QED BY <3>1, <3>2
  <2> QED BY <2>1
\* Names stay what they are.
<1>19. Written(fs)
  <2>1. ASSUME NEW i \in Live(fs) PROVE fs[i].sfn \in SfnOf(fs[i].of)
    <3>1. CASE i \in Live(es)
      BY <1>4, <1>14, <3>1 DEF Written
    <3>2. CASE i \notin Live(es)
      <4>1. m = N /\ i = at
        BY <1>17, <3>2
      <4> QED BY <1>9, <1>13, <4>1
    <3> QED BY <3>1, <3>2
  <2>2. ASSUME NEW i \in 1..Len(fs), fs[i].kind = "lfn"
        PROVE  /\ fs[i].ord \in 1..(NEnt(fs[i].of) - 1) /\ fs[i].sum \in SfnOf(fs[i].of)
               /\ fs[i] = Piece(fs[i].of, fs[i].ord, fs[i].sum)
    <3>1. CASE i0 <= i /\ i <= i0 + m - 1
      <4>1. i # at
        <5>1. ASSUME i = at PROVE FALSE
          <6>1. m = N
            BY <1>10, <1>50, <3>1, <5>1
          <6> QED BY <1>9, <1>13, <2>2, <5>1, <6>1
        <5> QED BY <5>1
      <4>2. PICK k \in 1..(N - 1) : fs[i] = Piece(n, k, sfn)
        BY <1>6, <1>8, <3>1, <4>1
      <4>3. fs[i].of = n /\ fs[i].ord = k /\ fs[i].sum = sfn
        BY <4>2 DEF Piece
      <4> QED BY <4>2, <4>3
    <3>2. CASE ~(i0 <= i /\ i <= i0 + m - 1)
      BY <1>4, <1>6, <1>11, <2>2, <3>2 DEF Written
    <3> QED BY <3>1, <3>2
  <2>3. ASSUME NEW i \in 1..Len(fs), fs[i] = Zero, NEW j \in i..Len(fs) PROVE fs[j] = Zero
    <3>1. Zero.kind = "zero"
      BY DEF Zero
    <3>2. ~(i0 <= i /\ i <= i0 + m - 1)
      <4>1. SUFFICES ASSUME i0 <= i, i <= i0 + m - 1 PROVE FALSE
        OBVIOUS
      <4>2. CASE i = at
        <5>1. m = N
          BY <1>10, <1>50, <4>1, <4>2
        <5> QED BY <1>9, <1>13, <2>3, <3>1, <4>2, <5>1
      <4>3. CASE i # at
        BY <1>6, <1>8, <2>3, <3>1, <4>1, <4>3
      <4> QED BY <4>2, <4>3
    <3>3. es[i] = Zero
      BY <1>6, <1>11, <2>3, <3>2
    <3>4. i >= i0
      <4>1. SUFFICES ASSUME i < i0 PROVE FALSE
        BY <1>5, <1>6
      <4>2. i \in 1..(at - N)
        BY <1>2, <1>3, <1>6, <4>1
      <4>3. N # 0
        BY <1>2
      <4> QED BY <1>0, <1>2, <1>4, <3>3, <4>2, <4>3, NoZeroBefore
    <3>5. j \in i..Len(es) /\ j \in 1..Len(es) /\ ~(i0 <= j /\ j <= i0 + m - 1)
      BY <1>4, <1>5, <1>6, <3>2, <3>4
    <3>6. es[j] = Zero
      BY <1>4, <1>6, <3>3, <3>5 DEF Written
    <3> QED BY <1>11, <3>5, <3>6
  <2> QED BY <1>6, <2>1, <2>2, <2>3 DEF Written
<1>20. \A i \in Live(fs) : Behind(fs, i)
  <2>1. ASSUME NEW i \in Live(es) PROVE Behind(fs, i)
    <3>1. fs[i] = es[i] /\ Behind(es, i)
      BY <1>14 DEF NamesOK
    <3>2. ASSUME NEW j \in 1..(NEnt(es[i].of) - 1)
          PROVE  i - j >= 1 /\ fs[i - j] = Piece(es[i].of, j, es[i].sfn)
      <4>1. i - j \in 1..Len(es) /\ es[i - j].kind = "lfn" /\ es[i - j] = Piece(es[i].of, j, es[i].sfn)
        BY <1>4, <3>1, PieceBefore
      <4>2. i - j \notin i0..at
        BY <1>7, <4>1
      <4>3. fs[i - j] = es[i - j]
        BY <1>11, <1>12, <4>1, <4>2
      <4> QED BY <4>1, <4>3
    <3> QED BY <3>1, <3>2 DEF Behind
  <2>2. ASSUME m = N PROVE Behind(fs, at)
    <3>1. ASSUME NEW j \in 1..(N - 1) PROVE at - j >= 1 /\ fs[at - j] = Piece(n, j, sfn)
      <4>1. at - j \in 1..Len(es) /\ i0 <= at - j /\ at - j <= i0 + m - 1 /\ at - j # at
        BY <1>50, <2>2
      <4>2. PICK k \in 1..(N - 1) : k = at - (at - j) /\ fs[at - j] = Piece(n, k, sfn)
        BY <1>8, <4>1
      <4>3. k = j
        BY <1>2, <1>5, <4>2
      <4> QED BY <4>1, <4>2, <4>3
    <3>2. fs[at].of = n /\ fs[at].sfn = sfn
      BY <1>9, <1>13, <2>2
    <3> QED BY <3>1, <3>2 DEF Behind
  <2> QED BY <1>17, <2>1, <2>2
<1>21. Different(fs)
  <2>1. ASSUME NEW i \in Live(fs), NEW j \in Live(fs), i # j
        PROVE  fs[i].sfn # fs[j].sfn /\ fs[i].of # fs[j].of
    <3>1. CASE i \in Live(es) /\ j \in Live(es)
      BY <1>14, <2>1, <3>1 DEF NamesOK, Different
    <3>2. CASE i \notin Live(es)
      <4>1. m = N /\ i = at /\ j \in Live(es)
        BY <1>17, <2>1, <3>2
      <4>2. fs[i].sfn = sfn /\ fs[i].of = n
        BY <1>9, <1>13, <4>1
      <4>3. fs[j] = es[j] /\ es[j].sfn # sfn /\ es[j].of # n
        BY <1>0, <1>14, <4>1
      <4> QED BY <4>2, <4>3
    <3>3. CASE j \notin Live(es)
      <4>1. m = N /\ j = at /\ i \in Live(es)
        BY <1>17, <2>1, <3>3
      <4>2. fs[j].sfn = sfn /\ fs[j].of = n
        BY <1>9, <1>13, <4>1
      <4>3. fs[i] = es[i] /\ es[i].sfn # sfn /\ es[i].of # n
        BY <1>0, <1>14, <4>1
      <4> QED BY <4>2, <4>3
    <3> QED BY <3>1, <3>2, <3>3
  <2> QED BY <2>1 DEF Different
<1>22. m = N /\ ~loose => Owned(fs)
  <2>1. ASSUME m = N, ~loose, NEW i \in 1..Len(fs), fs[i].kind = "lfn"
        PROVE  \E j \in Live(fs) : j > i /\ j - i < NEnt(fs[j].of)
    <3>1. CASE i0 <= i /\ i <= i0 + m - 1
      <4>1. i # at
        BY <1>9, <1>13, <2>1
      <4>2. at \in Live(fs) /\ fs[at].of = n
        BY <1>9, <1>13, <1>17, <2>1
      <4>3. at > i /\ at - i < N
        <5>1. i \in 1..Len(es)
          BY <1>6, <2>1
        <5>2. m = N /\ i \in Int
          BY <2>1, <5>1
        <5>3. i <= at
          <6>1. i \in Int /\ i <= i0 + N - 1
            BY <3>1, <5>2
          <6> QED BY <1>50, <6>1
        <5>4. i < at
          BY <1>50, <4>1, <5>2, <5>3
        <5>5. at - i < N
          BY <1>50, <3>1, <5>2
        <5> QED BY <5>4, <5>5
      <4> QED BY <4>2, <4>3
    <3>2. CASE ~(i0 <= i /\ i <= i0 + m - 1)
      <4>1. i \in 1..Len(es) /\ es[i].kind = "lfn"
        BY <1>6, <1>11, <2>1, <3>2
      <4>2. PICK j \in Live(es) : j > i /\ j - i < NEnt(es[j].of)
        BY <2>1, <4>1 DEF NamesOK, Owned
      <4>3. j \in Live(fs) /\ fs[j] = es[j]
        BY <1>14, <1>17
      <4> QED BY <4>2, <4>3
    <3> QED BY <3>1, <3>2
  <2> QED BY <2>1 DEF Owned
<1>23. m < N => NamesOK(fs, TRUE) /\ SameNames(es, fs)
  <2>1. ASSUME m < N PROVE SameNames(es, fs)
    <3>1. Live(fs) = Live(es)
      BY <1>2, <1>5, <1>17, <2>1
    <3> QED BY <1>6, <1>14, <1>18, <3>1 DEF SameNames
  <2> QED BY <1>19, <1>20, <1>21, <2>1 DEF NamesOK
<1>24. m = N => NamesOK(fs, loose) /\ Added(es, fs, at, Entry(n, sfn))
  <2>1. ASSUME m = N PROVE Added(es, fs, at, Entry(n, sfn))
    <3>1. Live(fs) = Live(es) \cup {at}
      BY <1>17, <2>1
    <3> QED BY <1>6, <1>9, <1>14, <1>16, <1>18, <2>1, <3>1 DEF Added
  <2> QED BY <1>19, <1>20, <1>21, <1>22, <2>1 DEF NamesOK
<1> QED BY <1>6, <1>23, <1>24

-----------------------------------------------------------------------------
\* Where dir_remove() begins: before the pieces of the name at place at, if it has any.
Begins(es, at, first) ==
  /\ first \in 1..at /\ \A j \in first..(at - 1) : es[j].kind = "lfn"
  /\ at - first >= NEnt(es[at].of) - 1

\* A name is removed with its pieces.
LEMMA RemoveIs ==
  ASSUME NEW es, NEW loose \in BOOLEAN, NamesOK(es, loose), NEW at \in Live(es),
         NEW first, Begins(es, at, first), NEW n \in Nat, n = at - first + 1,
         NEW p \in Seq(DirEnt), Len(p) = n, \A j \in 1..n : p[j] = Deleted,
         NEW fs, fs = Put(es, first, p, n)
  PROVE  NamesOK(fs, loose) /\ Gone(es, fs, at) /\ Len(fs) = Len(es)
<1>1. Written(es) /\ es \in Seq(DirEnt) /\ Len(es) \in Nat
  BY DEF NamesOK, Written
<1>2. at \in 1..Len(es) /\ es[at].kind = "sfn" /\ es[at].of \in Name
  <2>1. at \in 1..Len(es) /\ es[at].kind = "sfn" /\ es[at] \in DirEnt
    BY <1>1 DEF Live
  <2> QED BY <2>1, Kinds
<1>3. PICK N \in Nat : N = NEnt(es[at].of) /\ N >= 1
  BY <1>2, NameIs
<1>4. /\ at \in Nat /\ first \in Nat /\ first >= 1 /\ first <= at /\ at <= Len(es)
      /\ at - first >= N - 1 /\ first + n - 1 = at
  BY <1>1, <1>2, <1>3 DEF Begins
<1>5. /\ fs \in Seq(DirEnt) /\ Len(fs) = Len(es)
      /\ \A j \in 1..Len(es) : fs[j] = IF first <= j /\ j <= at THEN Deleted ELSE es[j]
  <2>1. first # 0 /\ first + n - 1 <= Len(es) /\ n <= Len(p)
    BY <1>4
  <2>2. /\ fs \in Seq(DirEnt) /\ Len(fs) = Len(es)
        /\ \A j \in 1..Len(es) : fs[j] =
             IF first <= j /\ j <= first + n - 1 THEN p[j - first + 1] ELSE es[j]
    <3>1. /\ Put(es, first, p, n) \in Seq(DirEnt) /\ Len(Put(es, first, p, n)) = Len(es)
          /\ \A j \in 1..Len(es) : Put(es, first, p, n)[j] =
               IF first <= j /\ j <= first + n - 1 THEN p[j - first + 1] ELSE es[j]
      BY <1>1, <1>4, <2>1, PutIs
    <3> QED BY <3>1
  <2>3. ASSUME NEW j \in 1..Len(es) PROVE fs[j] = IF first <= j /\ j <= at THEN Deleted ELSE es[j]
    <3>1. CASE first <= j /\ j <= at
      <4>1. j - first + 1 \in 1..n
        BY <1>4, <3>1
      <4> QED BY <1>4, <2>2, <3>1, <4>1
    <3>2. CASE ~(first <= j /\ j <= at)
      BY <1>4, <2>2, <3>2
    <3> QED BY <3>1, <3>2
  <2> QED BY <2>2, <2>3
<1>6. Deleted.kind = "deleted" /\ Deleted # Zero
  BY DEF Deleted, Zero
<1>7. \A j \in first..(at - 1) : es[j].kind = "lfn"
  BY DEF Begins
<1>8. \A j \in Live(es) : j # at => j \in 1..Len(es) /\ ~(first <= j /\ j <= at) /\ fs[j] = es[j]
  <2>1. ASSUME NEW j \in Live(es), j # at PROVE j \in 1..Len(es) /\ ~(first <= j /\ j <= at)
    <3>1. j \in 1..Len(es) /\ es[j].kind = "sfn"
      BY DEF Live
    <3>2. j \notin first..(at - 1)
      BY <1>7, <3>1
    <3> QED BY <1>4, <2>1, <3>1, <3>2
  <2> QED BY <1>5, <2>1
<1>9. Live(fs) = Live(es) \ {at}
  <2>1. ASSUME NEW j \in Live(fs) PROVE j \in Live(es) \ {at}
    <3>1. j \in 1..Len(es) /\ fs[j].kind = "sfn"
      BY <1>5 DEF Live
    <3>2. ~(first <= j /\ j <= at)
      BY <1>5, <1>6, <3>1
    <3>3. fs[j] = es[j] /\ j # at
      BY <1>4, <1>5, <3>1, <3>2
    <3> QED BY <3>1, <3>3 DEF Live
  <2>2. ASSUME NEW j \in Live(es) \ {at} PROVE j \in Live(fs)
    BY <1>5, <1>8, <2>2 DEF Live
  <2> QED BY <2>1, <2>2
<1>10. \A j \in 1..Len(es) : /\ es[j].kind = "dot" => fs[j] = es[j]
                             /\ fs[j].kind = "dot" => fs[j] = es[j]
  <2>1. ASSUME NEW j \in 1..Len(es), first <= j, j <= at
        PROVE  es[j].kind # "dot" /\ fs[j].kind # "dot"
    <3>1. j \in first..(at - 1) \/ j = at
      BY <1>4, <2>1
    <3>2. es[j].kind # "dot"
      BY <1>2, <1>7, <3>1
    <3> QED BY <1>5, <1>6, <2>1, <3>2
  <2> QED BY <1>5, <2>1
<1>11. Gone(es, fs, at)
  <2>1. \A i \in Live(fs) : fs[i] = es[i]
    BY <1>8, <1>9
  <2> QED BY <1>5, <1>9, <1>10, <2>1 DEF Gone
<1>12. Written(fs)
  <2>1. ASSUME NEW i \in Live(fs) PROVE fs[i].sfn \in SfnOf(fs[i].of)
    BY <1>1, <1>8, <1>9 DEF Written
  <2>2. ASSUME NEW i \in 1..Len(fs), fs[i].kind = "lfn"
        PROVE  /\ fs[i].ord \in 1..(NEnt(fs[i].of) - 1) /\ fs[i].sum \in SfnOf(fs[i].of)
               /\ fs[i] = Piece(fs[i].of, fs[i].ord, fs[i].sum)
    <3>1. fs[i] = es[i] /\ i \in 1..Len(es)
      BY <1>5, <1>6, <2>2
    <3> QED BY <1>1, <2>2, <3>1 DEF Written
  <2>3. ASSUME NEW i \in 1..Len(fs), fs[i] = Zero, NEW j \in i..Len(fs) PROVE fs[j] = Zero
    <3>1. i \in 1..Len(es) /\ j \in i..Len(es) /\ j \in 1..Len(es)
      BY <1>5
    <3>2. ~(first <= i /\ i <= at) /\ es[i] = Zero
      BY <1>5, <1>6, <2>3, <3>1
    <3>3. \A k \in i..Len(es) : es[k] = Zero
      BY <1>1, <3>1, <3>2 DEF Written
    <3>4. es[j] = Zero
      BY <3>1, <3>3
    <3>5. i > at
      <4>1. SUFFICES ASSUME i <= at PROVE FALSE
        BY <1>4, <3>1
      <4>2. at \in i..Len(es)
        BY <1>4, <3>1, <4>1
      <4>3. es[at] = Zero
        BY <3>3, <4>2
      <4> QED BY <1>2, <4>3 DEF Zero
    <3>6. ~(first <= j /\ j <= at)
      BY <1>4, <3>1, <3>5
    <3> QED BY <1>5, <3>1, <3>4, <3>6
  <2> QED BY <1>5, <2>1, <2>2, <2>3 DEF Written
<1>13. \A i \in Live(fs) : Behind(fs, i)
  <2>1. ASSUME NEW i \in Live(fs) PROVE Behind(fs, i)
    <3>1. i \in Live(es) /\ i # at /\ fs[i] = es[i] /\ Behind(es, i) /\ ~(first <= i /\ i <= at)
      BY <1>8, <1>9 DEF NamesOK
    <3>2. ASSUME NEW j \in 1..(NEnt(es[i].of) - 1)
          PROVE  i - j >= 1 /\ fs[i - j] = Piece(es[i].of, j, es[i].sfn)
      <4>1. i - j \in 1..Len(es) /\ es[i - j].kind = "lfn" /\ es[i - j] = Piece(es[i].of, j, es[i].sfn)
        BY <1>1, <3>1, PieceBefore
      <4>2. ASSUME first <= i - j, i - j <= at PROVE FALSE
        <5>1. PICK K \in Nat : K = NEnt(es[i].of)
          <6>1. i \in 1..Len(es) /\ es[i].kind = "sfn" /\ es[i] \in DirEnt
            BY <1>1, <3>1 DEF Live
          <6> QED BY <6>1, Kinds, NameIs
        <5>2. i \in Nat /\ j \in Nat /\ j >= 1 /\ j <= K - 1
          BY <1>1, <3>1, <5>1 DEF Live
        <5>3. i > at
          BY <1>4, <3>1, <4>2, <5>2
        <5>4. i - at \in 1..(K - 1)
          BY <1>4, <4>2, <5>2, <5>3
        <5>5. es[i - (i - at)].kind = "lfn"
          BY <1>1, <3>1, <5>1, <5>4, PieceBefore
        <5>6. i - (i - at) = at
          BY <1>4, <5>2
        <5> QED BY <1>2, <5>5, <5>6
      <4> QED BY <1>5, <4>1, <4>2
    <3> QED BY <3>1, <3>2 DEF Behind
  <2> QED BY <2>1
<1>14. Different(fs)
  BY <1>8, <1>9 DEF NamesOK, Different
<1>15. ~loose => Owned(fs)
  <2>1. ASSUME ~loose, NEW i \in 1..Len(fs), fs[i].kind = "lfn"
        PROVE  \E j \in Live(fs) : j > i /\ j - i < NEnt(fs[j].of)
    <3>1. fs[i] = es[i] /\ i \in 1..Len(es) /\ ~(first <= i /\ i <= at)
      BY <1>5, <1>6, <2>1
    <3>2. PICK j \in Live(es) : j > i /\ j - i < NEnt(es[j].of)
      BY <2>1, <3>1 DEF NamesOK, Owned
    <3>3. j # at
      <4>1. SUFFICES ASSUME j = at PROVE FALSE
        OBVIOUS
      <4>2. at > i /\ at - i < N /\ i \in Nat
        BY <1>3, <3>1, <3>2, <4>1
      <4>3. first <= i /\ i <= at
        BY <1>3, <1>4, <4>2
      <4> QED BY <3>1, <4>3
    <3>4. j \in Live(fs) /\ fs[j] = es[j]
      BY <1>8, <1>9, <3>3
    <3> QED BY <3>2, <3>4
  <2> QED BY <2>1 DEF Owned
<1> QED BY <1>5, <1>11, <1>12, <1>13, <1>14, <1>15 DEF NamesOK

\* A table that has grown by a sector of zeros holds the same names.
LEMMA GrownIs ==
  ASSUME NEW es, NEW loose \in BOOLEAN, NamesOK(es, loose), NEW fs, fs = Grown(es)
  PROVE  /\ NamesOK(fs, loose) /\ SameNames(es, fs) /\ Len(fs) = Len(es) + U /\ fs \in Seq(DirEnt)
         /\ \A N \in Nat, k \in Nat : N # 0 /\ k >= N => (FreeRow(fs, N, k) <=> FreeRow(es, N, k))
<1>1. Written(es) /\ es \in Seq(DirEnt) /\ Len(es) \in Nat /\ U \in Nat
  BY FatAssumption DEF NamesOK, Written
<1>2. Zero \in DirEnt /\ Zero.kind = "zero"
  BY DEF DirEnt, Zero
<1>3. fs = [i \in 1..(Len(es) + U) |-> IF i <= Len(es) THEN es[i] ELSE Zero]
  BY DEF Grown
<1>4. /\ fs \in Seq(DirEnt) /\ Len(fs) = Len(es) + U
      /\ \A i \in 1..Len(es) : i \in 1..Len(fs) /\ fs[i] = es[i]
      /\ \A i \in 1..Len(fs) : i \notin 1..Len(es) => fs[i] = Zero
  <2>1. \A i \in 1..(Len(es) + U) : (IF i <= Len(es) THEN es[i] ELSE Zero) \in DirEnt
    BY <1>1, <1>2
  <2>2. fs \in Seq(DirEnt) /\ Len(fs) = Len(es) + U
    BY <1>1, <1>3, <2>1
  <2>3. \A i \in 1..Len(es) : i \in 1..(Len(es) + U) /\ i <= Len(es)
    BY <1>1
  <2>4. \A i \in 1..(Len(es) + U) : i \notin 1..Len(es) => ~(i <= Len(es))
    BY <1>1
  <2> QED BY <1>3, <2>2, <2>3, <2>4
<1>5. Live(fs) = Live(es)
  <2>1. Zero.kind # "sfn"
    BY <1>2
  <2> QED BY <1>4, <2>1 DEF Live
<1>6. SameNames(es, fs)
  <2>1. Zero.kind # "dot"
    BY <1>2
  <2>2. \A i \in Live(es) : fs[i] = es[i]
    BY <1>4 DEF Live
  <2> QED BY <1>4, <1>5, <2>1, <2>2 DEF SameNames
<1>7. Written(fs)
  <2>1. \A i \in Live(fs) : fs[i] = es[i]
    BY <1>5, <1>6 DEF SameNames
  <2>2. ASSUME NEW i \in 1..Len(fs), fs[i].kind = "lfn" PROVE fs[i] = es[i] /\ i \in 1..Len(es)
    BY <1>2, <1>4, <2>2
  <2>3. ASSUME NEW i \in 1..Len(fs), fs[i] = Zero, NEW j \in i..Len(fs) PROVE fs[j] = Zero
    <3>1. CASE j \in 1..Len(es)
      <4>1. i \in 1..Len(es) /\ j \in i..Len(es)
        BY <1>1, <1>4, <3>1
      <4>2. es[i] = Zero
        BY <1>4, <2>3, <4>1
      <4> QED BY <1>1, <1>4, <3>1, <4>1, <4>2 DEF Written
    <3>2. CASE j \notin 1..Len(es)
      <4>1. j \in 1..Len(fs)
        BY <1>1, <1>4
      <4> QED BY <1>4, <3>2, <4>1
    <3> QED BY <3>1, <3>2
  <2>4. \A i \in Live(fs) : fs[i].sfn \in SfnOf(fs[i].of)
    BY <1>1, <1>5, <2>1 DEF Written
  <2>5. ASSUME NEW i \in 1..Len(fs), fs[i].kind = "lfn"
        PROVE  /\ fs[i].ord \in 1..(NEnt(fs[i].of) - 1) /\ fs[i].sum \in SfnOf(fs[i].of)
               /\ fs[i] = Piece(fs[i].of, fs[i].ord, fs[i].sum)
    <3>1. fs[i] = es[i] /\ i \in 1..Len(es)
      BY <2>2, <2>5
    <3> QED BY <1>1, <2>5, <3>1 DEF Written
  <2> QED BY <1>4, <2>3, <2>4, <2>5 DEF Written
<1>8. \A i \in Live(fs) : Behind(fs, i)
  <2>1. ASSUME NEW i \in Live(fs) PROVE Behind(fs, i)
    <3>1. i \in Live(es) /\ fs[i] = es[i] /\ Behind(es, i)
      BY <1>5, <1>6 DEF SameNames, NamesOK
    <3>2. ASSUME NEW j \in 1..(NEnt(es[i].of) - 1)
          PROVE  i - j >= 1 /\ fs[i - j] = Piece(es[i].of, j, es[i].sfn)
      <4>1. i - j \in 1..Len(es) /\ es[i - j] = Piece(es[i].of, j, es[i].sfn)
        BY <1>1, <3>1, PieceBefore
      <4> QED BY <1>4, <4>1
    <3> QED BY <3>1, <3>2 DEF Behind
  <2> QED BY <2>1
<1>9. Different(fs)
  BY <1>5, <1>6 DEF SameNames, NamesOK, Different
<1>10. ~loose => Owned(fs)
  <2>1. ASSUME ~loose, NEW i \in 1..Len(fs), fs[i].kind = "lfn"
        PROVE  \E j \in Live(fs) : j > i /\ j - i < NEnt(fs[j].of)
    <3>1. fs[i] = es[i] /\ i \in 1..Len(es)
      BY <1>2, <1>4, <2>1
    <3>2. PICK j \in Live(es) : j > i /\ j - i < NEnt(es[j].of)
      BY <2>1, <3>1 DEF NamesOK, Owned
    <3> QED BY <1>5, <1>6, <3>2 DEF SameNames
  <2> QED BY <2>1 DEF Owned
<1>11. ASSUME NEW N \in Nat, NEW k \in Nat, N # 0, k >= N PROVE FreeRow(fs, N, k) <=> FreeRow(es, N, k)
  <2>1. DOMAIN fs = 1..Len(fs) /\ DOMAIN es = 1..Len(es)
    BY <1>1, <1>4
  <2>2. \A j \in (k - N + 1)..k : (j \in 1..Len(fs) => fs[j].kind \in {"zero", "deleted"})
                                    <=> (j \in 1..Len(es) => es[j].kind \in {"zero", "deleted"})
    BY <1>2, <1>4
  <2> QED BY <2>1, <2>2 DEF FreeRow
<1> QED BY <1>4, <1>6, <1>7, <1>8, <1>9, <1>10, <1>11 DEF NamesOK

-----------------------------------------------------------------------------
\* What storing a name leaves: its entry at place at, and no more than some of
\* its pieces may have come to the chip.
Stored(v, w, t, es, fs, loose, at, e) ==
  /\ NamesOK(fs, loose) /\ Added(es, fs, at, e) /\ Len(fs) = Len(es)
  /\ Show(w) = WithTab(Show(v), t, fs) /\ w.mount = v.mount
  /\ \/ Chip(w) = Chip(v)
     \/ \E gs : /\ NamesOK(gs, TRUE) /\ Len(gs) = Len(es)
                /\ SameNames(es, gs) \/ Added(es, gs, at, e)
                /\ Chip(w) = WithTab(Show(v), t, gs)

\* The window is on the sector of entry i of table t.
OnSect(w, S, t, i) == w.winsect = SectsIn(S[FAT], t)[SectNo(i)]

\* Units are stored one by one; some of them may have come to the chip.
LEMMA PutUnitsAre ==
  ASSUME NEW Z, NEW v, VolOK(v, Z), NEW t, NEW es, Holds(Show(v), t, es),
         TabSects(Show(v)[FAT], t) \subseteq Z,
         NEW i \in Nat, i # 0, NEW units \in Seq(DirEnt), NEW n \in Nat, n = Len(units), n # 0,
         i + Len(units) - 1 <= Len(es),
         NEW w, w = PutUnits(v, t, i, units)
  PROVE  /\ VolOK(w, Z) /\ Show(w) = WithTab(Show(v), t, Put(es, i, units, n))
         /\ \/ Chip(w) = Chip(v)
            \/ \E m \in 0..n : Chip(w) = WithTab(Show(v), t, Put(es, i, units, m))
         /\ w.mount = v.mount
         /\ OnSect(w, Show(v), t, i + Len(units) - 1)
<1>1. Len(units) # 0
  OBVIOUS
<1>2. VolOK(w, Z)
  BY <1>1, PutUnitsIs
<1>3. Show(w) = WithTab(Show(v), t, Put(es, i, units, n))
  BY <1>1, PutUnitsIs
<1>4. Chip(w) = Chip(v) \/ \E m \in 0..n : Chip(w) = WithTab(Show(v), t, Put(es, i, units, m))
  BY <1>1, PutUnitsIs
<1>5. w.mount = v.mount
  BY <1>1, PutUnitsIs
<1>6. OnSect(w, Show(v), t, i + Len(units) - 1)
  BY <1>1, PutUnitsIs DEF OnSect
<1> QED BY <1>2, <1>3, <1>4, <1>5, <1>6

\* A name is stored in its row.
LEMMA StoreIs ==
  ASSUME NEW Z, NEW v, VolOK(v, Z), NEW t, NEW es, Holds(Show(v), t, es),
         TabSects(Show(v)[FAT], t) \subseteq Z,
         NEW loose \in BOOLEAN, NamesOK(es, loose), NEW n \in Name, NEW sfn \in SfnOf(n),
         NEW N \in Nat, N = NEnt(n), NEW at \in Nat, FirstRow(es, N, at), Unused(es, n, sfn),
         NEW w, w = PutUnits(v, t, at - N + 1, Pieces(n, sfn))
  PROVE  /\ VolOK(w, Z) /\ OnEntry(w, Show(w), t, at)
         /\ \E fs : Stored(v, w, t, es, fs, loose, at, Entry(n, sfn))
<1>1. PICK p : p = Pieces(n, sfn)
  OBVIOUS
<1>2. p \in Seq(DirEnt) /\ Len(p) = N /\ N \in Nat /\ N >= 1
  BY <1>1, PiecesAre
<1>3. PICK i \in Nat : i = at - N + 1 /\ i # 0 /\ i + N - 1 = at /\ i + N = at + 1
  <2>1. at \in Nat /\ at >= N
    BY <1>2 DEF FirstRow
  <2> QED BY <1>2, <2>1
<1>4. es \in Seq(DirEnt) /\ Len(es) \in Nat /\ at \in 1..Len(es)
  BY <1>2 DEF Holds, FirstRow
<1>5. /\ VolOK(w, Z) /\ Show(w) = WithTab(Show(v), t, Put(es, i, p, N))
      /\ \/ Chip(w) = Chip(v)
         \/ \E m \in 0..N : Chip(w) = WithTab(Show(v), t, Put(es, i, p, m))
      /\ w.mount = v.mount
      /\ w.winsect = SectsIn(Show(v)[FAT], t)[SectNo(at)]
  <2>1. w = PutUnits(v, t, i, p)
    BY <1>1, <1>3
  <2>2. N = Len(p) /\ N # 0 /\ i + Len(p) - 1 <= Len(es) /\ i + Len(p) - 1 = at
    BY <1>2, <1>3, <1>4
  <2>3. i \in Nat /\ i # 0 /\ p \in Seq(DirEnt) /\ N \in Nat /\ at \in 1..Len(es)
    BY <1>2, <1>3, <1>4
  <2> HIDE <1>2, <1>3, <1>4
  <2>4. VolOK(w, Z)
    BY <2>1, <2>2, <2>3, PutUnitsAre
  <2>5. Show(w) = WithTab(Show(v), t, Put(es, i, p, N))
    BY <2>1, <2>2, <2>3, PutUnitsAre
  <2>6. \/ Chip(w) = Chip(v)
        \/ \E m \in 0..N : Chip(w) = WithTab(Show(v), t, Put(es, i, p, m))
    BY <2>1, <2>2, <2>3, PutUnitsAre
  <2>7. w.mount = v.mount
    BY <2>1, <2>2, <2>3, PutUnitsAre
  <2>8. w.winsect = SectsIn(Show(v)[FAT], t)[SectNo(at)]
    <3>1. OnSect(w, Show(v), t, i + Len(p) - 1)
      BY <2>1, <2>2, <2>3, PutUnitsAre
    <3> QED BY <2>2, <3>1 DEF OnSect
  <2> QED BY <2>4, <2>5, <2>6, <2>7, <2>8
<1>6. ASSUME NEW m \in 0..N
      PROVE  /\ m < N => NamesOK(Put(es, i, p, m), TRUE) /\ SameNames(es, Put(es, i, p, m))
             /\ m = N => NamesOK(Put(es, i, p, m), loose) /\ Added(es, Put(es, i, p, m), at, Entry(n, sfn))
             /\ Len(Put(es, i, p, m)) = Len(es)
  <2>1. PICK fs : fs = Put(es, at - N + 1, Pieces(n, sfn), m)
    OBVIOUS
  <2>2. /\ m < N => NamesOK(fs, TRUE) /\ SameNames(es, fs)
        /\ m = N => NamesOK(fs, loose) /\ Added(es, fs, at, Entry(n, sfn))
        /\ Len(fs) = Len(es)
    <3>1. m < N => NamesOK(fs, TRUE)
      BY <2>1, RegisterIs
    <3>2. m < N => SameNames(es, fs)
      BY <2>1, RegisterIs
    <3>3. m = N => NamesOK(fs, loose)
      BY <2>1, RegisterIs
    <3>4. m = N => Added(es, fs, at, Entry(n, sfn))
      BY <2>1, RegisterIs
    <3>5. Len(fs) = Len(es)
      <4>1. Pieces(n, sfn) \in Seq(DirEnt) /\ Len(Pieces(n, sfn)) = N
        BY PiecesAre
      <4>2. m \in Nat /\ m <= N
        BY <1>2
      <4>3. i + m - 1 <= Len(es)
        <5>1. PICK l \in Nat : l = Len(es) /\ at <= l
          BY <1>4
        <5>2. i + m - 1 <= at
          BY <1>2, <1>3, <4>2
        <5> QED BY <1>3, <4>2, <5>1, <5>2
      <4>4. fs = Put(es, i, Pieces(n, sfn), m)
        BY <1>3, <2>1
      <4>5. m <= Len(p) /\ fs = Put(es, i, p, m)
        BY <1>1, <1>2, <4>2, <4>4
      <4>6. Len(Put(es, i, p, m)) = Len(es)
        <5>1. es \in Seq(DirEnt) /\ p \in Seq(DirEnt) /\ i # 0
          BY <1>2, <1>3, <1>4
        <5> HIDE <1>2, <1>3, <1>4
        <5> QED BY <4>2, <4>3, <4>5, <5>1, PutIs
      <4> QED BY <4>5, <4>6
    <3> QED BY <3>1, <3>2, <3>3, <3>4, <3>5
  <2>3. fs = Put(es, i, p, m)
    BY <1>1, <1>3, <2>1
  <2> QED BY <2>2, <2>3
<1>7. PICK fs : fs = Put(es, i, p, N)
  OBVIOUS
<1>8. NamesOK(fs, loose) /\ Added(es, fs, at, Entry(n, sfn)) /\ Len(fs) = Len(es)
  <2>1. N \in 0..N
    BY <1>2
  <2> QED BY <1>6, <1>7, <2>1
<1>9. \/ Chip(w) = Chip(v)
      \/ \E gs : /\ NamesOK(gs, TRUE) /\ Len(gs) = Len(es)
                 /\ SameNames(es, gs) \/ Added(es, gs, at, Entry(n, sfn))
                 /\ Chip(w) = WithTab(Show(v), t, gs)
  <2>1. ASSUME NEW m \in 0..N, Chip(w) = WithTab(Show(v), t, Put(es, i, p, m))
        PROVE  \E gs : /\ NamesOK(gs, TRUE) /\ Len(gs) = Len(es)
                       /\ SameNames(es, gs) \/ Added(es, gs, at, Entry(n, sfn))
                       /\ Chip(w) = WithTab(Show(v), t, gs)
    <3>1. PICK gs : gs = Put(es, i, p, m)
      OBVIOUS
    <3>2. NamesOK(gs, TRUE) /\ Len(gs) = Len(es) /\ (SameNames(es, gs) \/ Added(es, gs, at, Entry(n, sfn)))
      <4>1. m < N \/ m = N
        BY <1>2
      <4>2. \/ NamesOK(gs, TRUE) /\ SameNames(es, gs)
            \/ NamesOK(gs, loose) /\ Added(es, gs, at, Entry(n, sfn))
        BY <1>6, <3>1, <4>1
      <4>3. NamesOK(gs, loose) => NamesOK(gs, TRUE)
        BY DEF NamesOK
      <4> QED BY <1>6, <3>1, <4>2, <4>3
    <3> QED BY <2>1, <3>1, <3>2
  <2> QED BY <1>5, <2>1
<1>10. Stored(v, w, t, es, fs, loose, at, Entry(n, sfn))
  BY <1>5, <1>7, <1>8, <1>9 DEF Stored
<1>11. OnEntry(w, Show(w), t, at)
  <2>1. Show(v) = [s \in Image |-> Show(v)[s]]
    BY DEF Show
  <2>2. fs \in Seq(DirEnt)
    BY <1>8 DEF NamesOK, Written
  <2>3. Show(w)[FAT] = Show(v)[FAT]
    BY <1>5, <1>7, <1>8, <2>1, <2>2, WithTabIs
  <2>4. w.winsect \in Image
    <3>1. PICK s : s = SectsIn(Show(v)[FAT], t)
      OBVIOUS
    <3>2. SectNo(at) \in 1..Len(s)
      BY <1>4, <3>1, EntryAt
    <3>3. IsTable(Show(v)[FAT], t)
      BY DEF Holds
    <3> QED BY <1>5, <3>1, <3>2, <3>3, SectsAre
  <2>5. w.win = Show(w)[w.winsect]
    BY <2>4 DEF Show, See
  <2> QED BY <1>5, <2>3, <2>5 DEF OnEntry
<1> QED BY <1>5, <1>10, <1>11

\* dir_remove(): the name at place at goes, and its pieces.
THEOREM DirRemoveIs ==
  ASSUME NEW Z, NEW v, VolOK(v, Z), NEW t, NEW es, Holds(Show(v), t, es),
         TabSects(Show(v)[FAT], t) \subseteq Z,
         NEW loose \in BOOLEAN, NamesOK(es, loose), NEW at \in Live(es), NEW blk \in Nat,
         blk # 0 => blk < at /\ \A j \in blk..(at - 1) : es[j].kind = "lfn",
         Info[es[at].of].lfn => blk = at - (NEnt(es[at].of) - 1),
         NEW w, w = DirRemove(v, t, at, blk)
  PROVE  /\ VolOK(w, Z) /\ w.mount = v.mount
         /\ \E fs : /\ NamesOK(fs, loose) /\ Gone(es, fs, at) /\ Len(fs) = Len(es)
                    /\ Show(w) = WithTab(Show(v), t, fs)
<1>1. es \in Seq(DirEnt) /\ Len(es) \in Nat /\ Written(es)
  BY DEF NamesOK, Written
<1>2. at \in 1..Len(es) /\ es[at].kind = "sfn" /\ es[at].of \in Name
  <2>1. at \in 1..Len(es) /\ es[at].kind = "sfn" /\ es[at] \in DirEnt
    BY <1>1 DEF Live
  <2> QED BY <2>1, Kinds
<1>3. PICK N \in Nat : N = NEnt(es[at].of) /\ N >= 1 /\ (~Info[es[at].of].lfn => N = 1)
                       /\ (Info[es[at].of].lfn => N >= 2)
  <2>1. /\ NEnt(es[at].of) \in Nat /\ NEnt(es[at].of) >= 1
        /\ (~Info[es[at].of].lfn => NEnt(es[at].of) = 1)
        /\ (Info[es[at].of].lfn => NEnt(es[at].of) = Len(Info[es[at].of].pieces) + 1)
        /\ Len(Info[es[at].of].pieces) \in 1..20
    BY <1>2, NameIs
  <2>2. Info[es[at].of].lfn => NEnt(es[at].of) >= 2
    <3>1. PICK k \in 1..20 : k = Len(Info[es[at].of].pieces)
      BY <2>1
    <3>2. Info[es[at].of].lfn => NEnt(es[at].of) = k + 1
      BY <2>1, <3>1
    <3>3. k + 1 >= 2
      OBVIOUS
    <3> QED BY <3>2, <3>3
  <2>3. PICK N \in Nat : N = NEnt(es[at].of)
    BY <2>1
  <2> QED BY <2>1, <2>2, <2>3
<1>4. N >= 2 => at - (N - 1) >= 1
  <2>1. Behind(es, at)
    BY DEF NamesOK
  <2>2. ASSUME N >= 2 PROVE N - 1 \in 1..(NEnt(es[at].of) - 1)
    BY <1>3, <2>2
  <2> QED BY <2>1, <2>2 DEF Behind
<1>5. PICK first : first = IF blk = 0 THEN at ELSE blk
  OBVIOUS
<1>6. at \in Nat /\ at >= 1 /\ at <= Len(es)
  BY <1>1, <1>2
<1>7. Begins(es, at, first)
  <2>1. CASE Info[es[at].of].lfn
    <3>1. blk = at - (N - 1) /\ N >= 2 /\ blk # 0 /\ first = blk
      BY <1>3, <1>4, <1>5, <1>6, <2>1
    <3>2. blk < at /\ \A j \in blk..(at - 1) : es[j].kind = "lfn"
      BY <3>1
    <3>3. first \in 1..at /\ at - first >= N - 1
      BY <1>3, <1>4, <1>6, <3>1
    <3> QED BY <1>3, <3>1, <3>2, <3>3 DEF Begins
  <2>2. CASE ~Info[es[at].of].lfn
    <3>1. first \in 1..at /\ at - first >= N - 1 /\ first \in Nat
      BY <1>3, <1>5, <1>6, <2>2
    <3>2. ASSUME NEW j \in first..(at - 1) PROVE es[j].kind = "lfn"
      <4>1. blk # 0
        BY <1>5, <1>6
      <4> QED BY <1>5, <4>1
    <3> QED BY <1>3, <3>1, <3>2 DEF Begins
  <2> QED BY <2>1, <2>2
<1>8. first \in Nat /\ first # 0 /\ first <= at
  BY <1>6, <1>7 DEF Begins
<1>9. PICK n \in Nat : n = at - first + 1 /\ n # 0 /\ first + n - 1 = at
  BY <1>6, <1>8
<1>10. PICK p : p = [j \in 1..n |-> Deleted]
  OBVIOUS
<1>11. p \in Seq(DirEnt) /\ Len(p) = n /\ \A j \in 1..n : p[j] = Deleted
  <2>1. Deleted \in DirEnt
    BY DEF DirEnt
  <2> QED BY <1>10, <2>1
<1>12. w = PutUnits(v, t, first, p)
  <2>1. w = PutUnits(v, t, first, [j \in 1..(at - first + 1) |-> Deleted])
    BY <1>5 DEF DirRemove
  <2> QED BY <1>9, <1>10, <2>1
<1>13. VolOK(w, Z) /\ Show(w) = WithTab(Show(v), t, Put(es, first, p, n)) /\ w.mount = v.mount
  <2>1. Len(p) # 0 /\ first + Len(p) - 1 <= Len(es)
    BY <1>6, <1>9, <1>11
  <2>2. VolOK(w, Z) /\ Show(w) = WithTab(Show(v), t, Put(es, first, p, Len(p))) /\ w.mount = v.mount
    BY <1>8, <1>11, <1>12, <2>1, PutUnitsIs
  <2> QED BY <1>11, <2>2
<1>14. PICK fs : fs = Put(es, first, p, n)
  OBVIOUS
<1>15. NamesOK(fs, loose) /\ Gone(es, fs, at) /\ Len(fs) = Len(es)
  BY <1>7, <1>9, <1>11, <1>14, RemoveIs
<1> QED BY <1>13, <1>14, <1>15

-----------------------------------------------------------------------------
\* What every sector holds.
IsImage(S) == S = [s \in Image |-> S[s]]

\* Image S with another sector s.
LEMMA WithSectIs ==
  ASSUME NEW S, S = [s \in Image |-> S[s]], NEW s \in Image, NEW x, NEW R, R = WithSect(S, s, x)
  PROVE  /\ R = [i \in Image |-> R[i]]
         /\ R[s] = x
         /\ \A i \in Image : i # s => R[i] = S[i]
<1>1. R = [S EXCEPT ![s] = x]
  BY DEF WithSect
<1>2. PICK f : f = [i \in Image |-> IF i = s THEN x ELSE S[i]]
  OBVIOUS
<1>3. R = f
  BY <1>1, <1>2
<1> QED BY <1>2, <1>3

\* R is S with table t stretched by the zeroed cluster c.
Stretched(S, R, H, loose, t, es, c) ==
  /\ IsImage(R) /\ Holds(R, t, Grown(es))
  /\ FatSound(R[FAT], H, loose) /\ Chain(R[FAT], t) = Append(Chain(S[FAT], t), c)
  /\ \A g \in H : c \notin ToSet(Chain(S[FAT], g)) /\ (g # t => Chain(R[FAT], g) = Chain(S[FAT], g))
  /\ \A s \in Image : s \notin {FAT, clst2sect(c)} => R[s] = S[s]
  /\ TabSects(R[FAT], t) = TabSects(S[FAT], t) \cup {clst2sect(c)}

\* A table that is stretched by the zeroed cluster c.
LEMMA GrowIs ==
  ASSUME NEW S, IsImage(S), NEW H, NEW loose \in BOOLEAN, FatSound(S[FAT], H, loose),
         NEW t \in H, t # 0, NEW es, Holds(S, t, es), NEW c \in Cluster, S[FAT][c] = FREE,
         NEW R, R = Cleared(S, c, Last(Chain(S[FAT], t)))
  PROVE  Stretched(S, R, H, loose, t, es, c)
<1>1. PICK prev, new, Q : prev = Last(Chain(S[FAT], t)) /\ new = Linked(S[FAT], c, prev) /\ Q = WithSect(S, FAT, new)
  OBVIOUS
<1>2. /\ FatSound(new, H, loose) /\ Chain(new, t) = Append(Chain(S[FAT], t), c)
      /\ \A g \in H : c \notin ToSet(Chain(S[FAT], g)) /\ (g # t => Chain(new, g) = Chain(S[FAT], g))
  BY <1>1, StretchSound
<1>3. PICK x : x = clst2sect(c) /\ x \in Image /\ x # FAT /\ FAT \in Image
  BY Sectors
<1>4. Q = [i \in Image |-> Q[i]] /\ Q[FAT] = new /\ \A i \in Image : i # FAT => Q[i] = S[i]
  BY <1>1, <1>3, WithSectIs DEF IsImage
<1>5. R = WithSect(Q, x, ZEROS)
  BY <1>1, <1>3 DEF Cleared
<1>6. R = [i \in Image |-> R[i]] /\ R[x] = ZEROS /\ \A i \in Image : i # x => R[i] = Q[i]
  <2>1. R = [i \in Image |-> IF i = x THEN ZEROS ELSE Q[i]]
    BY <1>4, <1>5 DEF WithSect
  <2>2. PICK f : f = [i \in Image |-> IF i = x THEN ZEROS ELSE Q[i]]
    OBVIOUS
  <2> QED BY <1>3, <2>1, <2>2
<1>7. R[FAT] = new /\ \A i \in Image : i # FAT /\ i # x => R[i] = S[i]
  BY <1>3, <1>4, <1>6
<1>8. IsChain(Chain(S[FAT], t), S[FAT], t) /\ IsChain(Chain(new, t), new, t)
  BY <1>2 DEF FatSound
<1>9. IsTable(S[FAT], t) /\ IsTable(R[FAT], t)
  BY <1>7, <1>8 DEF IsTable
<1>10. PICK a, b : a = TabSects(S[FAT], t) /\ b = TabSects(R[FAT], t)
  OBVIOUS
<1>11. /\ a \subseteq Image /\ FAT \notin a /\ a = {clst2sect(d) : d \in ToSet(Chain(S[FAT], t))}
       /\ b = {clst2sect(d) : d \in ToSet(Chain(R[FAT], t))}
  <2>1. ASSUME NEW fat, IsTable(fat, t)
        PROVE  /\ TabSects(fat, t) \subseteq Image /\ FAT \notin TabSects(fat, t)
               /\ TabSects(fat, t) = {clst2sect(d) : d \in ToSet(Chain(fat, t))}
    <3>1. PICK s : s = SectsIn(fat, t)
      OBVIOUS
    <3>2. TabSects(fat, t) \subseteq ROOT..(LastCluster + 2)
      BY <2>1, <3>1, SectsAre
    <3>3. FAT \notin TabSects(fat, t)
      BY <2>1, <3>1, SectsAre
    <3>4. TabSects(fat, t) = {clst2sect(d) : d \in ToSet(Chain(fat, t))}
      BY <2>1, <3>1, SectsAre
    <3> QED BY <3>2, <3>3, <3>4, Sectors
  <2>2. a \subseteq Image /\ FAT \notin a /\ a = {clst2sect(d) : d \in ToSet(Chain(S[FAT], t))}
    BY <1>9, <1>10, <2>1
  <2>3. b = {clst2sect(d) : d \in ToSet(Chain(R[FAT], t))}
    BY <1>9, <1>10, <2>1
  <2> QED BY <2>2, <2>3
<1>12. PICK s : s = Chain(S[FAT], t)
  OBVIOUS
<1>13. s \in Seq(Cluster) /\ ToSet(s) \subseteq Cluster /\ c \notin ToSet(s)
  <2>1. s \in Seq(Cluster)
    BY <1>8, <1>12 DEF IsChain
  <2> QED BY <1>2, <1>12, <2>1, InSequence
<1>14. ToSet(Append(s, c)) = ToSet(s) \cup {c}
  <2>1. Len(s) \in Nat /\ Append(s, c) \in Seq(Cluster) /\ Len(Append(s, c)) = Len(s) + 1
        /\ \A i \in 1..(Len(s) + 1) : Append(s, c)[i] = IF i = Len(s) + 1 THEN c ELSE s[i]
    BY <1>13
  <2>2. \A d : d \in ToSet(Append(s, c)) <=> \E i \in 1..(Len(s) + 1) : Append(s, c)[i] = d
    <3>1. PICK q \in Seq(Cluster) : q = Append(s, c) /\ Len(q) = Len(s) + 1
      BY <2>1
    <3>2. ASSUME NEW d PROVE d \in ToSet(q) <=> \E i \in 1..Len(q) : q[i] = d
      BY InSequence
    <3> QED BY <3>1, <3>2
  <2>3. \A d : d \in ToSet(s) <=> \E i \in 1..Len(s) : s[i] = d
    BY <1>13, InSequence
  <2>4. Len(s) + 1 \in 1..(Len(s) + 1) /\ \A i \in 1..Len(s) : i \in 1..(Len(s) + 1) /\ i # Len(s) + 1
    BY <2>1
  <2>5. \A i \in 1..(Len(s) + 1) : i \in 1..Len(s) \/ i = Len(s) + 1
    BY <2>1
  <2> QED BY <2>1, <2>2, <2>3, <2>4, <2>5
<1>15. b = a \cup {x}
  BY <1>2, <1>3, <1>7, <1>11, <1>12, <1>14
<1>16. x \notin a
  <2>1. SUFFICES ASSUME x \in a PROVE FALSE
    OBVIOUS
  <2>2. PICK d \in ToSet(s) : clst2sect(d) = clst2sect(c)
    BY <1>3, <1>11, <1>12, <2>1
  <2>3. d = c
    BY <1>13, <2>2, Sectors
  <2> QED BY <1>13, <2>3
<1>17. Holds(R, t, Grown(es))
  <2>1. \A i \in a : R[i] = S[i]
    BY <1>7, <1>11, <1>16
  <2>2. R[clst2sect(c)] = ZEROS /\ Chain(R[FAT], t) = Append(Chain(S[FAT], t), c)
    BY <1>2, <1>3, <1>6, <1>7
  <2> QED BY <1>9, <1>10, <2>1, <2>2, HoldsGrown
<1> QED BY <1>2, <1>3, <1>6, <1>7, <1>10, <1>15, <1>17 DEF Stretched, IsImage

-----------------------------------------------------------------------------
\* The pieces and the entry are stored in the room that was found.
Filled(x, t, n, sfn) ==
  IF ~x.ok THEN x ELSE [x EXCEPT !.v = PutUnits(@, t, x.at - NEnt(n) + 1, Pieces(n, sfn))]

\* Name n was stored in the table by way of window positions.
Registered(v, w, t, es, loose, n, at) ==
  \E a, fs : \E sfn \in SfnOf(n) :
    Moved(v, a) /\ Stored(a, w, t, es, fs, loose, at, Entry(n, sfn))

\* The name is not in the table.
Absent(es, n) == \A j \in Live(es) : es[j].of # n

\* All numbered names that were tried are taken.
Collided(es, n) == Info[n].loss /\ \A k \in 1..Tries : InUse(es, Numbered(n, k))

\* dir_register() looks for a short name that is not in the table, and for room.
Prepared(Z, v, t, es, n, r) ==
  \E a : \E sfn \in SfnOf(n) :
    /\ VolOK(a, Z) /\ Moved(v, a) /\ Unused(es, n, sfn)
    /\ r = Filled(DirAlloc(a, t, NEnt(n)), t, n, sfn)

Denied(Z, v, es, n, r) ==
  Collided(es, n) /\ ~r.ok /\ r.ok \in BOOLEAN /\ VolOK(r.v, Z) /\ Moved(v, r.v)

\* dir_register() begins with a short name that no other has, and room, unless the
\* numbers are used up.
LEMMA RegisterBegins ==
  ASSUME NEW Z, NEW v, VolOK(v, Z), NEW t, NEW es, Holds(Show(v), t, es),
         TabSects(Show(v)[FAT], t) \subseteq Z, NamesOK(es, TRUE),
         NEW n \in Name, Absent(es, n),
         NEW r, r = DirRegister(v, t, n)
  PROVE  Prepared(Z, v, t, es, n, r) \/ Denied(Z, v, es, n, r)
<1>1. CASE Info[n].loss
  <2>1. PICK k : k = Number(v, t, n)
    OBVIOUS
  <2>2. CASE k = 0 /\ \A i \in 1..Tries : InUse(es, Numbered(n, i))
    <3>1. PICK a : a = Searched(v, t, n, Tries)
      OBVIOUS
    <3>2. VolOK(a, Z) /\ Moved(v, a)
      <4>1. Tries \in 0..Tries
        BY NameAssumption
      <4> QED BY <1>1, <3>1, <4>1, SearchedIs
    <3>3. r = [v |-> a, at |-> 0, ok |-> FALSE]
      BY <1>1, <2>1, <2>2, <3>1 DEF DirRegister
    <3> QED BY <1>1, <2>2, <3>2, <3>3 DEF Denied, Collided
  <2>3. CASE /\ k \in 1..Tries /\ Numbered(n, k) \in SfnOf(n)
             /\ ~InUse(es, Numbered(n, k))
    <3>1. PICK a : a = Searched(v, t, n, k)
      OBVIOUS
    <3>2. VolOK(a, Z) /\ Moved(v, a)
      <4>1. k \in 0..Tries /\ k # 0
        BY <2>3, NameAssumption
      <4> QED BY <1>1, <3>1, <4>1, SearchedIs
    <3>3. Unused(es, n, Numbered(n, k))
      BY <2>3 DEF Unused, Absent, InUse
    <3>4. r = Filled(DirAlloc(a, t, NEnt(n)), t, n, Numbered(n, k))
      <4>1. k # 0
        BY <2>3, NameAssumption
      <4> QED BY <1>1, <2>1, <3>1, <4>1 DEF DirRegister, Filled, Numbered
    <3> QED BY <2>3, <3>2, <3>3, <3>4 DEF Prepared
  <2> QED BY <1>1, <2>1, <2>2, <2>3, NumberIs
<1>2. CASE ~Info[n].loss
  <2>1. Info[n].sfn \in SfnOf(n)
    BY <1>2 DEF SfnOf
  <2>2. ASSUME NEW j \in Live(es) PROVE es[j].sfn # Info[n].sfn
    <3>1. es[j].sfn \in SfnOf(es[j].of) /\ es[j] \in DirEnt /\ es[j].kind = "sfn"
      BY DEF NamesOK, Written, Live
    <3>2. PICK m \in Name : m = es[j].of /\ m # n
      BY <3>1, Kinds DEF Absent
    <3> QED BY <1>2, <2>1, <3>1, <3>2, SfnsDiffer
  <2>3. Unused(es, n, Info[n].sfn)
    BY <2>2 DEF Unused, Absent
  <2>4. r = Filled(DirAlloc(v, t, NEnt(n)), t, n, Info[n].sfn)
    BY <1>2 DEF DirRegister, Filled
  <2> QED BY <2>1, <2>3, <2>4, NotMoved DEF Prepared
<1> QED BY <1>1, <1>2

\* The name was stored in the table as it is or after another cluster was added to
\* it, or nothing changed.
Outcome(Z, v, t, es, loose, n, r) ==
  /\ r.ok \in BOOLEAN
  /\ \/ ~r.ok /\ VolOK(r.v, Z) /\ Moved(v, r.v)
     \/ /\ r.ok /\ VolOK(r.v, Z) /\ OnEntry(r.v, Show(r.v), t, r.at)
        /\ Registered(v, r.v, t, es, loose, n, r.at)
     \/ /\ r.ok /\ t # 0
        /\ \E c \in Cluster : \E g :
             /\ Show(v)[FAT][c] = FREE /\ g.mount = v.mount
             /\ Show(g) = Cleared(Show(v), c, Last(Chain(Show(v)[FAT], t)))
             /\ Chip(g) = Show(g)
             /\ VolOK(r.v, Z \cup {clst2sect(c)}) /\ OnEntry(r.v, Show(r.v), t, r.at)
             /\ Registered(g, r.v, t, Grown(es), loose, n, r.at)

\* With a short name, the name is stored in the table as it is or after another
\* cluster was added to it, or there is no room and nothing changes.
LEMMA RegisterGoesOn ==
  ASSUME NEW Z, NEW v, VolOK(v, Z), NEW t, NEW es, Holds(Show(v), t, es),
         TabSects(Show(v)[FAT], t) \subseteq Z,
         NEW H, NEW loose \in BOOLEAN, FatSound(Show(v)[FAT], H, loose), t = 0 \/ t \in H,
         NamesOK(es, loose), NEW n \in Name, Absent(es, n),
         NEW r, Prepared(Z, v, t, es, n, r)
  PROVE  Outcome(Z, v, t, es, loose, n, r)
<1> USE DEF Outcome
<1>1. NamesOK(es, TRUE) /\ es \in Seq(DirEnt) /\ Len(es) \in Nat
  BY DEF NamesOK, Written
<1>2. PICK N \in Nat : N = NEnt(n) /\ N # 0 /\ N <= U
  BY NameIs
<1>3. PICK a : \E sfn \in SfnOf(n) :
         /\ VolOK(a, Z) /\ Moved(v, a) /\ Unused(es, n, sfn)
         /\ r = Filled(DirAlloc(a, t, NEnt(n)), t, n, sfn)
  BY DEF Prepared
<1>4. PICK sfn \in SfnOf(n) :
         /\ VolOK(a, Z) /\ Moved(v, a) /\ Unused(es, n, sfn)
         /\ r = Filled(DirAlloc(a, t, N), t, n, sfn)
  BY <1>2, <1>3
<1>5. PICK x : x = DirAlloc(a, t, N)
  OBVIOUS
<1>6. x = [v |-> x.v, at |-> x.at, ok |-> x.ok]
  BY <1>5, DirAllocGives
<1>7. Show(a) = Show(v) /\ a.mount = v.mount
  BY <1>4 DEF Moved
<1>8. Show(v)[FAT] \in FatTables
  BY DEF FatSound
<1>9. /\ x.at = Place(es, N) /\ x.ok \in BOOLEAN
      /\ \/ (x.at <= Len(es) <=> x.ok) /\ VolOK(x.v, Z) /\ Moved(a, x.v)
         \/ /\ x.at > Len(es) /\ x.ok /\ t # 0
            /\ \E c \in Cluster : \E prev :
                 /\ prev = Last(Chain(Show(a)[FAT], t)) /\ Show(a)[FAT][c] = FREE
                 /\ VolOK(x.v, Z \cup {clst2sect(c)}) /\ x.v.mount = a.mount
                 /\ Show(x.v) = Cleared(Show(a), c, prev) /\ Chip(x.v) = Show(x.v)
  <2>1. /\ VolOK(a, Z) /\ Holds(Show(a), t, es) /\ TabSects(Show(a)[FAT], t) \subseteq Z
        /\ Show(a)[FAT] \in FatTables
    BY <1>4, <1>7, <1>8
  <2>2. x.at = Place(es, N)
    BY <1>2, <1>5, <2>1, DirAllocIs
  <2>3. x.ok \in BOOLEAN
    BY <1>2, <1>5, <2>1, DirAllocIs
  <2>4. RoomMade(Z, a, t, es, x)
    BY <1>2, <1>5, <2>1, DirAllocIs
  <2> QED BY <2>2, <2>3, <2>4 DEF RoomMade
<1>10. PICK at \in Nat : /\ at = x.at /\ at \in N..(Len(es) + N) /\ FreeRow(es, N, at)
                         /\ \A k \in N..(at - 1) : ~FreeRow(es, N, k)
  <2>1. PICK i : i = Place(es, N)
    OBVIOUS
  <2>2. i \in N..(Len(es) + N) /\ FreeRow(es, N, i) /\ \A k \in N..(i - 1) : ~FreeRow(es, N, k)
    BY <1>1, <1>2, <2>1, PlaceIs
  <2> QED BY <1>1, <1>9, <2>1, <2>2
<1>11. CASE ~x.ok
  <2>1. r = x
    BY <1>4, <1>5, <1>11 DEF Filled
  <2>2. VolOK(x.v, Z) /\ Moved(a, x.v)
    BY <1>9, <1>11
  <2>3. Moved(v, x.v)
    BY <1>4, <2>2, MovedOn
  <2>4. r.ok \in BOOLEAN /\ ~r.ok
    BY <1>9, <1>11, <2>1
  <2> QED BY <2>1, <2>2, <2>3, <2>4
<1>12. ASSUME x.ok
       PROVE  /\ r.ok /\ r.at = at
              /\ r.v = PutUnits(x.v, t, at - N + 1, Pieces(n, sfn))
  <2>1. r = [x EXCEPT !.v = PutUnits(@, t, x.at - NEnt(n) + 1, Pieces(n, sfn))]
    BY <1>2, <1>4, <1>5, <1>12 DEF Filled
  <2>2. r = [v |-> PutUnits(x.v, t, x.at - NEnt(n) + 1, Pieces(n, sfn)), at |-> x.at, ok |-> x.ok]
    BY <1>6, <2>1
  <2> QED BY <1>2, <1>10, <1>12, <2>2
<1>13. CASE x.ok /\ x.at <= Len(es) /\ VolOK(x.v, Z) /\ Moved(a, x.v)
  <2>1. FirstRow(es, N, at)
    BY <1>1, <1>2, <1>10, <1>13 DEF FirstRow
  <2>2. PICK w : w = PutUnits(x.v, t, at - N + 1, Pieces(n, sfn)) /\ r.v = w /\ r.at = at /\ r.ok
    BY <1>12, <1>13
  <2>3. PICK u : u = x.v /\ Show(u) = Show(v) /\ Moved(v, u)
    BY <1>4, <1>7, <1>13, MovedOn DEF Moved
  <2>4. VolOK(u, Z) /\ Holds(Show(u), t, es) /\ TabSects(Show(u)[FAT], t) \subseteq Z
        /\ w = PutUnits(u, t, at - N + 1, Pieces(n, sfn))
    BY <1>13, <2>2, <2>3
  <2>5. VolOK(w, Z)
    BY <1>2, <1>4, <2>1, <2>4, StoreIs
  <2>6. OnEntry(w, Show(w), t, at)
    BY <1>2, <1>4, <2>1, <2>4, StoreIs
  <2>7. \E fs : Stored(u, w, t, es, fs, loose, at, Entry(n, sfn))
    BY <1>2, <1>4, <2>1, <2>4, StoreIs
  <2>8. Registered(v, w, t, es, loose, n, at)
    BY <2>3, <2>7 DEF Registered
  <2> QED BY <2>2, <2>5, <2>6, <2>8
<1>14. CASE ~(x.at <= Len(es) /\ VolOK(x.v, Z) /\ Moved(a, x.v)) /\ x.ok
  <2>1. at > Len(es) /\ t # 0 /\ t \in H
    BY <1>1, <1>9, <1>10, <1>14
  <2>2. PICK c \in Cluster :
             /\ Show(v)[FAT][c] = FREE
             /\ VolOK(x.v, Z \cup {clst2sect(c)}) /\ x.v.mount = v.mount
             /\ Show(x.v) = Cleared(Show(v), c, Last(Chain(Show(v)[FAT], t))) /\ Chip(x.v) = Show(x.v)
    BY <1>7, <1>9, <1>14
  <2>3. PICK gs : gs = Grown(es)
    OBVIOUS
  <2>4. NamesOK(gs, loose) /\ SameNames(es, gs) /\ Len(gs) = Len(es) + U /\ gs \in Seq(DirEnt)
    BY <2>3, GrownIs
  <2>5. \A M \in Nat, k \in Nat : M # 0 /\ k >= M => (FreeRow(gs, M, k) <=> FreeRow(es, M, k))
    BY <2>3, GrownIs
  <2>6. FirstRow(gs, N, at)
    <3>1. at \in N..Len(gs)
      BY <1>1, <1>2, <1>10, <2>4, FatAssumption
    <3>2. FreeRow(gs, N, at)
      BY <1>2, <1>10, <2>5
    <3>3. ASSUME NEW k \in N..(at - 1) PROVE ~FreeRow(gs, N, k)
      <4>1. k \in Nat /\ k >= N
        BY <1>2
      <4> QED BY <1>2, <1>10, <2>5, <4>1
    <3> QED BY <3>1, <3>2, <3>3 DEF FirstRow
  <2>7. Unused(gs, n, sfn)
    BY <1>4, <2>4 DEF Unused, SameNames
  <2>8. PICK g, Y, w : g = x.v /\ Y = Z \cup {clst2sect(c)} /\ w = PutUnits(g, t, at - N + 1, Pieces(n, sfn))
                       /\ r.v = w /\ r.at = at /\ r.ok
    BY <1>12, <1>14
  <2>9. PICK S : S = Show(v) /\ IsImage(S)
    BY DEF Show, IsImage
  <2>10. FatSound(S[FAT], H, loose) /\ Holds(S, t, es) /\ S[FAT][c] = FREE
         /\ Show(g) = Cleared(S, c, Last(Chain(S[FAT], t)))
    BY <2>2, <2>8, <2>9
  <2>11. Stretched(S, Show(g), H, loose, t, es, c)
    <3>1. PICK R : R = Show(g) /\ R = Cleared(S, c, Last(Chain(S[FAT], t)))
      BY <2>10
    <3>2. t \in H /\ t # 0 /\ IsImage(S)
      BY <2>1, <2>9
    <3> QED BY <2>10, <3>1, <3>2, GrowIs
  <2>12. Holds(Show(g), t, gs) /\ TabSects(Show(g)[FAT], t) = TabSects(S[FAT], t) \cup {clst2sect(c)}
    BY <2>3, <2>11 DEF Stretched
  <2>13. VolOK(g, Y) /\ TabSects(Show(g)[FAT], t) \subseteq Y
    BY <2>2, <2>8, <2>9, <2>12
  <2>14. VolOK(w, Y)
    BY <1>2, <2>4, <2>6, <2>7, <2>8, <2>12, <2>13, StoreIs
  <2>15. OnEntry(w, Show(w), t, at)
    BY <1>2, <2>4, <2>6, <2>7, <2>8, <2>12, <2>13, StoreIs
  <2>16. \E fs : Stored(g, w, t, gs, fs, loose, at, Entry(n, sfn))
    BY <1>2, <2>4, <2>6, <2>7, <2>8, <2>12, <2>13, StoreIs
  <2>17. Registered(g, w, t, gs, loose, n, at)
    BY <2>16, NotMoved DEF Registered
  <2> QED BY <2>1, <2>2, <2>3, <2>8, <2>14, <2>15, <2>17
<1>15. r.ok \in BOOLEAN
  BY <1>9, <1>11, <1>12, <1>4, <1>5 DEF Filled
<1> QED BY <1>11, <1>13, <1>14, <1>15

\* dir_register(): the name is stored, in the table as it is or after another
\* cluster was added to it, or nothing changes.
THEOREM DirRegisterIs ==
  ASSUME NEW Z, NEW v, VolOK(v, Z), NEW t, NEW es, Holds(Show(v), t, es),
         TabSects(Show(v)[FAT], t) \subseteq Z,
         NEW H, NEW loose \in BOOLEAN, FatSound(Show(v)[FAT], H, loose), t = 0 \/ t \in H,
         NamesOK(es, loose), NEW n \in Name, Absent(es, n),
         NEW r, r = DirRegister(v, t, n)
  PROVE  Outcome(Z, v, t, es, loose, n, r)
<1>1. NamesOK(es, TRUE)
  BY DEF NamesOK
<1>2. CASE Prepared(Z, v, t, es, n, r)
  BY <1>2, RegisterGoesOn
<1>3. CASE Denied(Z, v, es, n, r)
  BY <1>3 DEF Denied, Outcome
<1> QED BY <1>1, <1>2, <1>3, RegisterBegins
=============================================================================
