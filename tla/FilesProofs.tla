---------------------------- MODULE FilesProofs ----------------------------
(***************************************************************************)
(* Proofs about reading and writing files, for every volume, any number of *)
(* processes and any sizes: chains of clusters stay apart, a loop is in    *)
(* the cluster its offset belongs to, and the clusters hold what was       *)
(* written.  The first part is about chains in any table: the function     *)
(* that get_nth_cluster computes, the number of clusters on a chain, and   *)
(* what linking a cluster does to every chain.                             *)
(***************************************************************************)
EXTENDS Files, FiniteSetTheorems, WellFoundedInduction, TLAPS

\* A set of numbers that is not empty has a least one.
LEMMA Least ==
  ASSUME NEW T, T \subseteq Nat, T # {}
  PROVE  \E n \in T : \A k \in T : n <= k
<1>1. PICK n \in T : \A k \in T : ~ (<<k, n>> \in OpToRel(<, Nat))
  BY NatLessThanWellFounded, WFMin
<1>2. ASSUME NEW k \in T
      PROVE  n <= k
  <2>1. n \in Nat /\ k \in Nat
    OBVIOUS
  <2>2. ~ (<<k, n>> \in OpToRel(<, Nat))
    BY <1>1
  <2>3. k < n => <<k, n>> \in OpToRel(<, Nat)
    BY <2>1 DEF OpToRel
  <2>4. ~ (k < n)
    BY <2>2, <2>3, Zenon
  <2>. QED
    BY <2>1, <2>4
<1>. QED
  BY <1>2

\* Induction, for a set of numbers.
LEMMA AllNumbers ==
  ASSUME NEW T, 0 \in T, \A n \in Nat : n \in T => n + 1 \in T
  PROVE  Nat \subseteq T
<1>. SUFFICES ASSUME Nat \ T # {}
              PROVE  FALSE
  OBVIOUS
<1>1. PICK n \in Nat \ T : \A k \in Nat \ T : n <= k
  BY Least
<1>2. n - 1 \in Nat /\ n - 1 \in T
  BY <1>1
<1>. QED
  BY <1>1, <1>2
-----------------------------------------------------------------------------
\* What follows d in table t.
After(t, d) == IF d \in FatEntry THEN t[d] ELSE EOC

\* The clusters from c on.
Way(t, c) == CHOOSE f : f = [k \in Nat |-> IF k = 0 THEN c ELSE After(t, f[k - 1])]

LEMMA NthIsWay ==
  ASSUME NEW t, NEW c, NEW n \in Nat
  PROVE  Nth(t, c, n) = Way(t, c)[n]
  BY DEF Nth, Way, After

\* The first n clusters of a way.
WayTo(f, t, c, n) == /\ f = [k \in 0 .. n |-> f[k]]
                     /\ f[0] = c
                     /\ \A k \in 1 .. n : f[k] = After(t, f[k - 1])

\* Two beginnings of a way agree as far as both go.
LEMMA WaysAgree ==
  ASSUME NEW t, NEW c, NEW m \in Nat, NEW n \in Nat, NEW f, NEW g,
         WayTo(f, t, c, m), WayTo(g, t, c, n)
  PROVE  \A k \in Nat : k <= m /\ k <= n => f[k] = g[k]
<1>. DEFINE T == {k \in Nat : k <= m /\ k <= n => f[k] = g[k]}
<1>1. 0 \in T
  BY DEF WayTo
<1>2. ASSUME NEW k \in Nat, k \in T
      PROVE  k + 1 \in T
  <2>. SUFFICES ASSUME k + 1 <= m, k + 1 <= n
                PROVE  f[k + 1] = g[k + 1]
    OBVIOUS
  <2>1. k + 1 \in 1 .. m /\ k + 1 \in 1 .. n /\ (k + 1) - 1 = k
    OBVIOUS
  <2>2. f[k + 1] = After(t, f[k]) /\ g[k + 1] = After(t, g[k])
    BY <2>1 DEF WayTo
  <2>3. f[k] = g[k]
    BY <1>2
  <2>. QED
    BY <2>2, <2>3
<1>. HIDE DEF T
<1>3. Nat \subseteq T
  BY <1>1, <1>2, AllNumbers
<1>. QED
  BY <1>3 DEF T

\* There is a beginning of any length.
LEMMA WayExists ==
  ASSUME NEW t, NEW c
  PROVE  \A n \in Nat : \E f : WayTo(f, t, c, n)
<1>. DEFINE T == {n \in Nat : \E f : WayTo(f, t, c, n)}
<1>1. 0 \in T
  <2>. DEFINE f == [k \in 0 .. 0 |-> c]
  <2>1. WayTo(f, t, c, 0)
    BY DEF WayTo
  <2>. QED
    BY <2>1
<1>2. ASSUME NEW n \in Nat, n \in T
      PROVE  n + 1 \in T
  <2>1. PICK f : WayTo(f, t, c, n)
    BY <1>2
  <2>. DEFINE g == [k \in 0 .. n + 1 |-> IF k = n + 1 THEN After(t, f[n]) ELSE f[k]]
  <2>2. /\ g = [k \in 0 .. n + 1 |-> g[k]]
        /\ g[0] = c
    BY <2>1 DEF WayTo
  <2>3. ASSUME NEW k \in 1 .. n + 1
        PROVE  g[k] = After(t, g[k - 1])
    <3>1. g[k - 1] = f[k - 1]
      OBVIOUS
    <3>2. CASE k = n + 1
      <4>1. k - 1 = n
        BY <3>2
      <4>. QED
        BY <3>1, <3>2, <4>1
    <3>3. CASE k \in 1 .. n
      <4>1. g[k] = f[k]
        BY <3>3
      <4>. HIDE DEF g
      <4>2. f[k] = After(t, f[k - 1])
        BY <2>1, <3>3 DEF WayTo
      <4>. QED
        BY <3>1, <4>1, <4>2
    <3>. QED
      BY <3>2, <3>3
  <2>. HIDE DEF g
  <2>4. WayTo(g, t, c, n + 1)
    BY <2>2, <2>3 DEF WayTo
  <2>. QED
    BY <2>4
<1>. HIDE DEF T
<1>3. Nat \subseteq T
  BY <1>1, <1>2, AllNumbers
<1>. QED
  BY <1>3 DEF T

\* What get_nth_cluster computes: from one cluster to the next.
LEMMA NthUnfolds ==
  ASSUME NEW t, NEW c
  PROVE  /\ Nth(t, c, 0) = c
         /\ \A n \in Nat : Nth(t, c, n + 1) = After(t, Nth(t, c, n))
<1>. DEFINE part(n) == CHOOSE f : WayTo(f, t, c, n)
            whole == [n \in Nat |-> part(n)[n]]
<1>1. \A n \in Nat : WayTo(part(n), t, c, n)
  BY WayExists
<1>. HIDE DEF part
<1>2. whole[0] = c
  BY <1>1 DEF WayTo
<1>3. ASSUME NEW n \in Nat
      PROVE  whole[n + 1] = After(t, whole[n])
  <2>1. n + 1 \in Nat /\ n + 1 \in 1 .. n + 1 /\ (n + 1) - 1 = n
    OBVIOUS
  <2>2. part(n + 1)[n + 1] = After(t, part(n + 1)[n])
    BY <1>1, <2>1 DEF WayTo
  <2>3. part(n + 1)[n] = part(n)[n]
    BY <1>1, <2>1, WaysAgree
  <2>. QED
    BY <2>1, <2>2, <2>3
<1>4. whole = [n \in Nat |-> IF n = 0 THEN c ELSE After(t, whole[n - 1])]
  <2>1. ASSUME NEW n \in Nat, n # 0
        PROVE  whole[n] = After(t, whole[n - 1])
    <3>1. n - 1 \in Nat /\ (n - 1) + 1 = n
      BY <2>1
    <3>. HIDE DEF whole
    <3>. QED
      BY <1>3, <3>1
  <2>2. whole = [n \in Nat |-> whole[n]]
    OBVIOUS
  <2>. HIDE DEF whole
  <2>. QED
    BY <1>2, <2>1, <2>2
<1>. HIDE DEF whole
<1>5. Way(t, c) = [n \in Nat |-> IF n = 0 THEN c ELSE After(t, Way(t, c)[n - 1])]
  BY <1>4 DEF Way
<1>6. Way(t, c)[0] = c
  BY <1>5
<1>7. ASSUME NEW n \in Nat
      PROVE  Way(t, c)[n + 1] = After(t, Way(t, c)[n])
  <2>1. n + 1 \in Nat /\ n + 1 # 0 /\ (n + 1) - 1 = n
    OBVIOUS
  <2>. DEFINE m == n + 1
  <2>3. m \in Nat => Way(t, c)[m] = IF m = 0 THEN c ELSE After(t, Way(t, c)[m - 1])
    <3>. HIDE DEF m
    <3>. QED
      BY <1>5
  <2>. QED
    BY <2>1, <2>3
<1>. QED
  BY <1>6, <1>7, NthIsWay
-----------------------------------------------------------------------------
Table == [FatEntry -> Number]

\* Cluster number n of file f.
At(t, f, n) == Nth(t, Entries[f].cluster, n)

LEMMA NoEntries == FREE \notin FatEntry /\ EOC \notin FatEntry /\ NO_CLUSTER \notin FatEntry /\ FREE # EOC
<1>1. EOC \in Nat /\ EOC > 2 /\ FREE = 0 /\ NO_CLUSTER = 0
  BY DEF EOC, FREE, NO_CLUSTER
<1>2. FAT_ENTRIES \in 3 .. EOC
  BY FilesAssumption
<1>3. FAT_ENTRIES \in Int /\ FAT_ENTRIES <= EOC
  BY <1>1, <1>2
<1>4. ASSUME NEW c \in FatEntry
      PROVE  c \in Int /\ c >= 2 /\ c < EOC
  <2>1. c \in 2 .. FAT_ENTRIES - 1
    BY DEF FatEntry
  <2>. QED
    BY <1>1, <1>3, <2>1
<1>. QED
  BY <1>1, <1>4

\* Behind what is no cluster the chain does not go on.
LEMMA BeyondEnd ==
  ASSUME NEW t, NEW c, NEW n \in Nat, Nth(t, c, n) \notin FatEntry
  PROVE  \A k \in Nat : k > n => Nth(t, c, k) = EOC
<1>. DEFINE T == {k \in Nat : k > n => Nth(t, c, k) = EOC}
<1>1. 0 \in T
  OBVIOUS
<1>2. ASSUME NEW k \in Nat, k \in T
      PROVE  k + 1 \in T
  <2>. SUFFICES ASSUME k + 1 > n
                PROVE  Nth(t, c, k + 1) = EOC
    OBVIOUS
  <2>1. k = n \/ k > n
    OBVIOUS
  <2>2. Nth(t, c, k) \notin FatEntry
    BY <1>2, <2>1, NoEntries
  <2>. QED
    BY <2>2, NthUnfolds DEF After
<1>. HIDE DEF T
<1>3. Nat \subseteq T
  BY <1>1, <1>2, AllNumbers
<1>. QED
  BY <1>3 DEF T

\* The chains of t have these lengths, are apart, and take up all that is not free.
Chained(t, len) ==
  /\ len \in [File -> Nat]
  /\ \A f \in File : /\ len[f] = 0 <=> Entries[f].cluster = NO_CLUSTER
                     /\ \A n \in Nat : n < len[f] => At(t, f, n) \in FatEntry
                     /\ len[f] > 0 => At(t, f, len[f]) = EOC
  /\ \A f, g \in File : \A m, n \in Nat :
       m < len[f] /\ n < len[g] /\ At(t, f, m) = At(t, g, n) => f = g /\ m = n
  /\ \A c \in FatEntry : t[c] # FREE => \E f \in File : \E n \in Nat : n < len[f] /\ c = At(t, f, n)

\* The lengths when the chain of f has one more cluster.
Longer(len, f) == [len EXCEPT ![f] = @ + 1]

\* In u entry i is linked behind c, and the end; otherwise u is t.
LinkedBehind(t, u, c, i) == /\ t[i] = FREE
                            /\ u[c] = i
                            /\ u[i] = EOC
                            /\ \A d \in FatEntry : d # c /\ d # i => u[d] = t[d]

\* The clusters a chain has.
LEMMA BeforeEnd ==
  ASSUME NEW t, NEW len, Chained(t, len), NEW f \in File, NEW n \in Nat
  PROVE  At(t, f, n) \in FatEntry <=> n < len[f]
<1>1. len[f] \in Nat
  BY DEF Chained
<1>2. At(t, f, len[f]) \notin FatEntry
  <2>1. CASE len[f] = 0
    <3>1. At(t, f, 0) = NO_CLUSTER
      BY <2>1, NthUnfolds DEF Chained, At
    <3>. QED
      BY <2>1, <3>1, NoEntries
  <2>2. CASE len[f] > 0
    BY <2>2, NoEntries DEF Chained
  <2>. QED
    BY <1>1, <2>1, <2>2
<1>3. n > len[f] => At(t, f, n) = EOC
  BY <1>1, <1>2, BeyondEnd DEF At
<1>. QED
  BY <1>1, <1>2, <1>3, NoEntries DEF Chained

LEMMA EntriesAre == FAT_ENTRIES \in Nat /\ FAT_ENTRIES >= 3
<1>1. FAT_ENTRIES \in 3 .. EOC
  BY FilesAssumption
<1>2. EOC \in Nat
  BY DEF EOC
<1>. QED
  BY <1>1, <1>2

LEMMA EntriesFinite == IsFiniteSet(FatEntry) /\ Cardinality(FatEntry) = FAT_ENTRIES - 2
<1>1. FAT_ENTRIES \in Int /\ FAT_ENTRIES >= 3
  BY EntriesAre
<1>2. PICK n \in Int : n = FAT_ENTRIES - 1 /\ n >= 2
  BY <1>1
<1>3. IsFiniteSet(2 .. n) /\ Cardinality(2 .. n) = IF 2 > n THEN 0 ELSE n - 2 + 1
  BY FS_Interval
<1>4. Cardinality(2 .. n) = FAT_ENTRIES - 2
  BY <1>1, <1>2, <1>3
<1>. QED
  BY <1>2, <1>3, <1>4 DEF FatEntry

LEMMA ClustersHaveEntries == Cluster \subseteq FatEntry
<1>1. FAT_ENTRIES \in Nat /\ FAT_ENTRIES >= 3
  BY EntriesAre
<1>2. LAST_CLUSTER \in 2 .. FAT_ENTRIES - 1
  BY FilesAssumption
<1>3. LAST_CLUSTER \in Int /\ LAST_CLUSTER <= FAT_ENTRIES - 1
  BY <1>1, <1>2
<1>. QED
  BY <1>1, <1>3 DEF Cluster, FatEntry

\* As many clusters as the chain is long.
LEMMA ChainCounts ==
  ASSUME NEW t, NEW len, Chained(t, len), NEW f \in File
  PROVE  /\ ChainIn(t, f) = {At(t, f, n) : n \in 0 .. len[f] - 1}
         /\ Cardinality(ChainIn(t, f)) = len[f]
<1>. DEFINE I == 0 .. len[f] - 1
            h == [n \in I |-> At(t, f, n)]
            C == ChainIn(t, f)
<1>1. len[f] \in Nat
  BY DEF Chained
<1>2. \A n \in I : n \in Nat /\ n < len[f] /\ At(t, f, n) \in FatEntry
  BY <1>1, BeforeEnd
<1>3. \A m, n \in I : At(t, f, m) = At(t, f, n) => m = n
  BY <1>2 DEF Chained
<1>4. IsFiniteSet(I) /\ Cardinality(I) = len[f]
  <2>1. 0 \in Int /\ len[f] - 1 \in Int
    BY <1>1
  <2>2. /\ IsFiniteSet(I)
        /\ Cardinality(I) = IF 0 > len[f] - 1 THEN 0 ELSE (len[f] - 1) - 0 + 1
    BY <2>1, FS_Interval
  <2>. QED
    BY <1>1, <2>2
<1>5. h \in Injection(I, FatEntry)
  BY <1>2, <1>3 DEF Injection, IsInjective
<1>6. len[f] <= FAT_ENTRIES - 2
  BY <1>4, <1>5, FS_Injection, EntriesFinite
<1>7. C = {At(t, f, n) : n \in I}
  <2>1. ASSUME NEW n \in I
        PROVE  At(t, f, n) \in C
    <3>1. n \in 0 .. FAT_ENTRIES
      BY <1>1, <1>6, EntriesAre
    <3>. QED
      BY <1>2, <3>1 DEF ChainIn, At
  <2>2. ASSUME NEW c \in C
        PROVE  \E n \in I : c = At(t, f, n)
    <3>1. PICK n \in 0 .. FAT_ENTRIES : c = At(t, f, n) /\ At(t, f, n) \in FatEntry
      BY DEF ChainIn, At
    <3>2. n \in Nat /\ n < len[f]
      BY <1>1, <3>1, BeforeEnd
    <3>. QED
      BY <1>1, <3>1, <3>2
  <2>. QED
    BY <2>1, <2>2
<1>8. h \in Bijection(I, C)
  BY <1>3, <1>7 DEF Bijection, Injection, Surjection, IsInjective
<1>9. ExistsBijection(I, C)
  BY <1>8 DEF ExistsBijection
<1>10. Cardinality(C) = len[f]
  BY <1>4, <1>9, FS_Bijection
<1>. QED
  BY <1>7, <1>10

\* So a table whose chains have lengths is well formed.
LEMMA ChainedIsWellFormed ==
  ASSUME NEW t, NEW len, Chained(t, len)
  PROVE  WellFormed(t)
<1>1. ASSUME NEW f \in File, Entries[f].cluster # NO_CLUSTER
      PROVE  Nth(t, Entries[f].cluster, Cardinality(ChainIn(t, f))) = EOC
  <2>1. len[f] \in Nat /\ len[f] > 0
    BY <1>1 DEF Chained
  <2>. QED
    BY <2>1, ChainCounts DEF Chained, At
<1>2. ASSUME NEW f \in File, NEW g \in File, f # g
      PROVE  ChainIn(t, f) \cap ChainIn(t, g) = {}
  <2>. SUFFICES ASSUME NEW c \in ChainIn(t, f), c \in ChainIn(t, g)
                PROVE  FALSE
    OBVIOUS
  <2>1. len[f] \in Nat /\ len[g] \in Nat
    BY DEF Chained
  <2>2. PICK m \in 0 .. len[f] - 1 : c = At(t, f, m)
    BY ChainCounts
  <2>3. PICK n \in 0 .. len[g] - 1 : c = At(t, g, n)
    BY ChainCounts
  <2>4. m \in Nat /\ n \in Nat /\ m < len[f] /\ n < len[g]
    BY <2>1
  <2>. QED
    BY <1>2, <2>2, <2>3, <2>4 DEF Chained
<1>3. ASSUME NEW c \in FatEntry, t[c] # FREE
      PROVE  \E f \in File : c \in ChainIn(t, f)
  <2>1. PICK f \in File, n \in Nat : n < len[f] /\ c = At(t, f, n)
    BY <1>3 DEF Chained
  <2>2. n \in 0 .. len[f] - 1
    BY <2>1 DEF Chained
  <2>. QED
    BY <2>1, <2>2, ChainCounts
<1>. QED
  BY <1>1, <1>2, <1>3 DEF WellFormed

\* The lengths of the chains of t.
Lengths(t) == [f \in File |-> Cardinality(ChainIn(t, f))]

\* The first n clusters of a file are at most n, and n only when they differ.
LEMMA FirstClusters ==
  ASSUME NEW t, NEW f, NEW n \in Nat
  PROVE  LET C == {At(t, f, k) : k \in 0 .. n - 1}
         IN  /\ IsFiniteSet(C)
             /\ Cardinality(C) <= n
             /\ Cardinality(C) = n => \A j, k \in 0 .. n - 1 : At(t, f, j) = At(t, f, k) => j = k
<1>. DEFINE I == 0 .. n - 1
            C == {At(t, f, k) : k \in I}
            h == [k \in I |-> At(t, f, k)]
<1>1. IsFiniteSet(I) /\ Cardinality(I) = n
  BY FS_Interval
<1>2. h \in Surjection(I, C)
  BY DEF Surjection
<1>3. IsFiniteSet(C) /\ Cardinality(C) <= n /\ (Cardinality(C) = n => h \in Injection(I, C))
  BY <1>1, <1>2, FS_Surjection
<1>4. ASSUME h \in Injection(I, C), NEW j \in I, NEW k \in I, At(t, f, j) = At(t, f, k)
      PROVE  j = k
  <2>1. h[j] = h[k]
    BY <1>4
  <2>. HIDE DEF h, I
  <2>. QED
    BY <1>4, <2>1 DEF Injection, IsInjective
<1>. QED
  BY <1>3, <1>4

\* And the chains of a well-formed table have lengths.
LEMMA WellFormedIsChained ==
  ASSUME NEW t \in Table, WellFormed(t)
  PROVE  Chained(t, Lengths(t))
<1>. DEFINE len == Lengths(t)
<1>1. ASSUME NEW f \in File
      PROVE  len[f] \in Nat /\ len[f] <= FAT_ENTRIES - 2
  <2>1. ChainIn(t, f) \in SUBSET FatEntry
    BY DEF ChainIn
  <2>. QED
    BY <2>1, FS_Subset, FS_CardinalityType, EntriesFinite DEF Lengths
<1>2. ASSUME NEW f \in File, Entries[f].cluster = NO_CLUSTER
      PROVE  len[f] = 0
  <2>1. At(t, f, 0) \notin FatEntry
    BY <1>2, NthUnfolds, NoEntries DEF At
  <2>2. \A k \in Nat : At(t, f, k) \notin FatEntry
    BY <2>1, BeyondEnd, NoEntries DEF At
  <2>3. 0 .. FAT_ENTRIES \subseteq Nat
    OBVIOUS
  <2>4. ChainIn(t, f) = {}
    BY <2>2, <2>3 DEF ChainIn, At
  <2>. QED
    BY <2>4, FS_EmptySet DEF Lengths
<1>3. ASSUME NEW f \in File, Entries[f].cluster # NO_CLUSTER
      PROVE  /\ len[f] > 0
             /\ At(t, f, len[f]) = EOC
             /\ \A n \in Nat : n < len[f] => At(t, f, n) \in FatEntry
             /\ ChainIn(t, f) = {At(t, f, k) : k \in 0 .. len[f] - 1}
  <2>. DEFINE C == ChainIn(t, f)
  <2>1. len[f] \in Nat /\ len[f] <= FAT_ENTRIES - 2 /\ FAT_ENTRIES \in Nat
    BY <1>1, EntriesAre
  <2>2. At(t, f, len[f]) = EOC
    BY <1>3 DEF WellFormed, At, Lengths
  <2>3. len[f] # 0
    <3>1. Entries[f].cluster \in FatEntry
      BY <1>3, FilesAssumption, ClustersHaveEntries
    <3>2. At(t, f, 0) \in FatEntry
      BY <3>1, NthUnfolds DEF At
    <3>. QED
      BY <2>2, <3>2, NoEntries
  <2>4. ASSUME NEW n \in Nat, n < len[f], At(t, f, n) \notin FatEntry
        PROVE  FALSE
    <3>. DEFINE B == {At(t, f, k) : k \in 0 .. n - 1}
    <3>1. IsFiniteSet(B) /\ Cardinality(B) <= n
      BY FirstClusters
    <3>2. ASSUME NEW k \in 0 .. FAT_ENTRIES, At(t, f, k) \in FatEntry
          PROVE  k \in 0 .. n - 1
      BY <2>4, <3>2, BeyondEnd, NoEntries DEF At
    <3>3. C \in SUBSET B
      BY <3>2 DEF ChainIn, At
    <3>4. Cardinality(C) <= Cardinality(B) /\ Cardinality(B) \in Nat
      BY <3>1, <3>3, FS_Subset, FS_CardinalityType
    <3>5. Cardinality(C) = len[f]
      BY DEF Lengths
    <3>. HIDE DEF B, C
    <3>. QED
      BY <2>1, <2>4, <3>1, <3>4, <3>5
  <2>5. ASSUME NEW k \in 0 .. FAT_ENTRIES, At(t, f, k) \in FatEntry
        PROVE  k \in 0 .. len[f] - 1
    BY <2>1, <2>2, <2>5, BeyondEnd, NoEntries DEF At
  <2>6. ASSUME NEW k \in 0 .. len[f] - 1
        PROVE  k \in 0 .. FAT_ENTRIES /\ At(t, f, k) \in FatEntry
    <3>1. k \in Nat /\ k < len[f] /\ k \in 0 .. FAT_ENTRIES
      BY <2>1
    <3>. QED
      BY <2>4, <3>1
  <2>7. C = {At(t, f, k) : k \in 0 .. len[f] - 1}
    BY <2>5, <2>6 DEF ChainIn, At
  <2>. QED
    BY <2>1, <2>2, <2>3, <2>4, <2>7
<1>. HIDE DEF len
<1>4. ASSUME NEW f \in File, NEW n \in Nat, n < len[f]
      PROVE  At(t, f, n) \in ChainIn(t, f)
  <2>1. Entries[f].cluster # NO_CLUSTER /\ n \in 0 .. len[f] - 1
    BY <1>1, <1>2, <1>4
  <2>. QED
    BY <1>3, <2>1
<1>5. ASSUME NEW f \in File, NEW g \in File, NEW m \in Nat, NEW n \in Nat,
             m < len[f], n < len[g], At(t, f, m) = At(t, g, n)
      PROVE  f = g /\ m = n
  <2>1. f = g
    BY <1>4, <1>5 DEF WellFormed
  <2>2. Entries[f].cluster # NO_CLUSTER /\ m \in 0 .. len[f] - 1 /\ n \in 0 .. len[f] - 1
    BY <1>1, <1>2, <1>5, <2>1
  <2>3. Cardinality({At(t, f, k) : k \in 0 .. len[f] - 1}) = len[f]
    BY <1>3, <2>2 DEF len, Lengths
  <2>4. \A j, k \in 0 .. len[f] - 1 : At(t, f, j) = At(t, f, k) => j = k
    BY <1>1, <2>3, FirstClusters
  <2>. QED
    BY <1>5, <2>1, <2>2, <2>4
<1>6. ASSUME NEW c \in FatEntry, t[c] # FREE
      PROVE  \E f \in File : \E n \in Nat : n < len[f] /\ c = At(t, f, n)
  <2>1. PICK f \in File : c \in ChainIn(t, f)
    BY <1>6 DEF WellFormed
  <2>2. Entries[f].cluster # NO_CLUSTER
    BY <1>2, <2>1, FS_EmptySet, EntriesFinite, FS_Subset DEF len, Lengths, ChainIn
  <2>3. PICK k \in 0 .. len[f] - 1 : c = At(t, f, k)
    BY <1>3, <2>1, <2>2
  <2>4. k \in Nat /\ k < len[f]
    BY <1>1
  <2>. QED
    BY <2>3, <2>4
<1>7. len \in [File -> Nat]
  BY <1>1 DEF len, Lengths
<1>8. Chained(t, len)
  BY <1>1, <1>2, <1>3, <1>5, <1>6, <1>7 DEF Chained
<1>. QED
  BY <1>8 DEF len

\* From one cluster of a file to the next.
LEMMA NextOnChain ==
  ASSUME NEW t, NEW f, NEW n \in Nat, At(t, f, n) \in FatEntry
  PROVE  At(t, f, n + 1) = t[At(t, f, n)]
  BY NthUnfolds DEF At, After

\* A cluster on a chain is not free.
LEMMA FreeIsApart ==
  ASSUME NEW t, NEW len, Chained(t, len), NEW f \in File, NEW n \in Nat, n < len[f]
  PROVE  t[At(t, f, n)] # FREE
<1>1. At(t, f, n) \in FatEntry /\ len[f] \in Nat
  BY DEF Chained
<1>2. At(t, f, n + 1) = t[At(t, f, n)]
  BY <1>1, NextOnChain
<1>3. CASE n + 1 < len[f]
  BY <1>2, <1>3, NoEntries DEF Chained
<1>4. CASE n + 1 = len[f]
  BY <1>2, <1>4, NoEntries DEF Chained
<1>. QED
  BY <1>1, <1>3, <1>4

\* The last cluster of a chain, and only that, is marked with EOC.
LEMMA EndIsLast ==
  ASSUME NEW t, NEW len, Chained(t, len), NEW f \in File, NEW n \in Nat, n < len[f]
  PROVE  t[At(t, f, n)] = EOC <=> n = len[f] - 1
<1>1. At(t, f, n) \in FatEntry /\ len[f] \in Nat
  BY DEF Chained
<1>2. At(t, f, n + 1) = t[At(t, f, n)]
  BY <1>1, NextOnChain
<1>3. CASE n + 1 < len[f]
  BY <1>1, <1>2, <1>3, NoEntries DEF Chained
<1>4. CASE n + 1 = len[f]
  BY <1>1, <1>2, <1>4 DEF Chained
<1>. QED
  BY <1>1, <1>3, <1>4

\* Putting a free cluster behind the last one of a file makes its chain longer by
\* that cluster, and leaves the others as they are.
LEMMA LinkChains ==
  ASSUME NEW t \in Table, NEW len, NEW f \in File, NEW c, NEW i \in FatEntry, NEW u,
         Chained(t, len), len[f] > 0, c = At(t, f, len[f] - 1), LinkedBehind(t, u, c, i)
  PROVE  /\ Chained(u, Longer(len, f))
         /\ \A g \in File : \A n \in Nat : n < len[g] => At(u, g, n) = At(t, g, n)
         /\ At(u, f, len[f]) = i
<1>. DEFINE longer == Longer(len, f)
<1>1. len \in [File -> Nat] /\ len[f] - 1 \in Nat /\ len[f] - 1 < len[f]
  BY DEF Chained
<1>2. c \in FatEntry /\ c # i
  BY <1>1, FreeIsApart DEF Chained, LinkedBehind
<1>3. /\ u[c] = i /\ u[i] = EOC
      /\ \A d \in FatEntry : d # c /\ d # i => u[d] = t[d]
      /\ t[i] = FREE
  BY DEF LinkedBehind
<1>4. ASSUME NEW g \in File, NEW n \in Nat, n < len[g]
      PROVE  /\ At(t, g, n) \in FatEntry /\ At(t, g, n) # i
             /\ At(t, g, n) = c => g = f /\ n = len[f] - 1
  BY SMTT(30), <1>1, <1>3, <1>4, FreeIsApart DEF Chained
<1>5. ASSUME NEW g \in File
      PROVE  \A n \in Nat : n < len[g] => At(u, g, n) = At(t, g, n)
  <2>. DEFINE T == {n \in Nat : n < len[g] => At(u, g, n) = At(t, g, n)}
  <2>1. 0 \in T
    BY NthUnfolds DEF At
  <2>2. ASSUME NEW n \in Nat, n \in T
        PROVE  n + 1 \in T
    <3>. SUFFICES ASSUME n + 1 < len[g]
                  PROVE  At(u, g, n + 1) = At(t, g, n + 1)
      OBVIOUS
    <3>1. len[g] \in Nat /\ n < len[g]
      BY <1>1
    <3>2. At(t, g, n) \in FatEntry /\ At(t, g, n) # i /\ At(t, g, n) # c
      BY <1>1, <1>4, <3>1
    <3>3. At(u, g, n) = At(t, g, n)
      BY <2>2, <3>1
    <3>4. At(u, g, n + 1) = u[At(t, g, n)]
      BY <3>2, <3>3, NextOnChain
    <3>5. At(t, g, n + 1) = t[At(t, g, n)]
      BY <3>2, NextOnChain
    <3>. QED
      BY <1>3, <3>2, <3>4, <3>5
  <2>. HIDE DEF T
  <2>3. Nat \subseteq T
    BY <2>1, <2>2, AllNumbers
  <2>. QED
    BY <2>3 DEF T
<1>6. At(u, f, len[f]) = i /\ At(u, f, len[f] + 1) = EOC
  <2>1. At(u, f, len[f] - 1) = c
    BY <1>1, <1>5
  <2>2. At(u, f, (len[f] - 1) + 1) = i
    BY <1>1, <1>2, <1>3, <2>1, NextOnChain
  <2>3. (len[f] - 1) + 1 = len[f] /\ len[f] \in Nat
    BY <1>1
  <2>4. At(u, f, len[f]) = i
    BY <2>2, <2>3
  <2>5. At(u, f, len[f] + 1) = u[i]
    BY <2>3, <2>4, NextOnChain
  <2>. QED
    BY <1>3, <2>4, <2>5
<1>7. ASSUME NEW g \in File, g # f, len[g] > 0
      PROVE  At(u, g, len[g]) = EOC
  <2>1. len[g] - 1 \in Nat /\ len[g] - 1 < len[g] /\ (len[g] - 1) + 1 = len[g]
    BY <1>1, <1>7
  <2>2. /\ At(t, g, len[g] - 1) \in FatEntry
        /\ At(t, g, len[g] - 1) # i
        /\ At(t, g, len[g] - 1) # c
        /\ At(u, g, len[g] - 1) = At(t, g, len[g] - 1)
    BY <1>4, <1>5, <1>7, <2>1
  <2>3. At(u, g, (len[g] - 1) + 1) = u[At(t, g, len[g] - 1)]
    BY <2>1, <2>2, NextOnChain
  <2>4. At(t, g, (len[g] - 1) + 1) = t[At(t, g, len[g] - 1)]
    BY <2>1, <2>2, NextOnChain
  <2>. QED
    BY <1>3, <1>7, <2>1, <2>2, <2>3, <2>4 DEF Chained
<1>8. /\ longer \in [File -> Nat]
      /\ longer[f] = len[f] + 1
      /\ \A g \in File : g # f => longer[g] = len[g]
  BY <1>1 DEF Longer
<1>. HIDE DEF longer
<1>9. ASSUME NEW g \in File, NEW n \in Nat, n < longer[g]
      PROVE  \/ n < len[g] /\ At(u, g, n) = At(t, g, n)
             \/ g = f /\ n = len[f] /\ At(u, g, n) = i
  <2>1. CASE n < len[g]
    BY <1>5, <2>1
  <2>2. CASE ~ (n < len[g])
    <3>1. g = f /\ n = len[f]
      BY <1>1, <1>8, <1>9, <2>2
    <3>. QED
      BY <1>6, <3>1
  <2>. QED
    BY <2>1, <2>2
<1>10. Chained(u, longer)
  <2>1. ASSUME NEW g \in File
        PROVE  /\ longer[g] = 0 <=> Entries[g].cluster = NO_CLUSTER
               /\ \A n \in Nat : n < longer[g] => At(u, g, n) \in FatEntry
               /\ longer[g] > 0 => At(u, g, longer[g]) = EOC
    <3>1. longer[g] = 0 <=> Entries[g].cluster = NO_CLUSTER
      <4>1. longer[g] = 0 <=> len[g] = 0
        BY <1>1, <1>8
      <4>. QED
        BY <4>1 DEF Chained
    <3>2. ASSUME NEW n \in Nat, n < longer[g]
          PROVE  At(u, g, n) \in FatEntry
      BY <1>4, <1>9, <3>2
    <3>3. longer[g] > 0 => At(u, g, longer[g]) = EOC
      BY <1>6, <1>7, <1>8
    <3>. QED
      BY <3>1, <3>2, <3>3
  <2>2. ASSUME NEW g \in File, NEW h \in File, NEW m \in Nat, NEW n \in Nat,
               m < longer[g] /\ n < longer[h] /\ At(u, g, m) = At(u, h, n)
        PROVE  g = h /\ m = n
    <3>1. \/ m < len[g] /\ At(u, g, m) = At(t, g, m)
          \/ g = f /\ m = len[f] /\ At(u, g, m) = i
      BY <1>9, <2>2
    <3>2. \/ n < len[h] /\ At(u, h, n) = At(t, h, n)
          \/ h = f /\ n = len[f] /\ At(u, h, n) = i
      BY <1>9, <2>2
    <3>3. CASE m < len[g] /\ At(u, g, m) = At(t, g, m) /\ n < len[h] /\ At(u, h, n) = At(t, h, n)
      <4>1. At(t, g, m) = At(t, h, n)
        BY <2>2, <3>3
      <4>. QED
        BY <3>3, <4>1 DEF Chained
    <3>. QED
      BY <1>4, <2>2, <3>1, <3>2, <3>3
  <2>3. ASSUME NEW d \in FatEntry, u[d] # FREE
        PROVE  \E g \in File : \E n \in Nat : n < longer[g] /\ d = At(u, g, n)
    <3>1. CASE d = i
      <4>1. len[f] \in Nat /\ len[f] < longer[f]
        BY <1>1, <1>8
      <4>. QED
        BY <1>6, <3>1, <4>1
    <3>2. CASE d # i
      <4>1. t[d] # FREE
        <5>1. CASE d = c
          BY <1>1, <5>1, FreeIsApart
        <5>. QED
          BY <1>3, <2>3, <3>2, <5>1
      <4>2. PICK g \in File, n \in Nat : n < len[g] /\ d = At(t, g, n)
        BY <4>1 DEF Chained
      <4>3. n < longer[g]
        BY <1>1, <1>8, <4>2
      <4>. QED
        BY <1>5, <4>2, <4>3
    <3>. QED
      BY <3>1, <3>2
  <2>. QED
    BY <1>8, <2>1, <2>2, <2>3 DEF Chained
<1>. QED
  BY <1>5, <1>6, <1>10 DEF longer
-----------------------------------------------------------------------------
\* Division, for whoever cannot divide.
LEMMA Division ==
  ASSUME NEW b \in Nat \ {0}, NEW a \in Nat
  PROVE  /\ a \div b \in Nat
         /\ a % b \in 0 .. b - 1
         /\ a = b * (a \div b) + (a % b)
  OBVIOUS

LEMMA Quotient ==
  ASSUME NEW b \in Nat \ {0}, NEW q \in Nat, NEW r \in 0 .. b - 1, NEW a \in Nat, a = b * q + r
  PROVE  a \div b = q /\ a % b = r
<1>1. a \div b \in Nat /\ a % b \in 0 .. b - 1 /\ a = b * (a \div b) + (a % b)
  BY Division
<1>2. ASSUME NEW d \in Nat, NEW s \in 0 .. b - 1, a = b * d + s
      PROVE  d = q
  <2>1. CASE d < q
    <3>1. q - d - 1 \in Nat
      BY <2>1
    <3>2. b * q = b * d + b + b * (q - d - 1)
      OBVIOUS
    <3>3. b * (q - d - 1) >= 0
      BY <3>1
    <3>. QED
      BY <1>2, <3>2, <3>3
  <2>2. CASE d > q
    <3>1. d - q - 1 \in Nat
      BY <2>2
    <3>2. b * d = b * q + b + b * (d - q - 1)
      OBVIOUS
    <3>3. b * (d - q - 1) >= 0
      BY <3>1
    <3>. QED
      BY <1>2, <3>2, <3>3
  <2>. QED
    BY <2>1, <2>2
<1>3. a \div b = q
  BY <1>1, <1>2
<1>. QED
  BY <1>1, <1>3

LEMMA SameQuotient ==
  ASSUME NEW b \in Nat \ {0}, NEW a \in Nat, NEW k \in Nat, (a % b) + k < b,
         NEW c, c = a + k
  PROVE  c \div b = a \div b /\ c % b = (a % b) + k
<1>. DEFINE q == a \div b
            s == a % b
<1>1. q \in Nat /\ s \in 0 .. b - 1 /\ a = b * q + s /\ s + k < b
  BY Division
<1>. HIDE DEF q, s
<1>2. s + k \in 0 .. b - 1 /\ c \in Nat /\ c = b * q + (s + k)
  BY <1>1
<1>3. c \div b = q /\ c % b = s + k
  BY <1>1, <1>2, Quotient
<1>. QED
  BY <1>3 DEF q, s

LEMMA NextQuotient ==
  ASSUME NEW b \in Nat \ {0}, NEW a \in Nat, NEW c, c = a + (b - (a % b))
  PROVE  c \div b = a \div b + 1 /\ c % b = 0
<1>1. a \div b \in Nat /\ a % b \in 0 .. b - 1 /\ a = b * (a \div b) + (a % b)
  BY Division
<1>2. /\ a \div b + 1 \in Nat
      /\ 0 \in 0 .. b - 1
      /\ c \in Nat
      /\ b * (a \div b + 1) = b * (a \div b) + b
  BY <1>1
<1>3. c = b * (a \div b + 1) + 0
  BY <1>1, <1>2
<1>. QED
  BY <1>2, <1>3, Quotient

LEMMA QuotientBelow ==
  ASSUME NEW b \in Nat \ {0}, NEW a \in Nat, NEW n \in Nat
  PROVE  a < b * n <=> a \div b < n
<1>1. a \div b \in Nat /\ a % b \in 0 .. b - 1 /\ a = b * (a \div b) + (a % b)
  BY Division
<1>2. CASE a \div b < n
  <2>1. n - a \div b - 1 \in Nat
    BY <1>1, <1>2
  <2>2. b * n = b * (a \div b) + b + b * (n - a \div b - 1)
    BY <1>1
  <2>3. b * (n - a \div b - 1) >= 0
    BY <2>1
  <2>. QED
    BY <1>1, <1>2, <2>2, <2>3
<1>3. CASE a \div b >= n
  <2>1. a \div b - n \in Nat
    BY <1>1, <1>3
  <2>2. b * (a \div b) = b * n + b * (a \div b - n)
    BY <1>1
  <2>3. b * (a \div b - n) >= 0
    BY <2>1
  <2>. QED
    BY <1>1, <1>3, <2>2, <2>3
<1>. QED
  BY <1>1, <1>2, <1>3
-----------------------------------------------------------------------------
Writing(p) == pc[p] \in {"fetch", "store", "stored", "link"}

\* The cluster that was written last.
LastCluster(p) == ClusterAt(stream[p].file, stream[p].offset - 1)

\* The cluster the FILE of p points to.
Here(p) == ClusterAt(stream[p].file, stream[p].offset)

ChainLen(f) == Cardinality(ChainOf(f))

ContentInv == /\ content = [f \in File |-> content[f]]
              /\ \A f \in File : DOMAIN content[f] \subseteq Nat

\* A process between two transfers has something left to do, and is in a cluster of
\* its own file; the one that is allocating is alone, and its cluster still free.
CallOK(p) ==
  /\ pc[p] \in {"idle", "read"} => stream[p].offset <= stream[p].filesize
  /\ pc[p] \in {"fetch", "store", "link"} => left[p] > 0
  /\ Writing(p) => cur[p] \in FatEntry
  /\ "overlap" \notin trouble =>
       /\ Writing(p) /\ "stray" \notin trouble => cur[p] \in ChainOf(stream[p].file)
       /\ pc[p] = "link" => /\ fat[cur[p]] = EOC
                            /\ found[p] # FREE => fat[found[p]] = FREE
                            /\ \A q \in Proc : pc[q] = "link" => q = p

CallInv == \A p \in Proc : CallOK(p)

\* The cluster a process is in is the one its offset belongs to, or, after the
\* transfer, the one in front of it; and every chain is as long as its file needs.
CursorOK(p) ==
  /\ Reading(p) \/ pc[p] \in {"fetch", "store"} => cur[p] = Here(p)
  /\ pc[p] \in {"stored", "link"} => /\ stream[p].offset > 0
                                     /\ cur[p] = LastCluster(p)
                                     /\ left[p] > 0 => Pos(p) = 0
  /\ stream[p].filesize <= bytes_per_cluster * ChainLen(stream[p].file)

CursorInv ==
  trouble \cap {"wrapped", "overlap"} = {} =>
    /\ "stray" \notin trouble
    /\ \A p \in Proc : CursorOK(p)
    /\ \A f \in File : Entries[f].filesize <= bytes_per_cluster * ChainLen(f)

\* What has been fetched is still what the cluster holds.
BufferInv ==
  trouble \cap {"wrapped", "overtaken", "overlap"} = {} =>
    \A p \in Proc : pc[p] = "store" => buffer[p] = Sectors(cur[p])

\* As long as the volume has not been full, only its clusters are on chains.
VolumeInv ==
  "beyond" \notin trouble => \A c \in FatEntry : fat[c] \in Cluster \cup {FREE, EOC}

\* The clusters there are hold what was written.
DiskInv ==
  trouble \cap {"wrapped", "overtaken", "overlap"} = {} =>
    \A f \in File : \A o \in DOMAIN content[f] :
      LET c == ClusterAt(f, o)
      IN  c \in FatEntry /\ (c \in Cluster => disk[c][o % bytes_per_cluster] = content[f][o])

IInv == /\ TypeOK
        /\ ContentInv
        /\ ChainsApart
        /\ CallInv
        /\ CursorInv
        /\ BufferInv
        /\ VolumeInv
        /\ DiskInv

LEMMA PosIsOffset ==
  ASSUME TypeOK, NEW p \in Proc
  PROVE  /\ stream[p] \in Stream
         /\ Pos(p) \in Offset
         /\ bytes_per_cluster \in Nat \ {0}
<1>1. stream[p] \in Stream
  BY DEF TypeOK
<1>2. stream[p].offset \in Nat
  BY <1>1 DEF Stream
<1>. QED
  BY <1>1, <1>2, Division, FilesAssumption DEF Pos, Offset

\* How much is read from one cluster.
LEMMA ReadChunkIs ==
  ASSUME TypeOK, CallInv, NEW p \in Proc, Reading(p)
  PROVE  /\ ReadChunk(p) \in Nat \ {0}
         /\ ReadChunk(p) <= left[p]
         /\ ReadChunk(p) <= bytes_per_cluster - Pos(p)
         /\ ReadChunk(p) <= stream[p].filesize - stream[p].offset
         /\ \/ ReadChunk(p) = left[p]
            \/ ReadChunk(p) = bytes_per_cluster - Pos(p)
            \/ ReadChunk(p) = stream[p].filesize - stream[p].offset
<1>. DEFINE a == left[p]
            b == bytes_per_cluster - Pos(p)
            c == stream[p].filesize - stream[p].offset
<1>1. a \in Nat \ {0}
  BY DEF TypeOK, Reading
<1>2. b \in Nat \ {0}
  BY PosIsOffset DEF Offset
<1>3. c \in Nat \ {0}
  BY PosIsOffset DEF CallInv, CallOK, Reading, Stream
<1>. HIDE DEF a, b, c
<1>4. \E x \in {a, b, c} : \A y \in {a, b, c} : x <= y
  BY <1>1, <1>2, <1>3
<1>5. /\ Min({a, b, c}) \in {a, b, c}
      /\ \A y \in {a, b, c} : Min({a, b, c}) <= y
  BY <1>4 DEF Min
<1>6. ReadChunk(p) = Min({a, b, c})
  BY DEF ReadChunk, a, b, c
<1>7. /\ ReadChunk(p) \in {a, b, c}
      /\ ReadChunk(p) <= a /\ ReadChunk(p) <= b /\ ReadChunk(p) <= c
      /\ ReadChunk(p) \in Nat \ {0}
  BY <1>1, <1>2, <1>3, <1>5, <1>6
<1>. QED
  BY <1>7 DEF a, b, c

\* How much is written to one cluster.
LEMMA WriteChunkIs ==
  ASSUME TypeOK, CallInv, NEW p \in Proc, pc[p] = "store"
  PROVE  /\ WriteChunk(p) \in Nat \ {0}
         /\ WriteChunk(p) <= left[p]
         /\ WriteChunk(p) <= bytes_per_cluster - Pos(p)
         /\ \/ WriteChunk(p) = left[p]
            \/ WriteChunk(p) = bytes_per_cluster - Pos(p)
<1>. DEFINE a == left[p]
            b == bytes_per_cluster - Pos(p)
<1>1. a \in Nat \ {0}
  BY DEF TypeOK, CallInv, CallOK
<1>2. b \in Nat \ {0}
  BY PosIsOffset DEF Offset
<1>. HIDE DEF a, b
<1>3. \E x \in {a, b} : \A y \in {a, b} : x <= y
  BY <1>1, <1>2
<1>4. /\ Min({a, b}) \in {a, b}
      /\ \A y \in {a, b} : Min({a, b}) <= y
  BY <1>3 DEF Min
<1>5. WriteChunk(p) = Min({a, b})
  BY DEF WriteChunk, a, b
<1>6. /\ WriteChunk(p) \in {a, b}
      /\ WriteChunk(p) <= a /\ WriteChunk(p) <= b
      /\ WriteChunk(p) \in Nat \ {0}
  BY <1>1, <1>2, <1>4, <1>5
<1>. QED
  BY <1>6 DEF a, b

\* What allocate_cluster finds.
LEMMA FirstFreeIs ==
  ASSUME TypeOK
  PROVE  FirstFree \in FatEntry \cup {FREE} /\ (FirstFree # FREE => fat[FirstFree] = FREE)
<1>. DEFINE S == {c \in FatEntry : fat[c] = FREE}
<1>1. CASE S # {}
  <2>1. S \subseteq Nat
    BY EntriesAre DEF FatEntry
  <2>. HIDE DEF S
  <2>2. \E n \in S : \A k \in S : n <= k
    BY <1>1, <2>1, Least
  <2>3. Min(S) \in S
    BY <2>2 DEF Min
  <2>4. FirstFree = Min(S)
    BY <1>1 DEF FirstFree, S
  <2>. QED
    BY <2>3, <2>4 DEF S
<1>2. CASE S = {}
  BY <1>2 DEF FirstFree
<1>. QED
  BY <1>1, <1>2

LEMMA FirstIsNumber ==
  ASSUME NEW f \in File
  PROVE  Entries[f].cluster \in Number
<1>1. Cluster \subseteq FatEntry
  BY ClustersHaveEntries
<1>. QED
  BY <1>1, FilesAssumption DEF Number, NO_CLUSTER, FREE

LEMMA NthType ==
  ASSUME NEW t \in Table, NEW f \in File, NEW n \in Nat
  PROVE  At(t, f, n) \in Number
<1>1. CASE n = 0
  BY <1>1, NthUnfolds, FirstIsNumber DEF At
<1>2. CASE n # 0
  <2>1. n - 1 \in Nat /\ (n - 1) + 1 = n
    BY <1>2
  <2>2. At(t, f, (n - 1) + 1) = After(t, At(t, f, n - 1))
    BY <2>1, NthUnfolds DEF At
  <2>. QED
    BY <2>1, <2>2 DEF After, Table, Number
<1>. QED
  BY <1>1, <1>2

\* Where all links lead to clusters of the volume, so do chains.
LEMMA ChainInVolume ==
  ASSUME NEW t, NEW f \in File, NEW n \in Nat, At(t, f, n) \in FatEntry,
         \A c \in FatEntry : t[c] \in Cluster \cup {FREE, EOC}
  PROVE  At(t, f, n) \in Cluster
<1>1. CASE n = 0
  BY <1>1, NthUnfolds, FilesAssumption, NoEntries DEF At
<1>2. CASE n # 0
  <2>1. n - 1 \in Nat /\ (n - 1) + 1 = n
    BY <1>2
  <2>2. At(t, f, (n - 1) + 1) = After(t, At(t, f, n - 1))
    BY <2>1, NthUnfolds DEF At
  <2>. QED
    BY <2>1, <2>2, NoEntries DEF After
<1>. QED
  BY <1>1, <1>2

\* Where a FILE points to.
LEMMA CurrentIs ==
  ASSUME TypeOK, NEW p \in Proc
  PROVE  /\ fat \in Table
         /\ stream[p].file \in File
         /\ stream[p].offset \in Nat
         /\ stream[p].offset \div bytes_per_cluster \in Nat
         /\ Here(p) = At(fat, stream[p].file, stream[p].offset \div bytes_per_cluster)
         /\ Here(p) \in Number
         /\ CurrentCluster(p) \subseteq Number
         /\ Strays(p) = {} => CurrentCluster(p) = {Here(p)}
<1>1. fat \in Table /\ stream[p] \in Stream
  BY DEF TypeOK, Table
<1>2. stream[p].file \in File /\ stream[p].offset \in Nat
  BY <1>1 DEF Stream
<1>3. stream[p].offset \div bytes_per_cluster \in Nat
  BY <1>2, Division, FilesAssumption
<1>4. Here(p) = At(fat, stream[p].file, stream[p].offset \div bytes_per_cluster)
  BY DEF Here, ClusterAt, At
<1>5. Here(p) \in Number
  BY <1>1, <1>2, <1>3, <1>4, NthType
<1>6. Nth(fat, First(p), Turns(p)) = Here(p)
  BY DEF First, Turns, Here, ClusterAt
<1>7. /\ CurrentCluster(p) = Number \/ CurrentCluster(p) = {Here(p)}
      /\ Strays(p) = {} => CurrentCluster(p) = {Here(p)}
  BY <1>6 DEF CurrentCluster, get_nth_cluster, Strays
<1>. QED
  BY <1>1, <1>2, <1>3, <1>4, <1>5, <1>7

LEMMA FreshIs ==
  ASSUME NEW f \in File
  PROVE  Fresh(f) \in Stream
  BY FilesAssumption DEF Fresh, Stream

\* A FILE that is moved.
LEMMA StreamMoves ==
  ASSUME NEW s \in [Proc -> Stream], NEW p \in Proc, NEW o \in Nat,
         NEW u, u = [s EXCEPT ![p].offset = o]
  PROVE  /\ u \in [Proc -> Stream]
         /\ u[p].file = s[p].file /\ u[p].filesize = s[p].filesize /\ u[p].offset = o
         /\ \A q \in Proc : q # p => u[q] = s[q]
<1>1. s[p] \in Stream
  OBVIOUS
<1>2. [s[p] EXCEPT !.offset = o] \in Stream
  BY <1>1 DEF Stream
<1>3. u = [s EXCEPT ![p] = [s[p] EXCEPT !.offset = o]]
  OBVIOUS
<1>. QED
  BY <1>1, <1>2, <1>3 DEF Stream

\* A FILE that is longer.
LEMMA StreamGrows ==
  ASSUME NEW s \in [Proc -> Stream], NEW p \in Proc, NEW k \in Nat,
         NEW u, u = [s EXCEPT ![p].filesize = k]
  PROVE  /\ u \in [Proc -> Stream]
         /\ u[p].file = s[p].file /\ u[p].filesize = k /\ u[p].offset = s[p].offset
         /\ \A q \in Proc : q # p => u[q] = s[q]
<1>1. s[p] \in Stream
  OBVIOUS
<1>2. [s[p] EXCEPT !.filesize = k] \in Stream
  BY <1>1 DEF Stream
<1>3. u = [s EXCEPT ![p] = [s[p] EXCEPT !.filesize = k]]
  OBVIOUS
<1>. QED
  BY <1>1, <1>2, <1>3 DEF Stream

\* The greater of two numbers.
LEMMA Greater ==
  ASSUME NEW a \in Nat, NEW b \in Nat
  PROVE  Max({a, b}) \in Nat /\ Max({a, b}) >= a /\ Max({a, b}) >= b /\ Max({a, b}) \in {a, b}
<1>1. \E x \in {a, b} : \A y \in {a, b} : x >= y
  OBVIOUS
<1>. QED
  BY <1>1 DEF Max

\* Every value stays in its range.
LEMMA NextTypes ==
  ASSUME TypeOK, ContentInv, CallInv, [Next]_vars
  PROVE  TypeOK' /\ ContentInv'
<1>. USE DEF io
<1>1. CASE UNCHANGED vars
  BY <1>1 DEF vars, TypeOK, ContentInv
<1>2. ASSUME NEW p \in Proc, fopen(p)
      PROVE  TypeOK' /\ ContentInv'
  BY <1>2, FreshIs DEF fopen, TypeOK, ContentInv
<1>3. ASSUME NEW p \in Proc, fseek(p)
      PROVE  TypeOK' /\ ContentInv'
  <2>1. stream' \in [Proc -> Stream]
    <3>1. PICK o \in Seeks : stream' = [stream EXCEPT ![p].offset = o]
      BY <1>3 DEF fseek
    <3>. QED
      BY <3>1, StreamMoves, FilesAssumption DEF TypeOK
  <2>. QED
    BY <1>3, <2>1 DEF fseek, TypeOK, ContentInv
<1>4. ASSUME NEW p \in Proc, NEW n \in Sizes, fread(p, n)
      PROVE  TypeOK' /\ ContentInv'
  <2>1. n \in Nat
    BY FilesAssumption
  <2>. QED
    BY <1>4, <2>1, CurrentIs DEF fread, Strays, TypeOK, ContentInv
<1>5. ASSUME NEW p \in Proc, ReadCluster(p)
      PROVE  TypeOK' /\ ContentInv'
  <2>1. /\ Reading(p)
        /\ ReadChunk(p) \in Nat \ {0}
        /\ ReadChunk(p) <= left[p]
    BY <1>5, ReadChunkIs DEF ReadCluster
  <2>2. stream' \in [Proc -> Stream]
    <3>1. stream[p].offset + ReadChunk(p) \in Nat
      BY <2>1, CurrentIs
    <3>. QED
      BY <1>5, <3>1, StreamMoves DEF ReadCluster, TypeOK
  <2>3. left' \in [Proc -> Nat]
    BY <1>5, <2>1 DEF ReadCluster, TypeOK
  <2>4. cur' \in [Proc -> Number]
    BY <1>5 DEF ReadCluster, Following, TypeOK
  <2>. QED
    BY <1>5, <2>2, <2>3, <2>4 DEF ReadCluster, TypeOK, ContentInv
<1>6. ASSUME NEW p \in Proc, ReadOutside(p)
      PROVE  TypeOK' /\ ContentInv'
  BY <1>6 DEF ReadOutside, TypeOK, ContentInv
<1>7. ASSUME NEW p \in Proc, ReadDone(p)
      PROVE  TypeOK' /\ ContentInv'
  BY <1>7 DEF ReadDone, TypeOK, Number, ContentInv
<1>8. ASSUME NEW p \in Proc, NEW n \in Sizes, fwrite(p, n)
      PROVE  TypeOK' /\ ContentInv'
  <2>1. n \in Nat /\ WRITES \in Nat
    BY FilesAssumption
  <2>2. writes' \in 0 .. WRITES
    BY <1>8, <2>1 DEF fwrite, TypeOK
  <2>. QED
    BY <1>8, <2>1, <2>2, CurrentIs DEF fwrite, Strays, TypeOK, ContentInv
<1>9. ASSUME NEW p \in Proc, WriteOutside(p)
      PROVE  TypeOK' /\ ContentInv'
  <2>1. writes' \in 0 .. WRITES
    BY <1>9, FilesAssumption DEF WriteOutside, TypeOK
  <2>. QED
    BY <1>9, <2>1 DEF WriteOutside, Strays, TypeOK, ContentInv
<1>10. ASSUME NEW p \in Proc, FetchCluster(p)
       PROVE  TypeOK' /\ ContentInv'
  <2>1. Sectors(cur[p]) \in [Offset -> Byte]
    BY DEF Sectors, NoData, Byte, TypeOK
  <2>. QED
    BY <1>10, <2>1 DEF FetchCluster, TypeOK, ContentInv
<1>11. ASSUME NEW p \in Proc, StoreCluster(p)
       PROVE  TypeOK' /\ ContentInv'
  <2>1. /\ pc[p] = "store"
        /\ WriteChunk(p) \in Nat \ {0}
        /\ WriteChunk(p) <= left[p]
    BY <1>11, WriteChunkIs DEF StoreCluster
  <2>2. stream' \in [Proc -> Stream]
    <3>1. stream[p].offset + WriteChunk(p) \in Nat
      BY <2>1, CurrentIs
    <3>. QED
      BY <1>11, <3>1, StreamMoves, ZenonT(60) DEF StoreCluster, TypeOK
  <2>3. left' \in [Proc -> Nat]
    BY <1>11, <2>1 DEF StoreCluster, TypeOK
  <2>4. disk' \in [Cluster -> [Offset -> Byte]] /\ buffer' \in [Proc -> [Offset -> Byte]]
    <3>1. Patched(p) \in [Offset -> Byte] /\ NoData \in [Offset -> Byte]
      BY DEF Patched, NoData, TypeOK, Byte
    <3>. QED
      BY <1>11, <3>1 DEF StoreCluster, TypeOK
  <2>5. TypeOK'
    BY <1>11, <2>2, <2>3, <2>4 DEF StoreCluster, TypeOK
  <2>6. ContentInv'
    <3>. DEFINE chunk == stream[p].offset .. stream[p].offset + WriteChunk(p) - 1
                more(f) == [o \in DOMAIN content[f] \cup chunk |->
                              IF o \in chunk THEN p ELSE content[f][o]]
    <3>1. content' = [content EXCEPT ![stream[p].file] = more(stream[p].file)]
      BY <1>11 DEF StoreCluster
    <3>2. chunk \subseteq Nat
      BY <2>1, CurrentIs
    <3>3. \A f \in File : DOMAIN more(f) \subseteq Nat
      BY <3>2 DEF ContentInv
    <3>. HIDE DEF more
    <3>. QED
      BY <3>1, <3>3 DEF ContentInv
  <2>. QED
    BY <2>5, <2>6
<1>12. ASSUME NEW p \in Proc, Extend(p)
       PROVE  TypeOK' /\ ContentInv'
  BY <1>12, FirstFreeIs DEF Extend, TypeOK, ContentInv
<1>13. ASSUME NEW p \in Proc, Rewrite(p)
       PROVE  TypeOK' /\ ContentInv'
  BY <1>13 DEF Rewrite, TypeOK, ContentInv
<1>14. ASSUME NEW p \in Proc, LinkCluster(p)
       PROVE  TypeOK' /\ ContentInv'
  <2>1. fat' \in [FatEntry -> Number]
    BY <1>14 DEF LinkCluster, Linked, TypeOK, Number
  <2>. QED
    BY <1>14, <2>1 DEF LinkCluster, TypeOK, Number, ContentInv
<1>15. ASSUME NEW p \in Proc, WriteDone(p)
       PROVE  TypeOK' /\ ContentInv'
  <2>1. Max({stream[p].filesize, stream[p].offset}) \in Nat
    BY Greater DEF TypeOK, Stream
  <2>2. stream' = [stream EXCEPT ![p].filesize = Max({stream[p].filesize, stream[p].offset})]
    BY <1>15 DEF WriteDone
  <2>3. stream' \in [Proc -> Stream]
    BY <2>1, <2>2, StreamGrows DEF TypeOK
  <2>. QED
    BY <1>15, <2>3 DEF WriteDone, TypeOK, Number, ContentInv
<1>. QED
  BY <1>1, <1>2, <1>3, <1>4, <1>5, <1>6, <1>7, <1>8, <1>9, <1>10, <1>11, <1>12, <1>13,
     <1>14, <1>15 DEF Next, Start, Progress
-----------------------------------------------------------------------------
\* A cluster of a file is on its chain.
LEMMA OnChain ==
  ASSUME NEW t, NEW len, Chained(t, len), NEW f \in File, NEW n \in Nat, n < len[f]
  PROVE  At(t, f, n) \in ChainIn(t, f)
<1>1. n \in 0 .. len[f] - 1
  BY DEF Chained
<1>. QED
  BY <1>1, ChainCounts

LEMMA TableIsChained ==
  ASSUME TypeOK, ChainsApart, "overlap" \notin trouble
  PROVE  /\ Chained(fat, Lengths(fat))
         /\ \A f \in File : ChainLen(f) = Lengths(fat)[f] /\ ChainLen(f) \in Nat
<1>1. fat \in Table /\ WellFormed(fat)
  BY DEF TypeOK, ChainsApart, Table
<1>2. Chained(fat, Lengths(fat))
  BY <1>1, WellFormedIsChained
<1>. QED
  BY <1>2 DEF Lengths, ChainLen, ChainOf, Chained

\* The cluster that is linked comes behind the last one of the file.
LEMMA Links ==
  ASSUME TypeOK, ChainsApart, CallInv, "overlap" \notin trouble, NEW p \in Proc, LinkCluster(p),
         NEW f \in File, cur[p] \in ChainIn(fat, f)
  PROVE  LET n == ChainLen(f)
         IN  /\ Chained(fat', Longer(Lengths(fat), f))
             /\ \A g \in File : \A k \in Nat :
                  k < ChainLen(g) => At(fat', g, k) = At(fat, g, k)
             /\ n > 0 /\ cur[p] = At(fat, f, n - 1)
             /\ At(fat', f, n) = found[p]
<1>. DEFINE len == Lengths(fat)
<1>1. f \in File /\ fat \in Table
  BY CurrentIs
<1>2. Chained(fat, len) /\ \A g \in File : ChainLen(g) = len[g] /\ len[g] \in Nat
  BY TableIsChained
<1>3. /\ found[p] \in FatEntry /\ fat[found[p]] = FREE
      /\ cur[p] \in ChainIn(fat, f) /\ fat[cur[p]] = EOC
      /\ fat' = [fat EXCEPT ![cur[p]] = found[p], ![found[p]] = EOC]
  BY DEF LinkCluster, Linked, TypeOK, CallInv, CallOK, Writing, ChainOf
<1>. HIDE DEF len
<1>4. PICK n \in 0 .. len[f] - 1 : cur[p] = At(fat, f, n)
  BY <1>1, <1>2, <1>3, ChainCounts
<1>5. n \in Nat /\ n < len[f] /\ n = len[f] - 1
  BY <1>1, <1>2, <1>3, <1>4, EndIsLast
<1>6. cur[p] = At(fat, f, len[f] - 1) /\ cur[p] \in FatEntry /\ cur[p] # found[p]
  BY <1>1, <1>2, <1>3, <1>4, <1>5, BeforeEnd, NoEntries
<1>7. /\ fat'[cur[p]] = found[p] /\ fat'[found[p]] = EOC
      /\ \A d \in FatEntry : d # cur[p] /\ d # found[p] => fat'[d] = fat[d]
  BY <1>3, <1>6 DEF TypeOK
<1>8. /\ Chained(fat', Longer(len, f))
      /\ \A g \in File : \A k \in Nat : k < len[g] => At(fat', g, k) = At(fat, g, k)
      /\ At(fat', f, len[f]) = found[p]
  <2>1. PICK c, i, u : c = cur[p] /\ i = found[p] /\ u = fat'
    OBVIOUS
  <2>2. i \in FatEntry /\ len[f] > 0 /\ c = At(fat, f, len[f] - 1)
    BY <1>1, <1>2, <1>3, <1>5, <1>6, <2>1
  <2>3. LinkedBehind(fat, u, c, i)
    BY <1>3, <1>7, <2>1 DEF LinkedBehind
  <2>4. /\ Chained(u, Longer(len, f))
        /\ \A g \in File : \A k \in Nat : k < len[g] => At(u, g, k) = At(fat, g, k)
        /\ At(u, f, len[f]) = i
    BY <1>1, <1>2, <2>2, <2>3, LinkChains
  <2>. QED
    BY <2>1, <2>4
<1>. QED
  BY <1>1, <1>2, <1>5, <1>6, <1>8 DEF len, Longer

\* A cluster that is the end of a chain is that of a file's, and the one a call is
\* in, unless it has strayed, is on its own file's.
LEMMA EndOfChain ==
  ASSUME TypeOK, ChainsApart, CallInv, "overlap" \notin trouble, NEW p \in Proc, LinkCluster(p)
  PROVE  \E f \in File : cur[p] \in ChainIn(fat, f)
<1>1. cur[p] \in FatEntry /\ fat[cur[p]] = EOC
  BY DEF LinkCluster, CallInv, CallOK, Writing
<1>. QED
  BY <1>1, NoEntries DEF ChainsApart, WellFormed

\* Only linking changes the table.
LEMMA TableKept ==
  ASSUME [Next]_vars
  PROVE  /\ trouble \subseteq trouble'
         /\ fat' = fat \/ \E p \in Proc : LinkCluster(p)
<1>. DEFINE Kept == trouble \subseteq trouble' /\ fat' = fat
<1>1. CASE UNCHANGED vars
  BY <1>1 DEF vars
<1>2. ASSUME NEW p \in Proc, Start(p)
      PROVE  Kept
  BY <1>2 DEF Start, io, fopen, fseek, fread, fwrite, WriteOutside
<1>3. ASSUME NEW p \in Proc, ReadCluster(p) \/ ReadOutside(p) \/ ReadDone(p)
      PROVE  Kept
  BY <1>3 DEF io, ReadCluster, ReadOutside, ReadDone
<1>4. ASSUME NEW p \in Proc, FetchCluster(p) \/ StoreCluster(p) \/ WriteDone(p)
      PROVE  Kept
  BY <1>4 DEF io, FetchCluster, StoreCluster, WriteDone
<1>5. ASSUME NEW p \in Proc, Extend(p) \/ Rewrite(p)
      PROVE  Kept
  BY <1>5 DEF Extend, Rewrite
<1>6. ASSUME NEW p \in Proc, LinkCluster(p)
      PROVE  trouble \subseteq trouble'
  BY <1>6 DEF LinkCluster
<1>. QED
  BY <1>1, <1>2, <1>3, <1>4, <1>5, <1>6 DEF Next, Progress

\* How a call may get astray, and when the volume is full.
LEMMA TroubleIs ==
  ASSUME [Next]_vars
  PROVE  /\ "stray" \in trouble' =>
              "stray" \in trouble \/ \E p \in Proc : pc[p] = "idle" /\ Strays(p) # {}
         /\ "beyond" \in trouble' \/ "beyond" \in trouble
              \/ fat' = fat
              \/ \E p \in Proc : fat' = Linked(cur[p], found[p]) /\ found[p] \in Cluster
<1>. DEFINE Same == ("stray" \in trouble' => "stray" \in trouble) /\ fat' = fat
<1>1. CASE UNCHANGED vars
  BY <1>1 DEF vars
<1>2. ASSUME NEW p \in Proc, fopen(p) \/ fseek(p) \/ ReadCluster(p) \/ ReadDone(p)
      PROVE  Same
  BY <1>2 DEF io, fopen, fseek, ReadCluster, ReadDone
<1>3. ASSUME NEW p \in Proc, NEW n \in Sizes, fread(p, n) \/ fwrite(p, n)
      PROVE  pc[p] = "idle" /\ trouble' = trouble \cup Strays(p) /\ fat' = fat
  BY <1>3 DEF fread, fwrite
<1>4. ASSUME NEW p \in Proc, WriteOutside(p)
      PROVE  pc[p] = "idle" /\ trouble' = trouble \cup Strays(p) \cup {"outside"} /\ fat' = fat
  BY <1>4 DEF WriteOutside
<1>5. ASSUME NEW p \in Proc, ReadOutside(p) \/ FetchCluster(p) \/ WriteDone(p)
      PROVE  Same
  BY <1>5 DEF io, ReadOutside, FetchCluster, WriteDone
<1>6. ASSUME NEW p \in Proc, StoreCluster(p) \/ Extend(p) \/ Rewrite(p)
      PROVE  Same
  BY <1>6 DEF StoreCluster, Extend, Rewrite
<1>7. ASSUME NEW p \in Proc, LinkCluster(p)
      PROVE  /\ "stray" \in trouble' => "stray" \in trouble
             /\ fat' = Linked(cur[p], found[p])
             /\ found[p] \in Cluster \/ "beyond" \in trouble'
  BY <1>7 DEF LinkCluster
<1>. HIDE DEF Same
<1>8. Same => ("stray" \in trouble' => "stray" \in trouble) /\ fat' = fat
  BY DEF Same
<1>. QED
  BY <1>1, <1>2, <1>3, <1>4, <1>5, <1>6, <1>7, <1>8 DEF Next, Start, Progress

\* A chain that was longer than k still is, and has the same clusters up to there.
LEMMA ChainsGrow ==
  ASSUME TypeOK, ChainsApart, CallInv, [Next]_vars, "overlap" \notin trouble'
  PROVE  /\ "overlap" \notin trouble
         /\ ChainsApart'
         /\ \A g \in File : /\ ChainLen(g) \in Nat
                            /\ ChainLen(g)' \in Nat
                            /\ ChainLen(g) <= ChainLen(g)'
                            /\ \A k \in Nat : k < ChainLen(g) => At(fat', g, k) = At(fat, g, k)
<1>1. "overlap" \notin trouble
  BY TableKept
<1>2. Chained(fat, Lengths(fat)) /\ \A g \in File : ChainLen(g) = Lengths(fat)[g] /\ ChainLen(g) \in Nat
  BY <1>1, TableIsChained
<1>3. CASE fat' = fat
  BY <1>1, <1>2, <1>3 DEF ChainsApart, ChainLen, ChainOf
<1>4. ASSUME NEW p \in Proc, LinkCluster(p)
      PROVE  /\ ChainsApart'
             /\ \A g \in File :
                  /\ ChainLen(g)' \in Nat
                  /\ ChainLen(g) <= ChainLen(g)'
                  /\ \A k \in Nat : k < ChainLen(g) => At(fat', g, k) = At(fat, g, k)
  <2>0. PICK f \in File : cur[p] \in ChainIn(fat, f)
    BY <1>1, <1>4, EndOfChain
  <2>. DEFINE longer == Longer(Lengths(fat), f)
  <2>1. /\ f \in File
        /\ Chained(fat', longer)
        /\ \A g \in File : \A k \in Nat : k < ChainLen(g) => At(fat', g, k) = At(fat, g, k)
    BY <1>1, <1>4, <2>0, Links
  <2>2. \A g \in File : longer[g] \in Nat /\ longer[g] >= ChainLen(g)
    BY <1>2, <2>1 DEF Chained, Longer
  <2>. HIDE DEF longer
  <2>3. \A g \in File : ChainLen(g)' = longer[g]
    BY <2>1, ChainCounts DEF ChainLen, ChainOf
  <2>4. WellFormed(fat')
    BY <2>1, ChainedIsWellFormed
  <2>. QED
    BY <2>1, <2>2, <2>3, <2>4 DEF ChainsApart
<1>. QED
  BY <1>1, <1>2, <1>3, <1>4, TableKept

LEMMA NextChains ==
  ASSUME TypeOK, ChainsApart, CallInv, [Next]_vars
  PROVE  ChainsApart'
<1>1. CASE "overlap" \notin trouble'
  BY <1>1, ChainsGrow
<1>2. CASE "overlap" \in trouble'
  BY <1>2 DEF ChainsApart
<1>. QED
  BY <1>1, <1>2

\* A cluster that is on the chain of a file stays on it, where it is.
LEMMA StaysOnChain ==
  ASSUME TypeOK, ChainsApart, CallInv, [Next]_vars, "overlap" \notin trouble', NEW f \in File
  PROVE  /\ ChainOf(f) \subseteq ChainOf(f)'
         /\ \A k \in Nat : At(fat, f, k) \in FatEntry => At(fat', f, k) = At(fat, f, k)
<1>1. /\ "overlap" \notin trouble /\ ChainsApart'
      /\ ChainLen(f) \in Nat /\ ChainLen(f)' \in Nat /\ ChainLen(f) <= ChainLen(f)'
      /\ \A k \in Nat : k < ChainLen(f) => At(fat', f, k) = At(fat, f, k)
  BY ChainsGrow
<1>2. Chained(fat, Lengths(fat)) /\ ChainLen(f) = Lengths(fat)[f]
  BY <1>1, TableIsChained
<1>3. ASSUME NEW k \in Nat, At(fat, f, k) \in FatEntry
      PROVE  At(fat', f, k) = At(fat, f, k)
  BY <1>1, <1>2, <1>3, BeforeEnd
<1>4. ASSUME NEW c \in ChainOf(f)
      PROVE  c \in ChainOf(f)'
  <2>1. PICK k \in 0 .. FAT_ENTRIES : c = At(fat, f, k) /\ c \in FatEntry
    BY <1>4 DEF ChainOf, ChainIn, At
  <2>2. k \in Nat
    OBVIOUS
  <2>3. c = At(fat', f, k)
    BY <1>3, <2>1, <2>2
  <2>. QED
    BY <2>1, <2>3 DEF ChainOf, ChainIn, At
<1>. QED
  BY <1>3, <1>4
-----------------------------------------------------------------------------
\* A step of one process leaves what the others are doing alone.
Kept(q) == /\ pc'[q] = pc[q]
           /\ stream'[q] = stream[q]
           /\ left'[q] = left[q]
           /\ cur'[q] = cur[q]
           /\ buffer'[q] = buffer[q]
           /\ found'[q] = found[q]

LEMMA OthersKept ==
  ASSUME TypeOK, NEW p \in Proc, Start(p) \/ Progress(p), NEW q \in Proc, q # p
  PROVE  Kept(q)
<1>. USE DEF Kept, io, TypeOK
<1>1. CASE fopen(p) \/ fseek(p) \/ WriteOutside(p)
  BY <1>1 DEF fopen, fseek, WriteOutside
<1>2. ASSUME NEW n \in Sizes, fread(p, n) \/ fwrite(p, n)
      PROVE  Kept(q)
  BY <1>2 DEF fread, fwrite
<1>3. CASE ReadCluster(p) \/ ReadOutside(p) \/ ReadDone(p)
  BY <1>3 DEF ReadCluster, ReadOutside, ReadDone
<1>4. CASE FetchCluster(p) \/ StoreCluster(p)
  BY <1>4 DEF FetchCluster, StoreCluster
<1>5. CASE Extend(p) \/ Rewrite(p)
  BY <1>5 DEF Extend, Rewrite
<1>6. CASE LinkCluster(p) \/ WriteDone(p)
  BY <1>6 DEF LinkCluster, WriteDone
<1>. QED
  BY <1>1, <1>2, <1>3, <1>4, <1>5, <1>6 DEF Start, Progress

\* When somebody is allocating, nobody else begins to or links.
LEMMA AllocatesAlone ==
  ASSUME CallInv, NEW p \in Proc, Start(p) \/ Progress(p), "overlap" \notin trouble',
         NEW q \in Proc, q # p, pc[q] = "link", TypeOK
  PROVE  fat' = fat /\ pc'[p] # "link" /\ \A r \in Proc : pc[r] = "link" => r = q
<1>. USE DEF io, TypeOK
<1>1. "overlap" \notin trouble
  <2>1. [Next]_vars
    BY DEF Next
  <2>. QED
    BY <2>1, TableKept
<1>2. pc[p] # "link" /\ \A r \in Proc : pc[r] = "link" => r = q
  BY <1>1 DEF CallInv, CallOK
<1>3. CASE fopen(p) \/ fseek(p) \/ WriteOutside(p)
  BY <1>2, <1>3 DEF fopen, fseek, WriteOutside
<1>4. ASSUME NEW n \in Sizes, fread(p, n) \/ fwrite(p, n)
      PROVE  fat' = fat /\ pc'[p] # "link"
  BY <1>2, <1>4 DEF fread, fwrite
<1>5. CASE ReadCluster(p) \/ ReadOutside(p) \/ ReadDone(p)
  BY <1>2, <1>5 DEF ReadCluster, ReadOutside, ReadDone
<1>6. CASE FetchCluster(p) \/ StoreCluster(p)
  BY <1>2, <1>6 DEF FetchCluster, StoreCluster
<1>7. CASE Extend(p)
  BY <1>7 DEF Extend, Overlaps
<1>8. CASE Rewrite(p) \/ LinkCluster(p) \/ WriteDone(p)
  BY <1>2, <1>8 DEF Rewrite, LinkCluster, WriteDone
<1>. QED
  BY <1>2, <1>3, <1>4, <1>5, <1>6, <1>7, <1>8 DEF Start, Progress

\* What a call may rely on survives the steps of the others.
LEMMA CallKept ==
  ASSUME TypeOK, ChainsApart, CallInv, [Next]_vars, NEW q \in Proc, Kept(q),
         pc[q] = "link" /\ "overlap" \notin trouble'
           => fat' = fat /\ \A r \in Proc : pc'[r] = "link" => r = q
  PROVE  CallOK(q)'
<1>1. CallOK(q) /\ stream[q].file \in File
  BY CurrentIs DEF CallInv
<1>2. CASE "overlap" \notin trouble'
  <2>1. PICK f \in File : f = stream[q].file
    BY <1>1
  <2>2. /\ "overlap" \notin trouble /\ ("stray" \in trouble => "stray" \in trouble')
        /\ ChainIn(fat, f) \subseteq ChainIn(fat', f)
    BY <1>2, TableKept, StaysOnChain DEF ChainOf
  <2>3. Writing(q)' = Writing(q)
    BY DEF Kept, Writing
  <2>. QED
    BY <1>1, <1>2, <2>1, <2>2, <2>3 DEF CallOK, Kept, ChainOf
<1>3. CASE "overlap" \in trouble'
  BY <1>1, <1>3 DEF CallOK, Kept, Writing
<1>. QED
  BY <1>2, <1>3

LEMMA NextCalls ==
  ASSUME TypeOK, ChainsApart, CallInv, [Next]_vars
  PROVE  CallInv'
<1>1. CASE UNCHANGED vars
  <2>1. ASSUME NEW q \in Proc
        PROVE  CallOK(q)'
    BY <1>1, CallKept DEF vars, Kept, CallInv, CallOK
  <2>. QED
    BY <2>1 DEF CallInv
<1>2. ASSUME NEW p \in Proc, Start(p) \/ Progress(p), NEW q \in Proc, q # p
      PROVE  CallOK(q)'
  <2>1. Kept(q)
    BY <1>2, OthersKept
  <2>2. ASSUME pc[q] = "link", "overlap" \notin trouble'
        PROVE  fat' = fat /\ \A r \in Proc : pc'[r] = "link" => r = q
    <3>1. fat' = fat /\ pc'[p] # "link" /\ \A r \in Proc : pc[r] = "link" => r = q
      BY <1>2, <2>2, AllocatesAlone
    <3>2. \A r \in Proc : r # p => pc'[r] = pc[r]
      BY <1>2, OthersKept DEF Kept
    <3>. QED
      BY <3>1, <3>2
  <2>. QED
    BY <2>1, <2>2, CallKept
<1>3. ASSUME NEW p \in Proc, fopen(p) \/ fseek(p)
      PROVE  CallOK(p)'
  <2>1. pc'[p] = "idle"
    BY <1>3 DEF fopen, fseek
  <2>2. stream'[p].offset <= stream'[p].filesize
    <3>1. CASE fopen(p)
      BY <1>3, <3>1, FilesAssumption DEF fopen, Fresh, TypeOK
    <3>2. CASE fseek(p)
      <4>1. PICK o \in Seeks : o <= stream[p].filesize /\ stream' = [stream EXCEPT ![p].offset = o]
        BY <3>2 DEF fseek
      <4>. QED
        BY <4>1, StreamMoves, FilesAssumption DEF TypeOK
    <3>. QED
      BY <1>3, <3>1, <3>2
  <2>. QED
    BY <2>1, <2>2 DEF CallOK, Writing
<1>4. ASSUME NEW p \in Proc, NEW n \in Sizes, fread(p, n)
      PROVE  CallOK(p)'
  BY <1>4 DEF fread, CallInv, CallOK, Writing, TypeOK
<1>5. ASSUME NEW p \in Proc, WriteOutside(p) \/ ReadOutside(p)
      PROVE  CallOK(p)'
  BY <1>5 DEF WriteOutside, ReadOutside, Reading, CallInv, CallOK, Writing, TypeOK
<1>6. ASSUME NEW p \in Proc, ReadCluster(p)
      PROVE  CallOK(p)'
  <2>1. pc[p] = "read" /\ pc' = pc /\ stream' = [stream EXCEPT ![p].offset = @ + ReadChunk(p)]
    BY <1>6 DEF ReadCluster, Reading
  <2>2. ReadChunk(p) \in Nat /\ ReadChunk(p) <= stream[p].filesize - stream[p].offset
    BY <1>6, ReadChunkIs DEF ReadCluster
  <2>3. stream[p].offset + ReadChunk(p) \in Nat /\ stream[p].filesize \in Nat
    BY <2>2, CurrentIs, PosIsOffset DEF Stream
  <2>4. /\ stream'[p].offset = stream[p].offset + ReadChunk(p)
        /\ stream'[p].filesize = stream[p].filesize
    BY <2>1, <2>3, StreamMoves DEF TypeOK
  <2>5. stream'[p].offset <= stream'[p].filesize
    BY <2>2, <2>3, <2>4, CurrentIs
  <2>. QED
    BY <2>1, <2>5 DEF CallOK, Writing
<1>7. ASSUME NEW p \in Proc, ReadDone(p)
      PROVE  CallOK(p)'
  BY <1>7 DEF ReadDone, CallInv, CallOK, Writing, TypeOK
<1>8. ASSUME NEW p \in Proc, NEW n \in Sizes, fwrite(p, n)
      PROVE  CallOK(p)'
  <2>1. /\ pc'[p] = "fetch" /\ left'[p] = n /\ stream' = stream /\ fat' = fat
        /\ cur'[p] \in CurrentCluster(p) /\ cur'[p] \in FatEntry
        /\ trouble' = trouble \cup Strays(p)
    BY <1>8 DEF fwrite, TypeOK
  <2>2. n > 0
    BY FilesAssumption
  <2>3. ASSUME "overlap" \notin trouble', "stray" \notin trouble'
        PROVE  cur'[p] \in ChainOf(stream[p].file)
    <3>1. "overlap" \notin trouble /\ cur'[p] = Here(p) /\ Here(p) \in FatEntry
      BY <2>1, <2>3, CurrentIs DEF Strays
    <3>. QED
      BY <3>1, TableIsChained, BeforeEnd, OnChain, CurrentIs DEF ChainOf
  <2>. QED
    BY <2>1, <2>2, <2>3 DEF CallOK, Writing, ChainOf
<1>9. ASSUME NEW p \in Proc, FetchCluster(p)
      PROVE  CallOK(p)'
  BY <1>9 DEF FetchCluster, CallInv, CallOK, Writing, TypeOK, ChainOf
<1>10. ASSUME NEW p \in Proc, StoreCluster(p)
       PROVE  CallOK(p)'
  <2>1. /\ pc[p] = "store" /\ pc'[p] = "stored" /\ fat' = fat /\ cur' = cur
        /\ trouble \subseteq trouble'
        /\ stream' = [stream EXCEPT ![p].offset = @ + WriteChunk(p)]
    BY <1>10 DEF StoreCluster, TypeOK
  <2>2. stream[p].offset + WriteChunk(p) \in Nat
    BY <2>1, WriteChunkIs, CurrentIs
  <2>3. stream'[p].file = stream[p].file
    BY <2>1, <2>2, StreamMoves DEF TypeOK
  <2>. QED
    BY <2>1, <2>3 DEF CallInv, CallOK, Writing, ChainOf
<1>11. ASSUME NEW p \in Proc, Extend(p)
       PROVE  CallOK(p)'
  <2>1. /\ pc[p] = "stored" /\ pc'[p] = "link" /\ fat' = fat /\ cur' = cur /\ left' = left
        /\ stream' = stream /\ left[p] > 0 /\ fat[cur[p]] = EOC /\ found'[p] = FirstFree
        /\ \A q \in Proc : q # p => pc'[q] = pc[q]
    BY <1>11 DEF Extend, TypeOK
  <2>2. "overlap" \notin trouble' => "overlap" \notin trouble /\ \A q \in Proc : pc'[q] = "link" => q = p
    BY <1>11, <2>1 DEF Extend, Overlaps
  <2>3. CallOK(p) /\ ("stray" \in trouble => "stray" \in trouble')
    BY TableKept DEF CallInv
  <2>. QED
    BY <2>1, <2>2, <2>3, FirstFreeIs DEF CallOK, Writing, ChainOf
<1>12. ASSUME NEW p \in Proc, Rewrite(p)
       PROVE  CallOK(p)'
  BY <1>12 DEF Rewrite, CallInv, CallOK, Writing, TypeOK, ChainOf
<1>13. ASSUME NEW p \in Proc, LinkCluster(p)
       PROVE  CallOK(p)'
  <2>1. /\ pc'[p] = "fetch" /\ left' = left /\ left[p] > 0 /\ stream' = stream /\ trouble \subseteq trouble'
        /\ cur'[p] = found[p] /\ found[p] \in FatEntry
    BY <1>13 DEF LinkCluster, TypeOK, CallInv, CallOK
  <2>2. ASSUME "overlap" \notin trouble, "stray" \notin trouble
        PROVE  found[p] \in ChainIn(fat', stream[p].file)
    <3>1. PICK f \in File : f = stream[p].file /\ cur[p] \in ChainIn(fat, f)
      BY <1>13, <2>2, CurrentIs DEF LinkCluster, CallInv, CallOK, Writing, ChainOf
    <3>2. PICK n : n = ChainLen(f)
      OBVIOUS
    <3>3. PICK longer : longer = Longer(Lengths(fat), f)
      OBVIOUS
    <3>4. Chained(fat', longer) /\ At(fat', f, n) = found[p]
      BY <1>13, <2>2, <3>1, <3>2, <3>3, Links
    <3>5. n \in Nat /\ longer[f] = n + 1
      BY <2>2, <3>1, <3>2, <3>3, TableIsChained DEF Chained, Longer
    <3>. QED
      BY <3>1, <3>4, <3>5, OnChain
  <2>. QED
    BY <2>1, <2>2 DEF CallOK, Writing, ChainOf
<1>14. ASSUME NEW p \in Proc, WriteDone(p)
       PROVE  CallOK(p)'
  <2>1. pc'[p] = "idle" /\ stream' = [stream EXCEPT ![p].filesize = Max({@, stream[p].offset})]
    BY <1>14 DEF WriteDone, TypeOK
  <2>2. PICK k \in Nat : k = Max({stream[p].filesize, stream[p].offset}) /\ stream[p].offset <= k
    BY Greater DEF TypeOK, Stream
  <2>3. stream'[p].filesize = k /\ stream'[p].offset = stream[p].offset
    BY <2>1, <2>2, StreamGrows DEF TypeOK
  <2>. QED
    BY <2>1, <2>2, <2>3 DEF CallOK, Writing
<1>15. ASSUME NEW p \in Proc, Start(p) \/ Progress(p)
       PROVE  CallOK(p)'
  BY <1>3, <1>4, <1>5, <1>6, <1>7, <1>8, <1>9, <1>10, <1>11, <1>12, <1>13, <1>14, <1>15
     DEF Start, Progress
<1>16. CASE Next
  BY <1>2, <1>15, <1>16 DEF Next, CallInv
<1>. QED
  BY <1>1, <1>16
-----------------------------------------------------------------------------
LEMMA TimesMonotone ==
  ASSUME NEW n \in Nat, NEW a \in Nat, NEW b \in Nat, a <= b
  PROVE  n * a \in Nat /\ n * b \in Nat /\ n * a <= n * b
<1>1. b - a \in Nat /\ n * b = n * a + n * (b - a)
  OBVIOUS
<1>2. n * (b - a) \in Nat /\ n * a \in Nat /\ n * b \in Nat
  BY <1>1
<1>. QED
  BY <1>1, <1>2

\* The cluster in front of an offset at which a cluster begins.
LEMMA QuotientInFront ==
  ASSUME NEW b \in Nat \ {0}, NEW a \in Nat, a > 0, a % b = 0, NEW c, c = a - 1
  PROVE  c \div b = a \div b - 1
<1>. DEFINE q == a \div b
<1>1. q \in Nat /\ a = b * q
  BY Division
<1>. HIDE DEF q
<1>2. q # 0
  BY <1>1
<1>3. PICK d \in Nat, r \in 0 .. b - 1 : d = q - 1 /\ r = b - 1
  BY <1>1, <1>2
<1>4. b * d = b * q - b
  BY <1>1, <1>3
<1>5. c \in Nat /\ c = b * d + r
  BY <1>1, <1>3, <1>4
<1>6. c \div b = d
  BY <1>5, Quotient
<1>. QED
  BY <1>3, <1>6 DEF q

LEMMA ChainsGrowLonger ==
  ASSUME TypeOK, ChainsApart, CallInv, [Next]_vars, "overlap" \notin trouble',
         NEW f \in File, NEW n \in Nat, n <= bytes_per_cluster * ChainLen(f)
  PROVE  n <= bytes_per_cluster * ChainLen(f)'
<1>1. ChainLen(f) \in Nat /\ ChainLen(f)' \in Nat /\ ChainLen(f) <= ChainLen(f)'
  BY ChainsGrow
<1>2. bytes_per_cluster \in Nat
  BY FilesAssumption
<1>. QED
  BY <1>1, <1>2, TimesMonotone

\* Where a process is stays so while others take their steps.
LEMMA CursorKept ==
  ASSUME TypeOK, ChainsApart, CallInv, CursorInv, [Next]_vars,
         trouble' \cap {"wrapped", "overlap"} = {}, NEW q \in Proc, Kept(q)
  PROVE  CursorOK(q)'
<1>1. PICK f \in File, k \in Nat :
        /\ f = stream[q].file /\ k = stream[q].offset \div bytes_per_cluster
        /\ stream[q].offset \in Nat /\ stream[q].filesize \in Nat
        /\ Here(q) = At(fat, f, k)
  BY CurrentIs, PosIsOffset DEF Stream
<1>2. /\ trouble \cap {"wrapped", "overlap"} = {}
      /\ "overlap" \notin trouble'
      /\ CursorOK(q) /\ CallOK(q)
  BY TableKept DEF CursorInv, CallInv
<1>3. Here(q)' = At(fat', f, k)
  BY <1>1 DEF Kept, Here, ClusterAt, At
<1>4. Reading(q)' = Reading(q)
  BY DEF Kept, Reading
<1>5. ASSUME Reading(q) \/ pc[q] \in {"fetch", "store"}
      PROVE  cur'[q] = Here(q)'
  <2>1. At(fat, f, k) = cur[q]
    BY <1>1, <1>2, <1>5 DEF CursorOK
  <2>2. CASE Reading(q)
    <3>1. ChainLen(f) \in Nat /\ bytes_per_cluster \in Nat \ {0}
      BY <1>2, ChainsGrow, FilesAssumption
    <3>2. stream[q].filesize <= bytes_per_cluster * ChainLen(f)
      BY <1>1, <1>2 DEF CursorOK
    <3>3. stream[q].offset < stream[q].filesize
      BY <1>1, <1>2, <2>2 DEF CallOK, Reading
    <3>4. bytes_per_cluster * ChainLen(f) \in Nat
      BY <3>1, TimesMonotone
    <3>5. stream[q].offset < bytes_per_cluster * ChainLen(f)
      BY <1>1, <3>2, <3>3, <3>4
    <3>6. k < ChainLen(f)
      BY <1>1, <3>1, <3>5, QuotientBelow
    <3>. QED
      BY <1>2, <1>3, <2>1, <3>6, ChainsGrow DEF Kept
  <2>3. CASE pc[q] \in {"fetch", "store"}
    <3>1. At(fat, f, k) \in FatEntry
      BY <1>2, <2>1, <2>3 DEF CallOK, Writing
    <3>. QED
      BY <1>2, <1>3, <2>1, <3>1, StaysOnChain DEF Kept
  <2>. QED
    BY <1>5, <2>2, <2>3
<1>6. ASSUME pc[q] \in {"stored", "link"}
      PROVE  /\ stream'[q].offset > 0
             /\ cur'[q] = LastCluster(q)'
             /\ left'[q] > 0 => Pos(q)' = 0
  <2>1. /\ stream[q].offset > 0 /\ cur[q] = LastCluster(q) /\ cur[q] \in FatEntry
        /\ left[q] > 0 => Pos(q) = 0
    BY <1>2, <1>6 DEF CursorOK, CallOK, Writing
  <2>2. PICK j \in Nat : j = (stream[q].offset - 1) \div bytes_per_cluster
    <3>1. stream[q].offset - 1 \in Nat /\ bytes_per_cluster \in Nat \ {0}
      BY <1>1, <2>1, FilesAssumption
    <3>. QED
      BY <3>1, Division
  <2>3. LastCluster(q) = At(fat, f, j)
    BY <1>1, <2>2 DEF LastCluster, ClusterAt, At
  <2>4. LastCluster(q)' = At(fat', f, j)
    BY <1>1, <2>2 DEF Kept, LastCluster, ClusterAt, At
  <2>5. Pos(q)' = Pos(q)
    BY DEF Kept, Pos
  <2>. QED
    BY <1>2, <2>1, <2>3, <2>4, <2>5, StaysOnChain DEF Kept
<1>7. stream'[q].filesize <= bytes_per_cluster * Cardinality(ChainIn(fat', f))
  <2>1. stream[q].filesize <= bytes_per_cluster * ChainLen(f)
    BY <1>1, <1>2 DEF CursorOK
  <2>. QED
    BY <1>1, <1>2, <2>1, ChainsGrowLonger DEF Kept, ChainLen, ChainOf
<1>8. ChainLen(stream[q].file)' = Cardinality(ChainIn(fat', f))
  BY <1>1 DEF Kept, ChainLen, ChainOf
<1>. QED
  BY <1>4, <1>5, <1>6, <1>7, <1>8 DEF CursorOK, Kept

\* An offset behind the transfer of a part of a cluster, or of the rest of it.
LEMMA ChunkMoves ==
  ASSUME TypeOK, NEW p \in Proc, NEW n \in Nat \ {0}, n <= bytes_per_cluster - Pos(p),
         NEW k, k = stream[p].offset \div bytes_per_cluster,
         NEW o, o = stream[p].offset + n
  PROVE  /\ o \in Nat /\ o > 0
         /\ (o - 1) \div bytes_per_cluster = k
         /\ n = bytes_per_cluster - Pos(p)
              => o \div bytes_per_cluster = k + 1 /\ o % bytes_per_cluster = 0
<1>. DEFINE a == stream[p].offset
            b == bytes_per_cluster
<1>1. a \in Nat /\ b \in Nat \ {0} /\ Pos(p) = a % b /\ k = a \div b /\ Pos(p) \in 0 .. b - 1
  BY CurrentIs, PosIsOffset DEF Pos, Offset
<1>. HIDE DEF a, b
<1>2. o \in Nat /\ o > 0 /\ o = a + n
  BY <1>1 DEF a
<1>3. (o - 1) \div b = k
  <2>1. PICK m \in Nat : m = n - 1
    OBVIOUS
  <2>2. PICK c : c = a + m
    OBVIOUS
  <2>3. (a % b) + m < b
    <3>1. n <= b - Pos(p)
      BY DEF b
    <3>. QED
      BY <1>1, <2>1, <3>1
  <2>4. a \in Nat /\ b \in Nat \ {0}
    BY <1>1
  <2>5. c \div b = a \div b
    BY <2>2, <2>3, <2>4, SameQuotient
  <2>6. c = o - 1
    BY <1>1, <1>2, <2>1, <2>2
  <2>. QED
    BY <1>1, <2>5, <2>6
<1>4. ASSUME n = b - Pos(p)
      PROVE  o \div b = k + 1 /\ o % b = 0
  <2>1. o = a + (b - (a % b))
    BY <1>1, <1>2, <1>4
  <2>. QED
    BY ZenonT(60), <1>1, <2>1, NextQuotient
<1>. QED
  BY <1>2, <1>3, <1>4 DEF b

\* A read goes on in the cluster behind the one it has finished.
LEMMA ReadMovesCursor ==
  ASSUME TypeOK, CallInv, NEW p \in Proc, CursorOK(p), ReadCluster(p)
  PROVE  CursorOK(p)'
<1>1. PICK f \in File, k \in Nat :
        /\ f = stream[p].file /\ k = stream[p].offset \div bytes_per_cluster
        /\ Here(p) = At(fat, f, k)
  BY CurrentIs
<1>2. PICK n \in Nat \ {0} :
        /\ n = ReadChunk(p)
        /\ n <= bytes_per_cluster - Pos(p)
        /\ n = left[p] \/ n = bytes_per_cluster - Pos(p)
             \/ n = stream[p].filesize - stream[p].offset
  BY ReadChunkIs DEF ReadCluster
<1>3. PICK o \in Nat : o = stream[p].offset + n
  BY <1>2, CurrentIs
<1>4. /\ pc[p] = "read" /\ pc' = pc /\ fat' = fat
      /\ left'[p] = left[p] - n
      /\ cur[p] \in FatEntry /\ cur'[p] = fat[cur[p]]
      /\ stream' = [stream EXCEPT ![p].offset = o]
  BY <1>2, <1>3 DEF ReadCluster, Reading, Following, io, TypeOK
<1>5. /\ stream'[p].file = f
      /\ stream'[p].filesize = stream[p].filesize
      /\ stream'[p].offset = o
  BY <1>1, <1>4, StreamMoves DEF TypeOK
<1>6. ASSUME Reading(p)'
      PROVE  cur'[p] = Here(p)'
  <2>1. left[p] \in Nat /\ stream[p].offset \in Nat /\ stream[p].filesize \in Nat
    BY PosIsOffset DEF TypeOK, Stream
  <2>2. left'[p] > 0 /\ o # stream[p].filesize
    BY <1>5, <1>6 DEF Reading
  <2>3. n = bytes_per_cluster - Pos(p)
    BY <1>2, <1>3, <1>4, <2>1, <2>2
  <2>4. o \div bytes_per_cluster = k + 1
    BY <1>1, <1>2, <1>3, <2>3, ChunkMoves
  <2>5. Here(p)' = At(fat', f, k + 1)
    BY <1>5, <2>4 DEF Here, ClusterAt, At
  <2>6. cur[p] = At(fat, f, k)
    BY <1>1 DEF CursorOK, ReadCluster
  <2>7. At(fat, f, k + 1) = fat[cur[p]]
    BY <1>4, <2>6, NextOnChain
  <2>. QED
    BY <1>4, <2>5, <2>7
<1>7. stream'[p].filesize <= bytes_per_cluster * ChainLen(f)'
  BY <1>1, <1>4, <1>5 DEF CursorOK, ChainLen, ChainOf
<1>. QED
  BY <1>4, <1>5, <1>6, <1>7 DEF CursorOK, ChainLen, ChainOf

\* A write is behind the cluster it has transferred.
LEMMA StoreMovesCursor ==
  ASSUME TypeOK, CallInv, NEW p \in Proc, CursorOK(p), StoreCluster(p)
  PROVE  CursorOK(p)'
<1>1. PICK f \in File, k \in Nat :
        /\ f = stream[p].file /\ k = stream[p].offset \div bytes_per_cluster
        /\ Here(p) = At(fat, f, k)
  BY CurrentIs
<1>2. PICK n \in Nat \ {0} :
        /\ n = WriteChunk(p)
        /\ n <= bytes_per_cluster - Pos(p)
        /\ n = left[p] \/ n = bytes_per_cluster - Pos(p)
  BY WriteChunkIs DEF StoreCluster
<1>3. PICK o \in Nat :
        /\ o = stream[p].offset + n /\ o > 0
        /\ (o - 1) \div bytes_per_cluster = k
        /\ n = bytes_per_cluster - Pos(p) => o % bytes_per_cluster = 0
  BY <1>1, <1>2, ChunkMoves
<1>4. /\ pc[p] = "store" /\ pc'[p] = "stored" /\ fat' = fat /\ cur' = cur
      /\ left'[p] = left[p] - n
      /\ stream' = [stream EXCEPT ![p].offset = o]
  BY <1>2, <1>3 DEF StoreCluster, TypeOK
<1>5. /\ stream'[p].file = f
      /\ stream'[p].filesize = stream[p].filesize
      /\ stream'[p].offset = o
  BY <1>1, <1>4, StreamMoves DEF TypeOK
<1>6. cur'[p] = LastCluster(p)'
  <2>1. LastCluster(p)' = At(fat', f, k)
    BY <1>3, <1>5 DEF LastCluster, ClusterAt, At
  <2>2. cur[p] = At(fat, f, k)
    BY <1>1, <1>4 DEF CursorOK
  <2>. QED
    BY <1>4, <2>1, <2>2
<1>7. left'[p] > 0 => Pos(p)' = 0
  <2>. SUFFICES ASSUME left'[p] > 0
                PROVE  Pos(p)' = 0
    OBVIOUS
  <2>1. n = bytes_per_cluster - Pos(p)
    BY <1>2, <1>4 DEF TypeOK
  <2>. QED
    BY <1>3, <1>5, <2>1 DEF Pos
<1>8. stream'[p].filesize <= bytes_per_cluster * ChainLen(f)'
  BY <1>1, <1>4, <1>5 DEF CursorOK, ChainLen, ChainOf
<1>. QED
  BY <1>3, <1>4, <1>5, <1>6, <1>7, <1>8 DEF CursorOK, Reading, ChainLen, ChainOf

\* A cluster that has been linked is the one the write goes on in.
LEMMA LinkMovesCursor ==
  ASSUME TypeOK, ChainsApart, CallInv, trouble \cap {"overlap", "stray"} = {}, [Next]_vars,
         NEW p \in Proc, CursorOK(p), LinkCluster(p)
  PROVE  CursorOK(p)'
<1>1. PICK f \in File : f = stream[p].file /\ cur[p] \in ChainIn(fat, f)
  BY CurrentIs DEF LinkCluster, CallInv, CallOK, Writing, ChainOf
<1>2. PICK n : n = ChainLen(f)
  OBVIOUS
<1>3. /\ n \in Nat /\ n > 0
      /\ cur[p] = At(fat, f, n - 1)
      /\ At(fat', f, n) = found[p]
  BY <1>1, <1>2, Links, TableIsChained
<1>4. /\ pc[p] = "link" /\ pc'[p] = "fetch" /\ stream' = stream /\ "overlap" \notin trouble'
      /\ cur'[p] = found[p] /\ cur[p] \in FatEntry /\ left[p] > 0
  BY DEF LinkCluster, TypeOK, CallInv, CallOK, Writing
<1>5. /\ stream[p].offset \in Nat /\ stream[p].offset > 0
      /\ cur[p] = LastCluster(p) /\ Pos(p) = 0
      /\ stream[p].filesize <= bytes_per_cluster * n
  BY <1>1, <1>2, <1>4, CurrentIs DEF CursorOK
<1>6. PICK a \in Nat : a = stream[p].offset - 1
  BY <1>5
<1>7. PICK j \in Nat : j = a \div bytes_per_cluster
  BY Division, FilesAssumption
<1>8. cur[p] = At(fat, f, j)
  BY <1>1, <1>2, <1>5, <1>6, <1>7 DEF LastCluster, ClusterAt, At
<1>9. j = n - 1
  <2>1. Chained(fat, Lengths(fat)) /\ Lengths(fat)[f] = n
    BY <1>1, <1>2, TableIsChained
  <2>2. j < n /\ n - 1 < n /\ n - 1 \in Nat
    BY <1>3, <1>4, <1>8, <2>1, BeforeEnd
  <2>. QED
    BY <1>3, <1>8, <2>1, <2>2 DEF Chained
<1>10. stream[p].offset \div bytes_per_cluster = n
  <2>1. PICK d \in Nat : d = stream[p].offset \div bytes_per_cluster
    BY <1>5, Division, FilesAssumption
  <2>2. j = d - 1
    BY <1>5, <1>6, <1>7, <2>1, QuotientInFront, FilesAssumption DEF Pos
  <2>. QED
    BY <1>3, <1>9, <2>1, <2>2
<1>11. Here(p)' = found[p]
  BY <1>1, <1>2, <1>3, <1>4, <1>10 DEF Here, ClusterAt, At
<1>12. stream[p].filesize <= bytes_per_cluster * ChainLen(f)'
  <2>1. "overlap" \notin trouble' /\ stream[p].filesize \in Nat
    BY <1>4, PosIsOffset DEF Stream
  <2>. QED
    BY <1>1, <1>2, <1>5, <2>1, ChainsGrowLonger
<1>. QED
  BY <1>1, <1>2, <1>4, <1>11, <1>12 DEF CursorOK, Reading, ChainLen, ChainOf

\* When fwrite returns, the chain is long enough for the size the FILE gets.
LEMMA DoneKeepsCursor ==
  ASSUME TypeOK, ChainsApart, CallInv, "overlap" \notin trouble, NEW p \in Proc, CursorOK(p), WriteDone(p)
  PROVE  CursorOK(p)'
<1>1. PICK f \in File, len \in Nat : f = stream[p].file /\ len = ChainLen(f)
  BY CurrentIs, TableIsChained
<1>2. /\ pc[p] \in {"stored", "link"} /\ pc'[p] = "idle" /\ fat' = fat
      /\ stream' = [stream EXCEPT ![p].filesize = Max({@, stream[p].offset})]
      /\ stream[p].offset \in Nat /\ stream[p].filesize \in Nat
  BY CurrentIs, PosIsOffset DEF WriteDone, io, TypeOK, Stream
<1>3. PICK k \in Nat : /\ k = Max({stream[p].filesize, stream[p].offset})
                       /\ k \in {stream[p].filesize, stream[p].offset}
  BY <1>2, Greater
<1>4. stream'[p].file = f /\ stream'[p].filesize = k
  BY <1>1, <1>2, <1>3, StreamGrows DEF TypeOK
<1>5. stream[p].offset > 0 /\ cur[p] = LastCluster(p) /\ cur[p] \in FatEntry
  BY <1>2 DEF CursorOK, CallInv, CallOK, Writing
<1>6. PICK a \in Nat : a = stream[p].offset - 1
  BY <1>2, <1>5
<1>7. PICK j \in Nat : j = a \div bytes_per_cluster
  BY Division, FilesAssumption
<1>8. At(fat, f, j) \in FatEntry
  BY <1>1, <1>5, <1>6, <1>7 DEF LastCluster, ClusterAt, At
<1>9. j < len
  BY <1>1, <1>8, TableIsChained, BeforeEnd
<1>10. a < bytes_per_cluster * len
  BY <1>7, <1>9, QuotientBelow, FilesAssumption
<1>11. bytes_per_cluster * len \in Nat
  BY TimesMonotone, FilesAssumption
<1>12. stream[p].filesize <= bytes_per_cluster * len
  BY <1>1 DEF CursorOK
<1>13. k <= bytes_per_cluster * len
  BY <1>2, <1>3, <1>6, <1>10, <1>11, <1>12
<1>. QED
  BY <1>1, <1>2, <1>4, <1>13 DEF CursorOK, Reading, ChainLen, ChainOf

\* As long as chains are long enough for their files, get_nth_cluster stays inside
\* the table.
LEMMA StaysInTable ==
  ASSUME TypeOK, ChainsApart, CallInv, "overlap" \notin trouble, NEW p \in Proc, CursorOK(p),
         pc[p] = "idle"
  PROVE  Strays(p) = {}
<1>1. PICK f \in File, k \in Nat, a \in Nat, len \in Nat :
        /\ f = stream[p].file /\ k = a \div bytes_per_cluster /\ a = stream[p].offset
        /\ len = ChainLen(f)
  BY CurrentIs, TableIsChained
<1>2. a <= stream[p].filesize /\ stream[p].filesize <= bytes_per_cluster * len
  BY <1>1 DEF CursorOK, CallInv, CallOK
<1>3. bytes_per_cluster \in Nat \ {0} /\ stream[p].filesize \in Nat
  BY PosIsOffset DEF Stream
<1>4. k <= len
  <2>1. bytes_per_cluster * len \in Nat /\ bytes_per_cluster * (len + 1) \in Nat
        /\ bytes_per_cluster * (len + 1) = bytes_per_cluster * len + bytes_per_cluster
    BY <1>1, <1>3
  <2>2. a < bytes_per_cluster * (len + 1)
    BY <1>1, <1>2, <1>3, <2>1
  <2>3. PICK m \in Nat : m = len + 1
    BY <1>1
  <2>4. k < m
    BY <1>1, <1>3, <2>2, <2>3, QuotientBelow
  <2>. QED
    BY <1>1, <2>3, <2>4
<1>5. ASSUME k > 1
      PROVE  Nth(fat, Entries[f].cluster, k - 1) # EOC
  <2>1. PICK j \in Nat : j = k - 1 /\ j < len
    BY <1>1, <1>4, <1>5
  <2>2. Chained(fat, Lengths(fat)) /\ Lengths(fat)[f] = len
    BY <1>1, TableIsChained
  <2>3. At(fat, f, j) \in FatEntry
    BY <2>1, <2>2, BeforeEnd
  <2>. QED
    BY <2>1, <2>3, NoEntries DEF At
<1>6. First(p) = Entries[f].cluster /\ Turns(p) = k
  BY <1>1 DEF First, Turns
<1>. QED
  BY <1>5, <1>6 DEF Strays, Overruns

LEMMA NextCursor ==
  ASSUME TypeOK, ChainsApart, CallInv, CursorInv, [Next]_vars
  PROVE  CursorInv'
<1>. SUFFICES ASSUME trouble' \cap {"wrapped", "overlap"} = {}
              PROVE  /\ "stray" \notin trouble'
                     /\ \A q \in Proc : CursorOK(q)'
                     /\ \A f \in File : Entries[f].filesize <= bytes_per_cluster * ChainLen(f)'
  BY DEF CursorInv
<1>1. /\ "overlap" \notin trouble /\ "overlap" \notin trouble' /\ "stray" \notin trouble
      /\ \A q \in Proc : CursorOK(q)
      /\ \A f \in File : Entries[f].filesize <= bytes_per_cluster * ChainLen(f)
  BY TableKept DEF CursorInv
<1>2. ASSUME NEW f \in File
      PROVE  Entries[f].filesize <= bytes_per_cluster * ChainLen(f)'
  BY <1>1, ChainsGrowLonger, FilesAssumption
<1>3. ASSUME NEW q \in Proc, Kept(q)
      PROVE  CursorOK(q)'
  BY <1>3, CursorKept
<1>4. CASE UNCHANGED vars
  BY <1>1, <1>2, <1>3, <1>4 DEF vars, Kept
<1>5. ASSUME NEW p \in Proc, fopen(p)
      PROVE  CursorOK(p)'
  <2>1. PICK f \in File : stream'[p] = Fresh(f)
    BY <1>5 DEF fopen, TypeOK
  <2>2. pc'[p] = "idle"
    BY <1>5 DEF fopen
  <2>3. stream'[p].filesize <= bytes_per_cluster * ChainLen(f)' /\ stream'[p].file = f
    BY <1>2, <2>1 DEF Fresh
  <2>. QED
    BY <2>2, <2>3 DEF CursorOK, Reading, ChainLen, ChainOf
<1>6. ASSUME NEW p \in Proc, fseek(p)
      PROVE  CursorOK(p)'
  <2>1. PICK o \in Seeks : stream' = [stream EXCEPT ![p].offset = o]
    BY <1>6 DEF fseek
  <2>2. stream'[p].file = stream[p].file /\ stream'[p].filesize = stream[p].filesize
    BY <2>1, StreamMoves, FilesAssumption DEF TypeOK
  <2>3. pc'[p] = "idle" /\ fat' = fat
    BY <1>6 DEF fseek, io
  <2>. QED
    BY <1>1, <2>2, <2>3 DEF CursorOK, Reading, ChainLen, ChainOf
<1>7. ASSUME NEW p \in Proc, NEW n \in Sizes, fread(p, n) \/ fwrite(p, n)
      PROVE  CursorOK(p)'
  <2>1. /\ pc'[p] \in {"read", "fetch"} /\ stream' = stream /\ fat' = fat
        /\ cur'[p] \in CurrentCluster(p) /\ pc[p] = "idle"
    BY <1>7 DEF fread, fwrite, io, TypeOK
  <2>2. cur'[p] = Here(p)
    BY <1>1, <2>1, StaysInTable, CurrentIs
  <2>. QED
    BY <1>1, <2>1, <2>2 DEF CursorOK, Reading, Here, ClusterAt, ChainLen, ChainOf
<1>8. ASSUME NEW p \in Proc, WriteOutside(p) \/ ReadOutside(p)
      PROVE  CursorOK(p)'
  BY <1>3, <1>8 DEF WriteOutside, ReadOutside, Kept
<1>9. ASSUME NEW p \in Proc, ReadDone(p)
      PROVE  CursorOK(p)'
  <2>1. pc'[p] = "idle" /\ stream' = stream /\ fat' = fat
    BY <1>9 DEF ReadDone, io, TypeOK
  <2>. QED
    BY <1>1, <2>1 DEF CursorOK, Reading, ChainLen, ChainOf
<1>10. ASSUME NEW p \in Proc, FetchCluster(p)
       PROVE  CursorOK(p)'
  <2>1. pc[p] = "fetch" /\ pc'[p] = "store" /\ stream' = stream /\ fat' = fat /\ cur' = cur
    BY <1>10 DEF FetchCluster, TypeOK
  <2>. QED
    BY <1>1, <2>1 DEF CursorOK, Reading, Here, ClusterAt, ChainLen, ChainOf
<1>11. ASSUME NEW p \in Proc, Extend(p)
       PROVE  CursorOK(p)'
  <2>1. /\ pc[p] = "stored" /\ pc'[p] = "link" /\ stream' = stream /\ fat' = fat /\ cur' = cur
        /\ left' = left
    BY <1>11 DEF Extend, TypeOK
  <2>. QED
    BY <1>1, <2>1 DEF CursorOK, Reading, LastCluster, Pos, ClusterAt, ChainLen, ChainOf
<1>12. ASSUME NEW p \in Proc, Rewrite(p)
       PROVE  CursorOK(p)'
  BY <1>12 DEF Rewrite
<1>13. ASSUME NEW p \in Proc, Start(p) \/ Progress(p)
       PROVE  CursorOK(p)'
  BY <1>1, <1>5, <1>6, <1>7, <1>8, <1>9, <1>10, <1>11, <1>12, <1>13, ReadMovesCursor,
     StoreMovesCursor, LinkMovesCursor, DoneKeepsCursor DEF Start, Progress
<1>14. ASSUME NEW p \in Proc, Start(p) \/ Progress(p), NEW q \in Proc
       PROVE  CursorOK(q)'
  BY <1>3, <1>13, <1>14, OthersKept
<1>15. "stray" \notin trouble'
  BY <1>1, StaysInTable, TroubleIs
<1>16. CASE Next
  <2>1. \A q \in Proc : CursorOK(q)'
    BY <1>14, <1>16 DEF Next
  <2>. QED
    BY <1>2, <1>15, <2>1
<1>. QED
  BY <1>4, <1>16
-----------------------------------------------------------------------------
\* Only a transfer to the disk changes it.
LEMMA DiskKept ==
  ASSUME [Next]_vars
  PROVE  \/ disk' = disk /\ content' = content
         \/ \E p \in Proc : StoreCluster(p)
<1>. DEFINE Same == disk' = disk /\ content' = content
<1>1. CASE UNCHANGED vars
  BY <1>1 DEF vars
<1>2. ASSUME NEW p \in Proc, Start(p)
      PROVE  Same
  BY <1>2 DEF Start, io, fopen, fseek, fread, fwrite, WriteOutside
<1>3. ASSUME NEW p \in Proc, ReadCluster(p) \/ ReadOutside(p) \/ ReadDone(p)
      PROVE  Same
  BY <1>3 DEF io, ReadCluster, ReadOutside, ReadDone
<1>4. ASSUME NEW p \in Proc, FetchCluster(p) \/ WriteDone(p)
      PROVE  Same
  BY <1>4 DEF io, FetchCluster, WriteDone
<1>5. ASSUME NEW p \in Proc, Extend(p) \/ Rewrite(p) \/ LinkCluster(p)
      PROVE  Same
  BY <1>5 DEF Extend, Rewrite, LinkCluster
<1>. QED
  BY <1>1, <1>2, <1>3, <1>4, <1>5 DEF Next, Progress

\* A process has a buffer after it has fetched a cluster, and only then.
LEMMA NextBuffer ==
  ASSUME TypeOK, CallInv, BufferInv, [Next]_vars
  PROVE  BufferInv'
<1>. SUFFICES ASSUME trouble' \cap {"wrapped", "overtaken", "overlap"} = {},
                     NEW q \in Proc, pc'[q] = "store"
              PROVE  buffer'[q] = Sectors(cur[q])'
  BY DEF BufferInv
<1>1. pc[q] = "store" => buffer[q] = Sectors(cur[q])
  BY TableKept DEF BufferInv
<1>2. ASSUME Kept(q)
      PROVE  buffer'[q] = Sectors(cur[q])'
  <2>1. pc[q] = "store" /\ buffer'[q] = buffer[q] /\ cur'[q] = cur[q]
    BY <1>2 DEF Kept
  <2>2. ASSUME NEW p \in Proc, StoreCluster(p)
        PROVE  cur[q] \in Cluster => disk'[cur[q]] = disk[cur[q]]
    <3>1. p # q
      BY <2>1, <2>2, <1>2 DEF StoreCluster, Kept, TypeOK
    <3>2. ~ Overtakes(p)
      BY <2>2 DEF StoreCluster
    <3>3. cur[q] # cur[p]
      BY <2>1, <3>1, <3>2 DEF Overtakes
    <3>. QED
      BY <2>2, <3>3 DEF StoreCluster, TypeOK
  <2>. QED
    BY <1>1, <2>1, <2>2, DiskKept DEF Sectors, NoData
<1>3. CASE UNCHANGED vars
  BY <1>2, <1>3 DEF vars, Kept
<1>4. ASSUME Start(q) \/ Progress(q)
      PROVE  buffer'[q] = Sectors(cur[q])'
  <2>1. CASE FetchCluster(q)
    BY <2>1 DEF FetchCluster, Sectors, NoData, TypeOK
  <2>2. CASE Start(q)
    <3>1. CASE fopen(q) \/ fseek(q) \/ WriteOutside(q)
      BY <1>2, <3>1 DEF fopen, fseek, WriteOutside, io
    <3>2. ASSUME NEW n \in Sizes, fread(q, n) \/ fwrite(q, n)
          PROVE  FALSE
      BY <3>2 DEF fread, fwrite, TypeOK
    <3>. QED
      BY <2>2, <3>1, <3>2 DEF Start
  <2>3. CASE ReadCluster(q) \/ ReadOutside(q) \/ ReadDone(q)
    BY <2>3 DEF ReadCluster, ReadOutside, ReadDone, Reading, TypeOK
  <2>4. CASE StoreCluster(q) \/ Extend(q) \/ Rewrite(q)
    BY <2>4 DEF StoreCluster, Extend, Rewrite, TypeOK
  <2>5. CASE LinkCluster(q) \/ WriteDone(q)
    BY <2>5 DEF LinkCluster, WriteDone, TypeOK
  <2>. QED
    BY <1>4, <2>1, <2>2, <2>3, <2>4, <2>5 DEF Progress
<1>. QED
  BY <1>2, <1>3, <1>4, OthersKept DEF Next

\* What one transfer to the disk changes.
LEMMA StoreIs ==
  ASSUME TypeOK, ContentInv, CallInv, NEW p \in Proc, StoreCluster(p),
         NEW n, n = WriteChunk(p), NEW f, f = stream[p].file, NEW a, a = stream[p].offset
  PROVE  /\ \A c \in Cluster : c # cur[p] => disk'[c] = disk[c]
         /\ cur[p] \in Cluster =>
              \A o \in Offset : disk'[cur[p]][o] = IF o \in Pos(p) .. Pos(p) + n - 1 THEN p
                                                  ELSE buffer[p][o]
         /\ \A g \in File : g # f => content'[g] = content[g]
         /\ DOMAIN content'[f] = DOMAIN content[f] \cup (a .. a + n - 1)
         /\ \A o \in DOMAIN content'[f] :
              content'[f][o] = IF o \in a .. a + n - 1 THEN p ELSE content[f][o]
<1>. DEFINE chunk == a .. a + n - 1
            more == [o \in DOMAIN content[f] \cup chunk |-> IF o \in chunk THEN p ELSE content[f][o]]
<1>1. f \in File
  BY CurrentIs
<1>2. disk' = [c \in Cluster |-> IF c = cur[p] THEN Patched(p) ELSE disk[c]]
  BY DEF StoreCluster
<1>3. Patched(p) = [o \in Offset |-> IF o \in Pos(p) .. Pos(p) + n - 1 THEN p ELSE buffer[p][o]]
  BY DEF Patched
<1>4. content' = [content EXCEPT ![f] = more]
  BY DEF StoreCluster
<1>5. content'[f] = more /\ \A g \in File : g # f => content'[g] = content[g]
  BY <1>1, <1>4 DEF ContentInv
<1>6. /\ cur[p] \in Cluster => disk'[cur[p]] = Patched(p)
      /\ \A c \in Cluster : c # cur[p] => disk'[c] = disk[c]
  BY <1>2
<1>. QED
  BY <1>3, <1>5, <1>6

\* Which offsets of a file a chunk takes up: those of its cluster that the patch covers.
LEMMA ChunkIsPatch ==
  ASSUME NEW b \in Nat \ {0}, NEW a \in Nat, NEW n \in Nat \ {0}, n <= b - (a % b),
         NEW o \in Nat
  PROVE  /\ o \in a .. a + n - 1 => o \div b = a \div b
         /\ o \div b = a \div b
              => (o \in a .. a + n - 1 <=> o % b \in (a % b) .. (a % b) + n - 1)
<1>. DEFINE q == a \div b
            s == a % b
            d == o \div b
            r == o % b
<1>1. /\ q \in Nat /\ s \in 0 .. b - 1 /\ a = b * q + s
      /\ d \in Nat /\ r \in 0 .. b - 1 /\ o = b * d + r
      /\ n <= b - s
  BY Division
<1>2. ASSUME o \in a .. a + n - 1
      PROVE  d = q
  <2>1. PICK k \in Nat : o = a + k /\ k <= n - 1
    BY <1>1, <1>2
  <2>2. (a % b) + k < b
    <3>. HIDE DEF q, d, r
    <3>1. s + k < b
      <4>. HIDE DEF s
      <4>. QED
        BY <1>1, <2>1
    <3>. QED
      BY <3>1
  <2>. QED
    BY <2>1, <2>2, SameQuotient
<1>3. ASSUME d = q
      PROVE  o \in a .. a + n - 1 <=> r \in s .. s + n - 1
  <2>. HIDE DEF q, s, d, r
  <2>1. o = b * q + r
    BY <1>1, <1>3
  <2>2. o - a = r - s
    BY <1>1, <2>1
  <2>. QED
    BY <1>1, <2>2
<1>. QED
  BY <1>2, <1>3

LEMMA NextContent ==
  ASSUME IInv, [Next]_vars
  PROVE  DiskInv'
<1>. USE DEF IInv
<1>. SUFFICES ASSUME trouble' \cap {"wrapped", "overtaken", "overlap"} = {},
                     NEW f \in File, NEW o \in DOMAIN content'[f]
              PROVE  LET c == At(fat', f, o \div bytes_per_cluster)
                     IN  /\ c \in FatEntry
                         /\ c \in Cluster => disk'[c][o % bytes_per_cluster] = content'[f][o]
  BY DEF DiskInv, ClusterAt, At
<1>1. /\ trouble \cap {"wrapped", "overtaken", "overlap"} = {}
      /\ "overlap" \notin trouble /\ "overlap" \notin trouble'
  BY TableKept
<1>2. bytes_per_cluster \in Nat \ {0}
  BY FilesAssumption
<1>3. o \in Nat
  BY NextTypes DEF ContentInv
<1>4. PICK k \in Nat, r \in Offset : k = o \div bytes_per_cluster /\ r = o % bytes_per_cluster
  BY <1>2, <1>3, Division DEF Offset
<1>5. ASSUME o \in DOMAIN content[f]
      PROVE  /\ At(fat, f, k) \in FatEntry
             /\ At(fat', f, k) = At(fat, f, k)
             /\ At(fat, f, k) \in Cluster => disk[At(fat, f, k)][r] = content[f][o]
  <2>1. /\ At(fat, f, k) \in FatEntry
        /\ At(fat, f, k) \in Cluster => disk[At(fat, f, k)][r] = content[f][o]
    BY <1>1, <1>4, <1>5 DEF DiskInv, ClusterAt, At
  <2>. QED
    BY <1>1, <2>1, StaysOnChain
<1>6. CASE disk' = disk /\ content' = content
  BY <1>4, <1>5, <1>6
<1>7. ASSUME NEW p \in Proc, StoreCluster(p)
      PROVE  /\ At(fat', f, k) \in FatEntry
             /\ At(fat', f, k) \in Cluster => disk'[At(fat', f, k)][r] = content'[f][o]
  <2>1. PICK g \in File, j \in Nat, a \in Nat :
          /\ g = stream[p].file /\ a = stream[p].offset /\ j = a \div bytes_per_cluster
          /\ Here(p) = At(fat, g, j)
    BY CurrentIs
  <2>2. /\ pc[p] = "store" /\ fat' = fat /\ cur[p] \in FatEntry
        /\ cur[p] = At(fat, g, j)
        /\ cur[p] \in Cluster => buffer[p] = disk[cur[p]]
    <3>1. pc[p] = "store" /\ fat' = fat
      BY <1>7 DEF StoreCluster
    <3>2. CursorOK(p) /\ CallOK(p)
      BY <1>1 DEF CursorInv, CallInv
    <3>. QED
      BY <1>1, <2>1, <3>1, <3>2 DEF CursorOK, CallOK, Writing, BufferInv, Sectors
  <2>3. PICK n \in Nat \ {0} : n = WriteChunk(p) /\ n <= bytes_per_cluster - Pos(p)
    BY <2>2, WriteChunkIs
  <2>4. Pos(p) = a % bytes_per_cluster
    BY <2>1 DEF Pos
  <2>5. /\ \A c \in Cluster : c # cur[p] => disk'[c] = disk[c]
        /\ cur[p] \in Cluster =>
             disk'[cur[p]][r] = IF r \in Pos(p) .. Pos(p) + n - 1 THEN p ELSE disk[cur[p]][r]
        /\ f # g => content'[f] = content[f]
        /\ f = g => /\ o \in DOMAIN content[f] \/ o \in a .. a + n - 1
                    /\ content'[f][o] = IF o \in a .. a + n - 1 THEN p ELSE content[f][o]
    BY SMTT(30), <1>7, <2>1, <2>2, <2>3, StoreIs
  <2>6. /\ o \in a .. a + n - 1 => k = j
        /\ k = j => (o \in a .. a + n - 1 <=> r \in Pos(p) .. Pos(p) + n - 1)
    BY <1>2, <1>3, <1>4, <2>1, <2>3, <2>4, ChunkIsPatch, ZenonT(60)
  <2>7. At(fat, f, k) = cur[p] => f = g /\ k = j
    <3>1. Chained(fat, Lengths(fat))
      BY <1>1, TableIsChained
    <3>2. At(fat, f, k) = cur[p] => k < Lengths(fat)[f] /\ j < Lengths(fat)[g]
      BY <2>2, <3>1, BeforeEnd
    <3>. QED
      BY <2>2, <3>1, <3>2 DEF Chained
  <2>8. CASE f = g /\ o \in a .. a + n - 1
    BY <2>2, <2>5, <2>6, <2>8
  <2>9. CASE ~ (f = g /\ o \in a .. a + n - 1)
    <3>1. o \in DOMAIN content[f] /\ content'[f][o] = content[f][o]
      BY <2>5, <2>9
    <3>2. /\ At(fat, f, k) \in FatEntry
          /\ At(fat, f, k) \in Cluster => disk[At(fat, f, k)][r] = content[f][o]
      BY <1>5, <3>1
    <3>3. CASE At(fat, f, k) = cur[p]
      BY <2>2, <2>5, <2>6, <2>7, <2>9, <3>1, <3>2, <3>3
    <3>4. CASE At(fat, f, k) # cur[p]
      BY <2>2, <2>5, <3>1, <3>2, <3>4
    <3>. QED
      BY <3>3, <3>4
  <2>. QED
    BY <2>8, <2>9
<1>. QED
  BY <1>4, <1>6, <1>7, DiskKept
-----------------------------------------------------------------------------
LEMMA NextVolume ==
  ASSUME TypeOK, VolumeInv, [Next]_vars
  PROVE  VolumeInv'
<1>. SUFFICES ASSUME "beyond" \notin trouble', NEW c \in FatEntry
              PROVE  fat'[c] \in Cluster \cup {FREE, EOC}
  BY DEF VolumeInv
<1>1. "beyond" \notin trouble /\ fat[c] \in Cluster \cup {FREE, EOC}
  BY TableKept DEF VolumeInv
<1>2. ASSUME NEW p \in Proc, fat' = Linked(cur[p], found[p]), found[p] \in Cluster
      PROVE  fat'[c] \in Cluster \cup {FREE, EOC}
  BY <1>1, <1>2 DEF Linked, TypeOK
<1>. QED
  BY <1>1, <1>2, TroubleIs

LEMMA InitIInv ==
  ASSUME Init
  PROVE  IInv
<1>. USE DEF Init
<1>1. \A f \in File : Fresh(f) \in Stream /\ Fresh(f).offset = 0 /\ Fresh(f).filesize = Entries[f].filesize
                      /\ Fresh(f).file = f
  BY FreshIs DEF Fresh
<1>2. TypeOK
  <2>1. disk \in [Cluster -> [Offset -> Byte]]
    BY DEF Owner, Byte
  <2>2. fat \in [FatEntry -> Number]
    BY FilesAssumption, ClustersHaveEntries DEF Number
  <2>3. writes \in 0 .. WRITES
    BY FilesAssumption
  <2>4. buffer \in [Proc -> [Offset -> Byte]]
    BY DEF NoData, Byte
  <2>. QED
    BY <1>1, <2>1, <2>2, <2>3, <2>4 DEF TypeOK, Number
<1>3. ChainsApart
  BY VolumeAssumption DEF ChainsApart
<1>4. Chained(fat, Lengths(fat)) /\ \A f \in File : ChainLen(f) = Lengths(fat)[f] /\ ChainLen(f) \in Nat
  BY <1>2, <1>3, TableIsChained
<1>5. \A f \in File : Entries[f].filesize \in Nat /\ Entries[f].filesize <= bytes_per_cluster * ChainLen(f)
  BY VolumeAssumption, FilesAssumption DEF ChainLen, ChainOf
<1>6. ContentInv
  <2>1. \A n \in Nat : 0 .. n - 1 \subseteq Nat
    OBVIOUS
  <2>. QED
    BY <1>5, <2>1 DEF ContentInv
<1>7. CallInv
  BY <1>1, <1>5 DEF CallInv, CallOK, Writing
<1>8. CursorInv
  <2>1. ASSUME NEW p \in Proc
        PROVE  CursorOK(p)
    BY <1>1, <1>5 DEF CursorOK, Reading
  <2>. QED
    BY <1>5, <2>1 DEF CursorInv
<1>9. BufferInv
  BY DEF BufferInv
<1>10. DiskInv
  <2>. SUFFICES ASSUME NEW f \in File, NEW o \in DOMAIN content[f]
                PROVE  LET c == At(fat, f, o \div bytes_per_cluster)
                       IN  c \in FatEntry /\ (c \in Cluster => disk[c][o % bytes_per_cluster] = content[f][o])
    BY DEF DiskInv, ClusterAt, At
  <2>1. o \in Nat /\ o < Entries[f].filesize /\ content[f][o] = f
    BY <1>5
  <2>2. PICK k \in Nat, r \in Offset : k = o \div bytes_per_cluster /\ r = o % bytes_per_cluster
    BY <2>1, Division, FilesAssumption DEF Offset
  <2>3. k < ChainLen(f)
    <3>1. bytes_per_cluster * ChainLen(f) \in Nat
      BY <1>4, TimesMonotone, FilesAssumption
    <3>2. o < bytes_per_cluster * ChainLen(f)
      BY <1>5, <2>1, <3>1
    <3>. QED
      BY <1>4, <2>1, <2>2, <3>2, QuotientBelow, FilesAssumption
  <2>4. PICK c : c = At(fat, f, k)
    OBVIOUS
  <2>5. c \in FatEntry /\ c \in ChainOf(f)
    BY <1>4, <2>3, <2>4, BeforeEnd, OnChain DEF ChainOf
  <2>6. \A g \in File : c \in ChainOf(g) => g = f
    BY <2>5, VolumeAssumption DEF WellFormed, ChainOf
  <2>7. Owner(c) = f
    BY <2>5, <2>6 DEF Owner
  <2>8. c \in Cluster => disk[c][r] = f
    BY <2>5, <2>7
  <2>. QED
    BY <2>1, <2>2, <2>4, <2>5, <2>8
<1>11. VolumeInv
  BY FilesAssumption DEF VolumeInv
<1>. QED
  BY <1>2, <1>3, <1>6, <1>7, <1>8, <1>9, <1>10, <1>11 DEF IInv

LEMMA NextIInv ==
  ASSUME IInv, [Next]_vars
  PROVE  IInv'
<1>1. TypeOK' /\ ContentInv'
  BY NextTypes DEF IInv
<1>2. ChainsApart'
  BY NextChains DEF IInv
<1>3. CallInv'
  BY NextCalls DEF IInv
<1>4. CursorInv'
  BY NextCursor DEF IInv
<1>5. BufferInv'
  BY NextBuffer DEF IInv
<1>6. DiskInv'
  BY NextContent
<1>7. VolumeInv'
  BY NextVolume DEF IInv
<1>. QED
  BY <1>1, <1>2, <1>3, <1>4, <1>5, <1>6, <1>7 DEF IInv

LEMMA FilesInductive == Spec => []IInv
<1>1. Init => IInv
  BY InitIInv
<1>2. IInv /\ [Next]_vars => IInv'
  BY NextIInv
<1>. QED
  BY <1>1, <1>2, PTL DEF Spec

\* The tables, the FILEs and the buffers of fat.c hold what they should: a count
\* of bytes left never gets negative, and a buffer is always a whole cluster.
THEOREM FilesTypeCorrect == Spec => []TypeOK
<1>1. IInv => TypeOK
  BY DEF IInv
<1>. QED
  BY <1>1, FilesInductive, PTL

\* However calls of fread, fwrite and allocate_cluster interleave: as long as no two
\* processes allocate at the same time, chains end, share nothing, and lose nothing.
THEOREM FilesChainsApart == Spec => []ChainsApart
<1>1. IInv => ChainsApart
  BY DEF IInv
<1>. QED
  BY <1>1, FilesInductive, PTL

\* A loop is in the cluster its offset belongs to, and this is a cluster.
THEOREM FilesCursorInStep == Spec => []CursorInStep
<1>1. ASSUME IInv
      PROVE  CursorInStep
  <2>. USE DEF IInv
  <2>. SUFFICES ASSUME NEW p \in Proc, trouble \cap {"wrapped", "overlap"} = {}
                PROVE  /\ "stray" \notin trouble
                       /\ Reading(p) \/ pc[p] \in {"fetch", "store"}
                             => /\ cur[p] = Here(p) /\ cur[p] \in FatEntry
                                /\ cur[p] \in Cluster \/ "beyond" \in trouble
                       /\ stream[p].filesize <= bytes_per_cluster * ChainLen(stream[p].file)
    BY DEF CursorInStep, ChainLen, Here
  <2>1. CursorOK(p) /\ CallOK(p) /\ "overlap" \notin trouble /\ "stray" \notin trouble
    BY <1>1 DEF CursorInv, CallInv
  <2>2. ASSUME Reading(p)
        PROVE  Here(p) \in FatEntry
    <3>1. PICK f \in File, k \in Nat :
            /\ f = stream[p].file /\ k = stream[p].offset \div bytes_per_cluster
            /\ stream[p].offset \in Nat /\ stream[p].filesize \in Nat
            /\ Here(p) = At(fat, f, k)
      BY <1>1, CurrentIs, PosIsOffset DEF Stream
    <3>2. ChainLen(f) = Lengths(fat)[f] /\ ChainLen(f) \in Nat /\ Chained(fat, Lengths(fat))
      BY <1>1, <2>1, TableIsChained
    <3>3. bytes_per_cluster * ChainLen(f) \in Nat /\ bytes_per_cluster \in Nat \ {0}
      BY <3>2, TimesMonotone, FilesAssumption
    <3>4. /\ stream[p].offset < stream[p].filesize
          /\ stream[p].filesize <= bytes_per_cluster * ChainLen(f)
      BY <2>1, <2>2, <3>1 DEF Reading, CallOK, CursorOK
    <3>5. stream[p].offset < bytes_per_cluster * ChainLen(f)
      BY <3>1, <3>3, <3>4
    <3>6. k < ChainLen(f)
      BY <3>1, <3>2, <3>3, <3>5, QuotientBelow
    <3>. QED
      BY <3>1, <3>2, <3>6, BeforeEnd
  <2>3. ASSUME Here(p) \in FatEntry, "beyond" \notin trouble
        PROVE  Here(p) \in Cluster
    BY <1>1, <2>3, CurrentIs, ChainInVolume DEF VolumeInv
  <2>. QED
    BY <2>1, <2>2, <2>3 DEF CursorOK, CallOK, Writing
<1>. QED
  BY <1>1, FilesInductive, PTL

\* What has been written is on the disk, at the place it was written to, and what has
\* not been written to is unchanged.
THEOREM FilesDiskHoldsContent == Spec => []DiskHoldsContent
<1>1. ASSUME IInv
      PROVE  DiskHoldsContent
  <2>. SUFFICES ASSUME trouble \cap {"wrapped", "overtaken", "overlap"} = {},
                       NEW f \in File, NEW o \in DOMAIN content[f]
                PROVE  LET c == ClusterAt(f, o)
                       IN  \/ c \in Cluster /\ disk[c][o % bytes_per_cluster] = content[f][o]
                           \/ c \in FatEntry \ Cluster /\ "beyond" \in trouble
    BY DEF DiskHoldsContent
  <2>1. PICK c : c = ClusterAt(f, o)
    OBVIOUS
  <2>2. c \in FatEntry /\ (c \in Cluster => disk[c][o % bytes_per_cluster] = content[f][o])
    BY <1>1, <2>1 DEF IInv, DiskInv
  <2>3. PICK k \in Nat : c = At(fat, f, k)
    <3>1. o \div bytes_per_cluster \in Nat
      BY <1>1, Division, FilesAssumption DEF IInv, ContentInv
    <3>. QED
      BY <2>1, <3>1 DEF ClusterAt, At
  <2>4. "beyond" \notin trouble => c \in Cluster
    BY <1>1, <2>2, <2>3, ChainInVolume DEF IInv, VolumeInv
  <2>. QED
    BY <2>1, <2>2, <2>4
<1>. QED
  BY <1>1, FilesInductive, PTL

\* A step writes to no cluster but one of the file it is writing, also after the loop
\* of fwrite has started over in a cluster.
THEOREM FilesWritesOwnClusters == Spec => WritesOwnClusters
<1>. DEFINE Own == \A c \in Cluster :
                     disk'[c] # disk[c] /\ trouble \cap {"overlap", "stray"} = {}
                       => \E p \in Proc : pc[p] = "store" /\ c \in ChainOf(stream[p].file)
<1>1. ASSUME IInv, [Next]_vars
      PROVE  Own
  <2>. SUFFICES ASSUME NEW c \in Cluster, disk'[c] # disk[c],
                       trouble \cap {"overlap", "stray"} = {}
                PROVE  \E p \in Proc : pc[p] = "store" /\ c \in ChainOf(stream[p].file)
    OBVIOUS
  <2>1. PICK p \in Proc : StoreCluster(p)
    BY <1>1, DiskKept
  <2>2. c = cur[p] /\ pc[p] = "store"
    BY <1>1, <2>1, StoreIs DEF IInv, StoreCluster
  <2>3. c \in ChainOf(stream[p].file)
    BY <1>1, <2>2 DEF IInv, CallInv, CallOK, Writing
  <2>. QED
    BY <2>2, <2>3
<1>2. IInv /\ [Next]_vars => [Own]_vars
  BY <1>1
<1>. HIDE DEF Own
<1>3. Spec => [][Own]_vars
  BY <1>2, FilesInductive, PTL DEF Spec
<1>. QED
  BY <1>3 DEF WritesOwnClusters, Own
=============================================================================
