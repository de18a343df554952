-------------------------- MODULE TopicClusterProofs --------------------------
(***************************************************************************)
(* The clustering for any number of videos, names and limits: its types,   *)
(* that a stored clustering files every video under one primary cluster,   *)
(* and that it keeps within the limits.                                    *)
(***************************************************************************)
EXTENDS TopicCluster, FiniteSetTheorems, WellFoundedInduction,
        SequenceTheorems, TLAPS

\* A video that has been gathered: it has one primary relation, and that is in
\* the cluster of its primary topic as long as there is one.
Filed(v) ==
  \E n \in Names :
    /\ <<v, "primary">> \in clusters[n]
    /\ \A m \in Names \ {n} : <<v, "primary">> \notin clusters[m]
    /\ clusters[Home(v)] # {} => n = Home(v)

GatheredInv ==
  pc \in {"gather", "merge", "limit", "store"} =>
    /\ Videos # {} /\ (pc # "gather" => todo = {})
    /\ \A v \in Videos \ todo :
         Filed(v) /\ (pc = "gather" => <<v, "primary">> \in clusters[Home(v)])
    /\ \A v \in todo : \A n \in Names : \A b \in {"primary", "other"} : <<v, b>> \notin clusters[n]

\* No cluster that is left is small and without a primary relation.
SizeInv ==
  pc \in {"limit", "store"} =>
    \A n \in Live : HasPrimary(n) \/ MinSize <= Cardinality(Members(n))

LimitInv ==
  pc \in {"limit", "store"} =>
    /\ Cardinality(keep) <= MaxCount /\ IsFiniteSet(keep)
    /\ pc = "limit" => keep \subseteq Live
    /\ pc = "store" => Live \subseteq keep

IInv ==
  TypeOK /\ GatheredInv /\ SizeInv /\ LimitInv /\ OnePrimaryEach /\ ClustersWithinLimits

-----------------------------------------------------------------------------
(* Names and the order of the clusters *)

LEMMA LeastNumber ==
  ASSUME NEW T \in SUBSET Nat, T # {}
  PROVE  \E m \in T : \A k \in T : m <= k
<1> DEFINE R == {p \in Nat \X Nat : p[1] < p[2]}
<1>1. IsWellFoundedOn(R, Nat)
  BY NatLessThanWellFounded, Zenon DEF OpToRel
<1>2. \A k, l \in Nat : k < l => <<k, l>> \in R
  OBVIOUS
<1> HIDE DEF R
<1>3. PICK m \in T : \A k \in T : ~(<<k, m>> \in R)
  BY <1>1, WFMin
<1>4. \A k \in T : ~(k < m)
  BY <1>2, <1>3
<1>5. QED
  BY <1>4

LEMMA FirstNamed ==
  ASSUME Assumption, NEW names \in Seq(Names), Usable(names) # {}
  PROVE  First(names) \in Names
<1>1. Usable(names) \in SUBSET (1..Len(names))
  BY LenProperties DEF Usable
<1>2. Usable(names) \in SUBSET Nat
  BY <1>1, LenProperties
<1>3. PICK i \in Usable(names) : \A j \in Usable(names) : i <= j
  BY <1>2, LeastNumber
<1> DEFINE least == CHOOSE k \in Usable(names) : \A j \in Usable(names) : k <= j
<1>4. least \in Usable(names)
  BY <1>3
<1> HIDE DEF least
<1>5. names[least] \in Names
  BY <1>1, <1>4, ElementOfSeq
<1>6. Alias[names[least]] \in Names
  BY <1>5 DEF Assumption
<1>7. QED
  BY <1>6 DEF First, least

LEMMA HomeNamed ==
  ASSUME Assumption, TypeOK, NEW v \in Videos
  PROVE  Home(v) \in Names
<1>1. topics[v] \in Seq(Names)
  BY DEF Assumption, TypeOK
<1>2. Spare[v] \in Seq(Names)
  BY DEF Assumption
<1>3. CASE Usable(topics[v]) # {}
  BY <1>1, <1>3, FirstNamed DEF Home
<1>4. CASE Usable(topics[v]) = {} /\ Usable(Spare[v]) # {}
  BY <1>2, <1>4, FirstNamed DEF Home, Derived
<1>5. CASE Usable(topics[v]) = {} /\ Usable(Spare[v]) = {}
  BY <1>5 DEF Home, Derived, Assumption
<1>6. QED
  BY <1>3, <1>4, <1>5

LEMMA Sizes ==
  ASSUME Assumption, TypeOK, NEW n \in Names
  PROVE  /\ IsFiniteSet(Members(n)) /\ Members(n) \in SUBSET Videos
         /\ Cardinality(Members(n)) \in Nat /\ TotalHeat(n) \in Nat
<1>1. Members(n) \in SUBSET Videos
  BY DEF Members, TypeOK, RelationSet
<1>2. IsFiniteSet(Members(n)) /\ Cardinality(Members(n)) \in Nat
  BY <1>1, FS_Subset, FS_CardinalityType DEF Assumption
<1>3. TotalHeat(n) \in Nat
  BY <1>1 DEF TotalHeat, Assumption
<1>4. QED
  BY <1>1, <1>2, <1>3

\* _cluster_sort_key orders the clusters, and no two alike.
LEMMA BeforeIsOrder ==
  ASSUME Assumption, TypeOK, NEW a \in Names, NEW b \in Names, NEW c \in Names
  PROVE  /\ ~ Before(a, a)
         /\ Before(a, b) /\ Before(b, c) => Before(a, c)
         /\ a # b => Before(a, b) \/ Before(b, a)
<1> DEFINE size(n) == Cardinality(Members(n))
<1>1. /\ size(a) \in Nat /\ TotalHeat(a) \in Nat
      /\ size(b) \in Nat /\ TotalHeat(b) \in Nat
      /\ size(c) \in Nat /\ TotalHeat(c) \in Nat
  BY Sizes
<1>2. a \in Int /\ b \in Int /\ c \in Int
  BY DEF Assumption
<1>3. \A m, n : Before(m, n) <=>
        \/ size(m) > size(n)
        \/ size(m) = size(n) /\ TotalHeat(m) > TotalHeat(n)
        \/ size(m) = size(n) /\ TotalHeat(m) = TotalHeat(n) /\ m < n
  BY DEF Before
<1> HIDE DEF size
<1>4. QED
  BY <1>1, <1>2, <1>3

LEMMA UpTo ==
  ASSUME NEW n \in Nat
  PROVE  IsFiniteSet(1..n) /\ Cardinality(1..n) = n
<1>1. CASE n = 0
  BY <1>1, FS_Interval
<1>2. CASE n # 0
  BY <1>2, FS_Interval
<1>3. QED
  BY <1>1, <1>2

LEMMA LiveFinite ==
  ASSUME Assumption
  PROVE  IsFiniteSet(Live) /\ Cardinality(Live) \in Nat /\ Live \in SUBSET Names
<1>1. Live \in SUBSET Names
  BY DEF Live
<1>2. QED
  BY <1>1, FS_Subset, FS_CardinalityType DEF Assumption

\* The clusters before one of them
LEMMA Ahead ==
  ASSUME Assumption, TypeOK, NEW n \in Live
  PROVE  /\ Position(n) \in 1..Cardinality(Live)
         /\ \A m \in Live : Before(m, n) => Position(m) < Position(n)
<1> DEFINE ahead(m) == {k \in Live : Before(k, m)}
<1>1. IsFiniteSet(Live) /\ Cardinality(Live) \in Nat /\ Live \in SUBSET Names
  BY LiveFinite
<1>2. ASSUME NEW m \in Live
      PROVE  /\ IsFiniteSet(ahead(m)) /\ Cardinality(ahead(m)) \in Nat
             /\ Cardinality(ahead(m)) < Cardinality(Live)
  <2>1. ahead(m) \in SUBSET Live
    OBVIOUS
  <2>2. m \notin ahead(m)
    BY <1>1, BeforeIsOrder
  <2>3. ahead(m) # Live
    BY <2>2
  <2> HIDE DEF ahead
  <2>4. /\ IsFiniteSet(ahead(m)) /\ Cardinality(ahead(m)) <= Cardinality(Live)
        /\ Cardinality(Live) = Cardinality(ahead(m)) => Live = ahead(m)
    BY <1>1, <2>1, FS_Subset
  <2>5. Cardinality(ahead(m)) \in Nat
    BY <2>4, FS_CardinalityType
  <2>6. QED
    BY <1>1, <2>3, <2>4, <2>5
<1>3. Position(n) \in 1..Cardinality(Live)
  <2>1. Position(n) = Cardinality(ahead(n)) + 1
    BY DEF Position
  <2> HIDE DEF ahead
  <2>2. QED
    BY <1>1, <1>2, <2>1
<1>4. ASSUME NEW m \in Live, Before(m, n)
      PROVE  Position(m) < Position(n)
  <2>1. ahead(m) \in SUBSET ahead(n)
    BY <1>1, <1>4, BeforeIsOrder
  <2>2. m \in ahead(n) /\ m \notin ahead(m)
    BY <1>1, <1>4, BeforeIsOrder
  <2>3. Position(m) = Cardinality(ahead(m)) + 1 /\ Position(n) = Cardinality(ahead(n)) + 1
    BY DEF Position
  <2> HIDE DEF ahead
  <2>4. /\ IsFiniteSet(ahead(n)) /\ Cardinality(ahead(n)) \in Nat
        /\ Cardinality(ahead(m)) \in Nat
    BY <1>2
  <2>5. /\ Cardinality(ahead(m)) <= Cardinality(ahead(n))
        /\ Cardinality(ahead(n)) = Cardinality(ahead(m)) => ahead(n) = ahead(m)
    BY <2>1, <2>4, FS_Subset
  <2>6. QED
    BY <2>2, <2>3, <2>4, <2>5
<1>5. QED
  BY <1>3, <1>4

\* No two clusters have the same position.
LEMMA PositionsDiffer ==
  ASSUME Assumption, TypeOK, NEW m \in Live, NEW n \in Live, m # n
  PROVE  Position(m) # Position(n)
<1>1. m \in Names /\ n \in Names
  BY DEF Live
<1>2. Before(m, n) \/ Before(n, m)
  BY <1>1, BeforeIsOrder
<1>3. Position(m) \in Nat /\ Position(n) \in Nat
  BY Ahead, LiveFinite
<1>4. Position(m) < Position(n) \/ Position(n) < Position(m)
  BY <1>2, Ahead
<1>5. QED
  BY <1>3, <1>4

\* The positions are the numbers up to that of the clusters.
LEMMA PositionsFill ==
  ASSUME Assumption, TypeOK
  PROVE  {Position(n) : n \in Live} = 1..Cardinality(Live)
<1> DEFINE f == [n \in Live |-> Position(n)]
           T == 1..Cardinality(Live)
<1>1. IsFiniteSet(Live) /\ Cardinality(Live) \in Nat
  BY LiveFinite
<1>2. IsFiniteSet(T) /\ Cardinality(T) = Cardinality(Live)
  BY <1>1, UpTo
<1>3. \A n \in Live : Position(n) \in T
  BY Ahead
<1>4. \A m, n \in Live : Position(m) = Position(n) => m = n
  BY PositionsDiffer
<1>5. f \in Injection(Live, T)
  BY <1>3, <1>4 DEF Injection, IsInjective
<1>6. f \in Surjection(Live, T)
  <2> HIDE DEF f, T
  <2>1. Cardinality(Live) = Cardinality(T) <=> f \in Surjection(Live, T)
    BY <1>2, <1>5, FS_Injection
  <2>2. QED
    BY <1>2, <2>1
<1>7. \A k \in T : \E n \in Live : Position(n) = k
  BY <1>6 DEF Surjection
<1>8. QED
  BY <1>3, <1>7

\* No more clusters are kept than the limit allows.
LEMMA KeptFew ==
  ASSUME Assumption, TypeOK
  PROVE  Kept \in SUBSET Live /\ Cardinality(Kept) <= MaxCount
<1> DEFINE f == [n \in Kept |-> Position(n)]
           T == 1..MaxCount
<1>1. Kept \in SUBSET Live
  BY DEF Kept
<1>2. IsFiniteSet(T) /\ Cardinality(T) = MaxCount
  BY UpTo DEF Assumption
<1>3. \A n \in Kept : Position(n) \in T
  <2>1. \A n \in Live : Position(n) \in 1..Cardinality(Live)
    BY Ahead
  <2>2. QED
    BY <1>1, <2>1, LiveFinite DEF Kept, Assumption
<1>4. \A m, n \in Kept : Position(m) = Position(n) => m = n
  BY <1>1, PositionsDiffer
<1>5. f \in Injection(Kept, T)
  BY <1>3, <1>4 DEF Injection, IsInjective
<1>6. Cardinality(Kept) <= Cardinality(T)
  <2> HIDE DEF f, T
  <2>1. QED
    BY <1>2, <1>5, FS_Injection
<1>7. QED
  BY <1>1, <1>2, <1>6

-----------------------------------------------------------------------------
(* Relations that move *)

\* What the merging of a cluster does to the others
LEMMA Moved ==
  ASSUME TypeOK, NEW n \in Names, NEW targets \in SUBSET (Live \ {n}),
         Redistribute(n, targets)
  PROVE  /\ clusters' \in [Names -> SUBSET RelationSet]
         /\ clusters'[n] = {}
         /\ \A m \in Names \ {n} : clusters[m] \subseteq clusters'[m]
         /\ \A m \in Names : \A r \in clusters'[m] :
              r \in clusters[m] \/ (r \in clusters[n] /\ m \in targets)
         /\ \A r \in clusters[n] : \E m \in targets :
              /\ r \in clusters'[m]
              /\ \A k \in Names \ {m} : r \in clusters'[k] => r \in clusters[k] /\ k # n
         /\ Live' \subseteq Live \ {n}
<1>1. PICK to \in [clusters[n] -> targets] :
        clusters' = [m \in Names |->
          IF m = n THEN {} ELSE clusters[m] \cup {r \in clusters[n] : to[r] = m}]
  BY DEF Redistribute
<1>2. /\ \A m \in Names : clusters[m] \in SUBSET RelationSet
      /\ targets \subseteq Names /\ n \notin targets
  BY DEF TypeOK, Live
<1>3. clusters' \in [Names -> SUBSET RelationSet]
  BY <1>1, <1>2
<1>4. clusters'[n] = {}
  BY <1>1
<1>5. \A m \in Names \ {n} : clusters'[m] = clusters[m] \cup {r \in clusters[n] : to[r] = m}
  BY <1>1
<1>6. \A m \in Names : \A r \in clusters'[m] :
        r \in clusters[m] \/ (r \in clusters[n] /\ m \in targets)
  BY <1>4, <1>5
<1>7. ASSUME NEW r \in clusters[n]
      PROVE  \E m \in targets :
               /\ r \in clusters'[m]
               /\ \A k \in Names \ {m} : r \in clusters'[k] => r \in clusters[k] /\ k # n
  <2>1. to[r] \in targets /\ to[r] \in Names \ {n}
    BY <1>2
  <2>2. r \in clusters'[to[r]]
    BY <1>5, <2>1
  <2>3. ASSUME NEW k \in Names \ {to[r]}, r \in clusters'[k]
        PROVE  r \in clusters[k] /\ k # n
    BY <1>4, <1>5, <2>3
  <2>4. QED
    BY <2>1, <2>2, <2>3
<1>8. Live' \subseteq Live \ {n}
  <2>1. ASSUME NEW m \in Live'
        PROVE  m \in Live \ {n}
    <3>1. m \in Names /\ clusters'[m] # {}
      BY DEF Live
    <3>2. m # n
      BY <1>4, <3>1
    <3>3. PICK r : r \in clusters'[m]
      BY <3>1
    <3>4. r \in clusters[m] \/ m \in targets
      BY <1>6, <3>1, <3>3
    <3>5. QED
      BY <3>1, <3>2, <3>4 DEF Live
  <2>2. QED
    BY <2>1
<1>9. QED
  BY <1>3, <1>4, <1>5, <1>6, <1>7, <1>8

LEMMA FiledStays ==
  ASSUME Assumption, TypeOK, NEW v \in Videos, Filed(v), UNCHANGED topics,
         NEW n \in Names, NEW targets \in SUBSET (Live \ {n}), Redistribute(n, targets)
  PROVE  Filed(v)'
<1> DEFINE r == <<v, "primary">>
<1>0. Home(v) \in Names /\ Home(v)' = Home(v)
  BY HomeNamed DEF Home, Derived, Usable, Normalized, First
<1>1. PICK at \in Names :
        /\ r \in clusters[at]
        /\ \A m \in Names \ {at} : r \notin clusters[m]
        /\ clusters[Home(v)] # {} => at = Home(v)
  BY DEF Filed
<1>2. /\ clusters'[n] = {}
      /\ \A m \in Names \ {n} : clusters[m] \subseteq clusters'[m]
      /\ \A m \in Names : \A x \in clusters'[m] :
              x \in clusters[m] \/ (x \in clusters[n] /\ m \in targets)
      /\ \A x \in clusters[n] : \E m \in targets :
              /\ x \in clusters'[m]
              /\ \A k \in Names \ {m} : x \in clusters'[k] => x \in clusters[k] /\ k # n
      /\ Live' \subseteq Live \ {n}
  BY Moved
<1>3. clusters'[Home(v)] # {} => clusters[Home(v)] # {} /\ Home(v) # n
  BY <1>0, <1>2 DEF Live
<1>4. \E k \in Names :
        /\ r \in clusters'[k]
        /\ \A m \in Names \ {k} : r \notin clusters'[m]
        /\ clusters'[Home(v)] # {} => k = Home(v)
  <2> HIDE DEF r
  <2>1. CASE at # n
    <3>1. r \in clusters'[at]
      BY <1>1, <1>2, <2>1
    <3>2. \A m \in Names \ {at} : r \notin clusters'[m]
      BY <1>1, <1>2, <2>1
    <3>3. QED
      BY <1>1, <1>3, <3>1, <3>2
  <2>2. CASE at = n
    <3>1. PICK m \in targets :
            /\ r \in clusters'[m]
            /\ \A k \in Names \ {m} : r \in clusters'[k] => r \in clusters[k] /\ k # n
      BY <1>1, <1>2, <2>2
    <3>2. m \in Names
      BY DEF Live
    <3>3. \A k \in Names \ {m} : r \notin clusters'[k]
      BY <1>1, <2>2, <3>1
    <3>4. clusters'[Home(v)] = {}
      BY <1>1, <1>3, <2>2
    <3>5. QED
      BY <3>1, <3>2, <3>3, <3>4
  <2>3. QED
    BY <2>1, <2>2
<1>5. QED
  BY <1>0, <1>4 DEF Filed

\* Clusters that receive relations do not get smaller.
LEMMA SizeStays ==
  ASSUME Assumption, TypeOK, TypeOK',
         \A n \in Live : HasPrimary(n) \/ MinSize <= Cardinality(Members(n)),
         Live' \subseteq Live, \A m \in Live' : clusters[m] \subseteq clusters'[m]
  PROVE  \A n \in Live' : HasPrimary(n)' \/ MinSize <= Cardinality(Members(n)')
<1> SUFFICES ASSUME NEW n \in Live'
             PROVE  HasPrimary(n)' \/ MinSize <= Cardinality(Members(n)')
  OBVIOUS
<1>1. n \in Live /\ n \in Names /\ clusters[n] \subseteq clusters'[n]
  BY DEF Live
<1>2. CASE HasPrimary(n)
  BY <1>1, <1>2 DEF HasPrimary
<1>3. CASE MinSize <= Cardinality(Members(n))
  <2>1. PICK before, after : before = Members(n) /\ after = Members(n)'
    OBVIOUS
  <2>2. before \in SUBSET after
    BY <1>1, <2>1 DEF Members
  <2>3. after \in SUBSET Videos /\ IsFiniteSet(Videos)
    BY <1>1, <2>1 DEF Members, TypeOK, RelationSet, Assumption
  <2>4. IsFiniteSet(after)
    BY <2>3, FS_Subset
  <2>5. /\ Cardinality(before) <= Cardinality(after)
        /\ Cardinality(before) \in Nat /\ Cardinality(after) \in Nat
    BY <2>2, <2>4, FS_Subset, FS_CardinalityType
  <2>6. MinSize \in Int
    BY DEF Assumption
  <2>7. QED
    BY <1>3, <2>1, <2>5, <2>6
<1>4. QED
  BY <1>1, <1>2, <1>3

\* What is stored is judged by what is stored and by what the summaries name.
LEMMA StoredAlone ==
  ASSUME UNCHANGED <<topics, stored>>, OnePrimaryEach, ClustersWithinLimits
  PROVE  OnePrimaryEach' /\ ClustersWithinLimits'
<1>1. \A v : Home(v)' = Home(v)
  BY DEF Home, Derived, Usable, Normalized, First
<1>2. Rebuilt' = Rebuilt
  BY DEF Rebuilt
<1>3. OnePrimaryEach'
  BY <1>1, <1>2 DEF OnePrimaryEach
<1>4. ClustersWithinLimits'
  BY <1>2 DEF ClustersWithinLimits
<1>5. QED
  BY <1>3, <1>4

LEMMA FiledAlone ==
  ASSUME UNCHANGED <<topics, clusters>>, NEW v
  PROVE  Home(v)' = Home(v) /\ Filed(v)' = Filed(v)
<1>1. Home(v)' = Home(v)
  BY DEF Home, Derived, Usable, Normalized, First
<1>2. QED
  BY <1>1 DEF Filed

-----------------------------------------------------------------------------
(* Every step keeps the invariant *)

LEMMA InitIInv ==
  ASSUME Assumption, Init
  PROVE  IInv
<1>1. stored = {} \/ stored = Leftover
  BY DEF Init
<1>2. TypeOK
  <2>1. stored \subseteq [name : Names, order : Nat, relations : SUBSET RelationSet]
    BY <1>1 DEF Leftover, Assumption
  <2>2. count \in Nat
    <3>1. IsFiniteSet(stored)
      <4>1. IsFiniteSet({}) /\ IsFiniteSet(Leftover)
        BY FS_EmptySet, FS_Singleton DEF Leftover
      <4>2. QED
        BY <1>1, <4>1
    <3>2. QED
      BY <3>1, FS_CardinalityType DEF Init
  <2>3. clusters \in [Names -> SUBSET RelationSet]
    BY DEF Init, NoClusters
  <2>4. QED
    BY <2>1, <2>2, <2>3 DEF Init, TypeOK, Assumption
<1>3. GatheredInv /\ SizeInv /\ LimitInv
  BY DEF Init, GatheredInv, SizeInv, LimitInv
<1>4. OnePrimaryEach /\ ClustersWithinLimits
  BY <1>1 DEF OnePrimaryEach, ClustersWithinLimits, Rebuilt
<1>5. QED
  BY <1>2, <1>3, <1>4 DEF IInv

LEMMA ResetKeeps ==
  ASSUME Assumption, IInv, Reset
  PROVE  IInv'
<1>1. TypeOK'
  <2>1. clusters' \in [Names -> SUBSET RelationSet]
    BY DEF Reset, NoClusters
  <2>2. count' \in Nat /\ pc' \in {"gather", "done"} /\ todo' \subseteq Videos
    BY DEF IInv, TypeOK, Reset
  <2>3. runs' \in 0..Runs /\ stored' = {} /\ keep' = {} /\ topics' = topics
    BY DEF IInv, TypeOK, Reset, Assumption
  <2>4. QED
    BY <2>1, <2>2, <2>3 DEF IInv, TypeOK
<1>2. GatheredInv'
  BY DEF Reset, GatheredInv, NoClusters
<1>3. SizeInv' /\ LimitInv'
  BY DEF Reset, SizeInv, LimitInv
<1>4. OnePrimaryEach' /\ ClustersWithinLimits'
  BY DEF Reset, OnePrimaryEach, ClustersWithinLimits, Rebuilt
<1>5. QED
  BY <1>1, <1>2, <1>3, <1>4 DEF IInv

LEMMA InterruptKeeps ==
  ASSUME Assumption, IInv, Interrupt \/ Again
  PROVE  IInv'
<1>1. TypeOK'
  <2>1. clusters' \in [Names -> SUBSET RelationSet]
    BY DEF IInv, TypeOK, Interrupt, Again, NoClusters
  <2>2. pc' = "idle" /\ todo' \subseteq Videos /\ keep' \subseteq Names
    BY DEF IInv, TypeOK, Interrupt, Again
  <2>3. UNCHANGED <<topics, stored, count, runs>>
    BY DEF Interrupt, Again
  <2>4. QED
    BY <2>1, <2>2, <2>3 DEF IInv, TypeOK
<1>2. GatheredInv' /\ SizeInv' /\ LimitInv'
  BY DEF Interrupt, Again, GatheredInv, SizeInv, LimitInv
<1>3. OnePrimaryEach' /\ ClustersWithinLimits'
  BY StoredAlone DEF IInv, Interrupt, Again
<1>4. QED
  BY <1>1, <1>2, <1>3 DEF IInv

LEMMA GatherKeeps ==
  ASSUME Assumption, IInv, NEW v \in Videos, Gather(v)
  PROVE  IInv'
<1> DEFINE r == <<v, "primary">>
<1>0. /\ TypeOK /\ pc = "gather" /\ v \in todo /\ todo' = todo \ {v} /\ UNCHANGED topics
      /\ clusters' = [n \in Names |-> clusters[n] \cup Relations(v, n)]
      /\ pc' = IF todo' = {} THEN "merge" ELSE "gather"
  BY DEF IInv, Gather
<1>1. /\ Videos # {}
      /\ \A u \in Videos \ todo : Filed(u) /\ <<u, "primary">> \in clusters[Home(u)]
      /\ \A u \in todo : \A n \in Names : \A b \in {"primary", "other"} : <<u, b>> \notin clusters[n]
  BY <1>0 DEF IInv, GatheredInv
<1>2. ASSUME NEW n \in Names
      PROVE  /\ Relations(v, n) \in SUBSET RelationSet
             /\ \A x \in Relations(v, n) : x[1] = v
             /\ r \in Relations(v, n) <=> n = Home(v)
  <2>1. Relations(v, n) = IF n \in Candidates(v)
                            THEN {<<v, IF n = Home(v) THEN "primary" ELSE "other">>} ELSE {}
    BY DEF Relations, Role
  <2>2. Home(v) \in Candidates(v)
    BY DEF Candidates
  <2>3. CASE n = Home(v)
    BY <2>1, <2>2, <2>3 DEF RelationSet
  <2>4. CASE n # Home(v)
    BY <2>1, <2>4 DEF RelationSet
  <2>5. QED
    BY <2>3, <2>4
<1>3. \A u \in Videos : Home(u) \in Names /\ Home(u)' = Home(u)
  BY <1>0, HomeNamed DEF Home, Derived, Usable, Normalized, First
<1>4. TypeOK'
  <2>1. clusters' \in [Names -> SUBSET RelationSet]
    BY <1>0, <1>2 DEF TypeOK
  <2>2. pc' \in {"merge", "gather"} /\ todo' \subseteq Videos
    BY <1>0 DEF TypeOK
  <2>3. UNCHANGED <<topics, keep, stored, count, runs>>
    BY DEF Gather
  <2>4. QED
    BY <1>0, <2>1, <2>2, <2>3 DEF TypeOK
<1>5. \A n \in Names : clusters'[n] = clusters[n] \cup Relations(v, n)
  BY <1>0
<1>6. ASSUME NEW u \in Videos \ todo'
      PROVE  Filed(u)' /\ (<<u, "primary">> \in clusters[Home(u)])'
  <2> DEFINE home == Home(u)
  <2>1. home \in Names /\ Home(u)' = home
    BY <1>3
  <2>2. CASE u = v
    <3>1. /\ r \in clusters'[home]
          /\ \A m \in Names \ {home} : r \notin clusters'[m]
      <4>1. \A m \in Names : r \notin clusters[m]
        BY <1>0, <1>1
      <4>2. \A m \in Names : r \in Relations(v, m) <=> m = home
        BY <1>2, <2>2
      <4> HIDE DEF r, home
      <4>3. QED
        BY <1>5, <2>1, <4>1, <4>2
    <3>2. QED
      BY <2>1, <2>2, <3>1 DEF Filed
  <2>3. CASE u # v
    <3>1. u \in Videos \ todo
      BY <1>0, <2>3
    <3>2. Filed(u) /\ <<u, "primary">> \in clusters[home]
      BY <1>1, <3>1
    <3>3. \A m \in Names \ {home} : <<u, "primary">> \notin clusters[m]
      BY <2>1, <3>2 DEF Filed
    <3>4. \A m \in Names : <<u, "primary">> \in clusters'[m] => <<u, "primary">> \in clusters[m]
      <4>1. SUFFICES ASSUME NEW m \in Names, <<u, "primary">> \in Relations(v, m)
                     PROVE  FALSE
        BY <1>5
      <4>2. <<u, "primary">>[1] = v
        BY <1>2, <4>1
      <4>3. QED
        BY <2>3, <4>2
    <3>5. <<u, "primary">> \in clusters'[home]
      BY <1>5, <2>1, <3>2
    <3>6. QED
      BY <2>1, <3>3, <3>4, <3>5 DEF Filed
  <2>4. QED
    BY <2>2, <2>3
<1>7. ASSUME NEW u \in todo', NEW n \in Names, NEW b \in {"primary", "other"}
      PROVE  <<u, b>> \notin clusters'[n]
  <2>1. u \in todo /\ u # v
    BY <1>0
  <2>2. <<u, b>> \notin clusters[n]
    BY <1>1, <2>1
  <2>3. <<u, b>> \notin Relations(v, n)
    <3>1. SUFFICES ASSUME <<u, b>> \in Relations(v, n) PROVE FALSE
      OBVIOUS
    <3>2. <<u, b>>[1] = v
      BY <1>2, <3>1
    <3>3. QED
      BY <2>1, <3>2
  <2>4. QED
    BY <1>5, <2>2, <2>3
<1>8. GatheredInv'
  BY <1>0, <1>1, <1>6, <1>7 DEF GatheredInv
<1>9. SizeInv' /\ LimitInv'
  BY <1>0 DEF SizeInv, LimitInv
<1>10. OnePrimaryEach' /\ ClustersWithinLimits'
  BY StoredAlone DEF IInv, Gather
<1>11. QED
  BY <1>4, <1>8, <1>9, <1>10 DEF IInv

\* What merging keeps, whichever of the two it is
LEMMA RedistributeKeeps ==
  ASSUME Assumption, IInv, NEW n \in Names, NEW targets \in SUBSET (Live \ {n}),
         Redistribute(n, targets), pc \in {"merge", "limit"},
         UNCHANGED <<topics, todo, keep, stored, count, runs>>,
         pc' \in {"merge", "limit", "store"}
  PROVE  /\ TypeOK' /\ GatheredInv' /\ OnePrimaryEach' /\ ClustersWithinLimits'
         /\ Live' = Live \ {n} /\ \A m \in Live' : clusters[m] \subseteq clusters'[m]
<1>0. TypeOK
  BY DEF IInv
<1>1. /\ clusters' \in [Names -> SUBSET RelationSet]
      /\ \A m \in Names \ {n} : clusters[m] \subseteq clusters'[m]
      /\ Live' \subseteq Live \ {n}
  BY <1>0, Moved
<1>2. TypeOK'
  BY <1>0, <1>1 DEF TypeOK
<1>3. GatheredInv'
  <2>1. Videos # {} /\ todo = {} /\ \A v \in Videos : Filed(v)
    BY DEF IInv, GatheredInv
  <2>2. \A v \in Videos : Filed(v)'
    BY <1>0, <2>1, FiledStays
  <2>3. QED
    BY <2>1, <2>2 DEF GatheredInv
<1>4. OnePrimaryEach' /\ ClustersWithinLimits'
  BY StoredAlone DEF IInv
<1>5. \A m \in Live' : clusters[m] \subseteq clusters'[m]
  BY <1>1 DEF Live
<1>6. Live \ {n} \subseteq Live'
  BY <1>1 DEF Live
<1>7. QED
  BY <1>1, <1>2, <1>3, <1>4, <1>5, <1>6

LEMMA MergeSmallKeeps ==
  ASSUME Assumption, IInv, NEW n \in Names, MergeSmall(n)
  PROVE  IInv'
<1>1. TypeOK' /\ GatheredInv' /\ OnePrimaryEach' /\ ClustersWithinLimits'
  BY RedistributeKeeps DEF MergeSmall
<1>2. SizeInv' /\ LimitInv'
  BY DEF MergeSmall, SizeInv, LimitInv
<1>3. QED
  BY <1>1, <1>2 DEF IInv

LEMMA MergeExcessKeeps ==
  ASSUME Assumption, IInv, NEW n \in Names, MergeExcess(n)
  PROVE  IInv'
<1>0. /\ TypeOK /\ pc = "limit" /\ n \in Live \ keep /\ Redistribute(n, keep)
      /\ UNCHANGED <<topics, todo, keep, stored, count, runs>>
      /\ pc' = IF Live \ (keep \cup {n}) = {} THEN "store" ELSE "limit"
  BY DEF IInv, MergeExcess
<1>1. keep \in SUBSET (Live \ {n})
  BY <1>0 DEF IInv, LimitInv
<1>2. /\ TypeOK' /\ GatheredInv' /\ OnePrimaryEach' /\ ClustersWithinLimits'
      /\ Live' = Live \ {n} /\ \A m \in Live' : clusters[m] \subseteq clusters'[m]
  BY <1>0, <1>1, RedistributeKeeps
<1>3. SizeInv'
  <2>1. \A m \in Live : HasPrimary(m) \/ MinSize <= Cardinality(Members(m))
    BY <1>0 DEF IInv, SizeInv
  <2>2. \A m \in Live' : HasPrimary(m)' \/ MinSize <= Cardinality(Members(m)')
    BY <1>0, <1>2, <2>1, SizeStays
  <2>3. QED
    BY <2>2 DEF SizeInv
<1>4. LimitInv'
  <2>1. Cardinality(keep') <= MaxCount /\ IsFiniteSet(keep')
    BY <1>0 DEF IInv, LimitInv
  <2>2. keep' \subseteq Live'
    BY <1>0, <1>1, <1>2
  <2>3. pc' = "store" => Live' \subseteq keep'
    BY <1>0, <1>2
  <2>4. QED
    BY <2>1, <2>2, <2>3 DEF LimitInv
<1>5. QED
  BY <1>2, <1>3, <1>4 DEF IInv

LEMMA ChooseKeptKeeps ==
  ASSUME Assumption, IInv, ChooseKept
  PROVE  IInv'
<1>0. /\ TypeOK /\ pc = "merge" /\ keep' = Kept /\ UNCHANGED <<topics, clusters, stored>>
      /\ ~ \E n \in Live : MinSize > 1 /\ TooSmall(n) /\ Live # {n}
      /\ pc' = IF keep' = Live THEN "store" ELSE "limit"
  BY DEF IInv, ChooseKept
<1>1. /\ Videos # {} /\ todo = {} /\ \A v \in Videos : Filed(v)
  BY <1>0 DEF IInv, GatheredInv
<1>2. Kept \in SUBSET Live /\ Cardinality(Kept) <= MaxCount
  BY <1>0, KeptFew
<1>3. Live' = Live
  BY <1>0 DEF Live
<1>4. TypeOK'
  <2>1. keep' \subseteq Names /\ pc' \in {"store", "limit"}
    BY <1>0, <1>2 DEF Live
  <2>2. UNCHANGED <<topics, todo, clusters, stored, count, runs>>
    BY DEF ChooseKept
  <2>3. QED
    BY <1>0, <2>1, <2>2 DEF TypeOK
<1>5. GatheredInv'
  <2>1. \A v \in Videos : Filed(v)'
    BY <1>0, <1>1, FiledAlone
  <2>2. todo' = {} /\ pc' \in {"store", "limit"}
    BY <1>0, <1>1 DEF ChooseKept
  <2>3. QED
    BY <1>1, <2>1, <2>2 DEF GatheredInv
<1>6. SizeInv'
  <2>1. ASSUME NEW n \in Live
        PROVE  HasPrimary(n) \/ MinSize <= Cardinality(Members(n))
    <3>0. n \in Names /\ Cardinality(Members(n)) \in Nat /\ MinSize \in Int
      BY <1>0, Sizes DEF Live, Assumption
    <3>1. CASE Live = {n}
      <4>1. PICK v \in Videos : Filed(v)
        BY <1>1
      <4>2. PICK m \in Names : <<v, "primary">> \in clusters[m]
        BY <4>1 DEF Filed
      <4>3. m \in Live
        BY <4>2 DEF Live
      <4>4. <<v, "primary">> \in clusters[n]
        BY <3>1, <4>2, <4>3
      <4>5. <<v, "primary">>[2] = "primary"
        OBVIOUS
      <4>6. QED
        BY <4>4, <4>5 DEF HasPrimary
    <3>2. CASE MinSize <= 1
      <4>1. PICK r : r \in clusters[n]
        BY DEF Live
      <4>2. r[1] \in Members(n)
        BY <4>1 DEF Members
      <4>3. IsFiniteSet(Members(n)) /\ Members(n) # {}
        BY <1>0, <3>0, <4>2, Sizes
      <4>4. Cardinality(Members(n)) # 0
        BY <4>3, FS_EmptySet
      <4>5. QED
        BY <3>0, <3>2, <4>4
    <3>3. CASE Live # {n} /\ MinSize > 1
      <4>1. ~TooSmall(n)
        BY <1>0, <3>3
      <4>2. QED
        BY <3>0, <4>1 DEF TooSmall
    <3>4. QED
      BY <3>0, <3>1, <3>2, <3>3
  <2>2. \A n : HasPrimary(n)' = HasPrimary(n) /\ Members(n)' = Members(n)
    BY <1>0 DEF HasPrimary, Members
  <2>3. \A n \in Live' : HasPrimary(n)' \/ MinSize <= Cardinality(Members(n)')
    BY <1>3, <2>1, <2>2
  <2>4. QED
    BY <2>3 DEF SizeInv
<1>7. LimitInv'
  <2>1. IsFiniteSet(keep')
    <3>1. IsFiniteSet(Live)
      BY LiveFinite
    <3>2. QED
      BY <1>0, <1>2, <3>1, FS_Subset
  <2>2. Cardinality(keep') <= MaxCount /\ keep' \subseteq Live'
    BY <1>0, <1>2, <1>3
  <2>3. pc' = "store" => Live' \subseteq keep'
    BY <1>0, <1>3
  <2>4. QED
    BY <2>1, <2>2, <2>3 DEF LimitInv
<1>8. OnePrimaryEach' /\ ClustersWithinLimits'
  BY <1>0, StoredAlone DEF IInv
<1>9. QED
  BY <1>4, <1>5, <1>6, <1>7, <1>8 DEF IInv

-----------------------------------------------------------------------------
(* What is stored *)

Row(n) == [name |-> n, order |-> Position(n), relations |-> Consolidated(n)]

LEMMA ConsolidatedMembers ==
  ASSUME TypeOK, NEW n \in Names
  PROVE  /\ Consolidated(n) \in SUBSET RelationSet
         /\ {r[1] : r \in Consolidated(n)} = Members(n)
         /\ \A v : <<v, "primary">> \in Consolidated(n) <=> <<v, "primary">> \in clusters[n]
         /\ \A v : ~ {<<v, "primary">>, <<v, "other">>} \subseteq Consolidated(n)
         /\ HasPrimary(n) => \E r \in Consolidated(n) : r[2] = "primary"
<1> DEFINE C == Consolidated(n)
           role(v) == IF <<v, "primary">> \in clusters[n] THEN "primary" ELSE "other"
<1>0. clusters[n] \in SUBSET RelationSet /\ Members(n) \in SUBSET Videos
  BY DEF TypeOK, RelationSet, Members
<1>1. \A x : x \in C <=> \E v \in Members(n) : x = <<v, role(v)>>
  BY DEF Consolidated, Role
<1>2. \A v : /\ role(v) \in {"primary", "other"}
             /\ role(v) = "primary" <=> <<v, "primary">> \in clusters[n]
  OBVIOUS
<1> HIDE DEF C, role
<1>3. C \in SUBSET RelationSet
  <2>1. ASSUME NEW x \in C PROVE x \in RelationSet
    <3>1. PICK v \in Members(n) : x = <<v, role(v)>>
      BY <1>1
    <3>2. QED
      BY <1>0, <1>2, <3>1 DEF RelationSet
  <2>2. QED
    BY <2>1
<1>4. {r[1] : r \in C} = Members(n)
  <2>1. \A r \in C : r[1] \in Members(n)
    BY <1>1
  <2>2. \A v \in Members(n) : <<v, role(v)>> \in C /\ <<v, role(v)>>[1] = v
    BY <1>1
  <2>3. QED
    BY <2>1, <2>2
<1>5. ASSUME NEW v
      PROVE  <<v, "primary">> \in C <=> <<v, "primary">> \in clusters[n]
  <2>1. ASSUME <<v, "primary">> \in C PROVE <<v, "primary">> \in clusters[n]
    <3>1. PICK u \in Members(n) : <<v, "primary">> = <<u, role(u)>>
      BY <1>1, <2>1
    <3>2. u = v /\ role(v) = "primary"
      BY <3>1
    <3>3. QED
      BY <1>2, <3>2
  <2>2. ASSUME <<v, "primary">> \in clusters[n] PROVE <<v, "primary">> \in C
    <3>1. v \in Members(n)
      BY <2>2 DEF Members
    <3>2. QED
      BY <1>1, <1>2, <2>2, <3>1
  <2>3. QED
    BY <2>1, <2>2
<1>6. ASSUME NEW v
      PROVE  ~ {<<v, "primary">>, <<v, "other">>} \subseteq C
  <2>1. SUFFICES ASSUME <<v, "primary">> \in C, <<v, "other">> \in C PROVE FALSE
    OBVIOUS
  <2>2. PICK u \in Members(n) : <<v, "primary">> = <<u, role(u)>>
    BY <1>1, <2>1
  <2>3. PICK w \in Members(n) : <<v, "other">> = <<w, role(w)>>
    BY <1>1, <2>1
  <2>4. QED
    BY <2>2, <2>3
<1>7. ASSUME HasPrimary(n)
      PROVE  \E r \in C : r[2] = "primary"
  <2>1. PICK r \in clusters[n] : r[2] = "primary"
    BY <1>7 DEF HasPrimary
  <2>2. r = <<r[1], "primary">>
    BY <1>0, <2>1 DEF RelationSet
  <2>3. r \in C
    BY <1>5, <2>2
  <2>4. QED
    BY <2>1, <2>3
<1>8. QED
  BY <1>3, <1>4, <1>5, <1>6, <1>7 DEF C

LEMMA StoreKeeps ==
  ASSUME Assumption, IInv, Store
  PROVE  IInv'
<1>0. /\ TypeOK /\ pc = "store" /\ pc' = "done" /\ stored' = {Row(n) : n \in Live}
      /\ count' = Cardinality(Live)
      /\ UNCHANGED <<topics, todo, clusters, keep, runs>>
  BY DEF IInv, Store, Row
<1>1. /\ Videos # {} /\ todo = {} /\ \A v \in Videos : Filed(v)
      /\ \A n \in Live : HasPrimary(n) \/ MinSize <= Cardinality(Members(n))
      /\ Cardinality(keep) <= MaxCount /\ IsFiniteSet(keep) /\ Live \subseteq keep
  BY <1>0 DEF IInv, GatheredInv, SizeInv, LimitInv
<1>2. IsFiniteSet(Live) /\ Cardinality(Live) \in Nat /\ Live \in SUBSET Names
  BY LiveFinite
<1>3. ASSUME NEW n \in Live
      PROVE  /\ Row(n).name = n /\ Row(n).order = Position(n)
             /\ Row(n).relations = Consolidated(n) /\ n \in Names
             /\ Row(n) \in [name : Names, order : Nat, relations : SUBSET RelationSet]
             /\ {r[1] : r \in Consolidated(n)} = Members(n)
             /\ \A v : <<v, "primary">> \in Consolidated(n) <=> <<v, "primary">> \in clusters[n]
             /\ \A v : ~ {<<v, "primary">>, <<v, "other">>} \subseteq Consolidated(n)
             /\ HasPrimary(n) => \E r \in Consolidated(n) : r[2] = "primary"
  <2>1. n \in Names /\ Position(n) \in Nat
    BY <1>0, <1>2, Ahead
  <2>2. /\ Consolidated(n) \in SUBSET RelationSet
        /\ {r[1] : r \in Consolidated(n)} = Members(n)
        /\ \A v : <<v, "primary">> \in Consolidated(n) <=> <<v, "primary">> \in clusters[n]
        /\ \A v : ~ {<<v, "primary">>, <<v, "other">>} \subseteq Consolidated(n)
        /\ HasPrimary(n) => \E r \in Consolidated(n) : r[2] = "primary"
    BY <1>0, <2>1, ConsolidatedMembers
  <2>3. QED
    BY <2>1, <2>2 DEF Row
<1>4. TypeOK'
  <2>1. stored' \subseteq [name : Names, order : Nat, relations : SUBSET RelationSet]
    BY <1>0, <1>3
  <2>2. QED
    BY <1>0, <1>2, <2>1 DEF TypeOK
<1>5. GatheredInv' /\ SizeInv' /\ LimitInv'
  BY <1>0 DEF GatheredInv, SizeInv, LimitInv
<1>6. OnePrimaryEach'
  <2> SUFFICES ASSUME NEW v \in Videos
               PROVE  /\ \E row \in stored' :
                           /\ <<v, "primary">> \in row.relations
                           /\ \A other \in stored' \ {row} : <<v, "primary">> \notin other.relations
                           /\ (\E r \in stored' : r.name = Home(v)') => row.name = Home(v)'
                      /\ \A row \in stored' :
                           ~ {<<v, "primary">>, <<v, "other">>} \subseteq row.relations
    BY DEF OnePrimaryEach
  <2>1. PICK at \in Names :
          /\ <<v, "primary">> \in clusters[at]
          /\ \A m \in Names \ {at} : <<v, "primary">> \notin clusters[m]
          /\ clusters[Home(v)] # {} => at = Home(v)
    BY <1>1 DEF Filed
  <2>2. at \in Live
    BY <2>1 DEF Live
  <2>3. Home(v)' = Home(v)
    BY <1>0, FiledAlone
  <2>4. Row(at) \in stored' /\ <<v, "primary">> \in Row(at).relations
    BY <1>0, <1>3, <2>1, <2>2
  <2>5. \A other \in stored' \ {Row(at)} : <<v, "primary">> \notin other.relations
    <3>1. SUFFICES ASSUME NEW n \in Live, n # at
                   PROVE  <<v, "primary">> \notin Row(n).relations
      BY <1>0
    <3>2. QED
      BY <1>3, <2>1, <3>1
  <2>6. (\E r \in stored' : r.name = Home(v)') => Row(at).name = Home(v)'
    <3>1. SUFFICES ASSUME NEW n \in Live, n = Home(v)
                   PROVE  at = Home(v)
      BY <1>0, <1>3, <2>2, <2>3
    <3>2. clusters[Home(v)] # {}
      BY <3>1 DEF Live
    <3>3. QED
      BY <2>1, <3>2
  <2>7. \A row \in stored' : ~ {<<v, "primary">>, <<v, "other">>} \subseteq row.relations
    BY <1>0, <1>3
  <2>8. QED
    BY <2>4, <2>5, <2>6, <2>7
<1>7. Cardinality(stored') = Cardinality(Live)
  <2> DEFINE f == [n \in Live |-> Row(n)]
  <2>1. \A m, n \in Live : Row(m) = Row(n) => m = n
    BY <1>3
  <2>2. f \in Bijection(Live, stored')
    BY <1>0, <2>1 DEF Bijection, Injection, Surjection, IsInjective
  <2> HIDE DEF f
  <2>3. ExistsBijection(Live, stored')
    BY <2>2 DEF ExistsBijection
  <2>4. QED
    BY <1>2, <2>3, FS_Bijection
<1>8. ClustersWithinLimits'
  <2>1. Cardinality(stored') <= MaxCount
    <3>1. Cardinality(Live) <= Cardinality(keep) /\ Cardinality(keep) \in Nat
      BY <1>1, FS_Subset, FS_CardinalityType
    <3>2. QED
      BY <1>1, <1>2, <1>7, <3>1 DEF Assumption
  <2>2. {row.order : row \in stored'} = 1..Cardinality(stored')
    <3>1. {row.order : row \in stored'} = {Position(n) : n \in Live}
      BY <1>0, <1>3
    <3>2. QED
      BY <1>0, <1>7, <3>1, PositionsFill
  <2>3. \A row \in stored' :
          \/ \E r \in row.relations : r[2] = "primary"
          \/ Cardinality({r[1] : r \in row.relations}) >= MinSize
    <3>1. SUFFICES ASSUME NEW n \in Live
                   PROVE  \/ \E r \in Row(n).relations : r[2] = "primary"
                          \/ Cardinality({r[1] : r \in Row(n).relations}) >= MinSize
      BY <1>0
    <3>2. Row(n).relations = Consolidated(n) /\ {r[1] : r \in Consolidated(n)} = Members(n)
      BY <1>3
    <3>3. Cardinality(Members(n)) \in Nat /\ MinSize \in Int
      BY <1>0, <1>2, Sizes DEF Assumption
    <3>4. CASE HasPrimary(n)
      BY <1>3, <3>2, <3>4
    <3>5. CASE MinSize <= Cardinality(Members(n))
      <4>1. Cardinality({r[1] : r \in Row(n).relations}) = Cardinality(Members(n))
        BY <3>2
      <4>2. QED
        BY <3>3, <3>5, <4>1
    <3>6. QED
      BY <1>1, <3>4, <3>5
  <2>4. QED
    BY <2>1, <2>2, <2>3 DEF ClustersWithinLimits
<1>9. QED
  BY <1>4, <1>5, <1>6, <1>8 DEF IInv

LEMMA NextIInv ==
  ASSUME Assumption, IInv, [Next]_vars
  PROVE  IInv'
<1>1. CASE UNCHANGED vars
  <2>1. UNCHANGED <<topics, pc, todo, clusters, keep, stored, count, runs>>
    BY <1>1 DEF vars
  <2>2. TypeOK'
    BY <2>1 DEF IInv, TypeOK
  <2>3. GatheredInv'
    BY <2>1, FiledAlone DEF IInv, GatheredInv
  <2>4. Live' = Live /\ \A n : HasPrimary(n)' = HasPrimary(n) /\ Members(n)' = Members(n)
    BY <2>1 DEF Live, HasPrimary, Members
  <2>5. SizeInv' /\ LimitInv'
    BY <2>1, <2>4 DEF IInv, SizeInv, LimitInv
  <2>6. OnePrimaryEach' /\ ClustersWithinLimits'
    BY <2>1, StoredAlone DEF IInv
  <2>7. QED
    BY <2>2, <2>3, <2>5, <2>6 DEF IInv
<1>2. CASE Reset \/ Interrupt \/ ChooseKept \/ Store \/ Again
  BY <1>2, ResetKeeps, InterruptKeeps, ChooseKeptKeeps, StoreKeeps
<1>3. ASSUME NEW v \in Videos, Gather(v)
      PROVE  IInv'
  BY <1>3, GatherKeeps
<1>4. ASSUME NEW n \in Names, MergeSmall(n) \/ MergeExcess(n)
      PROVE  IInv'
  BY <1>4, MergeSmallKeeps, MergeExcessKeeps
<1>5. QED
  BY <1>1, <1>2, <1>3, <1>4 DEF Next

\* The clustering keeps the types of its state and the invariant above.
THEOREM TopicClusterInvariant ==
  ASSUME Assumption
  PROVE  Spec => []IInv
<1>1. Init => IInv
  BY InitIInv
<1>2. IInv /\ [Next]_vars => IInv'
  BY NextIInv
<1>3. QED
  BY <1>1, <1>2, PTL DEF Spec

\* Whatever the clusters that cluster_task merges and however it is
\* interrupted, a stored clustering gives every video one primary cluster,
\* that of its primary topic unless the limit removed it.
THEOREM OnePrimaryClusterEach ==
  ASSUME Assumption
  PROVE  Spec => []OnePrimaryEach
<1>1. IInv => OnePrimaryEach
  BY DEF IInv
<1>2. QED
  BY <1>1, TopicClusterInvariant, PTL

\* The stored clusters are no more than the limit, numbered without gap, and
\* none is small and without a primary video (_merge_small_clusters,
\* _limit_cluster_count, cluster_task).
THEOREM LimitsAreKept ==
  ASSUME Assumption
  PROVE  Spec => []ClustersWithinLimits
<1>1. IInv => ClustersWithinLimits
  BY DEF IInv
<1>2. QED
  BY <1>1, TopicClusterInvariant, PTL

===============================================================================
