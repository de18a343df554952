--------------------------- MODULE SelectionProofs ---------------------------
(***************************************************************************)
(* What is chosen for a task, whatever its keyword, the results of the     *)
(* site and the answers of the model: the keywords that are searched, the  *)
(* candidates that are merged and selected, the authors profiled, and the  *)
(* scores of videos and topics on the analysis page.                       *)
(*                                                                         *)
(* Loops are reasoned about by induction.  It is stated of a set of        *)
(* numbers, LeastNumber being a case of well-founded induction, and used   *)
(* with the set of the turns after which the loop's invariant holds.       *)
(***************************************************************************)
EXTENDS CandidateSearch, AuthorRanking, AnalysisViews,
        FiniteSetTheorems, WellFoundedInduction, TLAPS

-----------------------------------------------------------------------------
(* Numbers *)

LEMMA LeastNumber ==
  ASSUME NEW T, T \subseteq Nat, T # {}
  PROVE  \E m \in T : \A n \in T : m <= n
<1> DEFINE R == OpToRel(<, Nat)
<1>1. IsWellFoundedOn(R, Nat)
  BY NatLessThanWellFounded
<1>2. PICK m \in T : \A n \in T : ~ (<<n, m>> \in R)
  <2> HIDE DEF R
  <2>1. QED
    BY <1>1, WFMin
<1>3. \A n \in T : n < m => <<n, m>> \in R
  BY DEF OpToRel
<1> HIDE DEF R
<1>4. \A n \in T : ~(n < m)
  BY <1>2, <1>3
<1>5. QED
  BY <1>4

\* What holds at first, and after a turn if it held before, holds after each.
LEMMA AfterEachTurn ==
  ASSUME NEW N \in Nat, NEW T, 0 \in T,
         \A n \in 1..N : n - 1 \in T => n \in T
  PROVE  0..N \subseteq T
<1> SUFFICES ASSUME NEW n \in 0..N, n \notin T
             PROVE  FALSE
  OBVIOUS
<1> DEFINE U == {k \in 0..N : k \notin T}
<1>1. PICK m \in U : \A k \in U : m <= k
  <2>1. U \subseteq Nat /\ n \in U
    OBVIOUS
  <2> HIDE DEF U
  <2>2. QED
    BY <2>1, LeastNumber
<1>2. m \in 1..N /\ m - 1 \in 0..N /\ m - 1 \notin U
  BY <1>1
<1>3. QED
  BY <1>1, <1>2

LEMMA UpTo ==
  ASSUME NEW n \in Nat
  PROVE  IsFiniteSet(1..n) /\ Cardinality(1..n) = n
<1>1. CASE n = 0
  BY <1>1, FS_Interval
<1>2. CASE n # 0
  BY <1>2, FS_Interval
<1>3. QED
  BY <1>1, <1>2

-----------------------------------------------------------------------------
(* Lists *)

\* Numbers that count what comes before each member of a finite set are a
\* numbering of the set, if they differ.
LEMMA Numbering ==
  ASSUME NEW S, IsFiniteSet(S), NEW f \in [S -> 1..Cardinality(S)],
         \A x, y \in S : f[x] = f[y] => x = y
  PROVE  \A k \in 1..Cardinality(S) : \E x \in S : f[x] = k
<1> DEFINE T == 1..Cardinality(S)
<1>1. Cardinality(S) \in Nat
  BY FS_CardinalityType
<1>2. f \in Injection(S, T)
  BY DEF Injection, IsInjective
<1>3. IsFiniteSet(T) /\ Cardinality(T) = Cardinality(S)
  BY <1>1, UpTo
<1>4. f \in Surjection(S, T)
  <2> HIDE DEF T
  <2>1. QED
    BY <1>2, <1>3, FS_Injection
<1>5. QED
  BY <1>4 DEF Surjection

LEMMA PlacesFinite ==
  ASSUME NEW n \in Nat, NEW places \in SUBSET (1..n)
  PROVE  IsFiniteSet(places) /\ Cardinality(places) \in 0..n
<1>1. IsFiniteSet(1..n) /\ Cardinality(1..n) = n
  BY UpTo
<1>2. IsFiniteSet(places) /\ Cardinality(places) <= n
  BY <1>1, FS_Subset
<1>3. QED
  BY <1>2, FS_CardinalityType

\* The places of a list in their order
LEMMA NthPlace ==
  ASSUME NEW n \in Nat, NEW places \in SUBSET (1..n)
  PROVE  /\ \A k \in 1..Cardinality(places) : Nth(places, k) \in places
         /\ \A i \in places : \E k \in 1..Cardinality(places) : Nth(places, k) = i
         /\ \A k, l \in 1..Cardinality(places) : k < l => Nth(places, k) < Nth(places, l)
<1> DEFINE upto(i) == {j \in places : j <= i}
           N == Cardinality(places)
           f == [i \in places |-> Cardinality(upto(i))]
<1>1. IsFiniteSet(places) /\ N \in Nat
  BY PlacesFinite
<1>2. ASSUME NEW i \in places
      PROVE  /\ IsFiniteSet(upto(i)) /\ Cardinality(upto(i)) \in 1..N
             /\ i \in upto(i) /\ upto(i) \in SUBSET places
  <2>1. upto(i) \in SUBSET places /\ i \in upto(i)
    OBVIOUS
  <2> HIDE DEF upto
  <2>2. IsFiniteSet(upto(i)) /\ Cardinality(upto(i)) <= N
    BY <1>1, <2>1, FS_Subset
  <2>3. Cardinality(upto(i)) \in Nat /\ Cardinality(upto(i)) # 0
    BY <2>1, <2>2, FS_CardinalityType, FS_EmptySet
  <2>4. QED
    BY <1>1, <2>1, <2>2, <2>3
<1>3. ASSUME NEW i \in places, NEW j \in places, i < j
      PROVE  Cardinality(upto(i)) < Cardinality(upto(j))
  <2>1. upto(i) \in SUBSET upto(j) /\ j \notin upto(i) /\ j \in upto(j)
    <3>1. places \subseteq Int
      OBVIOUS
    <3>2. \A m \in places : m <= i => m <= j
      BY <1>3, <3>1
    <3>3. j <= j /\ ~(j <= i)
      BY <1>3, <3>1
    <3>4. QED
      BY <3>2, <3>3
  <2> HIDE DEF upto
  <2>2. /\ Cardinality(upto(i)) = Cardinality(upto(j)) => upto(j) = upto(i)
        /\ Cardinality(upto(i)) <= Cardinality(upto(j))
    BY <1>2, <2>1, FS_Subset
  <2>3. QED
    BY <1>2, <2>1, <2>2
<1> HIDE DEF upto
<1>4. /\ \A i, j \in places : i < j \/ j < i \/ i = j
      /\ \A i, j \in places : ~(i < j /\ j < i)
  OBVIOUS
<1>5. \A i, j \in places : Cardinality(upto(i)) = Cardinality(upto(j)) => i = j
  BY <1>2, <1>3, <1>4
<1>6. \A k \in 1..N : \E i \in places : Cardinality(upto(i)) = k
  <2>1. f \in [places -> 1..N] /\ \A i, j \in places : f[i] = f[j] => i = j
    BY <1>2, <1>5
  <2>2. \A k \in 1..N : \E i \in places : f[i] = k
    <3> HIDE DEF f
    <3>1. QED
      BY <1>1, <2>1, Numbering
  <2>3. QED
    BY <2>2
<1>7. \A k \in 1..N : Nth(places, k) \in places /\ Cardinality(upto(Nth(places, k))) = k
  <2> SUFFICES ASSUME NEW k \in 1..N
               PROVE  Nth(places, k) \in places /\ Cardinality(upto(Nth(places, k))) = k
    OBVIOUS
  <2>1. Nth(places, k) = CHOOSE i \in places : Cardinality(upto(i)) = k
    BY DEF Nth, upto
  <2>2. QED
    BY <1>6, <2>1
<1>8. \A i \in places : \E k \in 1..N : Nth(places, k) = i
  BY <1>2, <1>5, <1>7
<1>9. \A k, l \in 1..N : k < l => Nth(places, k) < Nth(places, l)
  <2> SUFFICES ASSUME NEW k \in 1..N, NEW l \in 1..N, k < l
               PROVE  Nth(places, k) < Nth(places, l)
    OBVIOUS
  <2>1. /\ Nth(places, k) \in places /\ Cardinality(upto(Nth(places, k))) = k
        /\ Nth(places, l) \in places /\ Cardinality(upto(Nth(places, l))) = l
    BY <1>7
  <2>2. Nth(places, k) # Nth(places, l)
    BY <2>1
  <2>3. ~(Nth(places, l) < Nth(places, k))
    <3>1. k \in Nat /\ l \in Nat
      BY <1>1
    <3>2. Nth(places, l) < Nth(places, k) => l < k
      BY <1>3, <2>1
    <3>3. QED
      BY <3>1, <3>2
  <2>4. QED
    BY <1>4, <2>1, <2>2, <2>3
<1>10. QED
  BY <1>7, <1>8, <1>9

\* An element is picked for each place, in the order of the places.
LEMMA PickedList ==
  ASSUME NEW V, NEW list \in Seq(V), NEW places \in SUBSET (1..Len(list))
  PROVE  /\ Picked(list, places) \in Seq(V)
         /\ Len(Picked(list, places)) = Cardinality(places)
         /\ Cardinality(places) \in 0..Len(list)
         /\ \A k \in 1..Cardinality(places) :
              /\ Nth(places, k) \in places
              /\ Picked(list, places)[k] = list[Nth(places, k)]
         /\ \A k, l \in 1..Cardinality(places) :
              /\ k < l => Nth(places, k) < Nth(places, l)
              /\ Nth(places, k) = Nth(places, l) => k = l
         /\ \A i \in places : \E k \in 1..Cardinality(places) :
              Nth(places, k) = i /\ Picked(list, places)[k] = list[i]
<1> DEFINE p == Picked(list, places)
           n == Cardinality(places)
<1>1. Len(list) \in Nat /\ \A i \in 1..Len(list) : list[i] \in V
  OBVIOUS
<1>2. n \in 0..Len(list)
  BY <1>1, PlacesFinite
<1>3. /\ \A k \in 1..n : Nth(places, k) \in places
      /\ \A i \in places : \E k \in 1..n : Nth(places, k) = i
      /\ \A k, l \in 1..n : k < l => Nth(places, k) < Nth(places, l)
  BY <1>1, NthPlace
<1>4. p = [k \in 1..n |-> list[Nth(places, k)]]
  BY DEF Picked
<1> HIDE DEF n, p
<1>5. p \in Seq(V) /\ Len(p) = n
  <2>1. \A k \in 1..n : list[Nth(places, k)] \in V
    BY <1>1, <1>3
  <2>2. n \in Nat /\ p \in [1..n -> V]
    BY <1>2, <1>4, <2>1
  <2>3. QED
    BY <2>2
<1>6. \A k \in 1..n : p[k] = list[Nth(places, k)]
  BY <1>4
<1>7. \A k, l \in 1..n : Nth(places, k) = Nth(places, l) => k = l
  <2> SUFFICES ASSUME NEW k \in 1..n, NEW l \in 1..n, k # l
               PROVE  Nth(places, k) # Nth(places, l)
    OBVIOUS
  <2>1. Nth(places, k) \in Int /\ Nth(places, l) \in Int
    <3>1. Nth(places, k) \in places /\ Nth(places, l) \in places
      BY <1>3
    <3>2. \A i \in places : i \in Int
      OBVIOUS
    <3>3. QED
      BY <3>1, <3>2
  <2>2. k < l \/ l < k
    BY <1>2
  <2>3. CASE k < l
    BY <1>3, <2>1, <2>3
  <2>4. CASE l < k
    BY <1>3, <2>1, <2>4
  <2>5. QED
    BY <2>2, <2>3, <2>4
<1>8. QED
  BY <1>2, <1>3, <1>5, <1>6, <1>7 DEF n, p

LEMMA UptoList ==
  ASSUME NEW V, NEW list \in Seq(V), NEW n \in Nat
  PROVE  /\ Upto(n, list) \in Seq(V) /\ Len(Upto(n, list)) \in Nat
         /\ Len(Upto(n, list)) = IF Len(list) < n THEN Len(list) ELSE n
         /\ \A i \in 1..Len(Upto(n, list)) :
              i \in 1..Len(list) /\ Upto(n, list)[i] = list[i]
<1>1. PICK m \in 0..Len(list) : /\ m = IF Len(list) < n THEN Len(list) ELSE n
                                /\ Upto(n, list) = SubSeq(list, 1, m)
  BY DEF Upto
<1>2. /\ SubSeq(list, 1, m) \in Seq(V) /\ Len(SubSeq(list, 1, m)) = m
      /\ \A i \in 1..m : i \in 1..Len(list) /\ SubSeq(list, 1, m)[i] = list[i]
  OBVIOUS
<1>3. QED
  BY <1>1, <1>2

\* ahead gives for each member of S those that come before it, in a total order.
Orders(ahead, S) ==
  /\ ahead \in [S -> SUBSET S]
  /\ \A x \in S : x \notin ahead[x]
  /\ \A x, y \in S : y \in ahead[x] => ahead[y] \subseteq ahead[x]
  /\ \A x, y \in S : x = y \/ x \in ahead[y] \/ y \in ahead[x]

LEMMA SortedList ==
  ASSUME NEW S, IsFiniteSet(S), NEW ahead, Orders(ahead, S)
  PROVE  /\ Sorted(S, ahead) \in Seq(S) /\ Len(Sorted(S, ahead)) = Cardinality(S)
         /\ Cardinality(S) \in Nat
         /\ \A x \in S : \E k \in 1..Cardinality(S) : Sorted(S, ahead)[k] = x
         /\ \A k, l \in 1..Cardinality(S) :
              k < l => Sorted(S, ahead)[k] \in ahead[Sorted(S, ahead)[l]]
<1> DEFINE n == Cardinality(S)
           s == Sorted(S, ahead)
           f == [x \in S |-> Cardinality(ahead[x]) + 1]
<1>1. n \in Nat
  BY FS_CardinalityType
<1>2. \A x \in S : ahead[x] \in SUBSET S /\ x \notin ahead[x]
  BY DEF Orders
<1>3. ASSUME NEW x \in S
      PROVE  IsFiniteSet(ahead[x]) /\ Cardinality(ahead[x]) \in 0..(n - 1)
  <2>1. IsFiniteSet(ahead[x]) /\ Cardinality(ahead[x]) <= n
        /\ (n = Cardinality(ahead[x]) => S = ahead[x])
    BY <1>2, FS_Subset
  <2>2. Cardinality(ahead[x]) \in Nat
    BY <2>1, FS_CardinalityType
  <2>3. QED
    BY <1>1, <1>2, <2>1, <2>2
<1>4. ASSUME NEW x \in S, NEW y \in S, x \in ahead[y]
      PROVE  Cardinality(ahead[x]) < Cardinality(ahead[y])
  <2>1. ahead[x] \in SUBSET ahead[y] /\ x \notin ahead[x]
    BY <1>4 DEF Orders
  <2>2. /\ Cardinality(ahead[x]) <= Cardinality(ahead[y])
        /\ Cardinality(ahead[y]) = Cardinality(ahead[x]) => ahead[y] = ahead[x]
    BY <1>3, <2>1, FS_Subset
  <2>3. QED
    BY <1>3, <1>4, <2>1, <2>2
<1>5. \A x, y \in S : x = y \/ x \in ahead[y] \/ y \in ahead[x]
  BY DEF Orders
<1>6. \A x, y \in S : Cardinality(ahead[x]) = Cardinality(ahead[y]) => x = y
  BY <1>3, <1>4, <1>5
<1>7. \A k \in 1..n : \E x \in S : Cardinality(ahead[x]) = k - 1
  <2>1. f \in [S -> 1..n] /\ \A x, y \in S : f[x] = f[y] => x = y
    BY <1>1, <1>3, <1>6
  <2>2. \A k \in 1..n : \E x \in S : f[x] = k
    <3> HIDE DEF f
    <3>1. QED
      BY <2>1, Numbering
  <2>3. QED
    BY <1>1, <1>3, <2>2
<1>8. s = [k \in 1..n |-> CHOOSE x \in S : Cardinality(ahead[x]) = k - 1]
  BY DEF Sorted
<1> HIDE DEF s, n
<1>9. \A k \in 1..n : s[k] \in S /\ Cardinality(ahead[s[k]]) = k - 1
  BY <1>7, <1>8
<1>10. s \in Seq(S) /\ Len(s) = n
  <2>1. s \in [1..n -> S]
    BY <1>8, <1>9
  <2>2. QED
    BY <1>1, <2>1
<1>11. \A x \in S : \E k \in 1..n : s[k] = x
  <2> SUFFICES ASSUME NEW x \in S
               PROVE  \E k \in 1..n : s[k] = x
    OBVIOUS
  <2>1. Cardinality(ahead[x]) + 1 \in 1..n
    BY <1>1, <1>3
  <2>2. s[Cardinality(ahead[x]) + 1] = x
    BY <1>3, <1>6, <1>9, <2>1
  <2>3. QED
    BY <2>1, <2>2
<1>12. \A k, l \in 1..n : k < l => s[k] \in ahead[s[l]]
  <2> SUFFICES ASSUME NEW k \in 1..n, NEW l \in 1..n, k < l
               PROVE  s[k] \in ahead[s[l]]
    OBVIOUS
  <2>1. Cardinality(ahead[s[k]]) < Cardinality(ahead[s[l]])
    BY <1>9
  <2>2. s[k] # s[l] /\ ~(s[l] \in ahead[s[k]])
    BY <1>4, <1>9, <2>1
  <2>3. QED
    BY <1>5, <1>9, <2>2
<1>13. QED
  BY <1>1, <1>10, <1>11, <1>12 DEF n, s

-----------------------------------------------------------------------------
(* The keywords of a run. *)

\* The stored expansion holds words that differ from the keyword and from each
\* other when case is ignored, and some just when it succeeded.
ExpansionFits(e) ==
  /\ e.synonyms \in Seq(Words) /\ Len(e.synonyms) <= SynonymCount
  /\ \A i \in 1..Len(e.synonyms) : Casefold[e.synonyms[i]] # Casefold[Source]
  /\ \A i, j \in 1..Len(e.synonyms) :
       Casefold[e.synonyms[i]] = Casefold[e.synonyms[j]] => i = j
  /\ e.status = "success" <=> e.synonyms # <<>>

SearchInv ==
  /\ ExpansionFits(expansion)
  /\ stage = "search" => keywords = SearchKeywords(expansion)

-----------------------------------------------------------------------------
\* What the cleaning of an answer leaves.
LEMMA CleanedFits ==
  ASSUME Assumption, NEW answer \in Seq(Words)
  PROVE  LET c == Cleaned(answer)
         IN /\ c \in Seq(Words) /\ Len(c) <= SynonymCount
            /\ \A i \in 1..Len(c) : Casefold[c[i]] # Casefold[Source]
            /\ \A i, j \in 1..Len(c) : Casefold[c[i]] = Casefold[c[j]] => i = j
<1> DEFINE places == Firsts(answer, Casefold)
           p == Picked(answer, places)
           n == Cardinality(places)
           c == Cleaned(answer)
<1>1. places \in SUBSET (1..Len(answer))
  BY DEF Firsts
<1>2. \A i \in places : Casefold[answer[i]] # Casefold[Source]
  BY DEF Firsts
<1>3. \A i, j \in places : Casefold[answer[i]] = Casefold[answer[j]] => i = j
  <2>1. \A i, j \in places : i < j => Casefold[answer[i]] # Casefold[answer[j]]
    BY DEF Firsts
  <2>2. \A i, j \in places : i < j \/ j < i \/ i = j
    BY <1>1
  <2> HIDE DEF places
  <2>3. QED
    BY <2>1, <2>2
<1> HIDE DEF places
<1>4. /\ p \in Seq(Words) /\ Len(p) = n /\ n \in Nat
      /\ \A k \in 1..n : Nth(places, k) \in places /\ p[k] = answer[Nth(places, k)]
      /\ \A k, l \in 1..n : Nth(places, k) = Nth(places, l) => k = l
  BY <1>1, PickedList
<1>5. c = Upto(SynonymCount, p)
  BY DEF Cleaned, places
<1> HIDE DEF p, n, c
<1>6. \A k \in 1..n : Casefold[p[k]] # Casefold[Source]
  BY <1>2, <1>4
<1>7. \A k, l \in 1..n : Casefold[p[k]] = Casefold[p[l]] => k = l
  BY <1>3, <1>4
<1>8. SynonymCount \in Nat
  BY DEF Assumption
<1>9. /\ c \in Seq(Words) /\ Len(c) <= SynonymCount
      /\ \A i \in 1..Len(c) : c[i] = p[i] /\ i \in 1..n
  BY <1>4, <1>5, <1>8, UptoList
<1>10. QED
  BY <1>6, <1>7, <1>9 DEF c

\* The keywords to search, from an expansion as the row keeps it.
LEMMA KeywordsFit ==
  ASSUME Assumption, NEW e, ExpansionFits(e)
  PROVE  LET w == SearchKeywords(e)
         IN /\ w \in Seq(Words) /\ w[1] = Source /\ Len(w) \in 1..(SynonymCount + 1)
            /\ \A i, j \in 1..Len(w) : Casefold[w[i]] = Casefold[w[j]] => i = j
            /\ Len(w) > 1 <=> e.status = "success"
<1> DEFINE words == e.synonyms
           places == Firsts(words, Exactly)
           p == Picked(words, places)
           n == Cardinality(places)
           w == SearchKeywords(e)
<1>1. /\ words \in Seq(Words) /\ Len(words) \in Nat /\ Len(words) <= SynonymCount
      /\ Source \in Words /\ SynonymCount \in Nat
  BY DEF ExpansionFits, Assumption
<1>2. places \in SUBSET (1..Len(words))
  BY DEF Firsts
<1>3. \A i \in places : Casefold[words[i]] # Casefold[Source]
  BY <1>2 DEF ExpansionFits
<1>4. \A i, j \in places : Casefold[words[i]] = Casefold[words[j]] => i = j
  BY <1>2 DEF ExpansionFits
<1>5. Len(words) > 0 => 1 \in places
  <2> SUFFICES ASSUME Len(words) > 0
               PROVE  1 \in places
    OBVIOUS
  <2>1. 1 \in 1..Len(words) /\ words[1] \in Words
    BY <1>1
  <2>2. words[1] # Source
    BY <2>1 DEF ExpansionFits
  <2>3. Exactly[words[1]] # Exactly[Source]
    BY <1>1, <2>1, <2>2 DEF Exactly
  <2>4. QED
    BY <2>1, <2>3 DEF Firsts
<1>6. w = <<Source>> \o p
  BY DEF SearchKeywords
<1>7. words # <<>> <=> Len(words) > 0
  BY <1>1
<1>8. e.status = "success" <=> words # <<>>
  BY DEF ExpansionFits
<1> HIDE DEF places, words
<1>9. /\ p \in Seq(Words) /\ Len(p) = n /\ n \in 0..Len(words)
      /\ \A k \in 1..n : Nth(places, k) \in places /\ p[k] = words[Nth(places, k)]
      /\ \A k, l \in 1..n : Nth(places, k) = Nth(places, l) => k = l
  BY <1>1, <1>2, PickedList
<1>10. n > 0 <=> Len(words) > 0
  <2>1. IsFiniteSet(places)
    BY <1>1, <1>2, PlacesFinite
  <2>2. 1 \in places => n # 0
    BY <2>1, FS_EmptySet
  <2>3. QED
    BY <1>1, <1>5, <1>9, <2>2
<1> HIDE DEF p, n, w
<1>11. /\ \A k \in 1..n : Casefold[p[k]] # Casefold[Source]
       /\ \A k, l \in 1..n : Casefold[p[k]] = Casefold[p[l]] => k = l
  BY <1>3, <1>4, <1>9
<1>12. /\ w \in Seq(Words) /\ Len(w) = n + 1 /\ w[1] = Source
       /\ \A i \in 2..(n + 1) : w[i] = p[i - 1] /\ i - 1 \in 1..n
  BY <1>1, <1>6, <1>9
<1>13. \A i, j \in 1..Len(w) : Casefold[w[i]] = Casefold[w[j]] => i = j
  <2> SUFFICES ASSUME NEW i \in 1..(n + 1), NEW j \in 1..(n + 1),
                      Casefold[w[i]] = Casefold[w[j]]
               PROVE  i = j
    BY <1>12
  <2>1. n \in Nat
    BY <1>1, <1>9
  <2>2. CASE i = 1 /\ j = 1
    BY <2>2
  <2>3. CASE i = 1 /\ j # 1
    <3>1. j \in 2..(n + 1)
      BY <2>1, <2>3
    <3>2. QED
      BY <1>11, <1>12, <2>3, <3>1
  <2>4. CASE i # 1 /\ j = 1
    <3>1. i \in 2..(n + 1)
      BY <2>1, <2>4
    <3>2. QED
      BY <1>11, <1>12, <2>4, <3>1
  <2>5. CASE i # 1 /\ j # 1
    <3>1. i \in 2..(n + 1) /\ j \in 2..(n + 1)
      BY <2>1, <2>5
    <3>2. i - 1 = j - 1
      BY <1>11, <1>12, <3>1
    <3>3. QED
      BY <3>2
  <2>6. QED
    BY <2>2, <2>3, <2>4, <2>5
<1>14. QED
  BY <1>1, <1>7, <1>8, <1>9, <1>10, <1>12, <1>13 DEF w

-----------------------------------------------------------------------------
LEMMA NothingFits ==
  ASSUME Assumption,
         NEW outcome \in {"skipped", "pending", "fallback", "failed"}
  PROVE  ExpansionFits(Expansion(outcome, <<>>))
BY DEF ExpansionFits, Expansion, Assumption

LEMMA InitialFits ==
  ASSUME Assumption
  PROVE  ExpansionFits(Initial)
<1>1. CASE enabled
  <2>1. Initial = Expansion("pending", <<>>)
    BY <1>1 DEF Initial
  <2>2. QED
    BY <2>1, NothingFits
<1>2. CASE ~enabled
  <2>1. Initial = Expansion("skipped", <<>>)
    BY <1>2 DEF Initial
  <2>2. QED
    BY <2>1, NothingFits
<1>3. QED
  BY <1>1, <1>2

LEMMA SearchInit ==
  ASSUME Assumption, Init
  PROVE  SearchInv
<1>1. ExpansionFits(Initial)
  BY InitialFits
<1>2. QED
  BY <1>1 DEF Init, SearchInv

LEMMA KeywordsExpanded ==
  ASSUME Assumption, SearchInv, Expand
  PROVE  SearchInv'
<1>1. ASSUME NEW s \in {"fallback", "failed"}, expansion' = Expansion(s, <<>>)
      PROVE  ExpansionFits(expansion')
  <2>1. ExpansionFits(Expansion(s, <<>>))
    BY NothingFits
  <2>2. QED
    BY <1>1, <2>1
<1>2. ASSUME NEW a \in Answers, Cleaned(a) # <<>>,
             expansion' = Expansion("success", Cleaned(a))
      PROVE  ExpansionFits(expansion')
  <2>1. a \in Seq(Words)
    BY DEF Assumption
  <2>2. expansion'.status = "success" /\ expansion'.synonyms = Cleaned(a)
    BY <1>2 DEF Expansion
  <2>3. QED
    BY <1>2, <2>1, <2>2, CleanedFits DEF ExpansionFits
<1>3. ExpansionFits(expansion')
  BY <1>1, <1>2 DEF Expand
<1>4. QED
  BY <1>3 DEF Expand, SearchInv

LEMMA SearchNext ==
  ASSUME Assumption, SearchInv, [Next]_(vars)
  PROVE  SearchInv'
<1>1. CASE Start
  BY <1>1 DEF Start, SearchInv
<1>2. CASE Expand
  BY <1>2, KeywordsExpanded
<1>3. CASE SearchPage
  BY <1>3 DEF SearchPage, SearchInv
<1>4. CASE HotPage
  BY <1>4 DEF HotPage, SearchInv
<1>5. CASE Abort \/ Again \/ Merge \/ Select
  BY <1>5 DEF Abort, Again, Merge, Select, SearchInv
<1>6. CASE Retry
  <2>1. ExpansionFits(Initial)
    BY InitialFits
  <2>2. stage' = "idle" /\ expansion' = Initial
    BY <1>6 DEF Retry
  <2>3. QED
    BY <2>1, <2>2 DEF SearchInv
<1>7. CASE UNCHANGED vars
  BY <1>7 DEF vars, SearchInv
<1>8. QED
  BY <1>1, <1>2, <1>3, <1>4, <1>5, <1>6, <1>7 DEF Next

\* What a run searches is the task's keyword and at most as many others as
\* were asked for, no two alike but for case, also when an earlier run stored
\* the expansion (expand_keyword, _clean_synonyms, _normalize_search_keywords).
THEOREM SearchesOwnKeywords ==
  ASSUME Assumption
  PROVE  Spec => []KeywordsWellFormed
<1>1. Init => SearchInv
  BY SearchInit
<1>2. SearchInv /\ [Next]_(vars) => SearchInv'
  BY SearchNext
<1>3. SearchInv => KeywordsWellFormed
  <2> SUFFICES ASSUME SearchInv, stage = "search"
               PROVE  KeywordsWellFormed
    BY DEF KeywordsWellFormed
  <2>1. keywords = SearchKeywords(expansion) /\ ExpansionFits(expansion)
    BY DEF SearchInv
  <2>2. QED
    BY <2>1, KeywordsFit DEF KeywordsWellFormed
<1>4. QED
  BY <1>1, <1>2, <1>3, PTL DEF Spec

-----------------------------------------------------------------------------
(* Merging. *)

Occurs(o, b) == {i \in 1..Len(o) : o[i].bvid = b}
KeywordsOf(o, b) == UNION {ToSet(o[i].matched) : i \in Occurs(o, b)}

\* A candidate's keywords differ, and its primary one is one of them, and the
\* task's own if that is one of them.
Sound(c) ==
  /\ c \in CandidateSet
  /\ \A i, j \in 1..Len(c.matched) : c.matched[i] = c.matched[j] => i = j
  /\ Source \in ToSet(c.matched) => c.primary = Source
  /\ c.matched # <<>> => c.primary \in ToSet(c.matched)

\* Either every candidate was found by a keyword or none was.
Candidates(o) ==
  /\ o \in Seq(CandidateSet)
  /\ \A i \in 1..Len(o) : Sound(o[i])
  /\ \A i, j \in 1..Len(o) : o[i].matched = <<>> => o[j].matched = <<>>

\* What merging in place may do to the candidates.
Keeps(o, p) ==
  /\ Candidates(p) /\ Len(p) = Len(o)
  /\ \A i \in 1..Len(o) :
       /\ p[i].bvid = o[i].bvid /\ p[i].rank = o[i].rank
       /\ ToSet(o[i].matched) \subseteq ToSet(p[i].matched)
       /\ ToSet(p[i].matched) \subseteq KeywordsOf(o, o[i].bvid)

\* After n turns, held gives the best of the objects of a video seen so far,
\* which has all their keywords.
LoopInv(o, state, n) ==
  /\ Keeps(o, state.objects)
  /\ \A i \in (n + 1)..Len(o) : state.objects[i] = o[i]
  /\ state.held \in [Bvids -> 0..n]
  /\ \A b \in Bvids : \A i \in Occurs(o, b) : i <= n =>
       LET k == state.held[b]
       IN /\ k # 0 /\ o[k].rank <= o[i].rank
          /\ ToSet(o[i].matched) \subseteq ToSet(state.objects[k].matched)
  /\ \A b \in Bvids : state.held[b] # 0 => o[state.held[b]].bvid = b

-----------------------------------------------------------------------------
LEMMA Members ==
  ASSUME NEW V, NEW s \in Seq(V)
  PROVE  ToSet(s) = {s[i] : i \in 1..Len(s)} /\ ToSet(s) \subseteq V
BY DEF ToSet

LEMMA MembersJoined ==
  ASSUME NEW V, NEW s \in Seq(V), NEW t \in Seq(V)
  PROVE  /\ s \o t \in Seq(V) /\ Len(s \o t) = Len(s) + Len(t)
         /\ Len(s) \in Nat /\ Len(t) \in Nat
         /\ \A i \in 1..Len(s) : (s \o t)[i] = s[i]
         /\ \A i \in (Len(s) + 1)..(Len(s) + Len(t)) :
              i - Len(s) \in 1..Len(t) /\ (s \o t)[i] = t[i - Len(s)]
         /\ ToSet(s \o t) = ToSet(s) \cup ToSet(t)
<1> DEFINE u == s \o t
<1>1. /\ u \in Seq(V) /\ Len(u) = Len(s) + Len(t)
      /\ Len(s) \in Nat /\ Len(t) \in Nat
      /\ \A i \in 1..Len(s) : u[i] = s[i]
      /\ \A i \in (Len(s) + 1)..(Len(s) + Len(t)) : u[i] = t[i - Len(s)]
  OBVIOUS
<1>2. \A i \in (Len(s) + 1)..(Len(s) + Len(t)) : i - Len(s) \in 1..Len(t)
  BY <1>1
<1>3. \A i \in 1..Len(t) : /\ i + Len(s) \in (Len(s) + 1)..(Len(s) + Len(t))
                           /\ u[i + Len(s)] = t[i]
  <2> SUFFICES ASSUME NEW i \in 1..Len(t)
               PROVE  /\ i + Len(s) \in (Len(s) + 1)..(Len(s) + Len(t))
                      /\ u[i + Len(s)] = t[i]
    OBVIOUS
  <2>1. i + Len(s) \in (Len(s) + 1)..(Len(s) + Len(t)) /\ (i + Len(s)) - Len(s) = i
    BY <1>1
  <2>2. QED
    BY <1>1, <2>1
<1> HIDE DEF u
<1>4. \A i \in 1..Len(u) : i \in 1..Len(s) \/ i \in (Len(s) + 1)..(Len(s) + Len(t))
  BY <1>1
<1>5. /\ \A i \in 1..Len(s) : i \in 1..Len(u)
      /\ \A i \in 1..Len(t) : i + Len(s) \in 1..Len(u)
  BY <1>1
<1>6. /\ ToSet(s) = {s[i] : i \in 1..Len(s)} /\ ToSet(t) = {t[i] : i \in 1..Len(t)}
      /\ ToSet(u) = {u[i] : i \in 1..Len(u)}
  BY <1>1, Members
<1>7. ToSet(u) = ToSet(s) \cup ToSet(t)
  <2>1. ASSUME NEW i \in 1..Len(u)
        PROVE  u[i] \in ToSet(s) \cup ToSet(t)
    BY <1>1, <1>2, <1>4, <1>6
  <2>2. ASSUME NEW i \in 1..Len(s)
        PROVE  s[i] \in ToSet(u)
    BY <1>1, <1>5, <1>6
  <2>3. ASSUME NEW i \in 1..Len(t)
        PROVE  t[i] \in ToSet(u)
    BY <1>3, <1>5, <1>6
  <2>4. QED
    BY <1>6, <2>1, <2>2, <2>3
<1>8. QED
  BY <1>1, <1>2, <1>7 DEF u

\* Those elements of a list that are not in a set
Others(t, S) == Picked(t, {i \in 1..Len(t) : t[i] \notin S})

LEMMA Rest ==
  ASSUME NEW V, NEW S, NEW t \in Seq(V),
         \A i, j \in 1..Len(t) : t[i] = t[j] => i = j
  PROVE  LET p == Others(t, S)
         IN /\ p \in Seq(V) /\ Len(p) \in Nat
            /\ \A k \in 1..Len(p) : p[k] \in ToSet(t) /\ p[k] \notin S
            /\ \A x \in ToSet(t) : x \in S \/ x \in ToSet(p)
            /\ \A k, l \in 1..Len(p) : p[k] = p[l] => k = l
<1> DEFINE places == {i \in 1..Len(t) : t[i] \notin S}
           p == Picked(t, places)
<1>1. places \in SUBSET (1..Len(t))
  OBVIOUS
<1>2. /\ \A i \in places : i \in 1..Len(t) /\ t[i] \notin S
      /\ \A i \in 1..Len(t) : t[i] \notin S => i \in places
  OBVIOUS
<1> HIDE DEF places
<1>3. /\ p \in Seq(V) /\ Len(p) = Cardinality(places) /\ Cardinality(places) \in 0..Len(t)
      /\ \A k \in 1..Cardinality(places) : Nth(places, k) \in places /\ p[k] = t[Nth(places, k)]
      /\ \A k, l \in 1..Cardinality(places) : Nth(places, k) = Nth(places, l) => k = l
      /\ \A i \in places : \E k \in 1..Cardinality(places) : p[k] = t[i]
  BY <1>1, PickedList
<1> HIDE DEF p
<1>4. p \in Seq(V) /\ Len(p) \in Nat
  BY <1>3
<1>5. /\ \A k \in 1..Len(p) : Nth(places, k) \in places /\ p[k] = t[Nth(places, k)]
      /\ \A k, l \in 1..Len(p) : Nth(places, k) = Nth(places, l) => k = l
      /\ \A i \in places : \E k \in 1..Len(p) : p[k] = t[i]
  BY <1>3
<1>6. /\ ToSet(t) = {t[i] : i \in 1..Len(t)}
      /\ ToSet(p) = {p[i] : i \in 1..Len(p)}
  BY DEF ToSet
<1>7. ASSUME NEW k \in 1..Len(p)
      PROVE  p[k] \in ToSet(t) /\ p[k] \notin S
  <2>1. Nth(places, k) \in 1..Len(t) /\ t[Nth(places, k)] \notin S /\ p[k] = t[Nth(places, k)]
    BY <1>2, <1>5
  <2>2. QED
    BY <1>6, <2>1
<1>8. ASSUME NEW x \in ToSet(t), x \notin S
      PROVE  x \in ToSet(p)
  <2>1. PICK i \in 1..Len(t) : x = t[i]
    BY <1>6
  <2>2. i \in places
    BY <1>2, <1>8, <2>1
  <2>3. PICK k \in 1..Len(p) : p[k] = t[i]
    BY <1>5, <2>2
  <2>4. QED
    BY <1>6, <2>1, <2>3
<1>9. ASSUME NEW k \in 1..Len(p), NEW l \in 1..Len(p), p[k] = p[l]
      PROVE  k = l
  <2>1. /\ Nth(places, k) \in 1..Len(t) /\ p[k] = t[Nth(places, k)]
        /\ Nth(places, l) \in 1..Len(t) /\ p[l] = t[Nth(places, l)]
    BY <1>2, <1>5
  <2>2. Nth(places, k) = Nth(places, l)
    BY <1>9, <2>1
  <2>3. QED
    BY <1>5, <2>2
<1>10. QED
  BY <1>4, <1>7, <1>8, <1>9 DEF p, places, Others

\* A list and those elements of another that it has not
LEMMA Extended ==
  ASSUME NEW V, NEW s \in Seq(V), NEW t \in Seq(V),
         \A i, j \in 1..Len(s) : s[i] = s[j] => i = j,
         \A i, j \in 1..Len(t) : t[i] = t[j] => i = j
  PROVE  LET u == s \o Others(t, ToSet(s))
         IN /\ u \in Seq(V) /\ ToSet(u) = ToSet(s) \cup ToSet(t)
            /\ \A i, j \in 1..Len(u) : u[i] = u[j] => i = j
<1> DEFINE p == Others(t, ToSet(s))
           u == s \o p
<1>1. /\ p \in Seq(V) /\ Len(p) \in Nat
      /\ \A k \in 1..Len(p) : p[k] \in ToSet(t) /\ p[k] \notin ToSet(s)
      /\ \A x \in ToSet(t) : x \in ToSet(s) \/ x \in ToSet(p)
      /\ \A k, l \in 1..Len(p) : p[k] = p[l] => k = l
  BY Rest
<1> HIDE DEF p
<1>2. p \in Seq(V)
  BY <1>1
<1>3. /\ u \in Seq(V) /\ Len(u) = Len(s) + Len(p) /\ Len(s) \in Nat /\ Len(p) \in Nat
      /\ \A i \in 1..Len(s) : u[i] = s[i]
      /\ \A i \in (Len(s) + 1)..(Len(s) + Len(p)) :
           i - Len(s) \in 1..Len(p) /\ u[i] = p[i - Len(s)]
      /\ ToSet(u) = ToSet(s) \cup ToSet(p)
  BY <1>2, MembersJoined
<1> HIDE DEF u
<1>4. /\ \A i \in 1..Len(s) : s[i] \in ToSet(s)
      /\ \A x \in ToSet(p) : x \in ToSet(t)
  <2>1. ToSet(s) = {s[i] : i \in 1..Len(s)} /\ ToSet(p) = {p[i] : i \in 1..Len(p)}
    BY <1>2, Members
  <2>2. QED
    BY <1>1, <2>1
<1>5. ToSet(u) = ToSet(s) \cup ToSet(t)
  BY <1>1, <1>3, <1>4
<1>6. ASSUME NEW i \in 1..Len(u), NEW j \in 1..Len(u), u[i] = u[j]
       PROVE  i = j
  <2>1. /\ i \in 1..Len(s) \/ i \in (Len(s) + 1)..(Len(s) + Len(p))
        /\ j \in 1..Len(s) \/ j \in (Len(s) + 1)..(Len(s) + Len(p))
    BY <1>3
  <2>2. CASE i \in 1..Len(s) /\ j \in 1..Len(s)
    BY <1>3, <1>6, <2>2
  <2>3. CASE i \in 1..Len(s) /\ j \in (Len(s) + 1)..(Len(s) + Len(p))
    <3>1. u[i] \in ToSet(s) /\ u[j] \notin ToSet(s)
      BY <1>1, <1>3, <1>4, <2>3
    <3>2. QED
      BY <1>6, <3>1
  <2>4. CASE i \in (Len(s) + 1)..(Len(s) + Len(p)) /\ j \in 1..Len(s)
    <3>1. u[j] \in ToSet(s) /\ u[i] \notin ToSet(s)
      BY <1>1, <1>3, <1>4, <2>4
    <3>2. QED
      BY <1>6, <3>1
  <2>5. CASE i \in (Len(s) + 1)..(Len(s) + Len(p)) /\ j \in (Len(s) + 1)..(Len(s) + Len(p))
    <3>1. /\ i - Len(s) \in 1..Len(p) /\ u[i] = p[i - Len(s)]
          /\ j - Len(s) \in 1..Len(p) /\ u[j] = p[j - Len(s)]
      BY <1>3, <2>5
    <3>2. i - Len(s) = j - Len(s)
      BY <1>1, <1>6, <3>1
    <3>3. QED
      BY <1>3, <2>5, <3>2
  <2>6. QED
    BY <2>1, <2>2, <2>3, <2>4, <2>5
<1>7. QED
  BY <1>3, <1>5, <1>6 DEF p, u

LEMMA EmptyList ==
  ASSUME NEW V, NEW s \in Seq(V)
  PROVE  s = <<>> <=> ToSet(s) = {}
<1>1. Len(s) \in Nat /\ (s = <<>> <=> Len(s) = 0)
  OBVIOUS
<1>2. ToSet(s) = {s[i] : i \in 1..Len(s)}
  BY DEF ToSet
<1>3. QED
  BY <1>1, <1>2


-----------------------------------------------------------------------------
(* Merging two candidates *)

LEMMA MergedFits ==
  ASSUME Assumption, NEW left, Sound(left), NEW right, Sound(right),
         left.matched = <<>> <=> right.matched = <<>>
  PROVE  LET c == Merged(left, right)
             first == IF left.rank <= right.rank THEN left ELSE right
         IN /\ Sound(c) /\ c.bvid = first.bvid /\ c.rank = first.rank
            /\ ToSet(c.matched) = ToSet(left.matched) \cup ToSet(right.matched)
            /\ c.matched = <<>> <=> left.matched = <<>>
<1> DEFINE m == left.matched \o Others(right.matched, ToSet(left.matched))
           first == IF left.rank <= right.rank THEN left ELSE right
           p == Primary(left, right, m)
           c == Merged(left, right)
<1>1. /\ left \in CandidateSet /\ right \in CandidateSet
      /\ left.matched \in Seq(Words) /\ right.matched \in Seq(Words)
      /\ \A i, j \in 1..Len(left.matched) : left.matched[i] = left.matched[j] => i = j
      /\ \A i, j \in 1..Len(right.matched) : right.matched[i] = right.matched[j] => i = j
  BY DEF Sound, CandidateSet
<1>2. /\ m \in Seq(Words) /\ ToSet(m) = ToSet(left.matched) \cup ToSet(right.matched)
      /\ \A i, j \in 1..Len(m) : m[i] = m[j] => i = j
  <2>1. left.matched \in Seq(Words) /\ right.matched \in Seq(Words)
    BY <1>1
  <2> HIDE DEF m
  <2>2. QED
    BY <1>1, <2>1, Extended DEF m
<1>3. c = [first EXCEPT !.matched = m, !.primary = p]
  BY DEF Merged, Others
<1>4. first \in CandidateSet /\ first \in {left, right}
  BY <1>1
<1> HIDE DEF m, c, first
<1>5. /\ m = <<>> <=> ToSet(m) = {}
      /\ left.matched = <<>> <=> ToSet(left.matched) = {}
      /\ right.matched = <<>> <=> ToSet(right.matched) = {}
  <2>1. left.matched \in Seq(Words) /\ right.matched \in Seq(Words) /\ m \in Seq(Words)
    BY <1>1, <1>2
  <2>2. m = <<>> <=> ToSet(m) = {}
    BY <2>1, EmptyList
  <2>3. left.matched = <<>> <=> ToSet(left.matched) = {}
    BY <2>1, EmptyList
  <2>4. right.matched = <<>> <=> ToSet(right.matched) = {}
    BY <2>1, EmptyList
  <2>5. QED
    BY <2>2, <2>3, <2>4
<1>6. /\ p \in {Source, left.primary, right.primary}
      /\ Source \in ToSet(m) => p = Source
      /\ Source \notin ToSet(m) => p = first.primary
  BY DEF Primary, first
<1>7. p \in Words \cup {""}
  BY <1>1, <1>6 DEF CandidateSet, Assumption
<1>8. m # <<>> => p \in ToSet(m)
  <2>1. \A d \in {left, right} : d.matched # <<>> => d.primary \in ToSet(d.matched)
    BY DEF Sound
  <2>2. m # <<>> => left.matched # <<>> /\ right.matched # <<>>
    BY <1>2, <1>5
  <2>3. m # <<>> => first.primary \in ToSet(m)
    BY <1>2, <1>4, <2>1, <2>2
  <2>4. QED
    BY <1>6, <2>3
<1> HIDE DEF p
<1>9. /\ c \in CandidateSet /\ c.matched = m /\ c.primary = p
      /\ c.bvid = first.bvid /\ c.rank = first.rank
  <2>1. c = [bvid |-> first.bvid, rank |-> first.rank, matched |-> m, primary |-> p]
    BY <1>3, <1>4 DEF CandidateSet
  <2>2. first.bvid \in Bvids /\ first.rank \in Nat
    BY <1>4 DEF CandidateSet
  <2>3. QED
    BY <1>2, <1>7, <2>1, <2>2 DEF CandidateSet
<1>10. Sound(c)
  BY <1>2, <1>6, <1>8, <1>9 DEF Sound
<1>11. c.matched = <<>> <=> left.matched = <<>>
  BY <1>2, <1>5, <1>9
<1>12. QED
  BY <1>2, <1>9, <1>10, <1>11 DEF c, first

-----------------------------------------------------------------------------
(* The loop *)

LEMMA OwnKeywords ==
  ASSUME NEW o, NEW i \in 1..Len(o)
  PROVE  ToSet(o[i].matched) \subseteq KeywordsOf(o, o[i].bvid)
BY DEF KeywordsOf, Occurs

LEMMA LoopTurn ==
  ASSUME Assumption, NEW o, Candidates(o), NEW n \in 1..Len(o),
         NEW s, LoopInv(o, s, n - 1)
  PROVE  LoopInv(o, Absorb(s, n), n)
<1> DEFINE p == s.objects
           h == s.held
           b == o[n].bvid
           j == h[b]
           k == IF j # 0 /\ p[j].rank <= o[n].rank THEN j ELSE n
           c == Merged(p[j], o[n])
           q == Absorb(s, n).objects
           g == Absorb(s, n).held
<1>1. /\ Len(o) \in Nat /\ n \in Nat /\ n - 1 \in Nat /\ n \in (n - 1 + 1)..Len(o)
      /\ o \in Seq(CandidateSet)
  BY DEF Candidates
<1>2. /\ Candidates(p) /\ Len(p) = Len(o)
      /\ \A i \in 1..Len(o) :
           /\ p[i].bvid = o[i].bvid /\ p[i].rank = o[i].rank
           /\ ToSet(o[i].matched) \subseteq ToSet(p[i].matched)
           /\ ToSet(p[i].matched) \subseteq KeywordsOf(o, o[i].bvid)
  BY DEF LoopInv, Keeps
<1>3. \A i \in n..Len(o) : p[i] = o[i]
  BY <1>1 DEF LoopInv
<1>4. /\ h \in [Bvids -> 0..(n - 1)]
      /\ \A d \in Bvids : h[d] # 0 => o[h[d]].bvid = d
  BY DEF LoopInv
<1>5. \A d \in Bvids : \A i \in Occurs(o, d) : i <= n - 1 =>
        /\ h[d] # 0 /\ o[h[d]].rank <= o[i].rank
        /\ ToSet(o[i].matched) \subseteq ToSet(p[h[d]].matched)
  BY DEF LoopInv
<1>6. p[n] = o[n] /\ o[n] \in CandidateSet /\ b \in Bvids
  <2>1. o[n] \in CandidateSet
    BY <1>1
  <2>2. p[n] = o[n]
    BY <1>1, <1>3
  <2>3. QED
    BY <2>1, <2>2 DEF CandidateSet
<1>7. /\ q = IF j = 0 THEN p ELSE [p EXCEPT ![k] = c]
      /\ g = [h EXCEPT ![b] = k]
  BY <1>6 DEF Absorb
<1>8. j \in 0..(n - 1) /\ k \in 1..n /\ k \in 1..Len(o) /\ (j # 0 => o[j].bvid = b)
  <2> HIDE DEF h, b, p
  <2>1. j \in 0..(n - 1) /\ (j # 0 => o[j].bvid = b)
    BY <1>4, <1>6
  <2> HIDE DEF j
  <2>2. k \in {j, n} /\ (k = j => j # 0)
    BY <1>1
  <2> HIDE DEF k
  <2>3. QED
    BY <1>1, <2>1, <2>2
<1>9. p \in Seq(CandidateSet) /\ DOMAIN p = 1..Len(o) /\ \A i \in 1..Len(o) : Sound(p[i])
  BY <1>2 DEF Candidates
<1> HIDE DEF c, q, g, k, j, p, h, b
<1>10. g \in [Bvids -> 0..n] /\ g[b] = k /\ \A d \in Bvids : d # b => g[d] = h[d]
  BY <1>1, <1>4, <1>6, <1>7, <1>8
<1>11. \A d \in Bvids : g[d] # 0 => o[g[d]].bvid = d
  BY <1>4, <1>8, <1>10 DEF k, b
<1>12. \A i \in 1..Len(o) : o[i] \in CandidateSet /\ o[i].rank \in Nat /\ o[i].bvid \in Bvids
  <2>1. \A i \in 1..Len(o) : o[i] \in CandidateSet
    BY <1>1
  <2>2. \A e \in CandidateSet : e.rank \in Nat /\ e.bvid \in Bvids
    BY DEF CandidateSet
  <2>3. QED
    BY <2>1, <2>2
<1>13. CASE j = 0
  <2>1. q = p /\ k = n
    BY <1>7, <1>13 DEF k
  <2>2. Keeps(o, q)
    BY <1>2, <2>1 DEF Keeps
  <2>3. \A i \in (n + 1)..Len(o) : q[i] = o[i]
    BY <1>1, <1>3, <2>1
  <2>4. ASSUME NEW d \in Bvids, NEW i \in Occurs(o, d), i <= n
        PROVE  /\ g[d] # 0 /\ o[g[d]].rank <= o[i].rank
               /\ ToSet(o[i].matched) \subseteq ToSet(q[g[d]].matched)
    <3>1. i \in 1..Len(o) /\ o[i].bvid = d
      BY DEF Occurs
    <3>2. CASE i = n
      <4>1. d = b /\ g[d] = n
        BY <1>10, <2>1, <3>1, <3>2 DEF b
      <4>2. q[n] = o[n]
        BY <1>6, <2>1
      <4>3. QED
        BY <1>1, <1>12, <3>1, <3>2, <4>1, <4>2
    <3>3. CASE i # n
      <4>1. i <= n - 1
        BY <1>1, <2>4, <3>1, <3>3
      <4>2. d # b
        BY <1>5, <1>13, <4>1 DEF j
      <4>3. QED
        BY <1>5, <1>10, <2>1, <4>1, <4>2
    <3>4. QED
      BY <3>2, <3>3
  <2>5. QED
    BY <1>10, <1>11, <2>2, <2>3, <2>4, ZenonT(30) DEF LoopInv, q, g
<1>14. CASE j # 0
  <2>1. j \in 1..Len(o) /\ Sound(p[j]) /\ Sound(o[n]) /\ p[j].rank = o[j].rank
    BY <1>1, <1>2, <1>6, <1>8, <1>9, <1>14
  <2>2. p[j].matched = <<>> <=> o[n].matched = <<>>
    <3>1. \A i, l \in 1..Len(p) : p[i].matched = <<>> => p[l].matched = <<>>
      BY <1>2 DEF Candidates
    <3>2. QED
      BY <1>1, <1>2, <1>6, <2>1, <3>1
  <2>3. /\ Sound(c)
        /\ c.bvid = (IF p[j].rank <= o[n].rank THEN p[j] ELSE o[n]).bvid
        /\ c.rank = (IF p[j].rank <= o[n].rank THEN p[j] ELSE o[n]).rank
        /\ ToSet(c.matched) = ToSet(p[j].matched) \cup ToSet(o[n].matched)
        /\ c.matched = <<>> <=> p[j].matched = <<>>
    <3> DEFINE left == p[j]
               right == o[n]
    <3>1. Sound(left) /\ Sound(right) /\ (left.matched = <<>> <=> right.matched = <<>>)
      BY <2>1, <2>2
    <3> HIDE DEF left, right
    <3>2. LET d == Merged(left, right)
              first == IF left.rank <= right.rank THEN left ELSE right
          IN /\ Sound(d) /\ d.bvid = first.bvid /\ d.rank = first.rank
             /\ ToSet(d.matched) = ToSet(left.matched) \cup ToSet(right.matched)
             /\ d.matched = <<>> <=> left.matched = <<>>
      BY <3>1, MergedFits
    <3>3. QED
      BY <3>2 DEF c, left, right
  <2>4. /\ c.bvid = o[k].bvid /\ c.rank = o[k].rank /\ o[k].bvid = b
        /\ o[k].rank <= o[j].rank /\ o[k].rank <= o[n].rank
    <3>1. CASE p[j].rank <= o[n].rank
      <4>1. k = j
        BY <1>14, <3>1 DEF k
      <4>2. QED
        BY <1>2, <1>8, <1>12, <1>14, <2>1, <2>3, <3>1, <4>1
    <3>2. CASE ~(p[j].rank <= o[n].rank)
      <4>1. k = n
        BY <3>2 DEF k
      <4>2. QED
        BY <1>1, <1>12, <2>1, <2>3, <3>2, <4>1 DEF b
    <3>3. QED
      BY <3>1, <3>2
  <2>5. /\ q \in Seq(CandidateSet) /\ Len(q) = Len(o) /\ q[k] = c
        /\ \A i \in 1..Len(o) : i # k => q[i] = p[i]
    <3>1. q = [p EXCEPT ![k] = c]
      BY <1>7, <1>14
    <3>2. c \in CandidateSet
      BY <2>3 DEF Sound
    <3>3. QED
      BY <1>2, <1>8, <1>9, <3>1, <3>2
  <2>6. Candidates(q)
    <3>1. \A i \in 1..Len(q) : Sound(q[i])
      BY <1>9, <2>3, <2>5
    <3>2. \A i \in 1..Len(q) : q[i].matched = <<>> <=> p[i].matched = <<>>
      <4>1. p[k].matched = <<>> <=> p[j].matched = <<>>
        BY <1>2, <1>8, <2>1 DEF Candidates
      <4>2. QED
        BY <2>3, <2>5, <4>1
    <3>3. \A i, l \in 1..Len(p) : p[i].matched = <<>> => p[l].matched = <<>>
      BY <1>2 DEF Candidates
    <3>4. QED
      BY <1>2, <2>5, <3>1, <3>2, <3>3 DEF Candidates
  <2>7. ASSUME NEW i \in 1..Len(o)
        PROVE  /\ q[i].bvid = o[i].bvid /\ q[i].rank = o[i].rank
               /\ ToSet(o[i].matched) \subseteq ToSet(q[i].matched)
               /\ ToSet(q[i].matched) \subseteq KeywordsOf(o, o[i].bvid)
    <3>1. CASE i # k
      BY <1>2, <2>5, <3>1
    <3>2. CASE i = k
      <4>1. ToSet(o[k].matched) \subseteq ToSet(c.matched)
        <5>1. k = j \/ k = n
          BY DEF k
        <5>2. QED
          BY <1>2, <2>1, <2>3, <5>1
      <4>2. ToSet(p[j].matched) \subseteq KeywordsOf(o, b)
        BY <1>2, <1>8, <1>14, <2>1
      <4>3. ToSet(o[n].matched) \subseteq KeywordsOf(o, b)
        BY OwnKeywords DEF b
      <4>4. QED
        BY <2>3, <2>4, <2>5, <3>2, <4>1, <4>2, <4>3
    <3>3. QED
      BY <3>1, <3>2
  <2>8. Keeps(o, q)
    BY <2>5, <2>6, <2>7 DEF Keeps
  <2>9. \A i \in (n + 1)..Len(o) : q[i] = o[i]
    <3>1. \A i \in (n + 1)..Len(o) : i \in n..Len(o) /\ i \in 1..Len(o) /\ i # k
      BY <1>1, <1>8
    <3>2. QED
      BY <1>3, <2>5, <3>1
  <2>10. ASSUME NEW d \in Bvids, NEW i \in Occurs(o, d), i <= n
         PROVE  /\ g[d] # 0 /\ o[g[d]].rank <= o[i].rank
                /\ ToSet(o[i].matched) \subseteq ToSet(q[g[d]].matched)
    <3>1. i \in 1..Len(o) /\ o[i].bvid = d
      BY DEF Occurs
    <3>2. CASE i = n
      <4>1. d = b /\ g[d] = k
        BY <1>10, <3>1, <3>2 DEF b
      <4>2. QED
        BY <1>8, <2>3, <2>4, <2>5, <3>2, <4>1
    <3>3. CASE i # n /\ d = b
      <4>1. i <= n - 1
        BY <1>1, <2>10, <3>1, <3>3
      <4>2. /\ o[j].rank <= o[i].rank
            /\ ToSet(o[i].matched) \subseteq ToSet(p[j].matched)
        BY <1>5, <3>3, <4>1 DEF j
      <4>3. o[k].rank <= o[i].rank
        BY <1>8, <1>12, <2>1, <2>4, <3>1, <4>2
      <4>4. QED
        BY <1>8, <1>10, <2>3, <2>5, <3>3, <4>2, <4>3
    <3>4. CASE i # n /\ d # b
      <4>1. i <= n - 1
        BY <1>1, <2>10, <3>1, <3>4
      <4>2. g[d] = h[d] /\ h[d] # 0 /\ o[h[d]].bvid = d /\ h[d] \in 1..Len(o)
        BY <1>1, <1>4, <1>5, <1>10, <3>4, <4>1
      <4>3. h[d] # k
        BY <2>4, <3>4, <4>2
      <4>4. q[g[d]] = p[h[d]]
        BY <2>5, <4>2, <4>3
      <4>5. QED
        BY <1>5, <4>1, <4>2, <4>4
    <3>5. QED
      BY <3>2, <3>3, <3>4
  <2>11. QED
    BY <1>10, <1>11, <2>8, <2>9, <2>10, ZenonT(30) DEF LoopInv, q, g
<1>15. QED
  BY <1>13, <1>14

\* The recursive definition of the loop has a solution.
LEMMA AbsorbedDef ==
  ASSUME NEW o, Len(o) \in Nat
  PROVE  /\ Absorbed(o)[0] = [objects |-> o, held |-> [b \in Bvids |-> 0]]
         /\ \A n \in 1..Len(o) : Absorbed(o)[n] = Absorb(Absorbed(o)[n - 1], n)
<1> DEFINE N == Len(o)
           first == [objects |-> o, held |-> [b \in Bvids |-> 0]]
           Solves(f, m) ==
             f = [n \in 0..m |-> IF n = 0 THEN first ELSE Absorb(f[n - 1], n)]
           T == {m \in 0..N : \E f : Solves(f, m)}
<1>1. Absorbed(o) = CHOOSE f : Solves(f, N)
  BY DEF Absorbed
<1> HIDE DEF first
<1>2. 0 \in T
  <2>1. Solves([n \in 0..0 |-> first], 0)
    OBVIOUS
  <2> HIDE DEF Solves
  <2>2. \E f : Solves(f, 0)
    BY <2>1
  <2>3. QED
    BY <2>2
<1>3. ASSUME NEW m \in 1..N, m - 1 \in T
      PROVE  m \in T
  <2>1. PICK f : Solves(f, m - 1)
    BY <1>3
  <2> DEFINE g == [n \in 0..m |-> IF n = m THEN Absorb(f[m - 1], m) ELSE f[n]]
  <2>2. /\ \A n \in 0..m : g[n] = IF n = m THEN Absorb(f[m - 1], m) ELSE f[n]
        /\ DOMAIN g = 0..m
    OBVIOUS
  <2> HIDE DEF g
  <2>3. ASSUME NEW n \in 0..m
        PROVE  g[n] = IF n = 0 THEN first ELSE Absorb(g[n - 1], n)
    <3>1. CASE n = 0
      <4>1. n \in 0..(m - 1) /\ n # m
        BY <3>1
      <4>2. QED
        BY <2>1, <2>2, <3>1, <4>1
    <3>2. CASE n # 0 /\ n # m
      <4>1. n \in 0..(m - 1) /\ n - 1 \in 0..m /\ n - 1 # m
        BY <3>2
      <4>2. g[n] = Absorb(f[n - 1], n)
        BY <2>1, <2>2, <3>2, <4>1
      <4>3. QED
        BY <2>2, <3>2, <4>1, <4>2
    <3>3. CASE n = m
      <4>1. m - 1 \in 0..m /\ m - 1 # m /\ m # 0
        OBVIOUS
      <4>2. g[m - 1] = f[m - 1]
        BY <2>2, <4>1
      <4>3. QED
        BY <2>2, <3>3, <4>1, <4>2
    <3>4. QED
      BY <3>1, <3>2, <3>3
  <2>4. Solves(g, m)
    <3>1. g = [n \in 0..m |-> g[n]]
      BY DEF g
    <3>2. QED
      BY <2>3, <3>1
  <2>5. QED
    BY <2>4
<1> HIDE DEF Solves
<1>4. N \in T
  <2>1. 0..N \subseteq T
    <3> HIDE DEF T
    <3>1. QED
      BY <1>2, <1>3, AfterEachTurn
  <2>2. QED
    BY <2>1
<1>5. Solves(Absorbed(o), N)
  BY <1>1, <1>4
<1>6. QED
  BY <1>5 DEF Solves, first

LEMMA LoopStart ==
  ASSUME NEW o, Candidates(o)
  PROVE  LoopInv(o, [objects |-> o, held |-> [b \in Bvids |-> 0]], 0)
<1> DEFINE s == [objects |-> o, held |-> [b \in Bvids |-> 0]]
<1>1. s.objects = o /\ s.held = [b \in Bvids |-> 0]
  OBVIOUS
<1> HIDE DEF s
<1>2. Keeps(o, s.objects)
  <2>1. \A i \in 1..Len(o) : ToSet(o[i].matched) \subseteq KeywordsOf(o, o[i].bvid)
    BY OwnKeywords
  <2>2. QED
    BY <1>1, <2>1 DEF Keeps
<1>3. \A b \in Bvids : \A i \in Occurs(o, b) : ~(i <= 0)
  BY DEF Occurs
<1>4. s.held \in [Bvids -> 0..0] /\ \A b \in Bvids : s.held[b] = 0
  BY <1>1
<1>5. LoopInv(o, s, 0)
  BY <1>1, <1>2, <1>3, <1>4 DEF LoopInv
<1>6. QED
  BY <1>5 DEF s

LEMMA LoopEnd ==
  ASSUME Assumption, NEW o, Candidates(o)
  PROVE  LoopInv(o, Dedupe(o), Len(o))
<1> DEFINE T == {n \in 0..Len(o) : LoopInv(o, Absorbed(o)[n], n)}
<1>1. Len(o) \in Nat
  BY DEF Candidates
<1>2. 0 \in T
  <2>1. Absorbed(o)[0] = [objects |-> o, held |-> [b \in Bvids |-> 0]]
    BY <1>1, AbsorbedDef
  <2>2. LoopInv(o, Absorbed(o)[0], 0)
    BY <2>1, LoopStart
  <2>3. QED
    BY <1>1, <2>2
<1>3. ASSUME NEW n \in 1..Len(o), n - 1 \in T
      PROVE  n \in T
  <2>1. LoopInv(o, Absorbed(o)[n - 1], n - 1)
    BY <1>3
  <2>2. LoopInv(o, Absorb(Absorbed(o)[n - 1], n), n)
    BY <2>1, LoopTurn
  <2>3. Absorbed(o)[n] = Absorb(Absorbed(o)[n - 1], n)
    BY <1>1, AbsorbedDef
  <2>4. QED
    BY <1>1, <2>2, <2>3
<1>4. 0..Len(o) \subseteq T
  <2> HIDE DEF T
  <2>1. QED
    BY <1>1, <1>2, <1>3, AfterEachTurn
<1>5. Len(o) \in T
  BY <1>1, <1>4
<1>6. QED
  BY <1>5 DEF Dedupe

-----------------------------------------------------------------------------
(* What the loop leaves *)

\* c stands for every candidate in o with its video.
Stands(o, c) ==
  /\ Sound(c) /\ ToSet(c.matched) = KeywordsOf(o, c.bvid)
  /\ \A i \in Occurs(o, c.bvid) : c.rank <= o[i].rank
  /\ \E i \in Occurs(o, c.bvid) : c.rank = o[i].rank

LEMMA HeldStands ==
  ASSUME Assumption, NEW o, Candidates(o), NEW b \in Bvids
  PROVE  /\ Dedupe(o).held[b] # 0 <=> Occurs(o, b) # {}
         /\ Occurs(o, b) # {} => Held(o, b).bvid = b /\ Stands(o, Held(o, b))
<1> DEFINE p == Dedupe(o).objects
           k == Dedupe(o).held[b]
<1>1. /\ Candidates(p) /\ Len(p) = Len(o)
      /\ \A i \in 1..Len(o) :
           /\ p[i].bvid = o[i].bvid /\ p[i].rank = o[i].rank
           /\ ToSet(o[i].matched) \subseteq ToSet(p[i].matched)
           /\ ToSet(p[i].matched) \subseteq KeywordsOf(o, o[i].bvid)
  BY LoopEnd DEF LoopInv, Keeps
<1>2. k \in 0..Len(o) /\ (k # 0 => o[k].bvid = b)
  BY LoopEnd DEF LoopInv
<1>3. Len(o) \in Nat
  BY DEF Candidates
<1>4. \A i \in Occurs(o, b) :
        /\ k # 0 /\ o[k].rank <= o[i].rank
        /\ ToSet(o[i].matched) \subseteq ToSet(p[k].matched)
  <2>1. \A i \in Occurs(o, b) : i <= Len(o)
    BY <1>3 DEF Occurs
  <2>2. QED
    BY <2>1, LoopEnd DEF LoopInv
<1>5. Held(o, b) = p[k]
  BY DEF Held
<1> HIDE DEF p, k
<1>6. k # 0 => k \in Occurs(o, b)
  BY <1>2, <1>3 DEF Occurs
<1>7. k # 0 <=> Occurs(o, b) # {}
  BY <1>4, <1>6
<1>8. ASSUME k # 0
      PROVE  p[k].bvid = b /\ Stands(o, p[k])
  <2>1. k \in 1..Len(o) /\ p[k].bvid = b /\ p[k].rank = o[k].rank
    BY <1>1, <1>2, <1>3, <1>8
  <2>2. Sound(p[k])
    BY <1>1, <2>1 DEF Candidates
  <2>3. ToSet(p[k].matched) = KeywordsOf(o, b)
    <3>1. ToSet(p[k].matched) \subseteq KeywordsOf(o, b)
      BY <1>1, <1>2, <1>8, <2>1
    <3>2. KeywordsOf(o, b) \subseteq ToSet(p[k].matched)
      BY <1>4 DEF KeywordsOf
    <3>3. QED
      BY <3>1, <3>2
  <2>4. QED
    BY <1>4, <1>6, <1>8, <2>1, <2>2, <2>3 DEF Stands
<1>9. QED
  BY <1>5, <1>7, <1>8 DEF k

\* The objects the first merging leaves are as good as those it was given.
LEMMA MergedTwice ==
  ASSUME Assumption, NEW o, Candidates(o)
  PROVE  LET p == Dedupe(o).objects
         IN /\ Candidates(p)
            /\ \A b \in Bvids : Occurs(p, b) = Occurs(o, b) /\ KeywordsOf(p, b) = KeywordsOf(o, b)
            /\ \A i \in 1..Len(o) : p[i].rank = o[i].rank
<1> DEFINE p == Dedupe(o).objects
<1>1. /\ Candidates(p) /\ Len(p) = Len(o)
      /\ \A i \in 1..Len(o) :
           /\ p[i].bvid = o[i].bvid /\ p[i].rank = o[i].rank
           /\ ToSet(o[i].matched) \subseteq ToSet(p[i].matched)
           /\ ToSet(p[i].matched) \subseteq KeywordsOf(o, o[i].bvid)
  BY LoopEnd DEF LoopInv, Keeps
<1> HIDE DEF p
<1>2. \A b \in Bvids : Occurs(p, b) = Occurs(o, b)
  BY <1>1 DEF Occurs
<1>3. ASSUME NEW b \in Bvids
      PROVE  KeywordsOf(p, b) = KeywordsOf(o, b)
  <2>1. \A i \in Occurs(o, b) : /\ ToSet(o[i].matched) \subseteq ToSet(p[i].matched)
                                /\ ToSet(p[i].matched) \subseteq KeywordsOf(o, b)
    BY <1>1 DEF Occurs
  <2>2. QED
    BY <1>2, <2>1 DEF KeywordsOf
<1>4. QED
  BY <1>1, <1>2, <1>3 DEF p

LEMMA FirstOccurs ==
  ASSUME NEW o, Len(o) \in Nat, NEW b, Occurs(o, b) # {}
  PROVE  FirstAt(o, b) \in Occurs(o, b) /\ FirstAt(o, b) \in Nat
<1>1. PICK i \in Occurs(o, b) : \A j \in Occurs(o, b) : i <= j
  <2>1. Occurs(o, b) \subseteq Nat
    BY DEF Occurs
  <2>2. QED
    BY <2>1, LeastNumber
<1>2. i \in 1..Len(o) /\ o[i].bvid = b /\ \A j \in 1..(i - 1) : o[j].bvid # b
  <2>1. i \in 1..Len(o) /\ o[i].bvid = b
    BY DEF Occurs
  <2>2. \A j \in 1..(i - 1) : j \in 1..Len(o) /\ ~(i <= j)
    BY <2>1
  <2>3. QED
    BY <1>1, <2>1, <2>2 DEF Occurs
<1>3. FirstAt(o, b) \in 1..Len(o) /\ o[FirstAt(o, b)].bvid = b
  BY <1>2 DEF FirstAt
<1>4. QED
  BY <1>3 DEF Occurs

\* Those with a place in o, in the order of their ranks and with no video twice
Ranking(o, list) ==
  /\ list \in Seq(CandidateSet)
  /\ \A i \in 1..Len(list) : Stands(o, list[i])
  /\ \A i, j \in 1..Len(list) :
       i < j => list[i].bvid # list[j].bvid /\ list[i].rank <= list[j].rank

LEMMA BeforeOrders ==
  ASSUME Assumption, NEW o, Candidates(o),
         NEW S, S = {b \in Bvids : Dedupe(o).held[b] # 0}
  PROVE  Orders([c \in S |-> {b \in S : Before(o, b, c)}], S)
<1> DEFINE r(b) == Held(o, b).rank
           f(b) == FirstAt(o, b)
           ahead == [c \in S |-> {b \in S : Before(o, b, c)}]
<1>1. ASSUME NEW b \in S
      PROVE  r(b) \in Nat /\ f(b) \in Nat /\ o[f(b)].bvid = b
  <2>1. b \in Bvids /\ Occurs(o, b) # {} /\ Stands(o, Held(o, b))
    BY HeldStands
  <2>2. r(b) \in Nat
    BY <2>1 DEF Stands, Sound, CandidateSet
  <2>3. f(b) \in Occurs(o, b) /\ f(b) \in Nat
    <3>1. Len(o) \in Nat
      BY DEF Candidates
    <3>2. QED
      BY <2>1, <3>1, FirstOccurs
  <2>4. QED
    BY <2>2, <2>3 DEF Occurs
<1>2. \A b, c \in S : Before(o, b, c) <=> r(b) < r(c) \/ (r(b) = r(c) /\ f(b) < f(c))
  BY DEF Before
<1> HIDE DEF r, f
<1>3. \A b, c \in S : f(b) = f(c) => b = c
  BY <1>1
<1>4. \A b \in S : ~Before(o, b, b)
  BY <1>1, <1>2
<1>5. \A b, c, d \in S : Before(o, b, c) /\ Before(o, c, d) => Before(o, b, d)
  <2> SUFFICES ASSUME NEW b \in S, NEW c \in S, NEW d \in S,
                      Before(o, b, c), Before(o, c, d)
               PROVE  Before(o, b, d)
    OBVIOUS
  <2>1. /\ r(b) \in Nat /\ r(c) \in Nat /\ r(d) \in Nat
        /\ f(b) \in Nat /\ f(c) \in Nat /\ f(d) \in Nat
    BY <1>1
  <2>2. /\ r(b) < r(c) \/ (r(b) = r(c) /\ f(b) < f(c))
        /\ r(c) < r(d) \/ (r(c) = r(d) /\ f(c) < f(d))
    BY <1>2
  <2>3. r(b) < r(d) \/ (r(b) = r(d) /\ f(b) < f(d))
    BY <2>1, <2>2
  <2>4. QED
    BY <1>2, <2>3
<1>6. \A b, c \in S : b = c \/ Before(o, b, c) \/ Before(o, c, b)
  <2> SUFFICES ASSUME NEW b \in S, NEW c \in S, b # c
               PROVE  Before(o, b, c) \/ Before(o, c, b)
    OBVIOUS
  <2>1. /\ r(b) \in Nat /\ r(c) \in Nat
        /\ f(b) \in Nat /\ f(c) \in Nat /\ f(b) # f(c)
    BY <1>1, <1>3
  <2>2. QED
    BY <1>2, <2>1
<1>7. /\ ahead \in [S -> SUBSET S]
      /\ \A x, y \in S : y \in ahead[x] <=> Before(o, y, x)
  OBVIOUS
<1> HIDE DEF ahead
<1>8. \A x, y \in S : y \in ahead[x] => ahead[y] \subseteq ahead[x]
  BY <1>5, <1>7
<1>9. Orders(ahead, S)
  BY <1>4, <1>6, <1>7, <1>8 DEF Orders
<1>10. QED
  BY <1>9 DEF ahead

LEMMA DedupedRanking ==
  ASSUME Assumption, NEW o, Candidates(o)
  PROVE  /\ Ranking(o, Deduped(o))
         /\ \A b \in Bvids : Occurs(o, b) # {} =>
              \E i \in 1..Len(Deduped(o)) : Deduped(o)[i].bvid = b
<1> DEFINE S == {b \in Bvids : Dedupe(o).held[b] # 0}
           ahead == [c \in S |-> {b \in S : Before(o, b, c)}]
           order == Sorted(S, ahead)
           d == Deduped(o)
           n == Len(order)
<1>1. d = [i \in 1..n |-> Held(o, order[i])]
  BY DEF Deduped
<1>2. \A b \in S : b \in Bvids /\ Held(o, b).bvid = b /\ Stands(o, Held(o, b))
  BY HeldStands
<1>3. \A b, c \in S : b \in ahead[c] => Held(o, b).rank <= Held(o, c).rank /\ b # c
  <2>1. \A b \in S : Held(o, b).rank \in Nat
    BY <1>2 DEF Stands, Sound, CandidateSet
  <2>2. \A b, c \in S : b \in ahead[c] => Before(o, b, c)
    OBVIOUS
  <2>3. \A b, c \in S : b \in ahead[c] => b # c
    BY BeforeOrders DEF Orders
  <2> HIDE DEF S, ahead
  <2>4. QED
    BY <2>1, <2>2, <2>3 DEF Before
<1>4. Orders(ahead, S) /\ IsFiniteSet(S)
  <2>1. Orders(ahead, S)
    BY BeforeOrders
  <2>2. S \subseteq Bvids /\ IsFiniteSet(Bvids)
    BY DEF Assumption
  <2> HIDE DEF S
  <2>3. QED
    BY <2>1, <2>2, FS_Subset
<1>5. \A b \in Bvids : Occurs(o, b) # {} => b \in S
  BY HeldStands
<1> HIDE DEF S, ahead
<1>6. /\ order \in Seq(S) /\ n = Cardinality(S) /\ Cardinality(S) \in Nat
      /\ \A x \in S : \E k \in 1..n : order[k] = x
      /\ \A k, l \in 1..n : k < l => order[k] \in ahead[order[l]]
  BY <1>4, SortedList
<1> HIDE DEF order, d, n
<1>7. \A i \in 1..n : order[i] \in S /\ d[i] = Held(o, order[i])
  BY <1>1, <1>6 DEF n
<1>8. \A i \in 1..n : d[i].bvid = order[i] /\ Stands(o, d[i]) /\ d[i] \in CandidateSet
  BY <1>2, <1>7 DEF Stands, Sound
<1>9. d \in Seq(CandidateSet) /\ Len(d) = n
  <2>1. n \in Nat /\ d \in [1..n -> CandidateSet]
    BY <1>1, <1>6, <1>8
  <2>2. QED
    BY <2>1
<1>10. \A i, j \in 1..n : i < j => d[i].bvid # d[j].bvid /\ d[i].rank <= d[j].rank
  BY <1>3, <1>6, <1>7, <1>8
<1>11. QED
  BY <1>5, <1>6, <1>8, <1>9, <1>10 DEF Ranking, d

-----------------------------------------------------------------------------
(* The selection *)

LEMMA FilteredRanking ==
  ASSUME NEW o, NEW d, Ranking(o, d)
  PROVE  LET f == Filtered(d)
         IN /\ Ranking(o, f) /\ \A k \in 1..Len(f) : f[k].bvid \in Recent
            /\ \A i \in 1..Len(d) : d[i].bvid \in Recent =>
                 \E k \in 1..Len(f) : f[k].bvid = d[i].bvid
<1> DEFINE places == {i \in 1..Len(d) : d[i].bvid \in Recent}
           f == Filtered(d)
<1>1. d \in Seq(CandidateSet)
  BY DEF Ranking
<1>2. f = Picked(d, places) /\ places \in SUBSET (1..Len(d))
  BY DEF Filtered
<1>3. /\ \A i \in places : i \in 1..Len(d) /\ d[i].bvid \in Recent
      /\ \A i \in 1..Len(d) : d[i].bvid \in Recent => i \in places
  OBVIOUS
<1> HIDE DEF f, places
<1>4. /\ f \in Seq(CandidateSet) /\ Len(f) = Cardinality(places)
      /\ \A k \in 1..Cardinality(places) :
           Nth(places, k) \in places /\ f[k] = d[Nth(places, k)]
      /\ \A k, l \in 1..Cardinality(places) : k < l => Nth(places, k) < Nth(places, l)
      /\ \A i \in places : \E k \in 1..Cardinality(places) : f[k] = d[i]
      /\ Cardinality(places) \in Nat
  <2>1. places \in SUBSET (1..Len(d)) /\ d \in Seq(CandidateSet)
    BY <1>1, <1>2
  <2>2. /\ Picked(d, places) \in Seq(CandidateSet)
        /\ Len(Picked(d, places)) = Cardinality(places)
        /\ Cardinality(places) \in 0..Len(d)
        /\ \A k \in 1..Cardinality(places) :
             /\ Nth(places, k) \in places
             /\ Picked(d, places)[k] = d[Nth(places, k)]
        /\ \A k, l \in 1..Cardinality(places) : k < l => Nth(places, k) < Nth(places, l)
        /\ \A i \in places : \E k \in 1..Cardinality(places) : Picked(d, places)[k] = d[i]
    BY <2>1, PickedList
  <2>3. QED
    BY <1>2, <2>2
<1>5. \A k \in 1..Len(f) : Nth(places, k) \in 1..Len(d) /\ d[Nth(places, k)].bvid \in Recent
  BY <1>3, <1>4
<1>6. \A k \in 1..Len(f) : Stands(o, f[k]) /\ f[k].bvid \in Recent
  BY <1>4, <1>5 DEF Ranking
<1>7. ASSUME NEW k \in 1..Len(f), NEW l \in 1..Len(f), k < l
      PROVE  f[k].bvid # f[l].bvid /\ f[k].rank <= f[l].rank
  <2>1. /\ Nth(places, k) \in 1..Len(d) /\ f[k] = d[Nth(places, k)]
        /\ Nth(places, l) \in 1..Len(d) /\ f[l] = d[Nth(places, l)]
    BY <1>4, <1>5
  <2>2. Nth(places, k) < Nth(places, l)
    BY <1>4, <1>7
  <2>3. QED
    BY <2>1, <2>2 DEF Ranking
<1>8. \A i \in 1..Len(d) : d[i].bvid \in Recent =>
        \E k \in 1..Len(f) : f[k].bvid = d[i].bvid
  BY <1>3, <1>4
<1>9. Ranking(o, f)
  BY <1>4, <1>6, <1>7 DEF Ranking
<1>10. QED
  BY <1>6, <1>8, <1>9 DEF f

LEMMA UptoRanking ==
  ASSUME NEW o, NEW d, Ranking(o, d), NEW n \in Nat
  PROVE  Ranking(o, Upto(n, d))
<1> DEFINE u == Upto(n, d)
<1>1. /\ u \in Seq(CandidateSet)
      /\ \A i \in 1..Len(u) : i \in 1..Len(d) /\ u[i] = d[i]
  <2>1. d \in Seq(CandidateSet)
    BY DEF Ranking
  <2>2. QED
    BY <2>1, UptoList
<1> HIDE DEF u
<1>2. Ranking(o, u)
  BY <1>1 DEF Ranking
<1>3. QED
  BY <1>2 DEF u

\* A list without repetition is as long as the set of its elements is large.
LEMMA ListOfSet ==
  ASSUME NEW S, NEW n \in Nat, NEW f \in [1..n -> S],
         \A k, l \in 1..n : f[k] = f[l] => k = l,
         \A x \in S : \E k \in 1..n : f[k] = x
  PROVE  Cardinality(S) = n
<1>1. f \in Bijection(1..n, S)
  BY DEF Bijection, Injection, IsInjective, Surjection
<1>2. ExistsBijection(1..n, S)
  BY <1>1 DEF ExistsBijection
<1>3. QED
  BY <1>2, UpTo, FS_Bijection

LEMMA KeywordCount ==
  ASSUME NEW c, Sound(c)
  PROVE  Len(c.matched) = Cardinality(ToSet(c.matched))
<1> DEFINE m == c.matched
           S == ToSet(m)
<1>1. m \in Seq(Words) /\ \A i, j \in 1..Len(m) : m[i] = m[j] => i = j
  BY DEF Sound, CandidateSet
<1> HIDE DEF m
<1>2. Len(m) \in Nat /\ S = {m[i] : i \in 1..Len(m)} /\ m \in [1..Len(m) -> S]
  <2>1. S = {m[i] : i \in 1..Len(m)}
    BY DEF ToSet
  <2>2. Len(m) \in Nat /\ DOMAIN m = 1..Len(m) /\ m = [i \in 1..Len(m) |-> m[i]]
    BY <1>1
  <2> HIDE DEF S
  <2>3. \A i \in 1..Len(m) : m[i] \in S
    BY <2>1
  <2>4. QED
    BY <2>1, <2>2, <2>3
<1>3. \A x \in S : \E k \in 1..Len(m) : m[k] = x
  BY <1>2
<1> HIDE DEF S
<1>4. Cardinality(S) = Len(m)
  BY <1>1, <1>2, <1>3, ListOfSet
<1>5. QED
  BY <1>4 DEF S, m

\* Merging again: the same videos at the same places, with the same ranks and
\* together the same keywords
Alike(p, o) ==
  /\ Candidates(p) /\ Candidates(o)
  /\ \A b \in Bvids : Occurs(p, b) = Occurs(o, b) /\ KeywordsOf(p, b) = KeywordsOf(o, b)
  /\ \A i \in 1..Len(o) : p[i].rank = o[i].rank

LEMMA StandsAlike ==
  ASSUME NEW p, NEW o, Alike(p, o), NEW c, Stands(p, c)
  PROVE  Stands(o, c)
<1>1. c.bvid \in Bvids
  BY DEF Stands, Sound, CandidateSet
<1>2. /\ Occurs(p, c.bvid) = Occurs(o, c.bvid) /\ KeywordsOf(p, c.bvid) = KeywordsOf(o, c.bvid)
      /\ \A i \in Occurs(o, c.bvid) : p[i].rank = o[i].rank
  BY <1>1 DEF Alike, Occurs
<1>3. QED
  BY <1>2 DEF Stands

\* The list that is selected from, and what is selected
LEMMA Selection ==
  ASSUME Assumption, NEW p, NEW o, Alike(p, o)
  PROVE  LET f == Filtered(Deduped(p))
         IN /\ Ranking(o, f) /\ \A k \in 1..Len(f) : f[k].bvid \in Recent
            /\ \A b \in Recent : Occurs(o, b) # {} => \E k \in 1..Len(f) : f[k].bvid = b
<1> DEFINE d == Deduped(p)
           f == Filtered(d)
<1>1. /\ Ranking(p, d)
      /\ \A b \in Bvids : Occurs(p, b) # {} => \E i \in 1..Len(d) : d[i].bvid = b
  BY DedupedRanking DEF Alike
<1> HIDE DEF d
<1>2. Ranking(o, d)
  <2>1. \A i \in 1..Len(d) : Stands(o, d[i])
    BY <1>1, StandsAlike DEF Ranking
  <2>2. QED
    BY <1>1, <2>1 DEF Ranking
<1>3. /\ Ranking(o, f) /\ \A k \in 1..Len(f) : f[k].bvid \in Recent
      /\ \A i \in 1..Len(d) : d[i].bvid \in Recent =>
           \E k \in 1..Len(f) : f[k].bvid = d[i].bvid
  BY <1>2, FilteredRanking
<1> HIDE DEF f
<1>4. ASSUME NEW b \in Recent, Occurs(o, b) # {}
      PROVE  \E k \in 1..Len(f) : f[k].bvid = b
  <2>1. b \in Bvids
    BY DEF Assumption
  <2>2. Occurs(p, b) # {}
    BY <1>4, <2>1 DEF Alike
  <2>3. PICK i \in 1..Len(d) : d[i].bvid = b
    BY <1>1, <2>1, <2>2
  <2>4. QED
    BY <1>3, <2>3
<1>5. QED
  BY <1>3, <1>4 DEF f, d

-----------------------------------------------------------------------------
(* The candidates of a run, step by step *)

\* Every candidate of a keyword search was found by a keyword, none of a hot
\* list was.
Sourced(o, m) ==
  Candidates(o) /\ \A i \in 1..Len(o) : o[i].matched = <<>> <=> m # "keyword"

SelectInv ==
  /\ TypeOK
  /\ Sourced(seen, mode)
  /\ stage = "hot" => mode # "keyword"
  /\ stage = "expand" => mode = "keyword" /\ at = 1
  /\ stage = "search" => mode = "keyword" /\ at \in 1..Len(keywords)
  /\ stage \in {"select", "selected"} => found = seen \/ found = Dedupe(seen).objects
  /\ stage = "selected" => /\ candidates = Chosen(Deduped(found))
                           /\ total = Len(Filtered(Deduped(found)))

LEMMA EmptySourced ==
  ASSUME NEW m
  PROVE  Sourced(<<>>, m)
BY DEF Sourced, Candidates

\* What a page may list
Results == [bvid : Bvids, index : Nat]

LEMMA ListedSourced ==
  ASSUME NEW results \in Seq(Results), NEW size \in Nat, page \in 1..MaxPages,
         NEW matched, NEW m,
         \/ matched = <<>> /\ m # "keyword"
         \/ m = "keyword" /\ \E w \in Words : matched = <<w>>
  PROVE  Sourced(Listed(results, size, matched), m)
<1> DEFINE o == Listed(results, size, matched)
           primary == IF matched = <<>> THEN "" ELSE matched[1]
<1>1. \A i \in 1..Len(results) :
        results[i].bvid \in Bvids /\ (page - 1) * size + results[i].index \in Nat
  <2>1. (page - 1) * size \in Nat
    <3>1. page - 1 \in Nat
      OBVIOUS
    <3>2. QED
      BY <3>1
  <2>2. \A i \in 1..Len(results) : results[i] \in Results
    OBVIOUS
  <2>3. \A r \in Results : r.bvid \in Bvids /\ r.index \in Nat
    BY DEF Results
  <2>4. \A i \in 1..Len(results) : results[i].bvid \in Bvids /\ results[i].index \in Nat
    BY <2>2, <2>3
  <2>5. QED
    BY <2>1, <2>4
<1>2. /\ matched \in Seq(Words) /\ primary \in Words \cup {""}
      /\ \A i, j \in 1..Len(matched) : matched[i] = matched[j] => i = j
      /\ matched = <<>> <=> m # "keyword"
      /\ ToSet(matched) \subseteq {primary}
      /\ matched # <<>> => primary \in ToSet(matched)
  <2>1. ToSet(matched) = {matched[i] : i \in 1..Len(matched)}
    BY DEF ToSet
  <2>2. CASE matched = <<>> /\ m # "keyword"
    <3>1. Len(matched) = 0 /\ matched \in Seq(Words) /\ primary = ""
      BY <2>2
    <3>2. 1..Len(matched) = {}
      BY <3>1
    <3>3. QED
      BY <2>1, <2>2, <3>1, <3>2
  <2>3. CASE m = "keyword" /\ \E w \in Words : matched = <<w>>
    <3>1. PICK w \in Words : matched = <<w>>
      BY <2>3
    <3>2. /\ matched # <<>> /\ Len(matched) = 1 /\ matched[1] = w
          /\ matched \in Seq(Words) /\ primary = w
      BY <3>1
    <3>3. 1..Len(matched) = {1}
      BY <3>2
    <3> HIDE DEF primary
    <3>4. ToSet(matched) = {w}
      BY <2>1, <3>2, <3>3
    <3>5. QED
      BY <2>3, <3>2, <3>3, <3>4
  <2>4. QED
    BY <2>2, <2>3
<1> HIDE DEF primary
<1>3. \A i \in 1..Len(results) :
        Candidate(results[i].bvid, (page - 1) * size + results[i].index, matched) =
          [bvid |-> results[i].bvid, rank |-> (page - 1) * size + results[i].index, matched |-> matched,
           primary |-> primary]
  BY DEF Candidate, primary
<1>4. \A b \in Bvids, r \in Nat :
        Sound([bvid |-> b, rank |-> r, matched |-> matched, primary |-> primary])
  <2> SUFFICES ASSUME NEW b \in Bvids, NEW r \in Nat
               PROVE  Sound([bvid |-> b, rank |-> r, matched |-> matched, primary |-> primary])
    OBVIOUS
  <2> DEFINE c == [bvid |-> b, rank |-> r, matched |-> matched, primary |-> primary]
  <2>1. c \in CandidateSet /\ c.matched = matched /\ c.primary = primary
    BY <1>2 DEF CandidateSet
  <2> HIDE DEF c
  <2>2. Sound(c)
    <3>1. \A i, j \in 1..Len(c.matched) : c.matched[i] = c.matched[j] => i = j
      BY <1>2, <2>1
    <3>2. Source \in ToSet(c.matched) => c.primary = Source
      BY <1>2, <2>1
    <3>3. c.matched # <<>> => c.primary \in ToSet(c.matched)
      BY <1>2, <2>1
    <3>4. QED
      BY <2>1, <3>1, <3>2, <3>3 DEF Sound
  <2>3. QED
    BY <2>2 DEF c
<1>5. Len(results) \in Nat /\ o = [i \in 1..Len(results) |->
                                  Candidate(results[i].bvid, (page - 1) * size + results[i].index, matched)]
  BY DEF Listed
<1> HIDE DEF o
<1>6. \A i \in 1..Len(results) : Sound(o[i]) /\ o[i].matched = matched
  <2> SUFFICES ASSUME NEW i \in 1..Len(results)
               PROVE  Sound(o[i]) /\ o[i].matched = matched
    OBVIOUS
  <2>1. PICK r \in Nat : o[i] = [bvid |-> results[i].bvid, rank |-> r, matched |-> matched,
                                 primary |-> primary]
    BY <1>1, <1>3, <1>5
  <2>2. QED
    BY <1>1, <1>4, <2>1
<1>7. o \in Seq(CandidateSet) /\ Len(o) = Len(results)
  <2>1. o \in [1..Len(results) -> CandidateSet]
    BY <1>5, <1>6 DEF Sound
  <2>2. QED
    BY <1>5, <2>1
<1>8. Candidates(o)
  BY <1>6, <1>7 DEF Candidates
<1>9. \A i \in 1..Len(o) : o[i].matched = <<>> <=> m # "keyword"
  BY <1>2, <1>6, <1>7
<1>10. QED
  BY <1>8, <1>9 DEF Sourced, o

LEMMA JoinedSourced ==
  ASSUME NEW m, NEW o, Sourced(o, m), NEW p, Sourced(p, m)
  PROVE  Sourced(o \o p, m)
<1> DEFINE q == o \o p
<1>1. o \in Seq(CandidateSet) /\ p \in Seq(CandidateSet)
  BY DEF Sourced, Candidates
<1>2. /\ q \in Seq(CandidateSet) /\ Len(q) = Len(o) + Len(p)
      /\ Len(o) \in Nat /\ Len(p) \in Nat
      /\ \A i \in 1..Len(o) : q[i] = o[i]
      /\ \A i \in (Len(o) + 1)..(Len(o) + Len(p)) :
           i - Len(o) \in 1..Len(p) /\ q[i] = p[i - Len(o)]
  BY <1>1, MembersJoined
<1> HIDE DEF q
<1>3. ASSUME NEW i \in 1..Len(q)
      PROVE  Sound(q[i]) /\ (q[i].matched = <<>> <=> m # "keyword")
  <2>1. i \in 1..Len(o) \/ i \in (Len(o) + 1)..(Len(o) + Len(p))
    BY <1>2
  <2>2. QED
    BY <1>2, <2>1 DEF Sourced, Candidates
<1>4. Sourced(q, m)
  BY <1>2, <1>3 DEF Sourced, Candidates
<1>5. QED
  BY <1>4 DEF q

LEMMA UptoSourced ==
  ASSUME NEW m, NEW o, Sourced(o, m), NEW n \in Nat
  PROVE  Sourced(Upto(n, o), m)
<1> DEFINE u == Upto(n, o)
<1>1. o \in Seq(CandidateSet)
  BY DEF Sourced, Candidates
<1>2. u \in Seq(CandidateSet) /\ \A i \in 1..Len(u) : i \in 1..Len(o) /\ u[i] = o[i]
  BY <1>1, UptoList
<1> HIDE DEF u
<1>3. Sourced(u, m)
  BY <1>2 DEF Sourced, Candidates
<1>4. QED
  BY <1>3 DEF u

LEMMA FoundAlike ==
  ASSUME Assumption, NEW o, Candidates(o), NEW p, p = o \/ p = Dedupe(o).objects
  PROVE  Alike(p, o)
<1>1. CASE p = o
  BY <1>1 DEF Alike
<1>2. CASE p = Dedupe(o).objects
  BY <1>2, MergedTwice DEF Alike
<1>3. QED
  BY <1>1, <1>2

LEMMA SelectInit ==
  ASSUME Assumption, Init
  PROVE  SelectInv
<1>1. TypeOK
  <2>1. /\ Initial.status \in {"skipped", "pending"} /\ Initial.synonyms = <<>>
    BY DEF Initial, Expansion
  <2>2. MaxPages \in Nat \ {0} /\ Runs \in Nat
    BY DEF Assumption
  <2>3. QED
    BY <2>1, <2>2 DEF Init, TypeOK
<1>2. Sourced(seen, mode)
  BY EmptySourced DEF Init
<1>3. QED
  BY <1>1, <1>2 DEF Init, SelectInv

\* Steps that leave the candidates alone, or begin again without any
LEMMA SelectRest ==
  ASSUME Assumption, SearchInv, SearchInv', SelectInv,
         Start \/ Expand \/ Abort \/ Again \/ Retry \/ UNCHANGED vars
  PROVE  SelectInv'
<1>1. Sourced(<<>>, mode)
  BY EmptySourced
<1>2. ASSUME ExpansionFits(expansion)'
      PROVE  /\ SearchKeywords(expansion)' \in Seq(Words)
             /\ 1 \in 1..Len(SearchKeywords(expansion)')
  <2>1. /\ SearchKeywords(expansion') \in Seq(Words)
        /\ Len(SearchKeywords(expansion')) \in 1..(SynonymCount + 1)
    BY <1>2, KeywordsFit
  <2>2. SynonymCount \in Nat
    BY DEF Assumption
  <2>3. QED
    BY <2>1, <2>2
<1>3. ExpansionFits(expansion)' /\ expansion'.synonyms \in Seq(Words)
  BY DEF SearchInv, ExpansionFits
<1>4. MaxPages \in Nat \ {0}
  BY DEF Assumption
<1>5. CASE Start
  <2>1. /\ stage' \in {"hot", "expand", "search"} /\ at' = 1 /\ page' = 1
        /\ seen' = <<>> /\ found' = <<>> /\ candidates' = <<>> /\ runs' \in 0..Runs
        /\ UNCHANGED <<mode, enabled, expansion, total>>
    <3>1. runs \in 0..Runs /\ Runs \in Nat
      BY DEF SelectInv, TypeOK, Assumption
    <3>2. QED
      BY <1>5, <3>1 DEF Start
  <2>2. /\ stage' = "hot" => mode # "keyword"
        /\ stage' # "hot" => mode = "keyword"
        /\ stage' = "search" => keywords' = SearchKeywords(expansion)'
        /\ stage' # "search" => keywords' = <<>>
    BY <1>5 DEF Start
  <2>3. keywords' \in Seq(Words) /\ (stage' = "search" => 1 \in 1..Len(keywords'))
    <3>1. CASE stage' = "search"
      <4>1. keywords' = SearchKeywords(expansion)'
        BY <2>2, <3>1
      <4>2. QED
        BY <1>2, <1>3, <4>1
    <3>2. CASE stage' # "search"
      BY <2>2, <3>2
    <3>3. QED
      BY <3>1, <3>2
  <2>4. TypeOK'
    BY <1>4, <2>1, <2>3 DEF SelectInv, TypeOK
  <2>5. QED
    BY <1>1, <2>1, <2>2, <2>3, <2>4 DEF SelectInv
<1>6. CASE Expand
  <2>1. expansion'.status \in {"fallback", "failed", "success"}
    BY <1>6 DEF Expand, Expansion
  <2>2. /\ keywords' = SearchKeywords(expansion)' /\ stage = "expand" /\ stage' = "search"
        /\ UNCHANGED <<mode, enabled, at, page, seen, found, candidates, total, runs>>
    BY <1>6 DEF Expand
  <2>3. keywords' \in Seq(Words) /\ 1 \in 1..Len(keywords')
    BY <1>2, <1>3, <2>2
  <2>4. TypeOK'
    BY <1>3, <2>1, <2>2, <2>3 DEF SelectInv, TypeOK
  <2>5. QED
    BY <2>2, <2>3, <2>4 DEF SelectInv
<1>7. CASE Abort \/ Again
  BY <1>7 DEF Abort, Again, SelectInv, TypeOK
<1>8. CASE Retry
  <2>1. expansion'.status \in {"skipped", "pending"}
    BY <1>8 DEF Retry, Initial, Expansion
  <2>2. /\ stage = "idle" /\ total' = 0
        /\ UNCHANGED <<mode, enabled, stage, keywords, at, page, seen, found, candidates, runs>>
    BY <1>8 DEF Retry
  <2>3. TypeOK'
    BY <1>3, <2>1, <2>2 DEF SelectInv, TypeOK
  <2>4. QED
    BY <2>2, <2>3 DEF SelectInv
<1>9. CASE UNCHANGED vars
  BY <1>9 DEF vars, SelectInv, TypeOK
<1>10. QED
  BY <1>5, <1>6, <1>7, <1>8, <1>9

LEMMA SelectPages ==
  ASSUME Assumption, SearchInv, SearchInv', SelectInv, SearchPage \/ HotPage
  PROVE  SelectInv'
<1>1. /\ MaxPages \in Nat \ {0} /\ Limit \in Nat /\ page \in 1..MaxPages
      /\ Sizes \subseteq Nat /\ PageSize \in Nat
      /\ \A results \in PageResults : /\ results \in Seq(Results)
                                       /\ ByPosition(results) \in Seq(Results)
  <2>1. ASSUME NEW results \in PageResults
        PROVE  results \in Seq(Results) /\ ByPosition(results) \in Seq(Results)
    <3>1. results \in Seq(Results)
      BY Zenon DEF Assumption, Results
    <3>2. Len(results) \in Nat /\ \A i \in 1..Len(results) : results[i] \in Results /\ i \in Nat
      BY <3>1
    <3>3. \A r \in Results, i \in Nat : [r EXCEPT !.index = i] \in Results
      BY DEF Results
    <3>4. \A i \in 1..Len(results) : [results[i] EXCEPT !.index = i] \in Results
      BY <3>2, <3>3
    <3>5. QED
      BY <3>1, <3>2, <3>4 DEF ByPosition
  <2>2. QED
    BY <2>1 DEF Assumption, SelectInv, TypeOK
<1>2. /\ Sourced(seen, mode) /\ TypeOK /\ at \in Nat
      /\ keywords \in Seq(Words) /\ Len(keywords) \in Nat
  BY DEF SelectInv, TypeOK
<1>3. \A o : Sourced(o, mode) => o \in Seq(CandidateSet)
  BY DEF Sourced, Candidates
<1>4. CASE SearchPage
  <2>1. PICK results \in PageResults, size \in Sizes :
          seen' = seen \o Listed(results, size, <<keywords[at]>>)
    BY <1>4 DEF SearchPage
  <2>2. /\ \/ page' = 1 /\ at' = at + 1
              /\ stage' = IF at = Len(keywords) THEN "merge" ELSE "search"
           \/ page # MaxPages /\ page' = page + 1 /\ UNCHANGED <<at, stage>>
        /\ stage = "search" /\ mode = "keyword" /\ at \in 1..Len(keywords)
        /\ UNCHANGED <<mode, enabled, expansion, keywords, found, candidates, total, runs>>
    BY <1>4 DEF SearchPage, SelectInv
  <2>3. keywords[at] \in Words
    BY <1>2, <2>2
  <2>4. Sourced(seen', mode)
    <3>1. Sourced(Listed(results, size, <<keywords[at]>>), mode)
      BY <1>1, <2>2, <2>3, ListedSourced
    <3>2. QED
      BY <1>2, <2>1, <3>1, JoinedSourced
  <2>5. /\ page' \in 1..MaxPages /\ at' \in Nat /\ stage' \in {"merge", "search"}
        /\ stage' = "search" => at' \in 1..Len(keywords)
    BY <1>1, <1>2, <2>2
  <2>6. TypeOK'
    BY <1>2, <1>3, <2>2, <2>4, <2>5 DEF TypeOK
  <2>7. QED
    BY <2>2, <2>4, <2>5, <2>6 DEF SelectInv
<1>5. CASE HotPage
  <2>1. PICK results \in PageResults :
          LET all == seen \o Listed(ByPosition(results), PageSize, <<>>)
          IN \/ /\ seen' = Upto(Limit, all)
                /\ found' = seen' /\ stage' = "select" /\ UNCHANGED page
             \/ /\ page # MaxPages /\ seen' = all /\ page' = page + 1
                /\ UNCHANGED <<found, stage>>
    BY <1>5 DEF HotPage
  <2>2. /\ stage = "hot" /\ mode # "keyword"
        /\ UNCHANGED <<mode, enabled, expansion, keywords, at, candidates, total, runs>>
    BY <1>5 DEF HotPage, SelectInv
  <2>3. Sourced(seen \o Listed(ByPosition(results), PageSize, <<>>), mode)
    <3>1. Sourced(Listed(ByPosition(results), PageSize, <<>>), mode)
      BY <1>1, <2>2, ListedSourced
    <3>2. QED
      BY <1>2, <3>1, JoinedSourced
  <2>4. Sourced(seen', mode)
    BY <1>1, <2>1, <2>3, UptoSourced
  <2>5. /\ page' \in 1..MaxPages /\ stage' \in {"select", "hot"}
        /\ stage' = "select" => found' = seen'
        /\ stage' # "select" => found' = found
    BY <1>1, <2>1, <2>2
  <2>6. found' \in Seq(CandidateSet) /\ seen' \in Seq(CandidateSet)
    BY <1>2, <1>3, <2>4, <2>5 DEF TypeOK
  <2>7. TypeOK'
    BY <1>2, <2>2, <2>5, <2>6 DEF TypeOK
  <2>8. QED
    BY <2>2, <2>4, <2>5, <2>7 DEF SelectInv
<1>6. QED
  BY <1>4, <1>5

LEMMA SelectMerge ==
  ASSUME Assumption, SelectInv, Merge
  PROVE  SelectInv'
<1>1. Candidates(Dedupe(seen).objects)
  BY MergedTwice DEF SelectInv, Sourced
<1>2. /\ found' = Dedupe(seen).objects /\ stage' = "select"
      /\ UNCHANGED <<mode, enabled, expansion, keywords, at, page, seen, candidates, total, runs>>
  BY DEF Merge
<1>3. found' \in Seq(CandidateSet)
  BY <1>1, <1>2 DEF Candidates
<1>4. TypeOK'
  BY <1>2, <1>3 DEF SelectInv, TypeOK
<1>5. QED
  BY <1>2, <1>4 DEF SelectInv

LEMMA SelectSelect ==
  ASSUME Assumption, SelectInv, Select
  PROVE  SelectInv'
<1> DEFINE f == Filtered(Deduped(found))
<1>1. /\ candidates' = Upto(Limit, f) /\ total' = Len(f) /\ stage' = "selected"
      /\ candidates' = Chosen(Deduped(found))
      /\ stage = "select"
      /\ UNCHANGED <<mode, enabled, expansion, keywords, at, page, seen, found, runs>>
  BY DEF Select, Chosen
<1>2. Alike(found, seen)
  BY <1>1, FoundAlike DEF SelectInv, Sourced
<1>3. f \in Seq(CandidateSet)
  BY <1>2, Selection DEF Ranking
<1> HIDE DEF f
<1>4. candidates' \in Seq(CandidateSet) /\ total' \in Nat
  <2>1. Limit \in Nat
    BY DEF Assumption
  <2>2. Upto(Limit, f) \in Seq(CandidateSet)
    BY <1>3, <2>1, UptoList
  <2>3. Len(f) \in Nat
    BY <1>3
  <2>4. QED
    BY <1>1, <2>2, <2>3
<1>5. TypeOK'
  BY <1>1, <1>4 DEF SelectInv, TypeOK
<1>6. QED
  BY <1>1, <1>5 DEF SelectInv, f

LEMMA SelectNext ==
  ASSUME Assumption, SearchInv, SearchInv', SelectInv, [Next]_vars
  PROVE  SelectInv'
BY SelectRest, SelectPages, SelectMerge, SelectSelect DEF Next

\* The state of a search is of its type.
THEOREM SearchTypeOK ==
  ASSUME Assumption
  PROVE  Spec => []TypeOK
<1>1. Init => SearchInv /\ SelectInv
  BY SearchInit, SelectInit
<1>2. SearchInv /\ SelectInv /\ [Next]_vars => (SearchInv /\ SelectInv)'
  BY SearchNext, SelectNext
<1>3. SelectInv => TypeOK
  BY DEF SelectInv
<1>4. QED
  BY <1>1, <1>2, <1>3, PTL DEF Spec

-----------------------------------------------------------------------------
LEMMA EveryKeyword ==
  ASSUME NEW b
  PROVE  /\ UNION {Keywords(o) : o \in Occurrences(b)} = KeywordsOf(seen, b)
         /\ Occurrences(b) = {seen[i] : i \in Occurs(seen, b)}
<1>1. \A o : Keywords(o) = ToSet(o.matched)
  BY DEF Keywords, ToSet
<1>2. Occurrences(b) = {seen[i] : i \in Occurs(seen, b)}
  BY DEF Occurrences, Occurs
<1>3. QED
  BY <1>1, <1>2 DEF KeywordsOf

\* What is selected is a list of candidates that stand for all that the site
\* returned of their videos.
LEMMA Selected ==
  ASSUME Assumption, SelectInv, stage = "selected"
  PROVE  LET f == Filtered(Deduped(found))
         IN /\ Ranking(seen, f) /\ \A k \in 1..Len(f) : f[k].bvid \in Recent
            /\ \A b \in Recent : Occurs(seen, b) # {} => \E k \in 1..Len(f) : f[k].bvid = b
            /\ candidates = Upto(Limit, f) /\ Ranking(seen, candidates)
            /\ total = Len(f) /\ Limit \in Nat
<1> DEFINE f == Filtered(Deduped(found))
<1>1. /\ candidates = Upto(Limit, f) /\ total = Len(f)
      /\ Alike(found, seen) /\ Limit \in Nat
  BY FoundAlike DEF SelectInv, Chosen, Sourced, Assumption
<1>2. /\ Ranking(seen, f) /\ \A k \in 1..Len(f) : f[k].bvid \in Recent
      /\ \A b \in Recent : Occurs(seen, b) # {} => \E k \in 1..Len(f) : f[k].bvid = b
  BY <1>1, Selection
<1> HIDE DEF f
<1>3. Ranking(seen, candidates)
  BY <1>1, <1>2, UptoRanking
<1>4. QED
  BY <1>1, <1>2, <1>3 DEF f

\* A video that several keywords or pages found is selected once, with all of
\* its keywords and its best rank, although dedupe_search_candidates changes
\* the candidates in place and runs twice over them.
THEOREM SearchMergesCandidates ==
  ASSUME Assumption
  PROVE  Spec => []CandidatesMerged
<1>1. Init => SearchInv /\ SelectInv
  BY SearchInit, SelectInit
<1>2. SearchInv /\ SelectInv /\ [Next]_vars => (SearchInv /\ SelectInv)'
  BY SearchNext, SelectNext
<1>3. SelectInv => CandidatesMerged
  <2> SUFFICES ASSUME SelectInv, stage = "selected", NEW i \in 1..Len(candidates)
               PROVE  LET c == candidates[i]
                          every == UNION {Keywords(o) : o \in Occurrences(c.bvid)}
                      IN /\ \A j \in 1..Len(candidates) : candidates[j].bvid = c.bvid => j = i
                         /\ Keywords(c) = every /\ Len(c.matched) = Cardinality(every)
                         /\ \A o \in Occurrences(c.bvid) : c.rank <= o.rank
                         /\ \E o \in Occurrences(c.bvid) : c.rank = o.rank
                         /\ Source \in every => c.primary = Source
                         /\ every # {} => c.primary \in every
    BY DEF CandidatesMerged
  <2> DEFINE c == candidates[i]
             every == UNION {Keywords(o) : o \in Occurrences(c.bvid)}
  <2>1. Ranking(seen, candidates)
    BY Selected
  <2>2. Stands(seen, c)
    BY <2>1 DEF Ranking
  <2>3. \A j \in 1..Len(candidates) : candidates[j].bvid = c.bvid => j = i
    <3>1. \A j \in 1..Len(candidates) : j < i \/ i < j \/ j = i
      OBVIOUS
    <3>2. \A j, k \in 1..Len(candidates) : j < k => candidates[j].bvid # candidates[k].bvid
      BY <2>1 DEF Ranking
    <3>3. QED
      BY <3>1, <3>2
  <2> HIDE DEF c, every
  <2>4. /\ every = KeywordsOf(seen, c.bvid)
        /\ Occurrences(c.bvid) = {seen[k] : k \in Occurs(seen, c.bvid)}
    BY EveryKeyword DEF every
  <2>5. Keywords(c) = ToSet(c.matched) /\ ToSet(c.matched) = every
    BY <2>2, <2>4 DEF Keywords, ToSet, Stands
  <2>6. Len(c.matched) = Cardinality(every)
    BY <2>2, <2>5, KeywordCount DEF Stands
  <2>7. /\ \A o \in Occurrences(c.bvid) : c.rank <= o.rank
        /\ \E o \in Occurrences(c.bvid) : c.rank = o.rank
    BY <2>2, <2>4 DEF Stands
  <2>8. /\ Source \in every => c.primary = Source
        /\ every # {} => c.primary \in every
    <3>1. c.matched \in Seq(Words)
      BY <2>2 DEF Stands, Sound, CandidateSet
    <3>2. c.matched = <<>> <=> every = {}
      BY <2>5, <3>1, EmptyList
    <3>3. QED
      BY <2>2, <2>5, <3>2 DEF Stands, Sound
  <2>9. QED
    BY <2>3, <2>5, <2>6, <2>7, <2>8 DEF c, every
<1>4. QED
  BY <1>1, <1>2, <1>3, PTL DEF Spec

\* The selection is full or complete, no video left out ranks before one that
\* was taken, and total_candidates counts the videos there were to choose from
\* (_filter_candidates_by_publish_time and the slice after it).
THEOREM SearchSelectsBest ==
  ASSUME Assumption
  PROVE  Spec => []SelectionIsBest
<1>1. Init => SearchInv /\ SelectInv
  BY SearchInit, SelectInit
<1>2. SearchInv /\ SelectInv /\ [Next]_vars => (SearchInv /\ SelectInv)'
  BY SearchNext, SelectNext
<1>3. SelectInv => SelectionIsBest
  <2> SUFFICES ASSUME SelectInv, stage = "selected"
               PROVE  LET taken  == {candidates[i].bvid : i \in 1..Len(candidates)}
                          choice == {seen[i].bvid : i \in 1..Len(seen)} \cap Recent
                      IN /\ taken \subseteq choice /\ total = Cardinality(choice)
                         /\ Len(candidates) = Limit \/ taken = choice
                         /\ \A b \in choice \ taken : \A o \in Occurrences(b) :
                              \A i \in 1..Len(candidates) : candidates[i].rank <= o.rank
    BY DEF SelectionIsBest
  <2> DEFINE f == Filtered(Deduped(found))
             n == Len(f)
             taken == {candidates[i].bvid : i \in 1..Len(candidates)}
             choice == {seen[i].bvid : i \in 1..Len(seen)} \cap Recent
  <2>1. /\ Ranking(seen, f) /\ \A k \in 1..n : f[k].bvid \in Recent
        /\ \A b \in Recent : Occurs(seen, b) # {} => \E k \in 1..n : f[k].bvid = b
        /\ candidates = Upto(Limit, f) /\ Ranking(seen, candidates)
        /\ total = n /\ Limit \in Nat
    BY Selected
  <2> HIDE DEF f
  <2>2. \A b : b \in choice <=> b \in Recent /\ Occurs(seen, b) # {}
    BY DEF Occurs
  <2>3. /\ f \in Seq(CandidateSet) /\ n \in Nat
        /\ \A k \in 1..n : Stands(seen, f[k])
        /\ \A k, l \in 1..n : k < l => f[k].bvid # f[l].bvid /\ f[k].rank <= f[l].rank
    BY <2>1 DEF Ranking
  <2>4. /\ Len(candidates) \in Nat
        /\ Len(candidates) = IF n < Limit THEN n ELSE Limit
        /\ \A i \in 1..Len(candidates) : i \in 1..n /\ candidates[i] = f[i]
    BY <2>1, <2>3, UptoList
  <2> HIDE DEF n
  <2>5. \A k \in 1..n : f[k].bvid \in choice
    BY <2>1, <2>2, <2>3 DEF Stands
  <2>6. \A b \in choice : \E k \in 1..n : f[k].bvid = b
    BY <2>1, <2>2
  <2>7. taken \subseteq choice
    BY <2>4, <2>5
  <2>8. total = Cardinality(choice)
    <3> DEFINE g == [k \in 1..n |-> f[k].bvid]
    <3>1. g \in [1..n -> choice]
      BY <2>5
    <3>2. \A k, l \in 1..n : g[k] = g[l] => k = l
      <4>1. \A k, l \in 1..n : k < l \/ l < k \/ k = l
        BY <2>3
      <4>2. \A k, l \in 1..n : k < l => g[k] # g[l]
        BY <2>3
      <4> HIDE DEF g
      <4>3. QED
        BY <4>1, <4>2
    <3>3. \A b \in choice : \E k \in 1..n : g[k] = b
      BY <2>6
    <3> HIDE DEF g, choice
    <3>4. n \in Nat
      BY <2>3
    <3>5. Cardinality(choice) = n
      BY <3>1, <3>2, <3>3, <3>4, ListOfSet
    <3>6. QED
      BY <2>1, <3>5
  <2>9. Len(candidates) = Limit \/ taken = choice
    <3> SUFFICES ASSUME Len(candidates) # Limit
                 PROVE  choice \subseteq taken
      BY <2>7
    <3>1. Len(candidates) = n
      BY <2>4
    <3>2. QED
      BY <2>4, <2>6, <3>1
  <2>10. ASSUME NEW b \in choice \ taken, NEW o \in Occurrences(b),
                NEW i \in 1..Len(candidates)
         PROVE  candidates[i].rank <= o.rank
    <3>1. PICK k \in 1..n : f[k].bvid = b
      BY <2>6
    <3>2. ~(k \in 1..Len(candidates))
      BY <2>4, <3>1
    <3>3. i \in 1..n /\ candidates[i] = f[i] /\ i < k
      BY <2>3, <2>4, <3>2
    <3>4. f[i].rank <= f[k].rank
      BY <2>3, <3>1, <3>3
    <3>5. PICK m \in Occurs(seen, b) : o = seen[m]
      BY EveryKeyword
    <3>6. f[k].rank <= o.rank
      BY <2>3, <3>1, <3>5 DEF Stands
    <3>7. f[i].rank \in Nat /\ f[k].rank \in Nat /\ o.rank \in Nat
      <4>1. seen \in Seq(CandidateSet) /\ m \in 1..Len(seen)
        BY DEF SelectInv, TypeOK, Occurs
      <4>2. o \in CandidateSet
        BY <3>5, <4>1
      <4>3. f[i] \in CandidateSet /\ f[k] \in CandidateSet
        BY <2>3, <3>1, <3>3 DEF Stands, Sound
      <4>4. QED
        BY <4>2, <4>3 DEF CandidateSet
    <3>8. QED
      BY <3>3, <3>4, <3>6, <3>7
  <2>11. QED
    BY <2>7, <2>8, <2>9, <2>10
<1>4. QED
  BY <1>1, <1>2, <1>3, PTL DEF Spec

-----------------------------------------------------------------------------
(* Authors: orders and rankings *)

\* Lists of figures of the same length
Figures(n) == {a \in Seq(Int) : Len(a) = n}

\* Different lists of figures have a first place where they differ.
LEMMA FirstDifference ==
  ASSUME NEW n \in Nat, NEW a \in Figures(n), NEW b \in Figures(n), a # b
  PROVE  \E i \in 1..n : a[i] # b[i] /\ \A h \in 1..(i - 1) : a[h] = b[h]
<1> DEFINE T == {i \in 1..n : a[i] # b[i]}
<1>1. /\ Len(a) = n /\ Len(b) = n /\ a \in Seq(Int) /\ b \in Seq(Int)
  BY DEF Figures
<1>2. T # {}
  <2> SUFFICES ASSUME \A i \in 1..n : a[i] = b[i]
               PROVE  FALSE
    OBVIOUS
  <2>1. a = b
    BY <1>1
  <2>2. QED
    BY <2>1
<1>3. PICK i \in T : \A h \in T : i <= h
  <2>1. T \subseteq Nat
    OBVIOUS
  <2> HIDE DEF T
  <2>2. QED
    BY <1>2, <2>1, LeastNumber
<1>4. QED
  BY <1>3

\* Figures compared in turn order the lists of them.
LEMMA ExceedsOrders ==
  ASSUME NEW n \in Nat
  PROVE  /\ \A a \in Figures(n) : ~Exceeds(a, a)
         /\ \A a, b \in Figures(n) : a = b \/ Exceeds(a, b) \/ Exceeds(b, a)
         /\ \A a, b, c \in Figures(n) : Exceeds(a, b) /\ Exceeds(b, c) => Exceeds(a, c)
<1>1. \A a \in Figures(n) : Len(a) = n /\ \A i \in 1..n : a[i] \in Int
  BY DEF Figures
<1>2. ASSUME NEW a \in Figures(n), Exceeds(a, a)
      PROVE  FALSE
  BY <1>1, <1>2 DEF Exceeds
<1>3. ASSUME NEW a \in Figures(n), NEW b \in Figures(n), a # b
      PROVE  Exceeds(a, b) \/ Exceeds(b, a)
  <2>1. PICK i \in 1..n : a[i] # b[i] /\ \A h \in 1..(i - 1) : a[h] = b[h]
    BY <1>3, FirstDifference
  <2>2. a[i] > b[i] \/ b[i] > a[i]
    BY <1>1, <2>1
  <2>3. QED
    BY <1>1, <2>1, <2>2 DEF Exceeds
<1>4. ASSUME NEW a \in Figures(n), NEW b \in Figures(n), NEW c \in Figures(n),
             Exceeds(a, b), Exceeds(b, c)
      PROVE  Exceeds(a, c)
  <2>1. PICK i \in 1..n : a[i] > b[i] /\ \A h \in 1..(i - 1) : a[h] = b[h]
    BY <1>1, <1>4 DEF Exceeds
  <2>2. PICK j \in 1..n : b[j] > c[j] /\ \A h \in 1..(j - 1) : b[h] = c[h]
    BY <1>1, <1>4 DEF Exceeds
  <2>3. /\ a[i] \in Int /\ b[i] \in Int /\ c[i] \in Int
        /\ a[j] \in Int /\ b[j] \in Int /\ c[j] \in Int
    BY <1>1
  <2>4. CASE i < j
    <3>1. i \in 1..(j - 1) /\ \A h \in 1..(i - 1) : h \in 1..(j - 1)
      BY <2>4
    <3>2. a[i] > c[i] /\ \A h \in 1..(i - 1) : a[h] = c[h]
      BY <2>1, <2>2, <3>1
    <3>3. QED
      BY <1>1, <3>2 DEF Exceeds
  <2>5. CASE j < i
    <3>1. j \in 1..(i - 1) /\ \A h \in 1..(j - 1) : h \in 1..(i - 1)
      BY <2>5
    <3>2. a[j] > c[j] /\ \A h \in 1..(j - 1) : a[h] = c[h]
      BY <2>1, <2>2, <3>1
    <3>3. QED
      BY <1>1, <3>2 DEF Exceeds
  <2>6. CASE i = j
    <3>1. a[i] > c[i] /\ \A h \in 1..(i - 1) : a[h] = c[h]
      BY <2>1, <2>2, <2>3, <2>6
    <3>2. QED
      BY <1>1, <3>1 DEF Exceeds
  <2>7. QED
    BY <2>4, <2>5, <2>6
<1>5. QED
  BY <1>2, <1>3, <1>4

\* Ranking a list puts its elements in the order of their figures.
LEMMA RankedList ==
  ASSUME NEW V, NEW s \in Seq(V), NEW n \in Nat, NEW figures,
         \A i \in 1..Len(s) : figures[s[i]] \in Figures(n)
  PROVE  /\ Ranked(s, figures) \in Seq(V) /\ Len(Ranked(s, figures)) = Len(s)
         /\ Len(s) \in Nat
         /\ ToSet(Ranked(s, figures)) = ToSet(s)
         /\ (\A i, j \in 1..Len(s) : s[i] = s[j] => i = j) =>
              \A i, j \in 1..Len(s) : Ranked(s, figures)[i] = Ranked(s, figures)[j] => i = j
         /\ \A k, l \in 1..Len(s) : k < l =>
              \/ Exceeds(figures[Ranked(s, figures)[k]], figures[Ranked(s, figures)[l]])
              \/ figures[Ranked(s, figures)[k]] = figures[Ranked(s, figures)[l]]
<1> DEFINE places == 1..Len(s)
           fig(i) == figures[s[i]]
           before(j, i) == Exceeds(fig(j), fig(i)) \/ (fig(j) = fig(i) /\ j < i)
           ahead == [i \in places |-> {j \in places : before(j, i)}]
           order == Sorted(places, ahead)
           r == Ranked(s, figures)
<1>1. Len(s) \in Nat /\ \A i \in places : s[i] \in V
  OBVIOUS
<1>2. \A i \in places : fig(i) \in Figures(n)
  OBVIOUS
<1>3. IsFiniteSet(places) /\ Cardinality(places) = Len(s)
  BY <1>1, UpTo
<1>4. r = [k \in places |-> s[order[k]]]
  BY DEF Ranked
<1>5. places \subseteq Nat /\ (\A i \in places : i \in Nat) /\ places = 1..Len(s)
  OBVIOUS
<1> HIDE DEF fig, r, places
<1>6. Orders(ahead, places)
  <2>1. \A i \in places : ~before(i, i)
    <3>1. \A i \in places : ~(i < i)
      <4>1. \A i \in Nat : ~(i < i)
        OBVIOUS
      <4>2. QED
        BY <1>5, <4>1
    <3>2. QED
      BY <1>2, <3>1, ExceedsOrders
  <2>2. \A i, j \in places : i = j \/ before(i, j) \/ before(j, i)
    <3>1. \A i, j \in places : i = j \/ i < j \/ j < i
      BY <1>5
    <3>2. \A i, j \in places : fig(i) = fig(j) \/ Exceeds(fig(i), fig(j)) \/ Exceeds(fig(j), fig(i))
      BY <1>2, ExceedsOrders
    <3>3. QED
      BY <3>1, <3>2
  <2>3. ASSUME NEW i \in places, NEW j \in places, NEW k \in places,
               before(i, j), before(j, k)
        PROVE  before(i, k)
    <3>1. i < j /\ j < k => i < k
      BY <1>5
    <3>2. fig(i) \in Figures(n) /\ fig(j) \in Figures(n) /\ fig(k) \in Figures(n)
      BY <1>2
    <3>3. Exceeds(fig(i), fig(j)) /\ Exceeds(fig(j), fig(k)) => Exceeds(fig(i), fig(k))
      BY <3>2, ExceedsOrders
    <3>4. QED
      BY <2>3, <3>1, <3>3
  <2>4. /\ ahead \in [places -> SUBSET places]
        /\ \A i, j \in places : j \in ahead[i] <=> before(j, i)
    OBVIOUS
  <2> HIDE DEF ahead, before
  <2>5. QED
    BY <2>1, <2>2, <2>3, <2>4 DEF Orders
<1> HIDE DEF order
<1>7. /\ order \in Seq(places) /\ Len(order) = Len(s)
      /\ \A i \in places : \E k \in places : order[k] = i
      /\ \A k, l \in places : k < l => order[k] \in ahead[order[l]]
  <2> HIDE DEF ahead
  <2>1. /\ Sorted(places, ahead) \in Seq(places)
        /\ Len(Sorted(places, ahead)) = Cardinality(places)
        /\ \A i \in places : \E k \in 1..Cardinality(places) : Sorted(places, ahead)[k] = i
        /\ \A k, l \in 1..Cardinality(places) :
             k < l => Sorted(places, ahead)[k] \in ahead[Sorted(places, ahead)[l]]
    BY <1>3, <1>6, SortedList
  <2>2. QED
    BY <1>3, <2>1 DEF order, places
<1>8. \A k \in places : order[k] \in places
  <2>1. \A k \in 1..Len(order) : order[k] \in places
    BY <1>7
  <2>2. QED
    BY <1>5, <1>7, <2>1
<1>9. \A k, l \in places : order[k] = order[l] => k = l
  <2>1. \A k, l \in places : k = l \/ k < l \/ l < k
    BY <1>5
  <2>2. \A i \in places : i \notin ahead[i]
    <3> HIDE DEF ahead
    <3>1. QED
      BY <1>6 DEF Orders
  <2> HIDE DEF ahead
  <2>3. \A k, l \in places : k < l => order[k] # order[l]
    BY <1>7, <1>8, <2>2
  <2>4. QED
    BY <2>1, <2>3
<1>10. r \in Seq(V) /\ Len(r) = Len(s) /\ \A k \in places : r[k] = s[order[k]]
  <2>1. \A k \in places : s[order[k]] \in V
    BY <1>1, <1>8
  <2>2. r \in [places -> V] /\ \A k \in places : r[k] = s[order[k]]
    BY <1>4, <2>1
  <2>3. QED
    BY <1>1, <2>2 DEF places
<1>11. ToSet(r) = ToSet(s)
  <2>1. ToSet(r) = {r[k] : k \in places} /\ ToSet(s) = {s[i] : i \in places}
    BY <1>10, Members DEF places
  <2>2. QED
    BY <1>7, <1>8, <1>10, <2>1
<1>12. ASSUME \A i, j \in places : s[i] = s[j] => i = j
       PROVE  \A i, j \in places : r[i] = r[j] => i = j
  BY <1>8, <1>9, <1>10, <1>12
<1>13. \A k, l \in places : k < l => \/ Exceeds(figures[r[k]], figures[r[l]])
                                     \/ figures[r[k]] = figures[r[l]]
  <2> SUFFICES ASSUME NEW k \in places, NEW l \in places, k < l
               PROVE  Exceeds(figures[r[k]], figures[r[l]]) \/ figures[r[k]] = figures[r[l]]
    OBVIOUS
  <2>1. before(order[k], order[l])
    BY <1>7, <1>8
  <2>2. QED
    BY <1>10, <2>1 DEF fig
<1>14. QED
  BY <1>1, <1>10, <1>11, <1>12, <1>13 DEF r, places

\* Each element once, and none is lost.
LEMMA DistinctList ==
  ASSUME NEW V, NEW s \in Seq(V)
  PROVE  /\ Distinct(s) \in Seq(V) /\ Len(Distinct(s)) \in Nat
         /\ ToSet(Distinct(s)) = ToSet(s)
         /\ \A i, j \in 1..Len(Distinct(s)) : Distinct(s)[i] = Distinct(s)[j] => i = j
<1> DEFINE first == {i \in 1..Len(s) : \A j \in 1..(i - 1) : s[j] # s[i]}
           d == Distinct(s)
<1>1. first \in SUBSET (1..Len(s)) /\ Len(s) \in Nat /\ \A i \in 1..Len(s) : s[i] \in V
  OBVIOUS
<1>2. d = Picked(s, first)
  BY DEF Distinct
<1>3. \A i, j \in first : s[i] = s[j] => i = j
  <2>1. \A i, j \in first : i = j \/ i \in 1..(j - 1) \/ j \in 1..(i - 1)
    OBVIOUS
  <2>2. QED
    BY <2>1
<1>4. \A i \in 1..Len(s) : \E j \in first : s[j] = s[i]
  <2> SUFFICES ASSUME NEW i \in 1..Len(s)
               PROVE  \E j \in first : s[j] = s[i]
    OBVIOUS
  <2> DEFINE T == {j \in 1..Len(s) : s[j] = s[i]}
  <2>1. PICK j \in T : \A h \in T : j <= h
    <3>1. T \subseteq Nat /\ i \in T
      OBVIOUS
    <3> HIDE DEF T
    <3>2. QED
      BY <3>1, LeastNumber
  <2>2. \A h \in 1..(j - 1) : h \in 1..Len(s) /\ ~(j <= h)
    OBVIOUS
  <2>3. \A h \in 1..(j - 1) : s[h] # s[j]
    BY <2>1, <2>2
  <2>4. QED
    BY <2>1, <2>3
<1> HIDE DEF first, d
<1>5. /\ d \in Seq(V) /\ Len(d) = Cardinality(first) /\ Cardinality(first) \in Nat
      /\ \A k \in 1..Cardinality(first) : Nth(first, k) \in first /\ d[k] = s[Nth(first, k)]
      /\ \A k, l \in 1..Cardinality(first) : Nth(first, k) = Nth(first, l) => k = l
      /\ \A i \in first : \E k \in 1..Cardinality(first) : d[k] = s[i]
  BY <1>1, <1>2, PickedList
<1>6. ToSet(d) = ToSet(s)
  <2>1. ToSet(d) = {d[k] : k \in 1..Len(d)} /\ ToSet(s) = {s[i] : i \in 1..Len(s)}
    BY <1>5, Members
  <2>2. \A k \in 1..Len(d) : \E i \in 1..Len(s) : d[k] = s[i]
    BY <1>1, <1>5
  <2>3. \A i \in 1..Len(s) : \E k \in 1..Len(d) : d[k] = s[i]
    <3> SUFFICES ASSUME NEW i \in 1..Len(s)
                 PROVE  \E k \in 1..Len(d) : d[k] = s[i]
      OBVIOUS
    <3>1. PICK j \in first : s[j] = s[i]
      BY <1>4
    <3>2. \E k \in 1..Cardinality(first) : d[k] = s[j]
      BY <1>5
    <3>3. QED
      BY <1>5, <3>1, <3>2
  <2> HIDE DEF d
  <2>4. QED
    BY <2>1, <2>2, <2>3
<1>7. ASSUME NEW i \in 1..Len(d), NEW j \in 1..Len(d), d[i] = d[j]
      PROVE  i = j
  <2>1. /\ Nth(first, i) \in first /\ d[i] = s[Nth(first, i)]
        /\ Nth(first, j) \in first /\ d[j] = s[Nth(first, j)]
    BY <1>5
  <2>2. Nth(first, i) = Nth(first, j)
    BY <1>3, <1>7, <2>1
  <2>3. QED
    BY <1>5, <2>2
<1>8. QED
  BY <1>5, <1>6, <1>7 DEF d


-----------------------------------------------------------------------------
(* Authors: sums of figures *)

\* A finite set of numbers has a greatest one.
LEMMA Greatest ==
  ASSUME NEW S, IsFiniteSet(S), S \subseteq Int, S # {}
  PROVE  Max(S) \in S /\ \A y \in S : Max(S) >= y
<1> DEFINE before(y, x) == y < x
           ahead == [x \in S |-> {y \in S : before(y, x)}]
           n == Cardinality(S)
<1>1. Orders(ahead, S)
  <2>1. /\ \A x \in S : ~before(x, x)
        /\ \A x, y \in S : x = y \/ before(x, y) \/ before(y, x)
        /\ \A x, y, z \in S : before(x, y) /\ before(y, z) => before(x, z)
    OBVIOUS
  <2>2. /\ ahead \in [S -> SUBSET S]
        /\ \A x, y \in S : y \in ahead[x] <=> before(y, x)
    OBVIOUS
  <2> HIDE DEF ahead, before
  <2>3. QED
    BY <2>1, <2>2 DEF Orders
<1>2. /\ Sorted(S, ahead) \in Seq(S) /\ Len(Sorted(S, ahead)) = n /\ n \in Nat
      /\ \A x \in S : \E k \in 1..n : Sorted(S, ahead)[k] = x
      /\ \A k, l \in 1..n : k < l => Sorted(S, ahead)[k] \in ahead[Sorted(S, ahead)[l]]
  <2> HIDE DEF ahead
  <2>1. QED
    BY <1>1, SortedList DEF n
<1> DEFINE s == Sorted(S, ahead)
<1> HIDE DEF n, s
<1>3. n # 0 /\ n \in 1..n
  <2>1. PICK x \in S : TRUE
    OBVIOUS
  <2>2. PICK k \in 1..n : TRUE
    BY <1>2, <2>1
  <2>3. QED
    BY <1>2, <2>2
<1>4. \A k \in 1..n : s[k] \in S
  <2>1. s \in Seq(S) /\ Len(s) = n
    BY <1>2 DEF s
  <2>2. QED
    BY <2>1
<1>5. \A x \in S : x = s[n] \/ x < s[n]
  <2> SUFFICES ASSUME NEW x \in S
               PROVE  x = s[n] \/ x < s[n]
    OBVIOUS
  <2>1. PICK k \in 1..n : s[k] = x
    BY <1>2 DEF s
  <2>2. k = n \/ k < n
    BY <1>2
  <2>3. k < n => s[k] \in ahead[s[n]]
    BY <1>2, <1>3 DEF s
  <2>4. s[n] \in S
    BY <1>3, <1>4
  <2>5. QED
    BY <2>1, <2>2, <2>3, <2>4
<1>6. \E x \in S : \A y \in S : x >= y
  <2>1. s[n] \in S
    BY <1>3, <1>4
  <2>2. ASSUME NEW y \in S
        PROVE  s[n] >= y
    <3>1. y \in Int /\ s[n] \in Int
      BY <2>1
    <3>2. QED
      BY <1>5, <3>1
  <2>3. QED
    BY <2>1, <2>2
<1>7. QED
  BY <1>6 DEF Max

-----------------------------------------------------------------------------
VideoSet ==
  [mid : STRING, name : STRING, topic : STRING, heat : Nat, composite : Nat]

\* The steps of a sum
LEMMA SumDef ==
  ASSUME NEW all, Len(all) \in Nat, NEW S, NEW field
  PROVE  \E f : /\ f[0] = 0 /\ Sum(all, S, field) = f[Len(all)]
                /\ \A n \in 1..Len(all) :
                     f[n] = f[n - 1] + (IF n \in S THEN all[n][field] ELSE 0)
<1> DEFINE N == Len(all)
           x(n) == IF n \in S THEN all[n][field] ELSE 0
           Solves(f, m) == f = [n \in 0..m |-> IF n = 0 THEN 0 ELSE f[n - 1] + x(n)]
           T == {m \in 0..N : \E f : Solves(f, m)}
           sum == CHOOSE f : Solves(f, N)
<1>1. Sum(all, S, field) = sum[N]
  BY DEF Sum
<1> HIDE DEF sum, x
<1>2. 0 \in T
  <2>1. Solves([n \in 0..0 |-> 0], 0)
    OBVIOUS
  <2> HIDE DEF Solves
  <2>2. QED
    BY <2>1
<1>3. ASSUME NEW m \in 1..N, m - 1 \in T
      PROVE  m \in T
  <2>1. PICK f : Solves(f, m - 1)
    BY <1>3
  <2> DEFINE g == [n \in 0..m |-> IF n = m THEN f[m - 1] + x(m) ELSE f[n]]
  <2>2. /\ \A n \in 0..m : g[n] = IF n = m THEN f[m - 1] + x(m) ELSE f[n]
        /\ DOMAIN g = 0..m
    OBVIOUS
  <2> HIDE DEF g
  <2>3. ASSUME NEW n \in 0..m
        PROVE  g[n] = IF n = 0 THEN 0 ELSE g[n - 1] + x(n)
    <3>1. CASE n = 0
      <4>1. n \in 0..(m - 1) /\ n # m
        BY <3>1
      <4>2. QED
        BY <2>1, <2>2, <3>1, <4>1
    <3>2. CASE n # 0 /\ n # m
      <4>1. n \in 0..(m - 1) /\ n - 1 \in 0..m /\ n - 1 # m
        BY <3>2
      <4>2. g[n] = f[n - 1] + x(n)
        BY <2>1, <2>2, <3>2, <4>1
      <4>3. QED
        BY <2>2, <3>2, <4>1, <4>2
    <3>3. CASE n = m
      <4>1. m - 1 \in 0..m /\ m - 1 # m /\ m # 0
        OBVIOUS
      <4>2. g[m - 1] = f[m - 1]
        BY <2>2, <4>1
      <4>3. QED
        BY <2>2, <3>3, <4>1, <4>2
    <3>4. QED
      BY <3>1, <3>2, <3>3
  <2>4. Solves(g, m)
    <3>1. g = [n \in 0..m |-> g[n]]
      BY DEF g
    <3>2. QED
      BY <2>3, <3>1
  <2>5. QED
    BY <2>4
<1> HIDE DEF Solves
<1>4. N \in T
  <2>1. 0..N \subseteq T
    <3> HIDE DEF T
    <3>1. QED
      BY <1>2, <1>3, AfterEachTurn
  <2>2. QED
    BY <2>1
<1>5. Solves(sum, N)
  BY <1>4 DEF sum
<1>6. sum[0] = 0 /\ \A n \in 1..N : sum[n] = sum[n - 1] + x(n)
  BY <1>5 DEF Solves
<1>7. QED
  BY <1>1, <1>6 DEF x

\* A sum of figures of videos is a natural number.
LEMMA SumType ==
  ASSUME NEW all \in Seq(VideoSet), NEW S, NEW field \in {"heat", "composite"}
  PROVE  Sum(all, S, field) \in Nat
<1>1. Len(all) \in Nat /\ \A n \in 1..Len(all) : all[n][field] \in Nat
  <2>1. Len(all) \in Nat /\ \A n \in 1..Len(all) : all[n] \in VideoSet
    OBVIOUS
  <2>2. QED
    BY <2>1 DEF VideoSet
<1>2. PICK f : /\ f[0] = 0 /\ Sum(all, S, field) = f[Len(all)]
               /\ \A n \in 1..Len(all) :
                    f[n] = f[n - 1] + (IF n \in S THEN all[n][field] ELSE 0)
  BY <1>1, SumDef
<1> DEFINE T == {n \in 0..Len(all) : f[n] \in Nat}
<1>3. 0 \in T
  BY <1>1, <1>2
<1>4. \A n \in 1..Len(all) : n - 1 \in T => n \in T
  <2> SUFFICES ASSUME NEW n \in 1..Len(all), n - 1 \in T
               PROVE  f[n] \in Nat
    OBVIOUS
  <2>1. (IF n \in S THEN all[n][field] ELSE 0) \in Nat
    BY <1>1
  <2>2. QED
    BY <1>2, <2>1
<1>5. 0..Len(all) \subseteq T
  <2> HIDE DEF T
  <2>1. QED
    BY <1>1, <1>3, <1>4, AfterEachTurn
<1>6. QED
  BY <1>1, <1>2, <1>5


-----------------------------------------------------------------------------
(* Authors: those chosen *)

\* The authors that the videos of a list have
AuthorKeys(all) == {Key(all[i]) : i \in 1..Len(all)}

\* The authors of a list of videos occur once each.
LEMMA AuthorsList ==
  ASSUME NEW all \in Seq(VideoSet)
  PROVE  /\ Authors(all) \in Seq(AuthorKeys(all)) /\ Len(Authors(all)) \in Nat
         /\ Authors(all) \in Seq(ToSet(Authors(all)))
         /\ \A i, j \in 1..Len(Authors(all)) : Authors(all)[i] = Authors(all)[j] => i = j
         /\ ToSet(Authors(all)) = {Authors(all)[i] : i \in 1..Len(Authors(all))}
         /\ ToSet(Authors(all)) \subseteq AuthorKeys(all)
         /\ IsFiniteSet(ToSet(Authors(all)))
<1> DEFINE keys == [i \in 1..Len(all) |-> Key(all[i])]
           V == AuthorKeys(all)
           authors == Authors(all)
<1>1. Len(all) \in Nat
  OBVIOUS
<1>2. keys \in Seq(V) /\ Len(keys) = Len(all)
  <2>1. \A i \in 1..Len(all) : Key(all[i]) \in V
    BY DEF AuthorKeys
  <2> HIDE DEF V
  <2>2. QED
    BY <1>1, <2>1
<1>3. Named(all) \in SUBSET (1..Len(keys))
  BY <1>2 DEF Named
<1>4. authors = Distinct(Picked(keys, Named(all)))
  BY DEF Authors
<1> HIDE DEF keys, V, authors
<1>5. Picked(keys, Named(all)) \in Seq(V)
  BY <1>2, <1>3, PickedList
<1>6. /\ authors \in Seq(V) /\ Len(authors) \in Nat
      /\ \A i, j \in 1..Len(authors) : authors[i] = authors[j] => i = j
  BY <1>4, <1>5, DistinctList
<1>7. ToSet(authors) = {authors[i] : i \in 1..Len(authors)} /\ ToSet(authors) \subseteq V
  BY <1>6, Members
<1>8. IsFiniteSet(ToSet(authors))
  <2> DEFINE f == [i \in 1..Len(authors) |-> authors[i]]
  <2>1. IsFiniteSet(1..Len(authors))
    BY <1>6, UpTo
  <2>2. f \in Surjection(1..Len(authors), ToSet(authors))
    BY <1>7 DEF Surjection
  <2> HIDE DEF f
  <2>3. QED
    BY <2>1, <2>2, FS_Surjection
<1>9. authors \in Seq(ToSet(authors))
  <2> DEFINE K == ToSet(authors)
  <2>1. /\ Len(authors) \in Nat /\ \A i \in 1..Len(authors) : authors[i] \in K
        /\ authors = [i \in 1..Len(authors) |-> authors[i]]
    BY <1>6, <1>7
  <2> HIDE DEF K
  <2>2. authors \in Seq(K)
    BY <2>1
  <2>3. QED
    BY <2>2 DEF K
<1>10. QED
  BY <1>6, <1>7, <1>8, <1>9 DEF V, authors

LEMMA OfFinite ==
  ASSUME NEW all \in Seq(VideoSet), NEW author, NEW S \in SUBSET Of(all, author)
  PROVE  IsFiniteSet(S) /\ Cardinality(S) \in Nat
<1>1. Len(all) \in Nat
  OBVIOUS
<1>2. S \in SUBSET (1..Len(all))
  BY DEF Of, Named
<1>3. QED
  BY <1>1, <1>2, PlacesFinite

LEMMA FigureType ==
  ASSUME NEW all \in Seq(VideoSet), NEW author, NEW of \in {"heat", "composite", "count"}
  PROVE  Figure(all, author, of) \in Nat
<1>1. CASE of = "count"
  BY <1>1, OfFinite DEF Figure
<1>2. CASE of # "count"
  <2>1. of \in {"heat", "composite"}
    BY <1>2
  <2>2. Sum(all, Of(all, author), of) \in Nat
    BY <2>1, SumType
  <2>3. QED
    BY <1>2, <2>2 DEF Figure
<1>3. QED
  BY <1>1, <1>2

LEMMA PercentType ==
  ASSUME NEW x \in Int, NEW max \in Int
  PROVE  Percent(x, max) \in Int
<1>1. CASE max <= 0 \/ x <= 0 \/ x > max
  BY <1>1 DEF Percent
<1>2. CASE ~(max <= 0) /\ ~(x <= 0) /\ ~(x > max)
  <2>1. (x * 100) \in Int /\ max > 0
    BY <1>2
  <2>2. ((x * 100) \div max) \in Int
    BY <2>1
  <2>3. QED
    BY <1>2, <2>2 DEF Percent
<1>3. QED
  BY <1>1, <1>2

LEMMA PopularityType ==
  ASSUME NEW all \in Seq(VideoSet), NEW author \in ToSet(Authors(all))
  PROVE  Popularity(all, author) \in Int
<1> DEFINE K == ToSet(Authors(all))
           figures(of) == {Figure(all, a, of) : a \in K}
           share(of) == Percent(Figure(all, author, of), Max(figures(of)))
<1>1. IsFiniteSet(K)
  BY AuthorsList
<1>2. ASSUME NEW of \in {"heat", "composite", "count"}
      PROVE  share(of) \in Int
  <2>1. figures(of) \subseteq Int
    BY FigureType
  <2>2. IsFiniteSet(figures(of))
    <3> DEFINE f == [a \in K |-> Figure(all, a, of)]
    <3>1. f \in Surjection(K, figures(of))
      BY DEF Surjection
    <3> HIDE DEF f, figures
    <3>2. QED
      BY <1>1, <3>1, FS_Surjection
  <2>3. Figure(all, author, of) \in figures(of)
    OBVIOUS
  <2> HIDE DEF figures
  <2>4. Max(figures(of)) \in Int
    BY <2>1, <2>2, <2>3, Greatest
  <2>5. Figure(all, author, of) \in Int
    BY FigureType
  <2>6. QED
    BY <2>4, <2>5, PercentType
<1>3. Popularity(all, author) = 40 * share("heat") + 30 * share("composite") + 20 * share("count")
  BY DEF Popularity
<1> HIDE DEF share
<1>4. share("heat") \in Int /\ share("composite") \in Int /\ share("count") \in Int
  BY <1>2
<1>5. QED
  BY <1>3, <1>4

\* The first of some authors by their figures
LEMMA FirstRanked ==
  ASSUME NEW V, NEW s \in Seq(V), NEW n \in Nat, NEW count \in Nat, NEW figures,
         \A a \in ToSet(s) : figures[a] \in Figures(n)
  PROVE  /\ Upto(count, Ranked(s, figures)) \in Seq(V)
         /\ ToSet(Upto(count, Ranked(s, figures))) \subseteq ToSet(s)
<1> DEFINE r == Ranked(s, figures)
           u == Upto(count, r)
<1>1. \A i \in 1..Len(s) : s[i] \in ToSet(s)
  BY Members
<1>2. r \in Seq(V) /\ ToSet(r) = ToSet(s)
  <2>1. \A i \in 1..Len(s) : figures[s[i]] \in Figures(n)
    BY <1>1
  <2>2. QED
    BY <2>1, RankedList
<1> HIDE DEF r, u
<1>3. /\ u \in Seq(V)
      /\ \A i \in 1..Len(u) : i \in 1..Len(r) /\ u[i] = r[i]
  BY <1>2, UptoList DEF u
<1>4. ToSet(u) = {u[i] : i \in 1..Len(u)} /\ ToSet(r) = {r[i] : i \in 1..Len(r)}
  BY <1>2, <1>3, Members
<1>5. QED
  BY <1>2, <1>3, <1>4 DEF u, r

LEMMA OverallType ==
  ASSUME NEW all \in Seq(VideoSet), TotalCount \in Nat
  PROVE  /\ Overall(all) \in Seq(ToSet(Authors(all)))
         /\ ToSet(Overall(all)) \subseteq ToSet(Authors(all))
<1> DEFINE K == ToSet(Authors(all))
           figures == [a \in K |-> <<Popularity(all, a), Figure(all, a, "heat"),
                                     Figure(all, a, "composite"), Figure(all, a, "count")>>]
<1>1. Authors(all) \in Seq(K)
  BY AuthorsList
<1>2. \A a \in K : figures[a] \in Figures(4)
  <2> SUFFICES ASSUME NEW a \in K
               PROVE  <<Popularity(all, a), Figure(all, a, "heat"),
                        Figure(all, a, "composite"), Figure(all, a, "count")>> \in Figures(4)
    OBVIOUS
  <2>1. /\ Popularity(all, a) \in Int /\ Figure(all, a, "heat") \in Int
        /\ Figure(all, a, "composite") \in Int /\ Figure(all, a, "count") \in Int
    BY PopularityType, FigureType
  <2>2. QED
    BY <2>1 DEF Figures
<1>3. Overall(all) = Upto(TotalCount, Ranked(Authors(all), figures))
  BY DEF Overall
<1> HIDE DEF figures
<1>4. Upto(TotalCount, Ranked(Authors(all), figures)) \in Seq(K)
  BY <1>1, <1>2, FirstRanked
<1>5. ToSet(Upto(TotalCount, Ranked(Authors(all), figures))) \subseteq K
  BY <1>1, <1>2, FirstRanked
<1>6. QED
  BY <1>3, <1>4, <1>5

LEMMA OfTopicType ==
  ASSUME NEW all \in Seq(VideoSet), NEW topic, PerTopic \in Nat
  PROVE  /\ OfTopic(all, topic) \in Seq(ToSet(Authors(all)))
         /\ ToSet(OfTopic(all, topic)) \subseteq ToSet(Authors(all))
<1> DEFINE K == ToSet(Authors(all))
           figures == [a \in K |-> <<Cardinality(About(all, a, topic)),
                                     Sum(all, About(all, a, topic), "heat"),
                                     Popularity(all, a)>>]
           places == {i \in 1..Len(Authors(all)) : About(all, Authors(all)[i], topic) # {}}
           writers == Picked(Authors(all), places)
<1>1. Authors(all) \in Seq(K)
  BY AuthorsList
<1>2. \A a \in K : figures[a] \in Figures(3)
  <2> SUFFICES ASSUME NEW a \in K
               PROVE  <<Cardinality(About(all, a, topic)),
                        Sum(all, About(all, a, topic), "heat"), Popularity(all, a)>> \in Figures(3)
    OBVIOUS
  <2>1. Cardinality(About(all, a, topic)) \in Nat
    <3>1. About(all, a, topic) \in SUBSET Of(all, a)
      BY DEF About
    <3>2. QED
      BY <3>1, OfFinite
  <2>2. Sum(all, About(all, a, topic), "heat") \in Nat
    BY SumType
  <2>3. Popularity(all, a) \in Int
    BY PopularityType
  <2>4. QED
    BY <2>1, <2>2, <2>3 DEF Figures
<1>3. OfTopic(all, topic) = Upto(PerTopic, Ranked(writers, figures))
  BY DEF OfTopic
<1>4. writers \in Seq(K) /\ ToSet(writers) \subseteq K
  <2>1. places \in SUBSET (1..Len(Authors(all)))
    OBVIOUS
  <2> HIDE DEF places, K
  <2>2. writers \in Seq(K)
    BY <1>1, <2>1, PickedList
  <2>3. QED
    BY <2>2, Members
<1> HIDE DEF figures, writers
<1>5. /\ OfTopic(all, topic) \in Seq(K)
      /\ ToSet(OfTopic(all, topic)) \subseteq ToSet(writers)
  BY <1>2, <1>3, <1>4, FirstRanked
<1>6. QED
  BY <1>4, <1>5

\* The best overall and those named under a topic
NamedAuthors(all) ==
  ToSet(Overall(all)) \cup UNION {ToSet(OfTopic(all, t)) : t \in ToSet(Topics)}

\* The steps in which lists are joined
LEMMA FlattenSeqDef ==
  ASSUME NEW seqs, NEW N \in Nat, Len(seqs) = N, N # 0
  PROVE  \E f : /\ f[1] = seqs[1] /\ FlattenSeq(seqs) = f[N]
                /\ \A n \in 2..N : f[n] = f[n - 1] \o seqs[n]
<1> DEFINE next(s, n) == s \o seqs[n]
           Solves(f, m) == f = [n \in 1..m |-> IF n = 1 THEN seqs[n] ELSE next(f[n - 1], n)]
           T == {m \in 0..N : m = 0 \/ \E f : Solves(f, m)}
           joined == CHOOSE f : Solves(f, N)
<1>1. FlattenSeq(seqs) = joined[N]
  BY DEF FlattenSeq
<1> HIDE DEF joined, next
<1>2. 0 \in T
  OBVIOUS
<1>3. ASSUME NEW m \in 1..N, m - 1 \in T
      PROVE  m \in T
  <2>1. CASE m = 1
    <3>1. Solves([n \in 1..1 |-> seqs[n]], 1)
      OBVIOUS
    <3> HIDE DEF Solves
    <3>2. QED
      BY <2>1, <3>1
  <2>2. CASE m # 1
    <3>1. PICK f : Solves(f, m - 1)
      BY <1>3, <2>2
    <3> DEFINE g == [n \in 1..m |-> IF n = m THEN next(f[m - 1], m) ELSE f[n]]
    <3>2. /\ \A n \in 1..m : g[n] = IF n = m THEN next(f[m - 1], m) ELSE f[n]
          /\ DOMAIN g = 1..m
      OBVIOUS
    <3> HIDE DEF g
    <3>3. ASSUME NEW n \in 1..m
          PROVE  g[n] = IF n = 1 THEN seqs[n] ELSE next(g[n - 1], n)
      <4>1. CASE n = 1
        <5>1. n \in 1..(m - 1) /\ n # m
          BY <2>2, <4>1
        <5>2. QED
          BY <3>1, <3>2, <4>1, <5>1
      <4>2. CASE n # 1 /\ n # m
        <5>1. n \in 1..(m - 1) /\ n - 1 \in 1..m /\ n - 1 # m
          BY <4>2
        <5>2. g[n] = next(f[n - 1], n)
          BY <3>1, <3>2, <4>2, <5>1
        <5>3. QED
          BY <3>2, <4>2, <5>1, <5>2
      <4>3. CASE n = m
        <5>1. m - 1 \in 1..m /\ m - 1 # m
          BY <2>2
        <5>2. g[m - 1] = f[m - 1]
          BY <3>2, <5>1
        <5>3. QED
          BY <2>2, <3>2, <4>3, <5>1, <5>2
      <4>4. QED
        BY <4>1, <4>2, <4>3
    <3>4. Solves(g, m)
      <4>1. g = [n \in 1..m |-> g[n]]
        BY DEF g
      <4>2. QED
        BY <3>3, <4>1
    <3> HIDE DEF Solves
    <3>5. QED
      BY <3>4
  <2>3. QED
    BY <2>1, <2>2
<1> HIDE DEF Solves
<1>4. N \in T
  <2>1. 0..N \subseteq T
    <3> HIDE DEF T
    <3>1. QED
      BY <1>2, <1>3, AfterEachTurn
  <2>2. QED
    BY <2>1
<1>5. Solves(joined, N)
  BY <1>4 DEF joined
<1>6. joined[1] = seqs[1] /\ \A n \in 2..N : joined[n] = next(joined[n - 1], n)
  BY <1>5 DEF Solves
<1>7. QED
  BY <1>1, <1>6 DEF next

\* The elements of some lists
Elements(seqs) == UNION {ToSet(seqs[n]) : n \in 1..Len(seqs)}

\* Lists joined have the elements of each of them.
LEMMA FlattenSeqList ==
  ASSUME NEW V, NEW N \in Nat, NEW seqs, Len(seqs) = N, N = 0 => seqs = <<>>,
         \A n \in 1..N : seqs[n] \in Seq(V)
  PROVE  /\ FlattenSeq(seqs) \in Seq(V)
         /\ ToSet(FlattenSeq(seqs)) = Elements(seqs)
<1>1. CASE N = 0
  <2>1. FlattenSeq(seqs) = <<>>
    BY <1>1 DEF FlattenSeq
  <2>2. <<>> \in Seq(V) /\ ToSet(<<>>) = {}
    BY DEF ToSet
  <2>3. 1..N = {}
    BY <1>1
  <2>4. QED
    BY <2>1, <2>2, <2>3 DEF Elements
<1>2. CASE N # 0
  <2> DEFINE upto(n) == UNION {ToSet(seqs[i]) : i \in 1..n}
  <2>1. PICK f : /\ f[1] = seqs[1] /\ FlattenSeq(seqs) = f[N]
                 /\ \A n \in 2..N : f[n] = f[n - 1] \o seqs[n]
    BY <1>2, FlattenSeqDef
  <2> DEFINE T == {n \in 0..N : n # 0 => (f[n] \in Seq(V) /\ ToSet(f[n]) = upto(n))}
  <2>2. 0 \in T
    OBVIOUS
  <2>3. ASSUME NEW n \in 1..N, n - 1 \in T
        PROVE  n \in T
    <3>1. n \in 0..N
      OBVIOUS
    <3>2. CASE n = 1
      <4>1. upto(1) = ToSet(seqs[1])
        <5>1. \A i : i \in 1..1 <=> i = 1
          OBVIOUS
        <5>2. QED
          BY <5>1
      <4> HIDE DEF upto
      <4>2. QED
        BY <2>1, <3>1, <3>2, <4>1
    <3>3. CASE n # 1
      <4> DEFINE s == f[n - 1]
                 t == seqs[n]
      <4>1. n - 1 # 0 /\ n \in 2..N
        BY <3>3
      <4>2. s \in Seq(V) /\ t \in Seq(V) /\ ToSet(s) = upto(n - 1)
        BY <2>3, <4>1
      <4>3. f[n] = s \o t
        BY <2>1, <4>1
      <4>4. upto(n) = upto(n - 1) \cup ToSet(t)
        <5>1. \A i : i \in 1..n <=> i \in 1..(n - 1) \/ i = n
          OBVIOUS
        <5>2. QED
          BY <5>1
      <4> HIDE DEF s, t, upto
      <4>5. s \o t \in Seq(V) /\ ToSet(s \o t) = ToSet(s) \cup ToSet(t)
        BY <4>2, MembersJoined
      <4>6. QED
        BY <3>1, <4>2, <4>3, <4>4, <4>5
    <3>4. QED
      BY <3>2, <3>3
  <2>4. 0..N \subseteq T
    <3> HIDE DEF T
    <3>1. QED
      BY <2>2, <2>3, AfterEachTurn
  <2>5. N \in 0..N
    OBVIOUS
  <2> HIDE DEF upto
  <2>6. f[N] \in Seq(V) /\ ToSet(f[N]) = upto(N)
    BY <1>2, <2>4, <2>5
  <2>7. QED
    BY <2>1, <2>6 DEF upto, Elements
<1>3. QED
  BY <1>1, <1>2

\* The keys selected are those of the best overall and of every topic.
LEMMA SelectedKeysList ==
  ASSUME NEW all \in Seq(VideoSet), Topics \in Seq(STRING), TotalCount \in Nat, PerTopic \in Nat
  PROVE  /\ SelectedKeys(all) \in Seq(ToSet(Authors(all)))
         /\ ToSet(SelectedKeys(all)) = NamedAuthors(all)
<1> DEFINE N == Len(Topics)
           K == ToSet(Authors(all))
           lists == [n \in 1..N |-> OfTopic(all, Topics[n])]
           overall == Overall(all)
           joined == FlattenSeq(lists)
<1>1. N \in Nat /\ ToSet(Topics) = {Topics[n] : n \in 1..N}
  BY Members
<1>2. overall \in Seq(K) /\ \A n \in 1..N : OfTopic(all, Topics[n]) \in Seq(K)
  BY OverallType, OfTopicType
<1>3. SelectedKeys(all) = overall \o joined
  BY DEF SelectedKeys
<1> HIDE DEF N, K, overall
<1>4. joined \in Seq(K) /\ ToSet(joined) = UNION {ToSet(OfTopic(all, t)) : t \in ToSet(Topics)}
  <2>1. /\ Len(lists) = N /\ (N = 0 => lists = <<>>)
        /\ \A n \in 1..N : lists[n] = OfTopic(all, Topics[n])
    BY <1>1
  <2> HIDE DEF lists
  <2>2. \A n \in 1..N : lists[n] \in Seq(K)
    BY <1>2, <2>1
  <2>3. FlattenSeq(lists) \in Seq(K) /\ ToSet(FlattenSeq(lists)) = Elements(lists)
    BY <1>1, <2>1, <2>2, FlattenSeqList
  <2>4. Elements(lists) = UNION {ToSet(OfTopic(all, t)) : t \in ToSet(Topics)}
    BY <1>1, <2>1 DEF Elements
  <2>5. QED
    BY <2>3, <2>4
<1> HIDE DEF joined
<1>5. overall \o joined \in Seq(K) /\ ToSet(overall \o joined) = ToSet(overall) \cup ToSet(joined)
  BY <1>2, <1>4, MembersJoined
<1>6. QED
  BY <1>3, <1>4, <1>5 DEF NamedAuthors, K, overall

LEMMA RankedOnce ==
  ASSUME NEW V, NEW s \in Seq(V), NEW n \in Nat, NEW figures,
         \A a \in V : figures[a] \in Figures(n),
         \A i, j \in 1..Len(s) : s[i] = s[j] => i = j
  PROVE  LET r == Ranked(s, figures)
         IN /\ r \in Seq(V) /\ Len(r) = Len(s) /\ ToSet(r) = ToSet(s)
            /\ \A i, j \in 1..Len(s) : r[i] = r[j] => i = j
            /\ \A i, j \in 1..Len(s) : i < j =>
                 Exceeds(figures[r[i]], figures[r[j]]) \/ figures[r[i]] = figures[r[j]]
<1>1. \A i \in 1..Len(s) : figures[s[i]] \in Figures(n)
  OBVIOUS
<1> DEFINE r == Ranked(s, figures)
<1>2. r \in Seq(V) /\ Len(r) = Len(s) /\ ToSet(r) = ToSet(s)
  BY <1>1, RankedList
<1>3. \A i, j \in 1..Len(s) : r[i] = r[j] => i = j
  BY <1>1, RankedList
<1>4. ASSUME NEW i \in 1..Len(s), NEW j \in 1..Len(s), i < j
      PROVE  Exceeds(figures[r[i]], figures[r[j]]) \/ figures[r[i]] = figures[r[j]]
  BY <1>1, <1>4, RankedList, SMTT(20)
<1> HIDE DEF r
<1>5. QED
  BY <1>2, <1>3, <1>4 DEF r

\* The authors that are profiled: each of those named once, most popular first.
LEMMA Aggregates ==
  ASSUME NEW all \in Seq(VideoSet), Topics \in Seq(STRING), TotalCount \in Nat, PerTopic \in Nat
  PROVE  LET chosen == SelectedAggregates(all)
         IN /\ chosen \in Seq(ToSet(Authors(all))) /\ Len(chosen) \in Nat
            /\ ToSet(chosen) = NamedAuthors(all)
            /\ Len(chosen) = Cardinality(NamedAuthors(all))
            /\ \A i, j \in 1..Len(chosen) : i < j =>
                 Popularity(all, chosen[i]) >= Popularity(all, chosen[j])
<1> DEFINE K == ToSet(Authors(all))
           figures == [a \in K |-> <<Popularity(all, a), Figure(all, a, "heat"),
                                     Figure(all, a, "count")>>]
           d == Distinct(SelectedKeys(all))
           r == Ranked(d, figures)
<1>1. SelectedAggregates(all) = r
  BY DEF SelectedAggregates, ByPopularity
<1>2. \A a \in K : /\ figures[a] \in Figures(3) /\ figures[a][1] = Popularity(all, a)
                   /\ Popularity(all, a) \in Int
  <2> SUFFICES ASSUME NEW a \in K
               PROVE  /\ <<Popularity(all, a), Figure(all, a, "heat"),
                           Figure(all, a, "count")>> \in Figures(3)
                      /\ Popularity(all, a) \in Int
    OBVIOUS
  <2>1. /\ Popularity(all, a) \in Int /\ Figure(all, a, "heat") \in Int
        /\ Figure(all, a, "count") \in Int
    BY PopularityType, FigureType
  <2>2. QED
    BY <2>1 DEF Figures
<1> HIDE DEF K
<1>3. SelectedKeys(all) \in Seq(K) /\ ToSet(SelectedKeys(all)) = NamedAuthors(all)
  BY SelectedKeysList DEF K
<1>4. /\ d \in Seq(K) /\ Len(d) \in Nat /\ ToSet(d) = NamedAuthors(all)
      /\ \A i, j \in 1..Len(d) : d[i] = d[j] => i = j
  BY <1>3, DistinctList
<1> HIDE DEF figures, d
<1>5. /\ r \in Seq(K) /\ Len(r) = Len(d) /\ ToSet(r) = ToSet(d)
      /\ \A i, j \in 1..Len(d) : r[i] = r[j] => i = j
      /\ \A i, j \in 1..Len(d) : i < j =>
           Exceeds(figures[r[i]], figures[r[j]]) \/ figures[r[i]] = figures[r[j]]
  <2>1. 3 \in Nat /\ \A a \in K : figures[a] \in Figures(3)
    BY <1>2
  <2>2. /\ Ranked(d, figures) \in Seq(K) /\ Len(Ranked(d, figures)) = Len(d)
        /\ ToSet(Ranked(d, figures)) = ToSet(d)
    BY <1>4, <2>1, RankedOnce
  <2>3. \A i, j \in 1..Len(d) : r[i] = r[j] => i = j
    BY <1>4, <2>1, RankedOnce
  <2>4. \A i, j \in 1..Len(d) : i < j =>
          Exceeds(figures[r[i]], figures[r[j]]) \/ figures[r[i]] = figures[r[j]]
    BY <1>4, <2>1, RankedOnce
  <2>5. QED
    BY <2>2, <2>3, <2>4
<1> HIDE DEF r
<1>6. Len(r) = Cardinality(NamedAuthors(all))
  <2> DEFINE f == [i \in 1..Len(r) |-> r[i]]
             S == NamedAuthors(all)
  <2>1. S = {r[i] : i \in 1..Len(r)}
    BY <1>4, <1>5, Members
  <2> DEFINE n == Len(r)
  <2>2. /\ f \in [1..n -> S] /\ n \in Nat
        /\ \A k, l \in 1..n : f[k] = f[l] => k = l
        /\ \A x \in S : \E k \in 1..n : f[k] = x
    BY <1>4, <1>5, <2>1
  <2> HIDE DEF f, S, n
  <2>3. Cardinality(S) = n
    BY <2>2, ListOfSet
  <2>4. QED
    BY <2>3 DEF S, n
<1>7. ASSUME NEW i \in 1..Len(r), NEW j \in 1..Len(r), i < j
      PROVE  Popularity(all, r[i]) >= Popularity(all, r[j])
  <2>1. r[i] \in K /\ r[j] \in K
    BY <1>5
  <2>2. /\ Len(figures[r[i]]) = 3 /\ figures[r[i]][1] = Popularity(all, r[i])
        /\ Popularity(all, r[i]) \in Int
        /\ figures[r[j]][1] = Popularity(all, r[j]) /\ Popularity(all, r[j]) \in Int
    BY <1>2, <2>1 DEF Figures
  <2>3. CASE figures[r[i]] = figures[r[j]]
    BY <2>2, <2>3
  <2>4. CASE Exceeds(figures[r[i]], figures[r[j]])
    <3>1. PICK m \in 1..3 : /\ figures[r[i]][m] > figures[r[j]][m]
                            /\ \A h \in 1..(m - 1) : figures[r[i]][h] = figures[r[j]][h]
      BY <2>2, <2>4 DEF Exceeds
    <3>2. m = 1 \/ 1 \in 1..(m - 1)
      OBVIOUS
    <3>3. CASE m = 1
      <4>1. figures[r[i]][1] > figures[r[j]][1]
        BY <3>1, <3>3
      <4>2. QED
        BY <2>2, <4>1
    <3>4. CASE 1 \in 1..(m - 1)
      <4>1. figures[r[i]][1] = figures[r[j]][1]
        BY <3>1, <3>4
      <4>2. QED
        BY <2>2, <4>1
    <3>5. QED
      BY <3>2, <3>3, <3>4
  <2>5. Exceeds(figures[r[i]], figures[r[j]]) \/ figures[r[i]] = figures[r[j]]
    BY <1>5, <1>7
  <2>6. QED
    BY <2>3, <2>4, <2>5
<1>8. QED
  BY <1>1, <1>4, <1>5, <1>6, <1>7 DEF K


-----------------------------------------------------------------------------
(* Authors: the analysis *)

\* The rest of PopularAuthors, under names that CandidateSearch leaves free
CONSTANTS
  Insights, Uploaded, AuthorPageSize, AuthorMaxPages, AuthorBvids, AuthorRuns

VARIABLES queue, authorPage, listed, videos, authorRuns

Author == INSTANCE PopularAuthors WITH
  page <- authorPage, runs <- authorRuns, Bvids <- AuthorBvids,
  PageSize <- AuthorPageSize, MaxPages <- AuthorMaxPages, Runs <- AuthorRuns

\* The instance's operators are those of AuthorRanking.
LEMMA SameLists ==
  ASSUME NEW all
  PROVE  /\ Author!SelectedAggregates(all) = SelectedAggregates(all)
         /\ Author!Authors(all) = Authors(all)
<1>1. \A s, figures : Author!Ranked(s, figures) = Ranked(s, figures)
  BY DEF Author!Ranked, Author!Exceeds, Author!Sorted, Author!Cardinality, Author!IsFiniteSet,
         Ranked, Exceeds, Sorted, Cardinality, IsFiniteSet
<1>2. \A s : Author!Distinct(s) = Distinct(s) /\ Author!ToSet(s) = ToSet(s)
  BY DEF Author!Distinct, Author!Picked, Author!Nth, Author!Cardinality, Author!IsFiniteSet,
         Author!ToSet, Distinct, Picked, Nth, Cardinality, IsFiniteSet, ToSet
<1>3. Author!Authors(all) = Authors(all)
  BY DEF Author!Authors, Author!Named, Author!Key,
         Author!Distinct, Author!Picked, Author!Nth, Author!Cardinality, Author!IsFiniteSet,
         Authors, Named, Key, Distinct, Picked, Nth, Cardinality, IsFiniteSet
<1>4. \A author, of : Author!Figure(all, author, of) = Figure(all, author, of)
  BY DEF Author!Figure, Author!Sum, Author!Of, Author!Named, Author!Key, Author!Cardinality,
         Author!IsFiniteSet, Figure, Sum, Of, Named, Key, Cardinality, IsFiniteSet
<1>5. \A S : Author!Max(S) = Max(S)
  BY DEF Author!Max, Max
<1>6. \A author : Author!Popularity(all, author) = Popularity(all, author)
  <2> SUFFICES ASSUME NEW author
               PROVE  Author!Popularity(all, author) = Popularity(all, author)
    OBVIOUS
  <2> DEFINE K == ToSet(Authors(all))
             there(of) == {Author!Figure(all, a, of) : a \in K}
             here(of) == {Figure(all, a, of) : a \in K}
  <2>1. Author!ToSet(Author!Authors(all)) = K
    BY <1>2, <1>3
  <2>2. /\ there("heat") = here("heat") /\ there("composite") = here("composite")
        /\ there("count") = here("count")
    BY <1>4
  <2> HIDE DEF K
  <2>3. Author!Popularity(all, author) =
          40 * Author!Percent(Author!Figure(all, author, "heat"), Author!Max(there("heat")))
          + 30 * Author!Percent(Author!Figure(all, author, "composite"),
                                Author!Max(there("composite")))
          + 20 * Author!Percent(Author!Figure(all, author, "count"), Author!Max(there("count")))
    BY <2>1 DEF Author!Popularity
  <2>4. Popularity(all, author) =
          40 * Percent(Figure(all, author, "heat"), Max(here("heat")))
          + 30 * Percent(Figure(all, author, "composite"), Max(here("composite")))
          + 20 * Percent(Figure(all, author, "count"), Max(here("count")))
    BY DEF Popularity, K
  <2>5. \A x, max : Author!Percent(x, max) = Percent(x, max)
    BY DEF Author!Percent, Percent
  <2> HIDE DEF here, there
  <2>6. QED
    BY <1>4, <1>5, <2>2, <2>3, <2>4, <2>5
<1>7. \A s, n : Author!Upto(n, s) = Upto(n, s)
  BY DEF Author!Upto, Upto
<1>8. Author!Overall(all) = Overall(all)
  <2> DEFINE K == ToSet(Authors(all))
             there == [a \in K |->
                         <<Author!Popularity(all, a), Author!Figure(all, a, "heat"),
                           Author!Figure(all, a, "composite"), Author!Figure(all, a, "count")>>]
             here == [a \in K |-> <<Popularity(all, a), Figure(all, a, "heat"),
                                    Figure(all, a, "composite"), Figure(all, a, "count")>>]
  <2>1. there = here
    BY <1>4, <1>6
  <2>2. Author!Overall(all) = Author!Upto(TotalCount, Author!Ranked(Authors(all), there))
    BY <1>2, <1>3 DEF Author!Overall
  <2>3. Overall(all) = Upto(TotalCount, Ranked(Authors(all), here))
    BY DEF Overall
  <2> HIDE DEF here, there
  <2>4. QED
    BY <1>1, <1>7, <2>1, <2>2, <2>3
<1>9. \A topic : Author!OfTopic(all, topic) = OfTopic(all, topic)
  <2> SUFFICES ASSUME NEW topic
               PROVE  Author!OfTopic(all, topic) = OfTopic(all, topic)
    OBVIOUS
  <2>1. \A a : Author!About(all, a, topic) = About(all, a, topic)
    BY DEF Author!About, Author!Of, Author!Named, Author!Key, About, Of, Named, Key
  <2>2. \A S : Author!Cardinality(S) = Cardinality(S)
    BY DEF Author!Cardinality, Author!IsFiniteSet, Cardinality, IsFiniteSet
  <2>3. \A S, field : Author!Sum(all, S, field) = Sum(all, S, field)
    BY DEF Author!Sum, Sum
  <2>4. \A list, places : Author!Picked(list, places) = Picked(list, places)
    BY DEF Author!Picked, Author!Nth, Author!Cardinality, Author!IsFiniteSet,
           Picked, Nth, Cardinality, IsFiniteSet
  <2> DEFINE authors == Authors(all)
             K == ToSet(authors)
             there == [a \in K |->
                         <<Author!Cardinality(Author!About(all, a, topic)),
                           Author!Sum(all, Author!About(all, a, topic), "heat"),
                           Author!Popularity(all, a)>>]
             here == [a \in K |-> <<Cardinality(About(all, a, topic)),
                                    Sum(all, About(all, a, topic), "heat"), Popularity(all, a)>>]
             places == {i \in 1..Len(authors) : About(all, authors[i], topic) # {}}
  <2>5. there = here
    BY <1>6, <2>1, <2>2, <2>3
  <2>6. Author!OfTopic(all, topic) =
          Author!Upto(PerTopic, Author!Ranked(Author!Picked(authors,
            {i \in 1..Len(authors) : Author!About(all, authors[i], topic) # {}}), there))
    BY <1>2, <1>3 DEF Author!OfTopic
  <2>7. {i \in 1..Len(authors) : Author!About(all, authors[i], topic) # {}} = places
    BY <2>1
  <2>8. OfTopic(all, topic) = Upto(PerTopic, Ranked(Picked(authors, places), here))
    BY DEF OfTopic
  <2> HIDE DEF here, there, places, authors
  <2>9. QED
    BY <1>1, <1>7, <2>4, <2>5, <2>6, <2>7, <2>8
<1>10. Author!SelectedKeys(all) = SelectedKeys(all)
  <2> DEFINE there == [n \in 1..Len(Topics) |-> Author!OfTopic(all, Topics[n])]
             here == [n \in 1..Len(Topics) |-> OfTopic(all, Topics[n])]
  <2>1. there = here
    BY <1>9
  <2>2. \A s : Author!FlattenSeq(s) = FlattenSeq(s)
    BY DEF Author!FlattenSeq, FlattenSeq
  <2>3. Author!SelectedKeys(all) = Author!Overall(all) \o Author!FlattenSeq(there)
    BY DEF Author!SelectedKeys
  <2>4. SelectedKeys(all) = Overall(all) \o FlattenSeq(here)
    BY DEF SelectedKeys
  <2> HIDE DEF here, there
  <2>5. QED
    BY <1>8, <2>1, <2>2, <2>3, <2>4
<1>11. Author!SelectedAggregates(all) = SelectedAggregates(all)
  <2> DEFINE K == ToSet(Authors(all))
             there == [a \in K |->
                         <<Author!Popularity(all, a), Author!Figure(all, a, "heat"),
                           Author!Figure(all, a, "count")>>]
             here == [a \in K |-> <<Popularity(all, a), Figure(all, a, "heat"),
                                    Figure(all, a, "count")>>]
  <2>1. there = here
    BY <1>4, <1>6
  <2>2. Author!SelectedAggregates(all) =
          Author!Ranked(Author!Distinct(Author!SelectedKeys(all)), there)
    BY <1>2, <1>3 DEF Author!SelectedAggregates, Author!ByPopularity
  <2>3. SelectedAggregates(all) = Ranked(Distinct(SelectedKeys(all)), here)
    BY DEF SelectedAggregates, ByPopularity
  <2> HIDE DEF here, there
  <2>4. QED
    BY <1>1, <1>2, <1>10, <2>1, <2>2, <2>3
<1>12. QED
  BY <1>3, <1>11

VideoTexts == {"detail", "candidate", "model"}
Described == [bvid : AuthorBvids, text : VideoTexts]

AuthorTypes ==
  /\ doing \in {"idle", "page", "detail", "ask", "done", "failed"}
  /\ insights \in Insights \cup {<<>>}
  /\ authorPage \in [read : 0..AuthorMaxPages, of : 1..AuthorMaxPages]
  /\ listed \in Seq(AuthorBvids)
  /\ videos \in Seq([bvid : AuthorBvids, text : {"detail", "candidate"}])
  /\ queue \in Seq(ToSet(Authors(insights)))
  /\ profiles \in Seq([author : ToSet(Authors(insights)), videos : Seq(Described)])
  /\ authorRuns \in 0..AuthorRuns

\* Those profiled and those still to be profiled are the authors chosen, in
\* their order; what is at hand of an author has no more videos than asked for.
ProfilesInv ==
  LET chosen == SelectedAggregates(insights)
      n == Len(profiles)
  IN /\ doing \in {"page", "detail", "ask", "done"} =>
          /\ n + Len(queue) = Len(chosen)
          /\ \A i \in 1..n : profiles[i].author = chosen[i]
          /\ \A i \in 1..Len(queue) : queue[i] = chosen[n + i]
     /\ doing \in {"page", "detail", "ask"} => queue # <<>>
     /\ doing = "done" => queue = <<>>
     /\ \A i \in 1..n : Len(profiles[i].videos) <= VideoLimit
     /\ doing = "page" => videos = <<>>
     /\ doing = "detail" => Len(listed) <= VideoLimit /\ Len(videos) <= Len(listed)
     /\ doing = "ask" => Len(videos) <= VideoLimit

AuthorInv == AuthorTypes /\ ProfilesInv

LEMMA AuthorBounds ==
  ASSUME Author!Assumption
  PROVE  /\ Insights \subseteq Seq(VideoSet) /\ Topics \in Seq(STRING)
         /\ TotalCount \in Nat /\ PerTopic \in Nat /\ VideoLimit \in Nat /\ AuthorRuns \in Nat
         /\ AuthorPageSize \in Nat \ {0} /\ AuthorMaxPages \in Nat \ {0}
         /\ Uploaded \subseteq Seq(AuthorBvids)
BY DEF Author!Assumption, VideoSet

LEMMA AuthorsChosen ==
  ASSUME Author!Assumption, NEW all \in Insights \cup {<<>>}
  PROVE  LET chosen == SelectedAggregates(all)
         IN /\ all \in Seq(VideoSet)
            /\ chosen \in Seq(ToSet(Authors(all))) /\ Len(chosen) \in Nat
            /\ chosen = Author!SelectedAggregates(all)
            /\ ToSet(chosen) = NamedAuthors(all)
            /\ Len(chosen) = Cardinality(NamedAuthors(all))
            /\ \A i, j \in 1..Len(chosen) : i < j =>
                 Popularity(all, chosen[i]) >= Popularity(all, chosen[j])
<1>1. all \in Seq(VideoSet)
  <2>1. Insights \subseteq Seq(VideoSet) /\ <<>> \in Seq(VideoSet)
    BY AuthorBounds
  <2>2. QED
    BY <2>1
<1>2. QED
  BY <1>1, AuthorBounds, Aggregates, SameLists

LEMMA AuthorInit ==
  ASSUME Author!Assumption, Author!Init
  PROVE  AuthorInv
<1>1. /\ doing = "idle" /\ insights = <<>> /\ queue = <<>> /\ authorPage = [read |-> 0, of |-> 1]
      /\ listed = <<>> /\ videos = <<>> /\ profiles = <<>> /\ authorRuns = AuthorRuns
  BY DEF Author!Init
<1>2. AuthorTypes
  BY <1>1, AuthorBounds DEF AuthorTypes
<1>3. ProfilesInv
  BY <1>1 DEF ProfilesInv
<1>4. QED
  BY <1>2, <1>3 DEF AuthorInv

LEMMA AuthorsOpened ==
  ASSUME NEW authors
  PROVE  /\ authors = <<>> => Author!Opening(authors) = "done"
         /\ authors # <<>> => Author!Opening(authors) \in {"page", "ask"}
BY DEF Author!Opening

\* The chosen authors are a function of the videos analysed.
LEMMA ChosenMoves ==
  /\ SelectedAggregates(insights)' = SelectedAggregates(insights')
  /\ ToSet(Authors(insights))' = ToSet(Authors(insights'))
OBVIOUS

LEMMA AuthorStart ==
  ASSUME Author!Assumption, AuthorInv, Author!Start
  PROVE  AuthorInv'
<1> USE DEF AuthorInv
<1>1. PICK all \in Insights :
        /\ insights' = all
        /\ \/ /\ queue' = Author!SelectedAggregates(all) /\ profiles' = <<>>
              /\ doing' = Author!Opening(Author!SelectedAggregates(all))
           \/ /\ queue' = <<>> /\ doing' = "done"
              /\ profiles' = [i \in DOMAIN Author!SelectedAggregates(all) |->
                                [author |-> Author!SelectedAggregates(all)[i], videos |-> <<>>]]
  BY DEF Author!Start
<1>2. /\ authorPage' = [read |-> 0, of |-> 1] /\ listed' = <<>> /\ videos' = <<>>
      /\ authorRuns > 0 /\ authorRuns' = authorRuns - 1
  BY DEF Author!Start
<1> DEFINE chosen == SelectedAggregates(all)
           K == ToSet(Authors(all))
<1>3. chosen \in Seq(K) /\ Len(chosen) \in Nat /\ chosen = Author!SelectedAggregates(all)
  BY AuthorsChosen
<1>4. SelectedAggregates(insights') = chosen /\ ToSet(Authors(insights')) = K
  BY <1>1
<1> HIDE DEF chosen, K
<1>5. CASE queue' = chosen /\ doing' = Author!Opening(chosen) /\ profiles' = <<>>
  <2>1. /\ doing' \in {"page", "ask", "done"} /\ (doing' = "done" <=> chosen = <<>>)
    BY <1>5, AuthorsOpened
  <2>2. AuthorTypes'
    <3>1. insights' \in Insights \cup {<<>>} /\ authorRuns' \in 0..AuthorRuns
      BY <1>1, <1>2, AuthorBounds DEF AuthorTypes
    <3>2. authorPage' \in [read : 0..AuthorMaxPages, of : 1..AuthorMaxPages]
      BY <1>2, AuthorBounds
    <3>3. /\ listed' \in Seq(AuthorBvids)
          /\ videos' \in Seq([bvid : AuthorBvids, text : {"detail", "candidate"}])
      BY <1>2
    <3>4. queue' \in Seq(K)
      BY <1>3, <1>5
    <3>5. profiles' \in Seq([author : K, videos : Seq(Described)])
      BY <1>5
    <3>6. ToSet(Authors(insights))' = K
      BY <1>4, ChosenMoves
    <3>7. doing' \in {"page", "ask", "done"}
      BY <2>1
    <3>8. QED
      BY <3>1, <3>2, <3>3, <3>4, <3>5, <3>6, <3>7 DEF AuthorTypes
  <2>3. ProfilesInv'
    <3>1. Len(profiles') = 0 /\ Len(videos') = 0 /\ VideoLimit \in Nat
      BY <1>2, <1>5, AuthorBounds
    <3>2. SelectedAggregates(insights)' = chosen
      BY <1>4, ChosenMoves
    <3>3. /\ Len(profiles') + Len(queue') = Len(chosen)
          /\ \A i \in 1..Len(profiles') : FALSE
          /\ \A i \in 1..Len(queue') : queue'[i] = chosen[Len(profiles') + i]
      BY <1>3, <1>5, <3>1
    <3>4. QED
      BY <1>2, <1>5, <2>1, <3>1, <3>2, <3>3 DEF ProfilesInv
  <2>4. QED
    BY <2>2, <2>3
<1>6. CASE /\ queue' = <<>> /\ doing' = "done"
           /\ profiles' = [i \in DOMAIN chosen |-> [author |-> chosen[i], videos |-> <<>>]]
  <2> DEFINE P == [author : K, videos : Seq(Described)]
  <2>1. /\ profiles' \in Seq(P) /\ Len(profiles') = Len(chosen)
        /\ \A i \in 1..Len(chosen) :
             profiles'[i].author = chosen[i] /\ profiles'[i].videos = <<>>
    <3>1. /\ DOMAIN chosen = 1..Len(chosen) /\ \A i \in 1..Len(chosen) : chosen[i] \in K
          /\ <<>> \in Seq(Described)
      BY <1>3
    <3>2. \A i \in 1..Len(chosen) : [author |-> chosen[i], videos |-> <<>>] \in P
      BY <3>1
    <3> HIDE DEF P
    <3>3. QED
      BY <1>3, <1>6, <3>1, <3>2
  <2>2. AuthorTypes'
    <3>1. insights' \in Insights \cup {<<>>} /\ authorRuns' \in 0..AuthorRuns
      BY <1>1, <1>2, AuthorBounds DEF AuthorTypes
    <3>2. authorPage' \in [read : 0..AuthorMaxPages, of : 1..AuthorMaxPages]
      BY <1>2, AuthorBounds
    <3>3. /\ listed' \in Seq(AuthorBvids)
          /\ videos' \in Seq([bvid : AuthorBvids, text : {"detail", "candidate"}])
      BY <1>2
    <3>4. queue' \in Seq(K)
      BY <1>3, <1>6
    <3>5. profiles' \in Seq([author : K, videos : Seq(Described)])
      BY <2>1
    <3>6. ToSet(Authors(insights))' = K
      BY <1>4, ChosenMoves
    <3>7. doing' \in {"page", "ask", "done"}
      BY <1>6
    <3>8. QED
      BY <3>1, <3>2, <3>3, <3>4, <3>5, <3>6, <3>7 DEF AuthorTypes
  <2>3. ProfilesInv'
    <3>1. Len(queue') = 0 /\ Len(<<>>) = 0 /\ VideoLimit \in Nat
      BY <1>6, AuthorBounds
    <3>2. SelectedAggregates(insights)' = chosen
      BY <1>4, ChosenMoves
    <3> HIDE DEF P
    <3>3. /\ Len(profiles') + Len(queue') = Len(chosen)
          /\ \A i \in 1..Len(profiles') : profiles'[i].author = chosen[i]
          /\ \A i \in 1..Len(profiles') : Len(profiles'[i].videos) <= VideoLimit
          /\ \A i \in 1..Len(queue') : FALSE
      BY <1>3, <2>1, <3>1
    <3>4. QED
      BY <1>6, <3>2, <3>3 DEF ProfilesInv
  <2>4. QED
    BY <2>2, <2>3
<1>7. QED
  BY <1>1, <1>3, <1>5, <1>6

\* Steps that leave the list of authors and their profiles alone
LEMMA AuthorRest ==
  ASSUME Author!Assumption, AuthorInv,
         \/ Author!FetchPage \/ Author!PageFails \/ Author!PagesRead
         \/ Author!FetchDetail \/ Author!DetailsRead \/ UNCHANGED Author!vars
  PROVE  AuthorInv'
<1> USE DEF AuthorInv
<1>1. UNCHANGED <<insights, queue, profiles, authorRuns>>
  BY DEF Author!FetchPage, Author!PageFails, Author!PagesRead, Author!FetchDetail,
         Author!DetailsRead, Author!vars
<1>2. /\ SelectedAggregates(insights)' = SelectedAggregates(insights)
      /\ ToSet(Authors(insights))' = ToSet(Authors(insights))
  BY <1>1, ChosenMoves
<1>3. CASE Author!FetchPage
  <2>1. PICK bvids \in Uploaded, of \in 1..AuthorMaxPages :
          /\ doing = "page" /\ doing' = doing /\ videos' = videos
          /\ authorPage.read < authorPage.of
          /\ listed' = listed \o bvids
          /\ authorPage' = [read |-> authorPage.read + 1, of |-> of]
    BY <1>3 DEF Author!FetchPage
  <2>2. listed' \in Seq(AuthorBvids)
    BY <2>1, AuthorBounds DEF AuthorTypes
  <2>3. authorPage' \in [read : 0..AuthorMaxPages, of : 1..AuthorMaxPages]
    <3>1. authorPage \in [read : 0..AuthorMaxPages, of : 1..AuthorMaxPages]
      BY DEF AuthorTypes
    <3>2. authorPage.read + 1 \in 0..AuthorMaxPages
      BY <2>1, <3>1, AuthorBounds
    <3>3. QED
      BY <2>1, <3>2
  <2>4. QED
    BY <1>1, <1>2, <2>1, <2>2, <2>3 DEF AuthorTypes, ProfilesInv
<1>4. CASE Author!PageFails
  BY <1>1, <1>2, <1>4 DEF Author!PageFails, AuthorTypes, ProfilesInv
<1>5. CASE Author!PagesRead
  <2>1. /\ doing = "page" /\ doing' = "detail" /\ videos' = videos /\ authorPage' = authorPage
        /\ listed' = Upto(VideoLimit, listed)
    BY <1>5 DEF Author!PagesRead, Author!Upto, Upto
  <2>2. listed \in Seq(AuthorBvids) /\ videos = <<>> /\ VideoLimit \in Nat
    BY <2>1, AuthorBounds DEF AuthorTypes, ProfilesInv
  <2>3. listed' \in Seq(AuthorBvids) /\ Len(listed') \in Nat /\ Len(listed') <= VideoLimit
    BY <2>1, <2>2, UptoList
  <2>4. Len(videos') <= Len(listed')
    BY <2>1, <2>2, <2>3
  <2>5. QED
    BY <1>1, <1>2, <2>1, <2>3, <2>4 DEF AuthorTypes, ProfilesInv
<1>6. CASE Author!FetchDetail
  <2>1. PICK text \in {"detail", "candidate"} :
          /\ doing = "detail" /\ doing' = doing /\ listed' = listed /\ authorPage' = authorPage
          /\ Len(videos) < Len(listed)
          /\ videos' = Append(videos, [bvid |-> listed[Len(videos) + 1], text |-> text])
    BY <1>6 DEF Author!FetchDetail
  <2>2. videos \in Seq([bvid : AuthorBvids, text : {"detail", "candidate"}])
        /\ listed \in Seq(AuthorBvids)
    BY DEF AuthorTypes
  <2>3. listed[Len(videos) + 1] \in AuthorBvids
    BY <2>1, <2>2
  <2>4. /\ videos' \in Seq([bvid : AuthorBvids, text : {"detail", "candidate"}])
        /\ Len(videos') = Len(videos) + 1
    BY <2>1, <2>2, <2>3
  <2>5. Len(videos') <= Len(listed')
    BY <2>1, <2>2, <2>4
  <2>6. QED
    BY <1>1, <1>2, <2>1, <2>4, <2>5 DEF AuthorTypes, ProfilesInv
<1>7. CASE Author!DetailsRead
  BY <1>1, <1>2, <1>7 DEF Author!DetailsRead, AuthorTypes, ProfilesInv
<1>8. CASE UNCHANGED Author!vars
  BY <1>1, <1>2, <1>8 DEF Author!vars, AuthorTypes, ProfilesInv
<1>9. QED
  BY <1>3, <1>4, <1>5, <1>6, <1>7, <1>8

\* A profile is completed.
LEMMA AuthorProfiled ==
  ASSUME Author!Assumption, AuthorInv, doing = "ask", NEW described \in Seq(Described),
         Len(described) <= VideoLimit, Author!Profile(described)
  PROVE  AuthorInv'
<1> USE DEF AuthorInv
<1> DEFINE chosen == SelectedAggregates(insights)
           K == ToSet(Authors(insights))
           P == [author : K, videos : Seq(Described)]
           n == Len(profiles)
<1>1. /\ profiles' = Append(profiles, [author |-> Head(queue), videos |-> described])
      /\ queue' = Tail(queue) /\ doing' = Author!Opening(Tail(queue))
      /\ authorPage' = [read |-> 0, of |-> 1] /\ listed' = <<>> /\ videos' = <<>>
      /\ insights' = insights /\ authorRuns' = authorRuns
  BY DEF Author!Profile
<1>2. SelectedAggregates(insights)' = chosen /\ ToSet(Authors(insights))' = K
  BY <1>1, ChosenMoves
<1>3. /\ queue \in Seq(K) /\ queue # <<>> /\ profiles \in Seq(P)
      /\ n + Len(queue) = Len(chosen)
      /\ \A i \in 1..n : profiles[i].author = chosen[i] /\ Len(profiles[i].videos) <= VideoLimit
      /\ \A i \in 1..Len(queue) : queue[i] = chosen[n + i]
  BY DEF AuthorTypes, ProfilesInv
<1>4. /\ Head(queue) \in K /\ Head(queue) = chosen[n + 1] /\ n \in Nat
      /\ Tail(queue) \in Seq(K) /\ Len(queue) \in Nat \ {0} /\ Len(Tail(queue)) = Len(queue) - 1
      /\ \A i \in 1..Len(Tail(queue)) : Tail(queue)[i] = queue[i + 1] /\ i + 1 \in 1..Len(queue)
  <2> HIDE DEF K, P, chosen, n
  <2>1. /\ Head(queue) \in K /\ Head(queue) = queue[1] /\ Len(queue) \in Nat \ {0}
        /\ Tail(queue) \in Seq(K) /\ Len(Tail(queue)) = Len(queue) - 1
        /\ \A i \in 1..Len(Tail(queue)) : Tail(queue)[i] = queue[i + 1] /\ i + 1 \in 1..Len(queue)
    BY <1>3
  <2>2. n \in Nat
    BY <1>3 DEF n
  <2>3. 1 \in 1..Len(queue)
    BY <2>1
  <2>4. QED
    BY <1>3, <2>1, <2>2, <2>3
<1>5. [author |-> Head(queue), videos |-> described] \in P
  BY <1>4
<1> HIDE DEF K, P, chosen
<1>6. /\ profiles' \in Seq(P) /\ Len(profiles') = n + 1
      /\ \A i \in 1..n : profiles'[i] = profiles[i]
      /\ profiles'[n + 1].author = chosen[n + 1] /\ profiles'[n + 1].videos = described
  BY <1>1, <1>3, <1>4, <1>5
<1>7. /\ doing' \in {"page", "ask", "done"} /\ (doing' = "done" <=> queue' = <<>>)
  BY <1>1, AuthorsOpened
<1>8. AuthorTypes'
  <2>1. insights' \in Insights \cup {<<>>} /\ authorRuns' \in 0..AuthorRuns
    BY <1>1 DEF AuthorTypes
  <2>2. authorPage' \in [read : 0..AuthorMaxPages, of : 1..AuthorMaxPages]
    BY <1>1, AuthorBounds
  <2>3. /\ listed' \in Seq(AuthorBvids)
        /\ videos' \in Seq([bvid : AuthorBvids, text : {"detail", "candidate"}])
    BY <1>1
  <2>4. queue' \in Seq(K)
    BY <1>1, <1>4
  <2>5. profiles' \in Seq([author : K, videos : Seq(Described)])
    BY <1>6 DEF P
  <2>6. QED
    BY <1>2, <1>7, <2>1, <2>2, <2>3, <2>4, <2>5 DEF AuthorTypes
<1> HIDE DEF n
<1>9. ProfilesInv'
  <2>1. \A i \in 1..(n + 1) : i \in 1..n \/ i = n + 1
    BY <1>4
  <2>2. \A i \in 1..Len(profiles') :
          profiles'[i].author = chosen[i] /\ Len(profiles'[i].videos) <= VideoLimit
    BY <1>3, <1>6, <2>1
  <2>3. Len(profiles') + Len(queue') = Len(chosen)
    BY <1>1, <1>3, <1>4, <1>6
  <2>4. \A i \in 1..Len(queue') : queue'[i] = chosen[Len(profiles') + i]
    <3> SUFFICES ASSUME NEW i \in 1..Len(Tail(queue))
                 PROVE  Tail(queue)[i] = chosen[Len(profiles') + i]
      BY <1>1
    <3>1. Tail(queue)[i] = queue[i + 1] /\ queue[i + 1] = chosen[n + (i + 1)]
      BY <1>3, <1>4
    <3>2. n + (i + 1) = Len(profiles') + i
      BY <1>4, <1>6
    <3>3. QED
      BY <3>1, <3>2
  <2>5. Len(videos') = 0 /\ VideoLimit \in Nat
    BY <1>1, AuthorBounds
  <2>6. QED
    BY <1>1, <1>2, <1>7, <2>2, <2>3, <2>4, <2>5 DEF ProfilesInv
<1>10. QED
  BY <1>8, <1>9

LEMMA AuthorAsked ==
  ASSUME Author!Assumption, AuthorInv, Author!Ask \/ Author!AskFails
  PROVE  AuthorInv'
<1>1. doing = "ask" /\ Len(videos) <= VideoLimit
  BY DEF Author!Ask, Author!AskFails, AuthorInv, ProfilesInv
<1> DEFINE V == [bvid : AuthorBvids, text : {"detail", "candidate"}]
<1>2. videos \in Seq(V)
  BY DEF AuthorInv, AuthorTypes
<1>3. /\ Len(videos) \in Nat /\ DOMAIN videos = 1..Len(videos)
      /\ videos = [i \in 1..Len(videos) |-> videos[i]]
      /\ \A i \in 1..Len(videos) : videos[i] \in V
  <2> HIDE DEF V
  <2>1. QED
    BY <1>2
<1>4. CASE Author!Ask
  <2>1. PICK said \in SUBSET AuthorBvids :
          Author!Profile([i \in DOMAIN videos |->
            [videos[i] EXCEPT !.text = IF videos[i].bvid \in said THEN "model" ELSE @]])
    BY <1>4 DEF Author!Ask
  <2> DEFINE described == [i \in DOMAIN videos |->
            [videos[i] EXCEPT !.text = IF videos[i].bvid \in said THEN "model" ELSE @]]
  <2>2. \A i \in 1..Len(videos) :
          [videos[i] EXCEPT !.text = IF videos[i].bvid \in said THEN "model" ELSE @] \in Described
    BY <1>3 DEF Described, VideoTexts
  <2>3. described \in Seq(Described) /\ Len(described) = Len(videos)
    BY <1>3, <2>2
  <2> HIDE DEF described
  <2>4. Author!Profile(described)
    BY <2>1 DEF described
  <2>5. QED
    BY <1>1, <2>3, <2>4, AuthorProfiled
<1>5. CASE Author!AskFails
  <2>1. videos \in Seq(Described)
    <3>1. \A i \in 1..Len(videos) : videos[i] \in Described
      BY <1>3 DEF Described, VideoTexts
    <3>2. QED
      BY <1>3, <3>1
  <2>2. Author!Profile(videos)
    BY <1>5 DEF Author!AskFails
  <2> DEFINE w == videos
  <2>3. QED
    BY <1>1, <2>1, <2>2, AuthorProfiled
<1>6. QED
  BY <1>4, <1>5

LEMMA AuthorNext ==
  ASSUME Author!Assumption, AuthorInv, [Author!Next]_(Author!vars)
  PROVE  AuthorInv'
BY AuthorStart, AuthorRest, AuthorAsked DEF Author!Next

\* The state of an analysis of authors is of its type.
THEOREM AuthorTypeOK ==
  ASSUME Author!Assumption
  PROVE  Author!Spec => []Author!TypeOK
<1>1. Author!Init => AuthorInv
  BY AuthorInit
<1>2. AuthorInv /\ [Author!Next]_(Author!vars) => AuthorInv'
  BY AuthorNext
<1>3. AuthorInv => Author!TypeOK
  <2> SUFFICES ASSUME AuthorInv
               PROVE  Author!TypeOK
    OBVIOUS
  <2>1. insights \in Insights \cup {<<>>}
    BY DEF AuthorInv, AuthorTypes
  <2>2. Author!Authors(insights) = Authors(insights) /\ \A s : Author!ToSet(s) = ToSet(s)
    BY SameLists DEF Author!ToSet, ToSet
  <2> DEFINE K == ToSet(Authors(insights))
             V == [bvid : AuthorBvids, text : {"detail", "candidate"}]
             P == [author : K, videos : Seq(Described)]
  <2>3. queue \in Seq(K) /\ videos \in Seq(V) /\ profiles \in Seq(P)
    BY DEF AuthorInv, AuthorTypes
  <2> HIDE DEF K, V, P
  <2>4. ToSet(queue) \subseteq K /\ ToSet(videos) \subseteq V /\ ToSet(profiles) \subseteq P
    BY <2>3, Members
  <2>5. {p.author : p \in ToSet(profiles)} \subseteq K
    BY <2>4 DEF P
  <2>6. QED
    BY <2>1, <2>2, <2>4, <2>5 DEF AuthorInv, AuthorTypes, Author!TypeOK, K, V
<1>4. QED
  BY <1>1, <1>2, <1>3, PTL DEF Author!Spec

\* An analysis that completes has profiled every author named among the best
\* overall or under a topic, once, in the order of popularity, however often
\* an author was chosen and whatever the pages of the site returned
\* (build_for_task).
THEOREM AuthorsAreProfiledOnce ==
  ASSUME Author!Assumption
  PROVE  Author!Spec => []AuthorsProfiledOnce
<1>1. Author!Init => AuthorInv
  BY AuthorInit
<1>2. AuthorInv /\ [Author!Next]_(Author!vars) => AuthorInv'
  BY AuthorNext
<1>3. AuthorInv => AuthorsProfiledOnce
  <2> SUFFICES ASSUME AuthorInv, doing = "done"
               PROVE  LET authors == [i \in 1..Len(profiles) |-> profiles[i].author]
                          named == NamedAuthors(insights)
                      IN /\ ToSet(authors) = named /\ Len(authors) = Cardinality(named)
                         /\ \A i, j \in 1..Len(authors) : i < j =>
                              Popularity(insights, authors[i]) >= Popularity(insights, authors[j])
                         /\ \A i \in 1..Len(profiles) : Len(profiles[i].videos) <= VideoLimit
    BY DEF AuthorsProfiledOnce, NamedAuthors
  <2> DEFINE authors == [i \in 1..Len(profiles) |-> profiles[i].author]
             chosen == SelectedAggregates(insights)
             K == ToSet(Authors(insights))
  <2>1. insights \in Insights \cup {<<>>}
    BY DEF AuthorInv, AuthorTypes
  <2>2. /\ chosen \in Seq(K) /\ Len(chosen) \in Nat
        /\ ToSet(chosen) = NamedAuthors(insights)
        /\ Len(chosen) = Cardinality(NamedAuthors(insights))
        /\ \A i, j \in 1..Len(chosen) : i < j =>
             Popularity(insights, chosen[i]) >= Popularity(insights, chosen[j])
    BY <2>1, AuthorsChosen
  <2>3. /\ Len(profiles) + Len(queue) = Len(chosen) /\ queue = <<>>
        /\ \A i \in 1..Len(profiles) :
             profiles[i].author = chosen[i] /\ Len(profiles[i].videos) <= VideoLimit
        /\ Len(profiles) \in Nat
    BY DEF AuthorInv, AuthorTypes, ProfilesInv
  <2> HIDE DEF chosen, K
  <2>4. Len(profiles) = Len(chosen)
    BY <2>3
  <2>5. authors = chosen
    <3>1. chosen = [i \in 1..Len(chosen) |-> chosen[i]]
      BY <2>2
    <3>2. QED
      BY <2>3, <2>4, <3>1
  <2> HIDE DEF authors
  <2>6. QED
    BY <2>2, <2>3, <2>5 DEF authors
<1>4. QED
  BY <1>1, <1>2, <1>3, PTL DEF Author!Spec

-----------------------------------------------------------------------------
(* Sums over functions *)

First(s) == CHOOSE x \in s : TRUE

\* sum gives the sum of F over every part of its domain.
Sums(F, sum) ==
  /\ sum[{}] = 0 /\ SumFunction(F) = sum[DOMAIN F]
  /\ \A s \in SUBSET DOMAIN F :
       s # {} => First(s) \in s /\ sum[s] = F[First(s)] + sum[s \ {First(s)}]

\* A sum takes the terms one by one.
LEMMA SumFunctionDef ==
  ASSUME NEW F, IsFiniteSet(DOMAIN F)
  PROVE  \E sum : Sums(F, sum)
<1> DEFINE D == DOMAIN F
           N == Cardinality(D)
           next(g, s) == F[First(s)] + g[s \ {First(s)}]
           Upon(m) == {s \in SUBSET D : Cardinality(s) <= m}
           Solves(g, S) == g = [s \in S |-> IF s = {} THEN 0 ELSE next(g, s)]
           T == {m \in 0..N : \E g : Solves(g, Upon(m))}
           sum == CHOOSE g : Solves(g, SUBSET D)
<1>1. SumFunction(F) = sum[D]
  BY DEF First, SumFunction, SumFunctionOnSet, FoldFunctionOnSet, MapThenFoldSet
<1>2. /\ N \in Nat
      /\ \A s \in SUBSET D : /\ Cardinality(s) \in Nat /\ Cardinality(s) <= N
                             /\ \A x \in s : Cardinality(s \ {x}) = Cardinality(s) - 1
      /\ Cardinality({}) = 0 /\ \A s \in SUBSET D : Cardinality(s) = 0 => s = {}
  <2>1. N \in Nat
    BY FS_CardinalityType
  <2>2. \A s \in SUBSET D : /\ IsFiniteSet(s) /\ Cardinality(s) \in Nat /\ Cardinality(s) <= N
    BY FS_Subset, FS_CardinalityType
  <2>3. QED
    BY <2>1, <2>2, FS_RemoveElement, FS_EmptySet
<1>3. \A s \in SUBSET D : s # {} => First(s) \in s /\ s \ {First(s)} \in SUBSET D
  BY DEF First
<1> HIDE DEF D, N, sum
<1>4. 0 \in T
  <2>1. Solves([s \in Upon(0) |-> 0], Upon(0))
    BY <1>2
  <2> HIDE DEF Solves, Upon
  <2>2. QED
    BY <1>2, <2>1
<1>5. ASSUME NEW m \in 1..N, m - 1 \in T
      PROVE  m \in T
  <2>1. PICK g : Solves(g, Upon(m - 1))
    BY <1>5
  <2> DEFINE h == [s \in Upon(m) |-> IF s = {} THEN 0 ELSE next(g, s)]
  <2>2. \A s \in Upon(m - 1) : s \in Upon(m) /\ h[s] = g[s]
    <3>1. \A s \in Upon(m - 1) : s \in Upon(m)
      BY <1>2
    <3>2. \A s \in Upon(m - 1) : g[s] = IF s = {} THEN 0 ELSE next(g, s)
      BY <2>1
    <3> HIDE DEF next, Upon
    <3>3. QED
      BY <3>1, <3>2
  <2>3. \A s \in Upon(m) : s # {} => s \ {First(s)} \in Upon(m - 1)
    BY <1>2, <1>3
  <2>4. \A s \in Upon(m) : s # {} => h[s] = next(h, s)
    <3> SUFFICES ASSUME NEW s \in Upon(m), s # {}
                 PROVE  h[s] = next(h, s)
      OBVIOUS
    <3>1. h[s] = next(g, s)
      OBVIOUS
    <3>2. h[s \ {First(s)}] = g[s \ {First(s)}]
      BY <2>2, <2>3
    <3> HIDE DEF h
    <3>3. QED
      BY <3>1, <3>2
  <2>5. Solves(h, Upon(m))
    <3>1. h = [s \in Upon(m) |-> h[s]] /\ \A s \in Upon(m) : s = {} => h[s] = 0
      OBVIOUS
    <3> HIDE DEF h, next, Upon
    <3>2. QED
      BY <2>4, <3>1
  <2> HIDE DEF h, Solves, Upon
  <2>6. QED
    BY <2>5
<1>6. Upon(N) = SUBSET D
  BY <1>2
<1>7. Solves(sum, SUBSET D)
  <2> HIDE DEF Solves, Upon
  <2>1. 0..N \subseteq T
    <3> HIDE DEF T
    <3>1. QED
      BY <1>2, <1>4, <1>5, AfterEachTurn
  <2>2. N \in T
    BY <1>2, <2>1
  <2>3. QED
    BY <1>6, <2>2 DEF sum
<1>8. \A s \in SUBSET D : sum[s] = IF s = {} THEN 0 ELSE next(sum, s)
  BY <1>7
<1>9. sum[{}] = 0 /\ \A s \in SUBSET D : s # {} =>
                       First(s) \in s /\ sum[s] = F[First(s)] + sum[s \ {First(s)}]
  BY <1>3, <1>8
<1>10. QED
  BY <1>1, <1>9 DEF D, Sums

\* A sum over a finite set, of sums of some values
LEMMA SumOfParts ==
  ASSUME NEW F, IsFiniteSet(DOMAIN F), NEW P, P[{}] = 0,
         \A s \in SUBSET DOMAIN F : P[s] \in Int,
         \A s \in SUBSET DOMAIN F : \A x \in s : P[s] = F[x] + P[s \ {x}]
  PROVE  SumFunction(F) = P[DOMAIN F]
<1> DEFINE D == DOMAIN F
           N == Cardinality(D)
<1>0. PICK sum : Sums(F, sum)
  BY SumFunctionDef
<1>1. /\ sum[{}] = 0 /\ SumFunction(F) = sum[D]
      /\ \A s \in SUBSET D : s # {} => \E x \in s : sum[s] = F[x] + sum[s \ {x}]
  BY <1>0 DEF Sums
<1> DEFINE T == {m \in 0..N : \A s \in SUBSET D : Cardinality(s) = m => sum[s] = P[s]}
<1>2. /\ N \in Nat
      /\ \A s \in SUBSET D : /\ IsFiniteSet(s)
                             /\ \A x \in s : Cardinality(s \ {x}) = Cardinality(s) - 1
      /\ Cardinality({}) = 0 /\ \A s \in SUBSET D : Cardinality(s) = 0 <=> s = {}
  <2>1. N \in Nat
    BY FS_CardinalityType
  <2>2. \A s \in SUBSET D : IsFiniteSet(s)
    BY FS_Subset
  <2>3. QED
    BY <2>1, <2>2, FS_RemoveElement, FS_EmptySet
<1> HIDE DEF D, N
<1>3. 0 \in T
  <2> SUFFICES ASSUME NEW s \in SUBSET D, Cardinality(s) = 0
               PROVE  sum[s] = P[s]
    BY <1>2
  <2>1. s = {}
    BY <1>2
  <2>2. QED
    BY <1>1, <2>1
<1>4. ASSUME NEW m \in 1..N, m - 1 \in T
      PROVE  m \in T
  <2> SUFFICES ASSUME NEW s \in SUBSET D, Cardinality(s) = m
               PROVE  sum[s] = P[s]
    OBVIOUS
  <2>1. s # {}
    BY <1>2
  <2>2. PICK x \in s : sum[s] = F[x] + sum[s \ {x}]
    BY <1>1, <2>1
  <2>3. Cardinality(s \ {x}) = m - 1
    BY <1>2
  <2>4. sum[s \ {x}] = P[s \ {x}]
    BY <1>4, <2>3
  <2>5. QED
    BY <2>2, <2>4 DEF D
<1>5. N \in T
  <2> HIDE DEF T
  <2>1. QED
    BY <1>2, <1>3, <1>4, AfterEachTurn
<1>6. QED
  BY <1>1, <1>5 DEF D, N

LEMMA SumInt ==
  ASSUME NEW S, IsFiniteSet(S), NEW F \in [S -> Int]
  PROVE  SumFunction(F) \in Int
<1> DEFINE N == Cardinality(S)
<1>0. PICK sum : Sums(F, sum)
  <2>1. DOMAIN F = S
    OBVIOUS
  <2>2. QED
    BY <2>1, SumFunctionDef
<1>1. /\ sum[{}] = 0 /\ SumFunction(F) = sum[S]
      /\ \A s \in SUBSET S : s # {} => \E x \in s : sum[s] = F[x] + sum[s \ {x}]
  BY <1>0 DEF Sums
<1> DEFINE T == {m \in 0..N : \A s \in SUBSET S : Cardinality(s) = m => sum[s] \in Int}
<1>2. /\ N \in Nat
      /\ \A s \in SUBSET S : /\ IsFiniteSet(s)
                             /\ \A x \in s : Cardinality(s \ {x}) = Cardinality(s) - 1
      /\ Cardinality({}) = 0 /\ \A s \in SUBSET S : Cardinality(s) = 0 <=> s = {}
  <2>1. N \in Nat
    BY FS_CardinalityType
  <2>2. \A s \in SUBSET S : IsFiniteSet(s)
    BY FS_Subset
  <2>3. QED
    BY <2>1, <2>2, FS_RemoveElement, FS_EmptySet
<1> HIDE DEF N
<1>3. 0 \in T
  <2> SUFFICES ASSUME NEW s \in SUBSET S, Cardinality(s) = 0
               PROVE  sum[s] \in Int
    BY <1>2
  <2>1. s = {}
    BY <1>2
  <2>2. QED
    BY <1>1, <2>1
<1>4. ASSUME NEW m \in 1..N, m - 1 \in T
      PROVE  m \in T
  <2> SUFFICES ASSUME NEW s \in SUBSET S, Cardinality(s) = m
               PROVE  sum[s] \in Int
    OBVIOUS
  <2>1. s # {}
    BY <1>2
  <2>2. PICK x \in s : sum[s] = F[x] + sum[s \ {x}]
    BY <1>1, <2>1
  <2>3. Cardinality(s \ {x}) = m - 1
    BY <1>2
  <2>4. sum[s \ {x}] \in Int /\ F[x] \in Int
    BY <1>4, <2>3
  <2>5. QED
    BY <2>2, <2>4
<1>5. N \in T
  <2> HIDE DEF T
  <2>1. QED
    BY <1>2, <1>3, <1>4, AfterEachTurn
<1>6. QED
  BY <1>1, <1>5 DEF N

\* When each term of F is b / a of that of G at the most, so is the sum.
LEMMA SumWithin ==
  ASSUME NEW S, IsFiniteSet(S), NEW F \in [S -> Nat], NEW G \in [S -> Nat],
         NEW a \in Nat, NEW b \in Nat, \A x \in S : a * F[x] <= b * G[x]
  PROVE  /\ SumFunction(F) \in Nat /\ SumFunction(G) \in Nat
         /\ a * SumFunction(F) <= b * SumFunction(G)
<1> DEFINE N == Cardinality(S)
<1>0. PICK f : Sums(F, f)
  <2>1. DOMAIN F = S
    OBVIOUS
  <2>2. QED
    BY <2>1, SumFunctionDef
<1>1. PICK g : Sums(G, g)
  <2>1. DOMAIN G = S
    OBVIOUS
  <2>2. QED
    BY <2>1, SumFunctionDef
<1>2. /\ f[{}] = 0 /\ SumFunction(F) = f[S] /\ g[{}] = 0 /\ SumFunction(G) = g[S]
      /\ \A s \in SUBSET S : s # {} =>
           /\ First(s) \in s
           /\ f[s] = F[First(s)] + f[s \ {First(s)}]
           /\ g[s] = G[First(s)] + g[s \ {First(s)}]
  BY <1>0, <1>1 DEF Sums
<1> DEFINE Fine(s) == f[s] \in Nat /\ g[s] \in Nat /\ a * f[s] <= b * g[s]
           T == {m \in 0..N : \A s \in SUBSET S : Cardinality(s) = m => Fine(s)}
<1>3. /\ N \in Nat
      /\ \A s \in SUBSET S : /\ IsFiniteSet(s)
                             /\ \A x \in s : Cardinality(s \ {x}) = Cardinality(s) - 1
      /\ Cardinality({}) = 0 /\ \A s \in SUBSET S : Cardinality(s) = 0 <=> s = {}
  <2>1. N \in Nat
    BY FS_CardinalityType
  <2>2. \A s \in SUBSET S : IsFiniteSet(s)
    BY FS_Subset
  <2>3. QED
    BY <2>1, <2>2, FS_RemoveElement, FS_EmptySet
<1> HIDE DEF N
<1>4. 0 \in T
  <2> SUFFICES ASSUME NEW s \in SUBSET S, Cardinality(s) = 0
               PROVE  Fine(s)
    BY <1>3
  <2>1. s = {}
    BY <1>3
  <2>2. QED
    BY <1>2, <2>1
<1>5. ASSUME NEW m \in 1..N, m - 1 \in T
      PROVE  m \in T
  <2> SUFFICES ASSUME NEW s \in SUBSET S, Cardinality(s) = m
               PROVE  Fine(s)
    OBVIOUS
  <2> DEFINE x == First(s)
             rest == s \ {x}
  <2>1. s # {}
    BY <1>3
  <2>2. x \in s /\ f[s] = F[x] + f[rest] /\ g[s] = G[x] + g[rest]
    BY <1>2, <2>1
  <2>3. Cardinality(rest) = m - 1 /\ rest \in SUBSET S
    BY <1>3, <2>2
  <2>4. Fine(rest)
    BY <1>5, <2>3
  <2>5. F[x] \in Nat /\ G[x] \in Nat /\ a * F[x] <= b * G[x]
    BY <2>2
  <2> HIDE DEF x, rest
  <2>6. f[s] \in Nat /\ g[s] \in Nat
    BY <2>2, <2>4, <2>5
  <2>7. a * f[s] = a * F[x] + a * f[rest] /\ b * g[s] = b * G[x] + b * g[rest]
    BY <2>2, <2>4, <2>5
  <2>8. /\ a * F[x] \in Int /\ a * f[rest] \in Int
        /\ b * G[x] \in Int /\ b * g[rest] \in Int
    BY <2>4, <2>5
  <2>9. QED
    BY <2>4, <2>5, <2>6, <2>7, <2>8
<1>6. N \in T
  <2>1. N \in Nat
    BY <1>3
  <2>2. \A m \in 1..N : m - 1 \in T => m \in T
    BY <1>5
  <2> HIDE DEF T
  <2>3. 0..N \subseteq T
    BY <1>4, <2>1, <2>2, AfterEachTurn
  <2>4. QED
    BY <2>1, <2>3
<1>7. Fine(S)
  BY <1>6 DEF N
<1>8. QED
  BY <1>2, <1>7

\* As many ones as there are elements
LEMMA SumOfOnes ==
  ASSUME NEW S, IsFiniteSet(S)
  PROVE  SumFunction([x \in S |-> 1]) = Cardinality(S)
<1> DEFINE F == [x \in S |-> 1]
           P == [s \in SUBSET S |-> Cardinality(s)]
<1>1. \A s \in SUBSET S : IsFiniteSet(s)
  BY FS_Subset
<1>2. \A s \in SUBSET S : /\ P[s] \in Int
                          /\ \A x \in s : P[s \ {x}] = P[s] - 1
  BY <1>1, FS_CardinalityType, FS_RemoveElement
<1>3. P[{}] = 0 /\ DOMAIN F = S
  BY FS_EmptySet
<1>4. \A s \in SUBSET S : \A x \in s : P[s] = F[x] + P[s \ {x}]
  <2>1. \A x \in S : F[x] = 1
    OBVIOUS
  <2> HIDE DEF F, P
  <2>2. \A s \in SUBSET S : \A x \in s : F[x] = 1 /\ s \ {x} \in SUBSET S
    BY <2>1
  <2> SUFFICES ASSUME NEW s \in SUBSET S, NEW x \in s
               PROVE  P[s] = F[x] + P[s \ {x}]
    OBVIOUS
  <2>3. F[x] = 1 /\ P[s] \in Int /\ P[s \ {x}] = P[s] - 1
    BY <1>2, <2>2
  <2>4. QED
    BY <2>3
<1>5. P[S] = Cardinality(S)
  OBVIOUS
<1> HIDE DEF F, P
<1>6. SumFunction(F) = P[DOMAIN F]
  BY <1>2, <1>3, <1>4, SumOfParts
<1>7. QED
  BY <1>3, <1>5, <1>6 DEF F

-----------------------------------------------------------------------------
(* What a request computes from the rows it has read *)

Metric == [views : Nat, searched : Nat, likes : Nat, shares : Nat]

Scores == {"burst_score", "community_score"}
VideoFigures == {"search_growth", "publish_velocity", "engagement_rate", "likes", "shares"}

\* What a request holds, and what the services assume of its task
ViewTypes ==
  /\ VideoIds \subseteq Nat /\ TopicIds \subseteq Nat \ {0}
  /\ IsFiniteSet(VideoIds) /\ IsFiniteSet(TopicIds)
  /\ Today \in Nat /\ Day \in [VideoIds -> Nat] /\ Heat \in [VideoIds -> Nat]
  /\ \A m \in DOMAIN Components : {Weights[m], Defaults[m]} \subseteq [Components[m] -> Nat]
  /\ \A m \in Scores : DefaultTotal(m) = One
  /\ One \in Nat \ {0}
  /\ reader.videos \in [VideoIds -> Metric \cup {Missing}]
  /\ reader.topics \in [VideoIds -> Seq(TopicIds)]

LEMMA ComponentSets ==
  /\ DOMAIN Components = Scores \cup {"engagement_rate", "topic_heat_index"}
  /\ \A m \in DOMAIN Components : IsFiniteSet(Components[m])
  /\ \A m \in Scores : Components[m] \subseteq VideoFigures
<1>1. DOMAIN Components = Scores \cup {"engagement_rate", "topic_heat_index"}
  BY DEF Components, Scores
<1>2. \A m \in Scores : Components[m] \subseteq VideoFigures
  BY DEF Components, Scores, VideoFigures
<1>3. ASSUME NEW x, NEW y
      PROVE  IsFiniteSet({x, y})
  <2>1. IsFiniteSet({x}) /\ IsFiniteSet({y}) /\ {x} \cup {y} = {x, y}
    BY FS_Singleton
  <2>2. QED
    BY <2>1, FS_Union
<1>4. ASSUME NEW x, NEW y, NEW z
      PROVE  IsFiniteSet({x, y, z})
  <2>1. IsFiniteSet({x, y}) /\ IsFiniteSet({z}) /\ {x, y} \cup {z} = {x, y, z}
    BY <1>3, FS_Singleton
  <2>2. QED
    BY <2>1, FS_Union
<1>5. ASSUME NEW m \in DOMAIN Components
      PROVE  IsFiniteSet(Components[m])
  <2>1. CASE m = "burst_score"
    <3>1. Components[m] = {"search_growth", "publish_velocity"}
      BY <2>1 DEF Components
    <3>2. QED
      BY <1>3, <3>1
  <2>2. CASE m = "community_score"
    <3>1. Components[m] = {"shares", "engagement_rate"}
      BY <2>2 DEF Components
    <3>2. QED
      BY <1>3, <3>1
  <2>3. CASE m = "engagement_rate"
    <3>1. Components[m] = {"likes", "shares"}
      BY <2>3 DEF Components
    <3>2. QED
      BY <1>3, <3>1
  <2>4. CASE m = "topic_heat_index"
    <3>1. Components[m] = {"total_heat_score", "burst_score", "community_score"}
      BY <2>4 DEF Components
    <3>2. IsFiniteSet({"total_heat_score", "burst_score", "community_score"})
      BY <1>4, Zenon
    <3>3. QED
      BY <3>1, <3>2, Zenon
  <2>5. QED
    BY <1>1, <2>1, <2>2, <2>3, <2>4 DEF Scores
<1>6. QED
  BY <1>1, <1>2, <1>5

LEMMA Quotient ==
  ASSUME NEW x \in Int, NEW n \in Nat, n # 0
  PROVE  x \div n \in Int
OBVIOUS

LEMMA QuotientWithin ==
  ASSUME NEW x \in Nat, NEW n \in Nat, n # 0, NEW b \in Nat
  PROVE  /\ x \div n \in Nat /\ n * (x \div n) <= x
         /\ x <= b * n => x \div n <= b
<1> DEFINE q == x \div n
<1>1. q \in Int /\ n * q <= x /\ x < n * q + n
  OBVIOUS
<1> HIDE DEF q
<1>2. q >= 0
  <2> SUFFICES ASSUME q <= -1
               PROVE  FALSE
    BY <1>1
  <2>1. n * q <= n * (-1)
    BY <1>1
  <2>2. QED
    BY <1>1, <2>1
<1>3. ASSUME x <= b * n
      PROVE  q <= b
  <2> SUFFICES ASSUME q >= b + 1
               PROVE  FALSE
    BY <1>1
  <2>1. n * q >= n * (b + 1)
    BY <1>1
  <2>2. n * (b + 1) = b * n + n
    OBVIOUS
  <2>3. n * q = b * n
    BY <1>1, <1>3, <2>1, <2>2
  <2>4. QED
    BY <2>1, <2>2, <2>3
<1>4. QED
  BY <1>1, <1>2, <1>3 DEF q

\* Effective weights come to what the default ones come to, or less by rounding.
LEMMA EffectiveWithin ==
  ASSUME ViewTypes, NEW m \in DOMAIN Components
  PROVE  /\ Effective(m) \in [Components[m] -> Nat]
         /\ SumFunction(Effective(m)) \in Nat
         /\ SumFunction(Effective(m)) <= DefaultTotal(m)
<1> DEFINE w == Weights[m]
           together == SumFunction(w)
           all == DefaultTotal(m)
           effective == [c \in Components[m] |-> (w[c] * all) \div together]
<1>1. w \in [Components[m] -> Nat] /\ Defaults[m] \in [Components[m] -> Nat]
  BY DEF ViewTypes
<1>2. IsFiniteSet(Components[m])
  BY ComponentSets
<1>3. together \in Nat /\ all \in Nat /\ all = SumFunction(Defaults[m])
  <2>1. \A c \in Components[m] : 1 * w[c] <= 1 * w[c] /\ 1 * Defaults[m][c] <= 1 * Defaults[m][c]
    BY <1>1
  <2> HIDE DEF w
  <2>2. SumFunction(w) \in Nat /\ SumFunction(Defaults[m]) \in Nat
    BY <1>1, <1>2, <2>1, SumWithin
  <2>3. QED
    BY <2>2 DEF DefaultTotal
<1>4. Effective(m) = IF together <= 0 THEN Defaults[m] ELSE effective
  BY DEF Effective
<1> HIDE DEF w, together, all
<1>5. CASE together <= 0
  <2>1. Effective(m) = Defaults[m]
    BY <1>4, <1>5
  <2>2. QED
    BY <1>1, <1>3, <2>1 DEF all
<1>6. CASE ~(together <= 0)
  <2>1. Effective(m) = effective
    BY <1>4, <1>6
  <2>2. \A c \in Components[m] : w[c] * all \in Nat
    BY <1>1, <1>3
  <2>3. \A c \in Components[m] :
          /\ (w[c] * all) \div together \in Nat
          /\ together * ((w[c] * all) \div together) <= w[c] * all
    BY <1>3, <1>6, <2>2, QuotientWithin
  <2>4. effective \in [Components[m] -> Nat]
    BY <2>3
  <2>5. \A c \in Components[m] : together * effective[c] <= all * w[c]
    BY <1>1, <1>3, <2>3
  <2> HIDE DEF effective
  <2>6. /\ SumFunction(effective) \in Nat
        /\ together * SumFunction(effective) <= all * SumFunction(w)
    BY <1>1, <1>2, <1>3, <2>4, <2>5, SumWithin
  <2> DEFINE e == SumFunction(effective)
  <2>7. e \in Nat /\ together * e <= all * together
    BY <2>6 DEF together
  <2> HIDE DEF e
  <2>8. e <= all
    <3> SUFFICES ASSUME e >= all + 1
                 PROVE  FALSE
      BY <1>3, <2>7
    <3>1. together * e >= together * (all + 1)
      BY <1>3, <2>7
    <3>2. together * (all + 1) = all * together + together
      BY <1>3
    <3>3. all * together \in Int /\ together * e \in Int
      BY <1>3, <2>7
    <3>4. QED
      BY <1>3, <1>6, <2>7, <3>1, <3>2, <3>3
  <2>9. QED
    BY <2>1, <2>4, <2>7, <2>8 DEF e, all
<1>7. QED
  BY <1>5, <1>6

LEMMA MetricScoreType ==
  ASSUME ViewTypes, NEW m \in DOMAIN Components, NEW value,
         \A c \in Components[m] : value[c] \in Int
  PROVE  MetricScore(m, value) \in Int
<1> DEFINE w == Effective(m)
           F == [c \in Components[m] |-> w[c] * value[c]]
<1>1. w \in [Components[m] -> Nat]
  BY EffectiveWithin
<1> HIDE DEF w
<1>2. F \in [Components[m] -> Int]
  BY <1>1
<1>3. MetricScore(m, value) = SumFunction(F) \div One
  BY DEF MetricScore, w
<1> HIDE DEF F
<1>4. SumFunction(F) \in Int
  BY <1>2, ComponentSets, SumInt
<1>5. One \in Nat /\ One # 0
  BY DEF ViewTypes
<1>6. QED
  BY <1>3, <1>4, <1>5, Quotient

LEMMA ReadMetrics ==
  ASSUME ViewTypes
  PROVE  /\ Read \subseteq VideoIds /\ IsFiniteSet(Read)
         /\ \A v \in Read : reader.videos[v] \in Metric /\ Day[v] \in Nat
<1>1. Read \subseteq VideoIds /\ IsFiniteSet(VideoIds)
  BY DEF ViewTypes, Read
<1>2. IsFiniteSet(Read)
  BY <1>1, FS_Subset
<1>3. \A v \in Read : reader.videos[v] \in Metric \cup {Missing} /\ reader.videos[v] # Missing
  BY DEF ViewTypes, Read
<1>4. \A v \in Read : Day[v] \in Nat
  BY <1>1 DEF ViewTypes
<1>5. QED
  BY <1>1, <1>2, <1>3, <1>4

LEMMA GreatestOfTwo ==
  ASSUME NEW x \in Int, NEW y \in Int
  PROVE  Max({x, y}) \in {x, y} /\ Max({x, y}) >= y /\ Max({x, y}) >= x
<1>1. IsFiniteSet({x}) /\ IsFiniteSet({y}) /\ {x} \cup {y} = {x, y}
  BY FS_Singleton
<1>2. IsFiniteSet({x, y})
  BY <1>1, FS_Union
<1>3. QED
  BY <1>2, Greatest

LEMMA ComponentType ==
  ASSUME ViewTypes, NEW v \in Read, NEW c \in VideoFigures
  PROVE  Component(c, v) \in Int
<1> DEFINE m == reader.videos[v]
<1>1. m \in Metric /\ One \in Nat /\ Day[v] \in Nat /\ Today \in Nat
  BY ReadMetrics DEF ViewTypes
<1> HIDE DEF m
<1>2. m.views \in Nat /\ m.searched \in Nat /\ m["likes"] \in Nat /\ m["shares"] \in Nat
  BY <1>1 DEF Metric
<1>3. SearchGrowth(v) \in Int
  <2>1. SearchGrowth(v) = IF m.searched <= 0 THEN 0
                          ELSE ((m.views - m.searched) * One) \div m.searched
    BY DEF SearchGrowth, m
  <2>2. (m.views - m.searched) * One \in Int
    BY <1>1, <1>2
  <2>3. QED
    BY <1>2, <2>1, <2>2, Quotient
<1>4. Velocity(v) \in Int
  <2> DEFINE d == Max({Today - Day[v], 1})
  <2>1. d \in Nat /\ d # 0
    <3>1. Today - Day[v] \in Int /\ 1 \in Int
      BY <1>1
    <3>2. d \in {Today - Day[v], 1} /\ d >= 1
      BY <3>1, GreatestOfTwo
    <3> HIDE DEF d
    <3>3. QED
      BY <3>1, <3>2
  <2>2. Velocity(v) = IF Day[v] = 0 THEN 0 ELSE m.views \div d
    BY DEF Velocity, m
  <2> HIDE DEF d
  <2>3. QED
    BY <1>2, <2>1, <2>2, Quotient
<1>5. \A r \in {"likes", "shares"} : Ratio(v, r) \in Int
  <2> SUFFICES ASSUME NEW r \in {"likes", "shares"}
               PROVE  Ratio(v, r) \in Int
    OBVIOUS
  <2>1. Ratio(v, r) = IF m.views <= 0 THEN 0 ELSE (m[r] * One) \div m.views
    BY DEF Ratio, m
  <2>2. m[r] * One \in Int
    BY <1>1, <1>2
  <2>3. QED
    BY <1>2, <2>1, <2>2, Quotient
<1>6. Engagement(v) \in Int
  <2> DEFINE value == [r \in Components.engagement_rate |-> Ratio(v, r)]
  <2>1. \A r \in Components.engagement_rate : value[r] \in Int
    BY <1>5 DEF Components
  <2>2. Engagement(v) = MetricScore("engagement_rate", value)
    BY DEF Engagement
  <2>3. "engagement_rate" \in DOMAIN Components
    BY ComponentSets
  <2> HIDE DEF value
  <2>4. QED
    BY <2>1, <2>2, <2>3, MetricScoreType
<1>7. QED
  BY <1>3, <1>4, <1>5, <1>6 DEF Component, VideoFigures

LEMMA Image ==
  ASSUME NEW S, IsFiniteSet(S), NEW f \in [S -> Int]
  PROVE  IsFiniteSet({f[x] : x \in S}) /\ {f[x] : x \in S} \subseteq Int
<1>1. f \in Surjection(S, {f[x] : x \in S})
  BY DEF Surjection
<1>2. QED
  BY <1>1, FS_Surjection

LEMMA MaximumType ==
  ASSUME ViewTypes, NEW c \in VideoFigures
  PROVE  Maximum(c) \in Int
<1> DEFINE f == [v \in Read |-> Component(c, v)]
           S == {f[v] : v \in Read}
<1>1. f \in [Read -> Int]
  BY ComponentType
<1>2. Maximum(c) = Max({0} \cup S)
  BY DEF Maximum
<1> HIDE DEF f
<1>3. IsFiniteSet(S) /\ S \subseteq Int
  BY <1>1, ReadMetrics, Image
<1> HIDE DEF S
<1>4. IsFiniteSet({0} \cup S)
  <2>1. IsFiniteSet({0})
    BY FS_Singleton, Zenon
  <2>2. QED
    BY <1>3, <2>1, FS_Union
<1>5. {0} \cup S \subseteq Int /\ {0} \cup S # {}
  BY <1>3
<1> DEFINE all == {0} \cup S
<1>6. Maximum(c) = Max(all)
  BY <1>2
<1> HIDE DEF all
<1>7. Max(all) \in all
  BY <1>4, <1>5, Greatest DEF all
<1>8. QED
  BY <1>5, <1>6, <1>7 DEF all

LEMMA NormalizedWithin ==
  ASSUME NEW x \in Int, NEW max \in Int, ViewTypes
  PROVE  NormalizePositive(x, max) \in 0..One
<1> DEFINE m == Min({x, max})
           p == Max({m, 0})
<1>1. m \in Int /\ m <= max
  BY DEF Min
<1> HIDE DEF m
<1>2. p \in Nat /\ (max > 0 => p <= max)
  <2>1. p \in {m, 0} /\ p >= 0
    <3>1. 0 \in Int
      OBVIOUS
    <3> HIDE DEF p
    <3>2. QED
      BY <1>1, <3>1, GreatestOfTwo DEF p
  <2> HIDE DEF p
  <2>2. QED
    BY <1>1, <2>1
<1>3. NormalizePositive(x, max) = IF max <= 0 THEN 0 ELSE (p * One) \div max
  BY DEF NormalizePositive, m
<1> HIDE DEF p
<1>4. One \in Nat
  BY DEF ViewTypes
<1>5. CASE ~(max <= 0)
  <2>1. max \in Nat /\ max # 0 /\ p * One \in Nat
    BY <1>2, <1>4, <1>5
  <2>2. p * One <= One * max
    BY <1>2, <1>4, <1>5
  <2>3. (p * One) \div max \in Nat /\ (p * One) \div max <= One
    BY <1>4, <2>1, <2>2, QuotientWithin
  <2>4. QED
    BY <1>3, <1>4, <1>5, <2>3
<1>6. QED
  BY <1>3, <1>4, <1>5

\* A score adds weights that come to One of values that are One at the most.
LEMMA ScoreWithin ==
  ASSUME ViewTypes, NEW m \in Scores, NEW v \in Read
  PROVE  Score(m, v) \in 0..One
<1> DEFINE value == [c \in Components[m] |-> NormalizePositive(Component(c, v), Maximum(c))]
           w == Effective(m)
           F == [c \in Components[m] |-> w[c] * value[c]]
<1>1. m \in DOMAIN Components /\ Components[m] \subseteq VideoFigures
      /\ IsFiniteSet(Components[m])
  BY ComponentSets
<1>2. \A c \in Components[m] : Component(c, v) \in Int /\ Maximum(c) \in Int
  BY <1>1, ComponentType, MaximumType
<1>3. \A c \in Components[m] : value[c] \in 0..One
  BY <1>2, NormalizedWithin
<1>4. w \in [Components[m] -> Nat] /\ SumFunction(w) \in Nat /\ SumFunction(w) <= One
  BY <1>1, EffectiveWithin DEF ViewTypes
<1>5. Score(m, v) = SumFunction(F) \div One
  BY DEF Score, MetricScore
<1> HIDE DEF value, w
<1>6. One \in Nat /\ One # 0
  BY DEF ViewTypes
<1>7. ASSUME NEW c \in Components[m]
      PROVE  w[c] * value[c] \in Nat /\ w[c] * value[c] <= One * w[c]
  <2>1. w[c] \in Nat /\ value[c] \in Nat /\ value[c] <= One
    BY <1>3, <1>4, <1>6
  <2>2. QED
    BY <1>6, <2>1
<1>8. F \in [Components[m] -> Nat]
  BY <1>7
<1>9. \A c \in Components[m] : 1 * F[c] <= One * w[c]
  BY <1>7
<1> HIDE DEF F
<1>10. SumFunction(F) \in Nat /\ 1 * SumFunction(F) <= One * SumFunction(w)
  BY <1>1, <1>4, <1>6, <1>8, <1>9, SumWithin
<1> DEFINE sum == SumFunction(F)
           all == SumFunction(w)
<1>11. sum \in Nat /\ sum <= One * One
  <2>1. sum \in Nat /\ all \in Nat /\ all <= One /\ sum <= One * all
    BY <1>4, <1>10
  <2> HIDE DEF sum, all
  <2>2. One * all <= One * One
    BY <1>6, <2>1
  <2>3. One * all \in Int /\ One * One \in Int
    BY <1>6, <2>1
  <2>4. QED
    BY <2>1, <2>2, <2>3
<1> HIDE DEF sum
<1>12. sum \div One \in Nat /\ sum \div One <= One
  BY <1>6, <1>11, QuotientWithin
<1>13. QED
  BY <1>5, <1>6, <1>12 DEF sum

LEMMA MeanWithin ==
  ASSUME NEW S, IsFiniteSet(S), NEW b \in Nat, NEW value \in [S -> 0..b]
  PROVE  Mean(value) \in 0..b
<1> DEFINE ones == [x \in S |-> 1]
           sum == SumFunction(value)
           n == Cardinality(S)
<1>1. DOMAIN value = S
  OBVIOUS
<1>2. sum \in Nat /\ 1 * sum <= b * SumFunction(ones)
  <2>1. value \in [S -> Nat] /\ ones \in [S -> Nat]
        /\ \A x \in S : 1 * value[x] <= b * ones[x]
    OBVIOUS
  <2> HIDE DEF ones
  <2>2. QED
    BY <2>1, SumWithin
<1>3. SumFunction(ones) = n /\ n \in Nat
  BY SumOfOnes, FS_CardinalityType
<1>4. Mean(value) = IF S = {} THEN 0 ELSE sum \div n
  BY <1>1 DEF Mean
<1>5. S # {} => n # 0
  BY FS_EmptySet
<1> HIDE DEF ones, sum, n
<1>6. CASE S # {}
  <2>1. sum <= b * n
    BY <1>2, <1>3
  <2>2. sum \div n \in Nat /\ sum \div n <= b
    BY <1>2, <1>3, <1>5, <1>6, <2>1, QuotientWithin
  <2>3. QED
    BY <1>4, <1>6, <2>2
<1>7. QED
  BY <1>4, <1>6

LEMMA TotalHeatType ==
  ASSUME ViewTypes, NEW S \in SUBSET VideoIds
  PROVE  TotalHeat(S) \in Int
<1> DEFINE f == [v \in S |-> Heat[v]]
<1>1. f \in [S -> Int] /\ IsFiniteSet(S)
  <2>1. IsFiniteSet(S)
    BY FS_Subset DEF ViewTypes
  <2>2. f \in [S -> Int]
    BY DEF ViewTypes
  <2>3. QED
    BY <2>1, <2>2
<1>2. TotalHeat(S) = SumFunction(f)
  BY DEF TotalHeat
<1> HIDE DEF f
<1>3. QED
  BY <1>1, <1>2, SumInt

\* The scores of some of the videos read have a mean.
LEMMA MeanScore ==
  ASSUME ViewTypes, NEW m \in Scores, NEW S \in SUBSET Read
  PROVE  Mean([v \in S |-> Score(m, v)]) \in 0..One
<1> DEFINE f == [v \in S |-> Score(m, v)]
<1>1. f \in [S -> 0..One]
  BY ScoreWithin
<1>2. IsFiniteSet(S) /\ One \in Nat
  BY ReadMetrics, FS_Subset DEF ViewTypes
<1> HIDE DEF f
<1>3. QED
  BY <1>1, <1>2, MeanWithin DEF f

LEMMA IndexType ==
  ASSUME ViewTypes, NEW S \in SUBSET Read
  PROVE  HeatIndex(S) \in Int
<1> DEFINE value == [c \in Components.topic_heat_index |->
                       IF c = "total_heat_score" THEN TotalHeat(S) * One
                       ELSE Mean([v \in S |-> Score(c, v)])]
<1>1. TotalHeat(S) * One \in Int
  <2>1. S \in SUBSET VideoIds
    BY ReadMetrics
  <2>2. TotalHeat(S) \in Int
    BY <2>1, TotalHeatType
  <2>3. QED
    BY <2>2 DEF ViewTypes
<1>2. ASSUME NEW c \in Components["topic_heat_index"]
      PROVE  value[c] \in Int
  <2>1. c = "total_heat_score" \/ c \in Scores
    BY DEF Components, Scores
  <2>2. c \in Scores => Mean([v \in S |-> Score(c, v)]) \in Int
    BY MeanScore DEF ViewTypes
  <2>3. value[c] = IF c = "total_heat_score" THEN TotalHeat(S) * One
                   ELSE Mean([v \in S |-> Score(c, v)])
    OBVIOUS
  <2> HIDE DEF value
  <2>4. QED
    BY <1>1, <2>1, <2>2, <2>3
<1>3. HeatIndex(S) = MetricScore("topic_heat_index", value)
  BY DEF HeatIndex
<1>4. "topic_heat_index" \in DOMAIN Components
  BY ComponentSets
<1> HIDE DEF value
<1>5. QED
  BY <1>2, <1>3, <1>4, MetricScoreType

LEMMA LatestIndexType ==
  ASSUME ViewTypes, NEW k
  PROVE  LatestIndex(k) \in Int
<1>1. {v \in InsightVideos(k) : Day[v] = LatestDay(k)} \in SUBSET Read
  BY DEF InsightVideos
<1>2. QED
  BY <1>1, IndexType DEF LatestIndex

LEMMA TopicTypes ==
  ASSUME ViewTypes, NEW k \in InsightTopics
  PROVE  /\ k \in TopicIds /\ k \in Nat /\ k # 0
         /\ InsightVideos(k) \in SUBSET Read /\ InsightVideos(k) # {}
         /\ TopicVideos(k) \in SUBSET VideoIds
         /\ IsFiniteSet(InsightTopics) /\ InsightTopics \subseteq Nat
<1>1. InsightTopics \subseteq TopicIds /\ IsFiniteSet(TopicIds) /\ TopicIds \subseteq Nat \ {0}
  BY DEF InsightTopics, ViewTypes
<1>2. IsFiniteSet(InsightTopics)
  BY <1>1, FS_Subset
<1>3. QED
  BY <1>1, <1>2 DEF InsightTopics, InsightVideos, TopicVideos

\* What is added comes to 100 percent.
LEMMA HotScoreWithin ==
  ASSUME ViewTypes, NEW k \in InsightTopics
  PROVE  HotScore(k) \in 0..100 * One
<1> DEFINE V == InsightVideos(k)
           heats == [j \in InsightTopics |-> TotalHeat(TopicVideos(j))]
           days == [v \in V |-> Day[v]]
           heated == {heats[j] : j \in InsightTopics}
           dated == {days[v] : v \in V}
           age(newest) == ((Today - newest) * One) \div 14
           recency(newest) ==
             IF newest = 0 THEN 0 ELSE Max({0, Min({One, One - age(newest)})})
           newest == Max(dated)
           relative == NormalizePositive(heats[k], Max(heated))
           burst == Mean([v \in V |-> Score("burst_score", v)])
           community == Mean([v \in V |-> Score("community_score", v)])
           trend == NormalizePositive(LatestIndex(k), 5 * One)
<1>1. HotScore(k) = 30 * relative + 25 * burst + 20 * community
                      + 15 * recency(newest) + 10 * trend
  BY DEF HotScore
<1>2. V \in SUBSET Read /\ V # {} /\ One \in Nat /\ Today \in Nat
  BY TopicTypes DEF ViewTypes
<1>3. relative \in 0..One
  <2>1. heats \in [InsightTopics -> Int]
    BY TopicTypes, TotalHeatType
  <2>2. heats[k] \in heated
    OBVIOUS
  <2> HIDE DEF heats
  <2>3. IsFiniteSet(heated) /\ heated \subseteq Int
    BY <2>1, TopicTypes, Image
  <2> HIDE DEF heated
  <2>4. Max(heated) \in Int /\ heats[k] \in Int
    BY <2>2, <2>3, Greatest
  <2>5. QED
    BY <2>4, NormalizedWithin
<1>4. newest \in Int
  <2>1. days \in [V -> Int] /\ IsFiniteSet(V)
    BY <1>2, ReadMetrics, FS_Subset
  <2>2. dated # {}
    BY <1>2
  <2> HIDE DEF days
  <2>3. IsFiniteSet(dated) /\ dated \subseteq Int
    BY <2>1, Image
  <2> HIDE DEF dated
  <2>4. QED
    BY <2>2, <2>3, Greatest
<1>5. ASSUME NEW m \in Int
      PROVE  recency(m) \in 0..One
  <2>1. (Today - m) * One \in Int
    BY <1>2
  <2>2. age(m) \in Int
    BY <2>1, Quotient
  <2> DEFINE p == One - age(m)
             q == Min({One, p})
  <2>3. p \in Int
    BY <1>2, <2>2
  <2> HIDE DEF p
  <2>4. q \in Int /\ q <= One
    BY <1>2, <2>3 DEF Min
  <2> HIDE DEF q
  <2>5. Max({0, q}) \in {0, q} /\ Max({0, q}) >= 0
    <3>1. 0 \in Int
      OBVIOUS
    <3>2. QED
      BY <2>4, <3>1, GreatestOfTwo
  <2>6. Max({0, q}) \in 0..One
    BY <1>2, <2>4, <2>5
  <2>7. recency(m) = IF m = 0 THEN 0 ELSE Max({0, q})
    BY DEF p, q
  <2> HIDE DEF recency
  <2>8. QED
    BY <1>2, <2>6, <2>7
<1>6. burst \in 0..One /\ community \in 0..One
  BY <1>2, MeanScore DEF Scores
<1>7. trend \in 0..One
  <2>1. 5 * One \in Int
    BY <1>2
  <2>2. LatestIndex(k) \in Int
    BY LatestIndexType
  <2>3. QED
    BY <2>1, <2>2, NormalizedWithin
<1>8. recency(newest) \in 0..One
  <2> HIDE DEF newest, recency
  <2>1. QED
    BY <1>4, <1>5
<1> HIDE DEF relative, burst, community, recency, newest, trend
<1>9. QED
  BY <1>1, <1>2, <1>3, <1>6, <1>7, <1>8

-----------------------------------------------------------------------------
(* Requests for the analysis of a task *)

CONSTANTS Tasks, Metrics, Spread, Crawls

VARIABLES rows, relations, crawls

Statistic == INSTANCE Statistics

Stored == [VideoIds -> Metrics \cup {Missing}]
Related == [VideoIds -> Spread \cup {<<>>}]

StatisticInv ==
  /\ rows \in [Tasks -> Stored] /\ relations \in [Tasks -> Related] /\ crawls \in 0..Crawls
  /\ reader \in [pc : {"idle", "topics", "history", "computed"}, task : Tasks,
                 videos : Stored, topics : Related, history : SUBSET (Tasks \X VideoIds)]

\* The instance's operators are those of AnalysisViews.
LEMMA SameViews ==
  /\ Statistic!Missing = Missing /\ Statistic!Components = Components
  /\ Statistic!NoRows = [v \in VideoIds |-> Missing]
BY DEF Statistic!Missing, Missing, Statistic!Components, Components, Statistic!NoRows

LEMMA StatisticIdle ==
  ASSUME Statistic!Assumption
  PROVE  /\ Statistic!NoRows \in Stored /\ Statistic!NoTopics \in Related
         /\ Statistic!Idle \in [pc : {"idle"}, task : Tasks, videos : Stored,
                                topics : Related, history : SUBSET (Tasks \X VideoIds)]
<1>1. Statistic!NoRows \in Stored /\ Statistic!NoTopics \in Related
  BY SameViews DEF Stored, Related, Statistic!NoTopics
<1>2. (CHOOSE t \in Tasks : TRUE) \in Tasks
  BY DEF Statistic!Assumption
<1>3. QED
  BY <1>1, <1>2 DEF Statistic!Idle

LEMMA StatisticInit ==
  ASSUME Statistic!Assumption, Statistic!Init
  PROVE  StatisticInv
BY StatisticIdle DEF Statistic!Assumption, Statistic!Init, StatisticInv

LEMMA StatisticNext ==
  ASSUME Statistic!Assumption, StatisticInv, [Statistic!Next]_(Statistic!vars)
  PROVE  StatisticInv'
<1> USE DEF StatisticInv
<1>1. ASSUME NEW t \in Tasks, Statistic!Reset(t)
      PROVE  StatisticInv'
  <2>1. rows' \in [Tasks -> Stored] /\ relations' \in [Tasks -> Related]
    BY <1>1, StatisticIdle DEF Statistic!Reset
  <2>2. crawls' \in 0..Crawls
    BY <1>1 DEF Statistic!Reset, Statistic!Assumption
  <2>3. QED
    BY <1>1, <2>1, <2>2 DEF Statistic!Reset
<1>2. ASSUME NEW t \in Tasks, NEW v \in VideoIds, Statistic!Store(t, v)
      PROVE  StatisticInv'
  <2>1. PICK m \in Metrics : rows' = [rows EXCEPT ![t][v] = m]
    BY <1>2 DEF Statistic!Store
  <2>2. rows' \in [Tasks -> Stored]
    BY <2>1 DEF Stored
  <2>3. QED
    BY <1>2, <2>2 DEF Statistic!Store
<1>3. ASSUME NEW t \in Tasks, Statistic!Cluster(t)
      PROVE  StatisticInv'
  <2>1. PICK into \in [VideoIds -> Spread \cup {<<>>}] :
          relations' = [relations EXCEPT ![t] =
            [v \in VideoIds |-> IF rows[t][v] = Statistic!Missing THEN <<>> ELSE into[v]]]
    BY <1>3 DEF Statistic!Cluster
  <2>2. relations' \in [Tasks -> Related]
    BY <2>1 DEF Related
  <2>3. QED
    BY <1>3, <2>2 DEF Statistic!Cluster
<1>4. ASSUME NEW t \in Tasks, Statistic!LoadVideos(t)
      PROVE  StatisticInv'
  BY <1>4, StatisticIdle DEF Statistic!LoadVideos
<1>5. ASSUME Statistic!LoadTopics
      PROVE  StatisticInv'
  BY <1>5 DEF Statistic!LoadTopics
<1>6. ASSUME Statistic!LoadHistory
      PROVE  StatisticInv'
  <2>1. Statistic!History \in SUBSET (Tasks \X VideoIds)
    BY DEF Statistic!History
  <2>2. QED
    BY <1>6, <2>1 DEF Statistic!LoadHistory
<1>7. ASSUME Statistic!Answer
      PROVE  StatisticInv'
  BY <1>7, StatisticIdle DEF Statistic!Answer
<1>8. CASE UNCHANGED Statistic!vars
  BY <1>8 DEF Statistic!vars
<1>9. QED
  BY <1>1, <1>2, <1>3, <1>4, <1>5, <1>6, <1>7, <1>8 DEF Statistic!Next

\* A request holds rows and lists of topics, or none of a video.
LEMMA Viewed ==
  ASSUME Statistic!Assumption, StatisticInv
  PROVE  ViewTypes
<1>1. Metrics \subseteq Metric /\ Spread \subseteq Seq(TopicIds)
  <2>1. \A m \in Metrics : m \in Metric
    BY DEF Statistic!Assumption, Metric
  <2>2. QED
    BY <2>1 DEF Statistic!Assumption
<1>2. reader.videos \in Stored /\ reader.topics \in Related
  BY DEF StatisticInv
<1>3. reader.videos \in [VideoIds -> Metric \cup {Missing}]
  BY <1>1, <1>2 DEF Stored
<1>4. reader.topics \in [VideoIds -> Seq(TopicIds)]
  <2>1. <<>> \in Seq(TopicIds)
    OBVIOUS
  <2>2. Spread \cup {<<>>} \subseteq Seq(TopicIds)
    BY <1>1, <2>1
  <2>3. QED
    BY <1>2, <2>2 DEF Related
<1>5. \A m \in DOMAIN Components : {Weights[m], Defaults[m]} \subseteq [Components[m] -> Nat]
  BY SameViews DEF Statistic!Assumption
<1>9. \A m \in Scores : DefaultTotal(m) = One
  <2>1. \A m \in Scores : Statistic!DefaultTotal(m) = One
    BY DEF Statistic!Assumption, Scores
  <2>2. \A m : Statistic!DefaultTotal(m) = DefaultTotal(m)
    BY DEF Statistic!DefaultTotal, DefaultTotal,
           Statistic!SumFunction, SumFunction,
           Statistic!SumFunctionOnSet, SumFunctionOnSet,
           Statistic!FoldFunctionOnSet, FoldFunctionOnSet,
           Statistic!MapThenFoldSet, MapThenFoldSet
  <2>3. QED
    BY <2>1, <2>2
<1>6. IsFiniteSet(VideoIds) /\ IsFiniteSet(TopicIds)
  <2>1. Statistic!IsFiniteSet(VideoIds) /\ Statistic!IsFiniteSet(TopicIds)
    BY DEF Statistic!Assumption
  <2>2. QED
    BY <2>1 DEF Statistic!IsFiniteSet, IsFiniteSet
<1>7. QED
  BY <1>3, <1>4, <1>5, <1>6, <1>9 DEF Statistic!Assumption, ViewTypes

\* The state of the statistics of tasks is of its type.
THEOREM StatisticsTypeOK ==
  ASSUME Statistic!Assumption
  PROVE  Statistic!Spec => []Statistic!TypeOK
<1>1. Statistic!Init => StatisticInv
  BY StatisticInit
<1>2. StatisticInv /\ [Statistic!Next]_(Statistic!vars) => StatisticInv'
  BY StatisticNext
<1>3. StatisticInv => Statistic!TypeOK
  BY SameViews DEF StatisticInv, Stored, Related, Statistic!TypeOK
<1>4. QED
  BY <1>1, <1>2, <1>3, PTL DEF Statistic!Spec

\* Whatever weights a task has, whatever counts the site answered and whatever
\* runs of the task deleted or stored between the queries for the videos and for
\* the topics, a request for its analysis gives every video scores from 0 to 1 and
\* every topic one from 0 to 100 percent (calculate_task_statistics).
THEOREM ScoresKeepToScale ==
  ASSUME Statistic!Assumption
  PROVE  Statistic!Spec => []ScoresWithinScale
<1>1. Statistic!Init => StatisticInv
  BY StatisticInit
<1>2. StatisticInv /\ [Statistic!Next]_(Statistic!vars) => StatisticInv'
  BY StatisticNext
<1>3. StatisticInv => ScoresWithinScale
  BY Viewed, ScoreWithin, HotScoreWithin DEF ScoresWithinScale, Scores
<1>4. QED
  BY <1>1, <1>2, <1>3, PTL DEF Statistic!Spec

=============================================================================
