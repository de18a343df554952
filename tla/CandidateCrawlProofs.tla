------------------------- MODULE CandidateCrawlProofs -------------------------
(***************************************************************************)
(* CandidateCrawl for any number of candidates, threads and other tasks:   *)
(* its types, that no candidate is counted twice or forgotten however the  *)
(* futures complete, and that the rows follow the ranks.  What is said of  *)
(* the rows holds until another run of the task changes them.              *)
(***************************************************************************)
EXTENDS CandidateCrawl, FiniteSetTheorems, FunctionTheorems, SequenceTheorems,
        WellFoundedInduction, TLAPS

Collecting == 1..Len(outcomes)
Okays == {k \in Collecting : outcomes[k].result = "ok"}

\* No candidate has two outcomes, and none waits twice to be crawled again.
Distinct ==
  /\ IsInjective(threaded)
  /\ \A k, l \in Collecting : outcomes[k].index = outcomes[l].index => k = l

\* The first of the threaded failures that has still to be crawled again
Due == Len(outcomes) - (Len(selected) - Len(threaded)) + 1

\* What each loop has left, and what is settled when it has come to its end
LoopInv ==
  /\ step = "crawl" =>
       threaded = <<>> /\ \A k \in Collecting : outcomes[k].index = k
  /\ step = "collect" =>
       \A k \in Collecting, j \in 1..Len(threaded) : outcomes[k].index # threaded[j]
  /\ step = "retry" =>
       /\ Due \in 1..(Len(threaded) + 1)
       /\ \A k \in Collecting, j \in Due..Len(threaded) : outcomes[k].index # threaded[j]
  /\ step \in {"store", "flush", "done"} => Len(outcomes) = Len(selected)
  /\ step = "flush" => stored < Len(selected) /\ Upcoming.result = "ok"
  /\ step = "done" => stored = Len(selected)

CountsInv ==
  /\ progress = [processed |-> Len(outcomes), success |-> Cardinality(Okays),
                 failure |-> Len(outcomes) - Cardinality(Okays)]
  /\ step = "done" => stats = [success |-> progress.success, failure |-> progress.failure]

\* The rows are those of the videos that the outcomes stored so far name.  Each is
\* named by one of these outcomes that comes before all that name a later row.
RowsSoFar ==
  /\ \A k \in 1..Len(taskVideos) :
       \E i \in Naming(taskVideos[k]) :
         /\ i <= stored
         /\ \A l \in 1..Len(taskVideos) : k < l => \A j \in Naming(taskVideos[l]) : i < j
  /\ \A v \in Videos : \A i \in Naming(v) : i <= stored => v \in ToSet(taskVideos)

RowsInv ==
  alone =>
    /\ step \in {"crawl", "collect", "drain", "retry"} => stored = 0 /\ taskVideos = <<>>
    /\ step \in {"store", "flush", "done"} => RowsSoFar

IInv == TypeOK /\ Distinct /\ LoopInv /\ CountsInv /\ RowsInv

-----------------------------------------------------------------------------
(* Sorting *)

LEMMA LeastNumber ==
  ASSUME NEW T \in SUBSET Nat, T # {}
  PROVE  \E m \in T : \A k \in T : m <= k
<1> DEFINE R == {p \in Nat \X Nat : p[1] < p[2]}
<1>1. IsWellFoundedOn(R, Nat)
  BY NatLessThanWellFounded, Zenon DEF OpToRel
<1>2. \A k, l \in Nat : k < l => <<k, l>> \in R
  OBVIOUS
<1> HIDE DEF R
<1>3. PICK m \in T : \A k \in T : ~(<<k, m>> \in R)
  BY <1>1, WFMin
<1>4. \A k \in T : ~(k < m)
  BY <1>2, <1>3
<1>5. QED
  BY <1>4

LEMMA IncreasingIsIdentity ==
  ASSUME NEW n \in Nat, NEW g \in [1..n -> 1..n],
         \A k, l \in 1..n : k < l => g[k] < g[l]
  PROVE  \A k \in 1..n : g[k] = k
<1>1. \A k \in 1..n : g[k] >= k
  <2> DEFINE T == {k \in 1..n : g[k] < k}
  <2>1. SUFFICES ASSUME T # {}
                 PROVE  FALSE
    OBVIOUS
  <2>2. PICK m \in T : \A k \in T : m <= k
    BY <2>1, LeastNumber, T \subseteq Nat
  <2>3. m \in 1..n /\ m - 1 \in 1..n /\ m - 1 \notin T
    BY <2>2
  <2>4. g[m - 1] >= m - 1 /\ g[m - 1] < g[m]
    BY <2>3
  <2>5. QED
    BY <2>2, <2>3, <2>4
<1>2. \A k \in 1..n : g[k] <= k
  <2> DEFINE T == {d \in 0..(n - 1) : g[n - d] > n - d}
  <2>1. SUFFICES ASSUME T # {}
                 PROVE  FALSE
    <3>1. ASSUME NEW k \in 1..n, ~(g[k] <= k)
          PROVE  n - k \in T
      <4>1. n - k \in 0..(n - 1) /\ n - (n - k) = k /\ g[k] \in 1..n
        OBVIOUS
      <4>2. QED
        BY <3>1, <4>1
    <3>2. QED
      BY <3>1
  <2>2. PICK d \in T : \A e \in T : d <= e
    BY <2>1, LeastNumber, T \subseteq Nat
  <2>3. d \in 0..(n - 1) /\ g[n - d] > n - d /\ n - d \in 1..n /\ d - 1 \notin T
    <3>1. d \in 0..(n - 1) /\ g[n - d] > n - d
      BY <2>2
    <3>2. n - d \in 1..n /\ ~(d <= d - 1)
      BY <3>1
    <3>3. QED
      BY <2>2, <3>1, <3>2
  <2>4. CASE d = 0
    BY <2>3, <2>4
  <2>5. CASE d # 0
    <3>1. d - 1 \in 0..(n - 1) /\ n - (d - 1) = n - d + 1 /\ n - d + 1 \in 1..n
      BY <2>3, <2>5
    <3>2. g[n - d + 1] <= n - d + 1 /\ g[n - d] < g[n - d + 1]
      BY <2>3, <3>1
    <3>3. QED
      BY <2>3, <3>1, <3>2
  <2>6. QED
    BY <2>4, <2>5
<1>3. QED
  BY <1>1, <1>2

LEMMA UpTo ==
  ASSUME NEW n \in Nat
  PROVE  IsFiniteSet(1..n) /\ Cardinality(1..n) = n
<1>1. CASE n = 0
  BY <1>1, FS_Interval
<1>2. CASE n # 0
  BY <1>2, FS_Interval
<1>3. QED
  BY <1>1, <1>2

LEMMA OutcomeTypes ==
  ASSUME TypeOK
  PROVE  /\ Len(selected) \in Nat /\ Len(outcomes) \in Nat /\ Len(threaded) \in Nat
         /\ DOMAIN outcomes = Collecting /\ DOMAIN threaded = 1..Len(threaded)
         /\ \A k \in Collecting : outcomes[k] \in [index : Indices, result : {"ok", "error"}, bvid : Videos]
         /\ \A j \in 1..Len(threaded) : threaded[j] \in Indices
BY LenProperties, ElementOfSeq DEF TypeOK, Collecting

\* Every candidate has an outcome once there are as many of them.
LEMMA OutcomesComplete ==
  ASSUME TypeOK, Distinct, Len(outcomes) = Len(selected)
  PROVE  \A i \in Indices : \E k \in Collecting : outcomes[k].index = i
<1> DEFINE n == Len(selected)
           f == [k \in 1..n |-> outcomes[k].index]
<1>1. n \in Nat /\ \A k \in 1..n : outcomes[k].index \in 1..n
  BY OutcomeTypes DEF Indices, Collecting
<1>2. f \in Injection(1..n, 1..n)
  BY <1>1 DEF Injection, IsInjective, Distinct, Collecting
<1>3. IsFiniteSet(1..n)
  <2> HIDE DEF n, f
  <2>1. QED
    BY <1>1, UpTo
<1>4. f \in Surjection(1..n, 1..n)
  BY <1>2, <1>3, FS_Injection
<1>5. QED
  BY <1>4 DEF Surjection, Indices, Collecting

\* sorted() puts the outcome of candidate i at place i.
LEMMA OrderedByRank ==
  ASSUME TypeOK, Distinct, Len(outcomes) = Len(selected)
  PROVE  \A i \in Indices :
           \E k \in Collecting : Ordered[i] = outcomes[k] /\ outcomes[k].index = i
<1> DEFINE n == Len(selected)
           at == [i \in 1..n |-> CHOOSE k \in 1..n : outcomes[k].index = i]
           w == [i \in 1..n |-> outcomes[at[i]]]
<1>1. n \in Nat /\ Len(outcomes) = n /\ DOMAIN outcomes = 1..n
      /\ \A k \in 1..n : outcomes[k].index \in 1..n
  BY OutcomeTypes DEF Indices, Collecting
<1>2. \A i \in 1..n : at[i] \in 1..n /\ outcomes[at[i]].index = i
  BY OutcomesComplete DEF Indices, Collecting
<1>3. w \in [1..n -> ToSet(outcomes)] /\ \A i \in 1..n : w[i].index = i
  BY <1>1, <1>2 DEF ToSet
<1>4. \A k, l \in 1..n : k < l => w[k].index < w[l].index
  BY <1>3
<1>5. /\ Ordered \in [1..n -> ToSet(outcomes)]
      /\ \A k, l \in 1..n : k < l => Ordered[k].index < Ordered[l].index
  <2> HIDE DEF w
  <2>1. QED
    BY <1>1, <1>3, <1>4 DEF Ordered
<1>6. \A i \in 1..n : \E k \in 1..n : Ordered[i] = outcomes[k]
  BY <1>1, <1>5 DEF ToSet
<1> DEFINE g == [i \in 1..n |-> Ordered[i].index]
<1>7. g \in [1..n -> 1..n] /\ \A k, l \in 1..n : k < l => g[k] < g[l]
  BY <1>1, <1>5, <1>6
<1> HIDE DEF g
<1>8. \A i \in 1..n : g[i] = i
  BY <1>1, <1>7, IncreasingIsIdentity
<1>9. \A i \in 1..n : Ordered[i].index = i
  BY <1>8 DEF g
<1>10. Indices = 1..n /\ Collecting = 1..n
  BY <1>1 DEF Indices, Collecting
<1> HIDE DEF n, at, w
<1>11. SUFFICES ASSUME NEW i \in 1..n
                PROVE  \E k \in 1..n : Ordered[i] = outcomes[k] /\ outcomes[k].index = i
  BY <1>10
<1>12. PICK k \in 1..n : Ordered[i] = outcomes[k]
  BY <1>6
<1>13. QED
  BY <1>9, <1>12

-----------------------------------------------------------------------------
(* Every step preserves the invariant.                                     *)

\* The parts of the state that tell what has been counted
accounts == <<selected, outcomes, threaded, stored, progress>>

LEMMA AccountsKept ==
  ASSUME UNCHANGED accounts
  PROVE  /\ Distinct' = Distinct /\ Due' = Due /\ Okays' = Okays
         /\ Collecting' = Collecting /\ Ordered' = Ordered /\ Upcoming' = Upcoming
         /\ Indices' = Indices /\ \A v : Naming(v)' = Naming(v)
BY DEF accounts, Distinct, Due, Okays, Collecting, Ordered, Upcoming, Indices, Naming

LEMMA NothingCounted ==
  ASSUME IInv, UNCHANGED accounts, UNCHANGED <<step, stats>>
  PROVE  Distinct' /\ LoopInv' /\ CountsInv'
<1>1. Distinct'
  BY AccountsKept DEF IInv
<1>2. LoopInv'
  BY AccountsKept DEF IInv, LoopInv, accounts
<1>3. CountsInv'
  BY AccountsKept DEF IInv, CountsInv, accounts
<1>4. QED
  BY <1>1, <1>2, <1>3

LEMMA NoRowsChanged ==
  ASSUME RowsInv, UNCHANGED <<step, outcomes, stored, taskVideos, alone>>
  PROVE  RowsInv'
<1>1. \A v : Naming(v)' = Naming(v)
  BY DEF Naming
<1>2. RowsSoFar' = RowsSoFar
  BY <1>1 DEF RowsSoFar
<1>3. QED
  BY <1>2 DEF RowsInv

LEMMA RunLeft ==
  ASSUME IInv, UNCHANGED accounts, step' \in {"idle", "failed"}
  PROVE  Distinct' /\ LoopInv' /\ CountsInv' /\ RowsInv'
<1>1. Distinct'
  BY AccountsKept DEF IInv
<1>2. LoopInv' /\ RowsInv'
  BY DEF LoopInv, RowsInv
<1>3. CountsInv'
  BY AccountsKept DEF IInv, CountsInv, accounts
<1>4. QED
  BY <1>1, <1>2, <1>3

LEMMA InitIInv ==
  ASSUME Assumption, Init
  PROVE  IInv
<1>1. /\ step = "idle" /\ selected = <<>> /\ detail = <<>> /\ outcomes = <<>>
      /\ threaded = <<>> /\ missing = FALSE /\ stored = 0 /\ taskVideos = <<>>
      /\ catalog = {} /\ alone = TRUE /\ runs = Runs /\ progress = NoProgress
      /\ stats = [success |-> 0, failure |-> 0] /\ Runs \in Nat
  BY DEF Init, Assumption
<1>2. Collecting = {} /\ Okays = {} /\ Indices = {} /\ Len(selected) = 0
  BY <1>1 DEF Collecting, Okays, Indices
<1>3. TypeOK
  <2>1. detail \in [Indices -> {"queued", "running", "ok", "error", "broken"}]
    BY <1>1, <1>2
  <2>2. /\ selected \in Seq(Videos) /\ taskVideos \in Seq(Videos)
        /\ outcomes \in Seq([index : Indices, result : {"ok", "error"}, bvid : Videos])
        /\ threaded \in Seq(Indices)
    BY <1>1, EmptySeq
  <2>3. /\ progress \in [processed : Nat, success : Nat, failure : Nat]
        /\ stats \in [success : Nat, failure : Nat]
    BY <1>1 DEF NoProgress
  <2>4. stored \in 0..Len(selected) /\ runs \in 0..Runs
    BY <1>1, <1>2
  <2>5. missing \in BOOLEAN /\ alone \in BOOLEAN
    BY <1>1
  <2>6. QED
    BY <1>1, <2>1, <2>2, <2>3, <2>4, <2>5 DEF TypeOK
<1>4. Distinct
  BY <1>1, <1>2 DEF Distinct, IsInjective
<1>5. LoopInv /\ RowsInv
  BY <1>1 DEF LoopInv, RowsInv
<1>6. CountsInv
  BY <1>1, <1>2, FS_EmptySet DEF CountsInv, NoProgress
<1>7. QED
  BY <1>3, <1>4, <1>5, <1>6 DEF IInv

LEMMA StartIInv ==
  ASSUME Assumption, IInv, Start
  PROVE  IInv'
<1>1. PICK list \in Selections :
        /\ selected' = list
        /\ detail' = [i \in 1..Len(list) |-> "queued"]
        /\ step' \in {"crawl", "collect"}
  BY DEF Start
<1>2. /\ outcomes' = <<>> /\ threaded' = <<>> /\ missing' = FALSE /\ stored' = 0
      /\ progress' = NoProgress /\ taskVideos' = <<>> /\ alone' = TRUE /\ stats' = stats
      /\ catalog' = catalog /\ runs > 0 /\ runs' = runs - 1
  BY DEF Start, Reset
<1>3. list \in Seq(Videos) /\ Len(list) \in Nat
  BY LenProperties DEF Assumption
<1>4. Collecting' = {} /\ Okays' = {} /\ Indices' = 1..Len(list)
  BY <1>1, <1>2 DEF Collecting, Okays, Indices
<1>5. TypeOK'
  <2>1. detail' \in [Indices' -> {"queued", "running", "ok", "error", "broken"}]
    BY <1>1, <1>4
  <2>2. /\ selected' \in Seq(Videos) /\ taskVideos' \in Seq(Videos)
        /\ outcomes' \in Seq([index : Indices', result : {"ok", "error"}, bvid : Videos])
        /\ threaded' \in Seq(Indices')
    BY <1>1, <1>2, <1>3, EmptySeq
  <2>3. runs' \in 0..Runs /\ stats' \in [success : Nat, failure : Nat] /\ catalog' \subseteq Videos
    BY <1>2 DEF IInv, TypeOK, Assumption
  <2>4. stored' \in 0..Len(selected')
    BY <1>1, <1>2, <1>3
  <2>5. /\ progress' \in [processed : Nat, success : Nat, failure : Nat]
        /\ missing' \in BOOLEAN /\ alone' \in BOOLEAN
    BY <1>2 DEF NoProgress
  <2>6. QED
    BY <1>1, <2>1, <2>2, <2>3, <2>4, <2>5 DEF TypeOK
<1>6. Distinct'
  BY <1>1, <1>2, <1>3, <1>4 DEF Distinct, IsInjective
<1>7. LoopInv' /\ RowsInv'
  BY <1>1, <1>2, <1>4 DEF LoopInv, RowsInv
<1>8. CountsInv'
  BY <1>1, <1>2, <1>4, FS_EmptySet DEF CountsInv, NoProgress
<1>9. QED
  BY <1>5, <1>6, <1>7, <1>8 DEF IInv

\* The threads change nothing but their futures.
LEMMA ThreadIInv ==
  ASSUME Assumption, IInv, Thread
  PROVE  IInv'
<1>1. PICK i \in Indices : Take(i) \/ Fetched(i)
  BY DEF Thread
<1>2. /\ detail' \in [Indices -> {"queued", "running", "ok", "error", "broken"}]
      /\ UNCHANGED <<step, selected, outcomes, threaded, missing, stored, progress, stats,
                     rows, runs>>
  <2>1. \E r \in {"queued", "running", "ok", "error", "broken"} :
          detail' = [detail EXCEPT ![i] = r]
    BY <1>1 DEF Take, Fetched
  <2>2. detail \in [Indices -> {"queued", "running", "ok", "error", "broken"}]
    BY DEF IInv, TypeOK
  <2>3. QED
    BY <1>1, <2>1, <2>2 DEF Take, Fetched
<1>3. TypeOK'
  BY <1>2 DEF IInv, TypeOK, Indices, rows
<1>4. QED
  BY <1>2, <1>3, NothingCounted, NoRowsChanged DEF IInv, accounts, rows

LEMMA RivalIInv ==
  ASSUME Assumption, IInv, NEW v \in Shared, Rival(v)
  PROVE  IInv'
<1>1. /\ catalog' \subseteq Videos
      /\ UNCHANGED <<step, selected, detail, outcomes, threaded, missing, stored, progress,
                     stats, taskVideos, alone, runs>>
  BY DEF Rival, work, Assumption, IInv, TypeOK
<1>2. TypeOK'
  BY <1>1 DEF IInv, TypeOK, Indices
<1>3. QED
  BY <1>1, <1>2, NothingCounted, NoRowsChanged DEF IInv, accounts

\* Once another run of the task has changed its rows nothing is said of them.
LEMMA OverlapIInv ==
  ASSUME Assumption, IInv, Overlap
  PROVE  IInv'
<1>1. /\ alone' = FALSE
      /\ UNCHANGED <<step, selected, detail, outcomes, threaded, missing, stored, progress,
                     stats, runs>>
      /\ \/ taskVideos' = <<>> /\ catalog' = catalog
         \/ \E v \in Shared :
              taskVideos' = Append(taskVideos, v) /\ catalog' = catalog \cup {v}
  BY DEF Overlap, work
<1>2. taskVideos' \in Seq(Videos) /\ catalog' \subseteq Videos
  <2>1. taskVideos \in Seq(Videos) /\ catalog \subseteq Videos /\ Shared \subseteq Videos
    BY DEF Assumption, IInv, TypeOK
  <2>2. CASE taskVideos' = <<>> /\ catalog' = catalog
    BY <2>1, <2>2, EmptySeq
  <2>3. ASSUME NEW v \in Shared,
               taskVideos' = Append(taskVideos, v) /\ catalog' = catalog \cup {v}
        PROVE  taskVideos' \in Seq(Videos) /\ catalog' \subseteq Videos
    BY <2>1, <2>3, AppendProperties
  <2>4. QED
    BY <1>1, <2>2, <2>3
<1>3. TypeOK'
  BY <1>1, <1>2 DEF IInv, TypeOK, Indices
<1>4. RowsInv'
  BY <1>1 DEF RowsInv
<1>5. QED
  BY <1>1, <1>3, <1>4, NothingCounted DEF IInv, accounts

LEMMA CrashIInv ==
  ASSUME Assumption, IInv, Crash \/ Again \/ Drained
  PROVE  IInv'
<1>1. /\ step' \in {"idle", "failed"}
      /\ detail' = detail \/ detail' = [i \in Indices |-> "queued"]
      /\ UNCHANGED <<selected, outcomes, threaded, missing, stored, progress, stats,
                     taskVideos, catalog, alone, runs>>
  BY DEF Crash, Again, Drained, work, rows
<1>2. TypeOK'
  <2>1. detail' \in [Indices' -> {"queued", "running", "ok", "error", "broken"}]
    BY <1>1 DEF IInv, TypeOK, Indices
  <2>2. QED
    BY <1>1, <2>1 DEF IInv, TypeOK, Indices
<1>3. QED
  BY <1>1, <1>2, RunLeft DEF IInv, accounts

\* An outcome is added to the list and counted in the progress.
LEMMA OutcomeAdded ==
  ASSUME Assumption, IInv, NEW i \in Indices, NEW result \in {"ok", "error"},
         NEW o \in Outcomes(i, result), outcomes' = Append(outcomes, o), Count(result),
         UNCHANGED selected
  PROVE  /\ outcomes' \in Seq([index : Indices', result : {"ok", "error"}, bvid : Videos])
         /\ Collecting' = Collecting \cup {Len(outcomes) + 1}
         /\ Len(outcomes') = Len(outcomes) + 1
         /\ \A k \in Collecting : outcomes'[k] = outcomes[k]
         /\ outcomes'[Len(outcomes) + 1] = o /\ o.index = i
         /\ progress' \in [processed : Nat, success : Nat, failure : Nat]
         /\ progress' = [processed |-> Len(outcomes'), success |-> Cardinality(Okays'),
                         failure |-> Len(outcomes') - Cardinality(Okays')]
<1> DEFINE n == Len(outcomes)
           R == [index : Indices, result : {"ok", "error"}, bvid : Videos]
<1>0. o \in R /\ o.index = i /\ o.result = result
  <2>1. selected[i] \in Videos /\ Bears[selected[i]] \subseteq Videos
    <3>1. selected[i] \in Videos
      BY ElementOfSeq DEF IInv, TypeOK, Indices
    <3>2. QED
      BY <3>1 DEF Assumption
  <2>2. QED
    BY <2>1 DEF Outcomes
<1>1. outcomes \in Seq(R) /\ n \in Nat /\ Indices' = Indices
  BY OutcomeTypes DEF IInv, TypeOK, Indices
<1>2. /\ outcomes' \in Seq(R) /\ Len(outcomes') = n + 1
      /\ \A k \in 1..n : outcomes'[k] = outcomes[k]
      /\ outcomes'[n + 1] = o
  BY <1>0, <1>1, AppendProperties
<1>3. Collecting' = Collecting \cup {n + 1} /\ n + 1 \notin Collecting
  BY <1>1, <1>2 DEF Collecting
<1>4. Okays' = IF result = "ok" THEN Okays \cup {n + 1} ELSE Okays
  BY <1>0, <1>1, <1>2, <1>3 DEF Okays, Collecting
<1>5. IsFiniteSet(Okays) /\ Cardinality(Okays) \in Nat /\ Cardinality(Okays) <= n
      /\ n + 1 \notin Okays
  <2>1. IsFiniteSet(1..n) /\ Cardinality(1..n) = n
    BY <1>1, UpTo
  <2>2. Okays \in SUBSET (1..n) /\ n + 1 \notin Okays
    BY <1>3 DEF Okays, Collecting
  <2>3. IsFiniteSet(Okays) /\ Cardinality(Okays) <= Cardinality(1..n)
    BY <2>1, <2>2, FS_Subset
  <2>4. QED
    BY <2>1, <2>2, <2>3, FS_CardinalityType
<1>6. Cardinality(Okays') = Cardinality(Okays) + (IF result = "ok" THEN 1 ELSE 0)
  <2>1. Cardinality(Okays \cup {n + 1}) = Cardinality(Okays) + 1
    BY <1>5, FS_AddElement
  <2>2. QED
    BY <1>4, <1>5, <2>1
<1>7. progress = [processed |-> n, success |-> Cardinality(Okays),
                  failure |-> n - Cardinality(Okays)]
  BY DEF IInv, CountsInv
<1>8. progress' = [processed |-> n + 1,
                   success |-> Cardinality(Okays) + (IF result = "ok" THEN 1 ELSE 0),
                   failure |-> n - Cardinality(Okays) + (IF result = "ok" THEN 0 ELSE 1)]
  BY <1>7 DEF Count
<1>9. progress' = [processed |-> n + 1, success |-> Cardinality(Okays'),
                   failure |-> (n + 1) - Cardinality(Okays')]
  BY <1>1, <1>5, <1>6, <1>8
<1>10. progress' \in [processed : Nat, success : Nat, failure : Nat]
  BY <1>1, <1>5, <1>8
<1>11. QED
  BY <1>0, <1>1, <1>2, <1>3, <1>9, <1>10 DEF Collecting

\* A run that crawls a candidate itself goes on with the next, unless an error
\* ends it.
LEMMA CrawlHereIInv ==
  ASSUME Assumption, IInv, step \in {"crawl", "retry"}, NEW i \in Indices,
         \A k \in Collecting : outcomes[k].index # i,
         CrawlHere(i), UNCHANGED threaded,
         step' = step /\ Len(outcomes') = Len(outcomes) + 1 /\ Distinct' => LoopInv'
  PROVE  IInv'
<1>1. UNCHANGED <<selected, detail, threaded, missing, stored, stats, taskVideos, catalog,
                  alone, runs>>
  BY DEF CrawlHere, rows
<1>2. CASE step' = "failed" /\ UNCHANGED <<outcomes, progress>>
  <2>1. TypeOK'
    BY <1>1, <1>2 DEF IInv, TypeOK, Indices
  <2>2. QED
    BY <1>1, <1>2, <2>1, RunLeft DEF IInv, accounts
<1>3. ASSUME NEW result \in {"ok", "error"}, NEW o \in Outcomes(i, result),
             outcomes' = Append(outcomes, o), Count(result), step' = step
      PROVE  IInv'
  <2>1. /\ outcomes' \in Seq([index : Indices', result : {"ok", "error"}, bvid : Videos])
        /\ Collecting' = Collecting \cup {Len(outcomes) + 1}
        /\ Len(outcomes') = Len(outcomes) + 1
        /\ \A k \in Collecting : outcomes'[k] = outcomes[k]
        /\ outcomes'[Len(outcomes) + 1] = o /\ o.index = i
        /\ progress' \in [processed : Nat, success : Nat, failure : Nat]
        /\ progress' = [processed |-> Len(outcomes'), success |-> Cardinality(Okays'),
                        failure |-> Len(outcomes') - Cardinality(Okays')]
    BY <1>1, <1>3, OutcomeAdded
  <2>2. TypeOK'
    BY <1>1, <1>3, <2>1 DEF IInv, TypeOK, Indices
  <2>3. Distinct'
    <3>1. \A k, l \in Collecting' : outcomes'[k].index = outcomes'[l].index => k = l
      BY <2>1 DEF IInv, Distinct
    <3>2. QED
      BY <1>1, <3>1 DEF IInv, Distinct
  <2>4. CountsInv'
    BY <1>3, <2>1 DEF CountsInv
  <2>5. RowsInv'
    BY <1>1, <1>3 DEF IInv, RowsInv
  <2>6. QED
    BY <1>3, <2>1, <2>2, <2>3, <2>4, <2>5 DEF IInv
<1>4. QED
  BY <1>2, <1>3 DEF CrawlHere, Raise

LEMMA CrawlIInv ==
  ASSUME Assumption, IInv, Crawl
  PROVE  IInv'
<1> DEFINE n == Len(outcomes)
<1>1. /\ step = "crawl" /\ n < Len(selected) /\ CrawlHere(n + 1) /\ UNCHANGED threaded
      /\ n \in Nat /\ Len(selected) \in Nat
  BY OutcomeTypes DEF Crawl, IInv
<1>2. n + 1 \in Indices /\ \A k \in Collecting : outcomes[k].index = k /\ k # n + 1
  BY <1>1 DEF IInv, LoopInv, Indices, Collecting
<1>3. ASSUME step' = step, Len(outcomes') = n + 1, Distinct'
      PROVE  LoopInv'
  <2>1. PICK o : outcomes' = Append(outcomes, o) /\ o.index = n + 1
    BY <1>1, <1>3 DEF CrawlHere, Raise, Outcomes
  <2>2. \A k \in Collecting' : outcomes'[k].index = k
    BY <1>1, <1>2, <1>3, <2>1 DEF Collecting, IInv, TypeOK
  <2>3. QED
    BY <1>1, <1>3, <2>2 DEF LoopInv, IInv
<1>4. QED
  BY <1>1, <1>2, <1>3, CrawlHereIInv

LEMMA RetryIInv ==
  ASSUME Assumption, IInv, Retry
  PROVE  IInv'
<1> DEFINE n == Len(outcomes)
<1>1. /\ step = "retry" /\ n < Len(selected) /\ CrawlHere(threaded[Due]) /\ UNCHANGED threaded
      /\ n \in Nat /\ Len(selected) \in Nat /\ Len(threaded) \in Nat
  BY OutcomeTypes DEF Retry, IInv, Due
<1>2. Due \in 1..Len(threaded) /\ Due \in Int
  BY <1>1 DEF IInv, LoopInv, Due
<1>3. threaded[Due] \in Indices
  BY <1>2, OutcomeTypes DEF IInv
<1>4. \A k \in Collecting : outcomes[k].index # threaded[Due]
  BY <1>1, <1>2 DEF IInv, LoopInv
<1>5. ASSUME step' = step, Len(outcomes') = n + 1, Distinct'
      PROVE  LoopInv'
  <2>1. PICK o : outcomes' = Append(outcomes, o) /\ o.index = threaded[Due]
    BY <1>1, <1>5 DEF CrawlHere, Raise, Outcomes
  <2>2. /\ selected' = selected /\ threaded' = threaded
        /\ Due' = Due + 1
    BY <1>1, <1>5 DEF CrawlHere, Due
  <2>3. ASSUME NEW k \in Collecting', NEW j \in Due'..Len(threaded')
        PROVE  outcomes'[k].index # threaded'[j]
    <3>1. j \in 1..Len(threaded) /\ j # Due /\ j \in Due..Len(threaded)
      BY <1>1, <1>2, <2>2
    <3>2. CASE k \in Collecting
      <4>1. outcomes'[k] = outcomes[k]
        BY <2>1, <3>2 DEF Collecting, IInv, TypeOK
      <4>2. QED
        BY <1>1, <2>2, <3>1, <3>2, <4>1 DEF IInv, LoopInv
    <3>3. CASE k \notin Collecting
      <4>1. k = n + 1
        BY <1>1, <1>5, <3>3 DEF Collecting
      <4>2. outcomes'[k].index = threaded[Due]
        BY <1>1, <2>1, <4>1 DEF IInv, TypeOK
      <4>3. threaded[Due] # threaded[j]
        BY <1>2, <3>1, OutcomeTypes DEF IInv, Distinct, IsInjective
      <4>4. QED
        BY <2>2, <4>2, <4>3
    <3>4. QED
      BY <3>2, <3>3
  <2>4. Due' \in 1..(Len(threaded') + 1)
    BY <1>1, <1>2, <2>2
  <2>5. QED
    BY <1>1, <1>5, <2>3, <2>4 DEF LoopInv
<1>6. QED
  BY <1>1, <1>3, <1>4, <1>5, CrawlHereIInv

\* A future is collected: its candidate has an outcome, or is to be crawled
\* again, or ends the run.
LEMMA CollectIInv ==
  ASSUME Assumption, IInv, NEW i \in Indices, Collect(i)
  PROVE  IInv'
<1>1. /\ step = "collect" /\ i \in Finished \ Collected
      /\ step' = IF detail[i] = "broken" THEN "drain" ELSE "collect"
      /\ UNCHANGED <<selected, detail, missing, stored, stats, taskVideos, catalog, alone,
                     runs>>
  BY DEF Collect, Raise, rows
<1>2. /\ \A k \in Collecting : outcomes[k].index # i
      /\ \A j \in 1..Len(threaded) : threaded[j] # i
  BY <1>1, OutcomeTypes DEF Collected, Collecting, ToSet, IInv
<1>3. detail[i] \in {"ok", "error", "broken"}
  BY <1>1 DEF Finished
<1>4. alone => stored = 0 /\ taskVideos = <<>>
  BY <1>1 DEF IInv, RowsInv
<1>5. RowsInv'
  BY <1>1, <1>4 DEF RowsInv
<1>6. CASE detail[i] = "ok"
  <2>1. PICK o \in Outcomes(i, "ok") :
          /\ outcomes' = Append(outcomes, o) /\ Count("ok")
          /\ threaded' = threaded /\ step' = "collect"
    BY <1>1, <1>6 DEF Collect
  <2>2. /\ outcomes' \in Seq([index : Indices', result : {"ok", "error"}, bvid : Videos])
        /\ Collecting' = Collecting \cup {Len(outcomes) + 1}
        /\ Len(outcomes') = Len(outcomes) + 1
        /\ \A k \in Collecting : outcomes'[k] = outcomes[k]
        /\ outcomes'[Len(outcomes) + 1] = o /\ o.index = i
        /\ progress' \in [processed : Nat, success : Nat, failure : Nat]
        /\ progress' = [processed |-> Len(outcomes'), success |-> Cardinality(Okays'),
                        failure |-> Len(outcomes') - Cardinality(Okays')]
    BY <1>1, <2>1, OutcomeAdded
  <2>3. TypeOK'
    BY <1>1, <2>1, <2>2 DEF IInv, TypeOK, Indices
  <2>4. Distinct'
    <3>1. \A k, l \in Collecting' : outcomes'[k].index = outcomes'[l].index => k = l
      BY <1>2, <2>2 DEF IInv, Distinct
    <3>2. QED
      BY <1>1, <2>1, <3>1 DEF IInv, Distinct
  <2>5. LoopInv'
    <3>1. \A k \in Collecting', j \in 1..Len(threaded) : outcomes'[k].index # threaded[j]
      BY <1>1, <1>2, <2>2 DEF IInv, LoopInv
    <3>2. QED
      BY <2>1, <3>1 DEF LoopInv
  <2>6. CountsInv'
    BY <2>1, <2>2 DEF CountsInv
  <2>7. QED
    BY <1>5, <2>3, <2>4, <2>5, <2>6 DEF IInv
<1>7. CASE detail[i] # "ok"
  <2>1. /\ UNCHANGED <<outcomes, progress>>
        /\ threaded' = IF detail[i] = "error" THEN Append(threaded, i) ELSE threaded
    BY <1>7 DEF Collect
  <2>2. threaded \in Seq(Indices) /\ i \in Indices /\ IsInjective(threaded)
        /\ Indices' = Indices /\ Collecting' = Collecting /\ Okays' = Okays
    BY <1>1, <2>1 DEF IInv, TypeOK, Distinct, Indices, Collecting, Okays
  <2>3. /\ threaded' \in Seq(Indices) /\ IsInjective(threaded')
        /\ \A j \in 1..Len(threaded') : threaded'[j] = i \/ (j \in 1..Len(threaded) /\ threaded'[j] = threaded[j])
    <3>1. CASE threaded' = threaded
      BY <2>2, <3>1
    <3>2. CASE threaded' = Append(threaded, i)
      <4>1. /\ threaded' \in Seq(Indices) /\ Len(threaded') = Len(threaded) + 1
            /\ Len(threaded) \in Nat
            /\ \A j \in 1..Len(threaded) : threaded'[j] = threaded[j]
            /\ threaded'[Len(threaded) + 1] = i
        BY <2>2, <3>2, AppendProperties, LenProperties
      <4>2. DOMAIN threaded' = 1..(Len(threaded) + 1)
        BY <4>1, LenProperties
      <4>3. IsInjective(threaded')
        <5> SUFFICES ASSUME NEW j \in 1..(Len(threaded) + 1), NEW l \in 1..(Len(threaded) + 1),
                            threaded'[j] = threaded'[l]
                     PROVE  j = l
          BY <4>2 DEF IsInjective
        <5>1. CASE j = Len(threaded) + 1 \/ l = Len(threaded) + 1
          BY <1>2, <4>1, <5>1
        <5>2. CASE j # Len(threaded) + 1 /\ l # Len(threaded) + 1
          <6>1. j \in 1..Len(threaded) /\ l \in 1..Len(threaded)
            BY <4>1, <5>2
          <6>2. threaded[j] = threaded[l]
            BY <4>1, <6>1
          <6>3. QED
            BY <2>2, <6>1, <6>2, LenProperties DEF IsInjective
        <5>3. QED
          BY <5>1, <5>2
      <4>4. QED
        BY <4>1, <4>3
    <3>3. QED
      BY <2>1, <3>1, <3>2
  <2>4. TypeOK'
    BY <1>1, <2>1, <2>2, <2>3 DEF IInv, TypeOK
  <2>5. Distinct'
    BY <1>1, <2>1, <2>2, <2>3 DEF IInv, Distinct
  <2>6. LoopInv'
    <3>1. \A k \in Collecting, j \in 1..Len(threaded') : outcomes[k].index # threaded'[j]
      BY <1>1, <1>2, <2>3 DEF IInv, LoopInv
    <3>2. QED
      BY <1>1, <2>1, <2>2, <3>1 DEF LoopInv
  <2>7. CountsInv'
    BY <1>1, <2>1, <2>2 DEF IInv, CountsInv
  <2>8. QED
    BY <1>5, <2>4, <2>5, <2>6, <2>7 DEF IInv
<1>8. QED
  BY <1>6, <1>7

\* Once every future has been collected, each candidate is either in the list of
\* outcomes or in that of the failures.
LEMMA CollectedOnce ==
  ASSUME TypeOK, Distinct, Collected = Indices,
         \A k \in Collecting, j \in 1..Len(threaded) : outcomes[k].index # threaded[j]
  PROVE  Len(outcomes) + Len(threaded) = Len(selected)
<1> DEFINE o == Len(outcomes)
           t == Len(threaded)
           n == Len(selected)
           g == [k \in 1..(o + t) |-> IF k <= o THEN outcomes[k].index ELSE threaded[k - o]]
<1>1. /\ o \in Nat /\ t \in Nat /\ n \in Nat
      /\ \A k \in 1..o : outcomes[k].index \in 1..n
      /\ \A j \in 1..t : threaded[j] \in 1..n
      /\ DOMAIN threaded = 1..t
  BY OutcomeTypes DEF Collecting, Indices
<1>2. \A k \in 1..(o + t) : k > o => k - o \in 1..t
  BY <1>1
<1>3. g \in [1..(o + t) -> 1..n]
  BY <1>1, <1>2
<1>4. ASSUME NEW k \in 1..(o + t), NEW l \in 1..(o + t), g[k] = g[l]
      PROVE  k = l
  <2>1. CASE k <= o /\ l <= o
    BY <1>1, <1>4, <2>1 DEF Distinct, Collecting
  <2>2. CASE k > o /\ l > o
    <3>1. threaded[k - o] = threaded[l - o] /\ k - o \in 1..t /\ l - o \in 1..t
      BY <1>1, <1>2, <1>4, <2>2
    <3>2. k - o = l - o
      BY <1>1, <3>1 DEF Distinct, IsInjective
    <3>3. QED
      BY <1>1, <3>2
  <2>3. CASE (k <= o /\ l > o) \/ (l <= o /\ k > o)
    BY <1>1, <1>2, <1>4, <2>3 DEF Collecting
  <2>4. QED
    BY <1>1, <2>1, <2>2, <2>3
<1>5. ASSUME NEW i \in 1..n
      PROVE  \E k \in 1..(o + t) : g[k] = i
  <2>1. CASE \E k \in 1..o : outcomes[k].index = i
    BY <1>1, <2>1
  <2>2. CASE \E j \in 1..t : threaded[j] = i
    <3>1. PICK j \in 1..t : threaded[j] = i
      BY <2>2
    <3>2. o + j \in 1..(o + t) /\ o + j > o /\ (o + j) - o = j
      BY <1>1
    <3>3. g[o + j] = i
      BY <1>1, <3>1, <3>2
    <3>4. QED
      BY <3>2, <3>3
  <2>3. QED
    BY <1>1, <2>1, <2>2 DEF Collected, Indices, ToSet
<1> HIDE DEF g
<1>6. g \in Bijection(1..(o + t), 1..n)
  BY <1>3, <1>4, <1>5 DEF Bijection, Injection, Surjection, IsInjective
<1>7. /\ IsFiniteSet(1..(o + t)) /\ Cardinality(1..(o + t)) = o + t
      /\ Cardinality(1..n) = n
  BY <1>1, UpTo
<1>8. Cardinality(1..n) = Cardinality(1..(o + t))
  BY <1>6, <1>7, FS_Bijection DEF ExistsBijection
<1>9. QED
  BY <1>7, <1>8

LEMMA AdvanceIInv ==
  ASSUME Assumption, IInv, Advance
  PROVE  IInv'
<1>1. /\ UNCHANGED <<selected, detail, outcomes, threaded, missing, stored, progress, stats,
                     taskVideos, catalog, alone, runs>>
      /\ step' \in {"retry", "store"} /\ step \in {"crawl", "collect", "retry"}
  BY DEF Advance, work, rows
<1>2. alone => stored = 0 /\ taskVideos = <<>>
  BY <1>1 DEF IInv, RowsInv
<1>3. ASSUME alone
      PROVE  RowsSoFar'
  <2>1. stored' = 0 /\ 1..Len(taskVideos') = {}
    BY <1>1, <1>2, <1>3
  <2>2. \A v : \A i \in Naming(v)' : ~(i <= stored')
    <3>1. \A k \in Collecting : outcomes[k].index \in Indices
      BY OutcomeTypes DEF IInv
    <3>2. \A v : \A i \in Naming(v) : i \in 1..Len(selected)
      BY <3>1 DEF Naming, Collecting, Indices
    <3>3. \A v : Naming(v)' = Naming(v)
      BY <1>1 DEF Naming
    <3>4. QED
      BY <2>1, <3>2, <3>3
  <2>3. QED
    BY <2>1, <2>2 DEF RowsSoFar
<1>4. RowsInv'
  BY <1>1, <1>2, <1>3 DEF RowsInv
<1>5. TypeOK'
  BY <1>1 DEF IInv, TypeOK, Indices
<1>6. Distinct'
  BY <1>1, AccountsKept DEF IInv, accounts
<1>7. CountsInv'
  BY <1>1, AccountsKept DEF IInv, CountsInv, accounts
<1>8. LoopInv'
  <2>1. CASE step = "collect" /\ Collected = Indices /\ step' = "retry"
    <3>1. Due = 1
      BY <2>1, CollectedOnce, OutcomeTypes DEF IInv, LoopInv, Due
    <3>2. Len(threaded) \in Nat
      BY OutcomeTypes DEF IInv
    <3>3. QED
      BY <1>1, <2>1, <3>1, <3>2, AccountsKept DEF IInv, LoopInv, accounts
  <2>2. CASE Len(outcomes) = Len(selected) /\ step' = "store"
    BY <1>1, <2>2 DEF LoopInv
  <2>3. QED
    BY <2>1, <2>2 DEF Advance
<1>9. QED
  BY <1>4, <1>5, <1>6, <1>7, <1>8 DEF IInv

\* The outcome that is next to be stored is that of the next rank, and the only
\* one of it.
LEMMA UpcomingIsNext ==
  ASSUME IInv, step \in {"store", "flush"}, stored < Len(selected)
  PROVE  /\ stored + 1 \in Indices /\ Video \in Videos
         /\ Upcoming.result = "ok" => stored + 1 \in Naming(Video)
         /\ \A v : stored + 1 \in Naming(v) => Upcoming.result = "ok" /\ v = Video
<1>1. stored \in Nat /\ Len(selected) \in Nat /\ Len(outcomes) = Len(selected)
  BY OutcomeTypes DEF IInv, TypeOK, LoopInv
<1>2. stored + 1 \in Indices
  BY <1>1 DEF Indices
<1>3. PICK k \in Collecting : Upcoming = outcomes[k] /\ outcomes[k].index = stored + 1
  BY <1>1, <1>2, OrderedByRank DEF Upcoming, IInv
<1>4. \A l \in Collecting : outcomes[l].index = stored + 1 => l = k
  BY <1>3 DEF IInv, Distinct
<1>5. Video = outcomes[k].bvid /\ Video \in Videos
  BY <1>3, OutcomeTypes DEF IInv, Video
<1>6. Upcoming.result = "ok" => stored + 1 \in Naming(Video)
  BY <1>3, <1>5 DEF Naming, Collecting
<1>7. ASSUME NEW v, stored + 1 \in Naming(v)
      PROVE  Upcoming.result = "ok" /\ v = Video
  <2>1. PICK l \in Collecting : /\ outcomes[l].index = stored + 1
                                /\ outcomes[l].result = "ok" /\ outcomes[l].bvid = v
    BY <1>7 DEF Naming, Collecting
  <2>2. QED
    BY <1>3, <1>4, <1>5, <2>1
<1>8. QED
  BY <1>2, <1>5, <1>6, <1>7

LEMMA RanksAreNumbers ==
  ASSUME IInv
  PROVE  stored \in Nat /\ \A v : \A i \in Naming(v) : i \in Nat
<1>1. \A k \in Collecting : outcomes[k].index \in 1..Len(selected)
  BY OutcomeTypes DEF IInv, Indices
<1>2. QED
  BY <1>1, OutcomeTypes DEF IInv, TypeOK, Naming, Collecting

LEMMA LookupIInv ==
  ASSUME Assumption, IInv, Lookup
  PROVE  IInv'
<1>1. /\ step = "store" /\ stored < Len(selected)
      /\ UNCHANGED <<selected, detail, outcomes, threaded, progress, stats, taskVideos,
                     catalog, alone, runs>>
  BY DEF Lookup, work, rows
<1>2. Distinct' /\ \A v : Naming(v)' = Naming(v)
  BY <1>1 DEF IInv, Distinct, Collecting, Naming
<1>3. Okays' = Okays /\ Len(outcomes) = Len(selected)
  BY <1>1 DEF Okays, Collecting, IInv, LoopInv
<1>4. CASE Upcoming.result = "ok"
  <2>1. step' = "flush" /\ missing' = (Video \notin catalog) /\ stored' = stored
    BY <1>4 DEF Lookup
  <2>2. missing' \in BOOLEAN
    BY <2>1
  <2>3. TypeOK'
    BY <1>1, <2>1, <2>2 DEF IInv, TypeOK, Indices
  <2>4. LoopInv'
    BY <1>1, <1>3, <1>4, <2>1, AccountsKept DEF LoopInv, accounts
  <2>5. CountsInv'
    BY <1>1, <1>3, <2>1 DEF IInv, CountsInv
  <2>6. RowsInv'
    <3>1. RowsSoFar' = RowsSoFar
      BY <1>1, <1>2, <2>1 DEF RowsSoFar
    <3>2. QED
      BY <1>1, <2>1, <3>1 DEF IInv, RowsInv
  <2>7. QED
    BY <1>2, <2>3, <2>4, <2>5, <2>6 DEF IInv
<1>5. CASE Upcoming.result # "ok"
  <2>1. stored' = stored + 1 /\ step' = "store" /\ missing' = missing
    BY <1>1, <1>5 DEF Lookup
  <2>2. stored \in 0..Len(selected) /\ Len(selected) \in Nat
    BY OutcomeTypes DEF IInv, TypeOK
  <2>3. TypeOK'
    BY <1>1, <2>1, <2>2 DEF IInv, TypeOK, Indices
  <2>4. LoopInv'
    BY <1>1, <1>3, <2>1 DEF LoopInv
  <2>5. CountsInv'
    BY <1>1, <1>3, <2>1 DEF IInv, CountsInv
  <2>6. ASSUME RowsSoFar
        PROVE  RowsSoFar'
    <3>1. \A v : stored + 1 \notin Naming(v)
      BY <1>1, <1>5, UpcomingIsNext
    <3>2. \A v : \A i \in Naming(v) : i <= stored + 1 <=> i <= stored
      BY <3>1, RanksAreNumbers
    <3>3. QED
      BY <1>1, <1>2, <2>1, <2>6, <3>2 DEF RowsSoFar
  <2>7. RowsInv'
    BY <1>1, <2>1, <2>6 DEF IInv, RowsInv
  <2>8. QED
    BY <1>2, <2>3, <2>4, <2>5, <2>7 DEF IInv
<1>6. QED
  BY <1>4, <1>5

\* A video that has no row yet is named by none of the outcomes stored before, so
\* its row comes last.
LEMMA FlushIInv ==
  ASSUME Assumption, IInv, Flush
  PROVE  IInv'
<1> DEFINE s == stored + 1
           n == Len(taskVideos)
<1>1. /\ step = "flush" /\ stored < Len(selected) /\ Upcoming.result = "ok"
      /\ UNCHANGED <<selected, detail, outcomes, threaded, missing, progress, stats, runs>>
  BY DEF Flush, work, IInv, LoopInv
<1>2. CASE Refused
  <2>1. step' = "failed" /\ UNCHANGED <<stored, taskVideos, catalog, alone>>
    BY <1>1, <1>2 DEF Refused, Raise, rows
  <2>2. TypeOK'
    BY <1>1, <2>1 DEF IInv, TypeOK, Indices
  <2>3. QED
    BY <1>1, <2>1, <2>2, RunLeft DEF IInv, accounts
<1>3. CASE Stored
  <2>1. /\ taskVideos' = IF Video \in ToSet(taskVideos) THEN taskVideos
                         ELSE Append(taskVideos, Video)
        /\ catalog' = catalog \cup {Video} /\ alone' = alone
        /\ stored' = s /\ step' = "store"
    BY <1>3 DEF Stored
  <2>2. /\ s \in Indices /\ Video \in Videos /\ s \in Naming(Video)
        /\ \A v : s \in Naming(v) => v = Video
    BY <1>1, UpcomingIsNext
  <2>3. /\ stored \in 0..Len(selected) /\ Len(selected) \in Nat
        /\ taskVideos \in Seq(Videos) /\ n \in Nat /\ DOMAIN taskVideos = 1..n
        /\ \A v : \A i \in Naming(v) : i \in Nat
    BY OutcomeTypes, LenProperties, RanksAreNumbers DEF IInv, TypeOK
  <2>4. taskVideos' \in Seq(Videos) /\ Video \in ToSet(taskVideos')
        /\ ToSet(taskVideos) \subseteq ToSet(taskVideos')
    <3>1. CASE Video \in ToSet(taskVideos)
      BY <2>1, <2>3, <3>1
    <3>2. CASE Video \notin ToSet(taskVideos)
      <4>1. /\ taskVideos' \in Seq(Videos) /\ DOMAIN taskVideos' = 1..(n + 1)
            /\ \A k \in 1..n : taskVideos'[k] = taskVideos[k]
            /\ taskVideos'[n + 1] = Video
        BY <2>1, <2>2, <2>3, <3>2, AppendProperties, LenProperties
      <4>2. n + 1 \in 1..(n + 1) /\ 1..n \subseteq 1..(n + 1)
        BY <2>3
      <4>3. QED
        BY <2>3, <4>1, <4>2 DEF ToSet
    <3>3. QED
      BY <3>1, <3>2
  <2>5. TypeOK'
    <3>1. stored' \in 0..Len(selected') /\ catalog' \subseteq Videos
      BY <1>1, <2>1, <2>2, <2>3 DEF IInv, TypeOK
    <3>2. QED
      BY <1>1, <2>1, <2>4, <3>1 DEF IInv, TypeOK, Indices
  <2>6. Distinct' /\ Okays' = Okays /\ \A v : Naming(v)' = Naming(v)
    BY <1>1 DEF IInv, Distinct, Collecting, Okays, Naming
  <2>7. LoopInv' /\ CountsInv'
    BY <1>1, <2>1, <2>6 DEF IInv, LoopInv, CountsInv
  <2>8. ASSUME RowsSoFar
        PROVE  RowsSoFar'
    <3>1. \A v \in Videos : \A i \in Naming(v) : i <= s => v \in ToSet(taskVideos')
      <4> SUFFICES ASSUME NEW v \in Videos, NEW i \in Naming(v), i <= s
                   PROVE  v \in ToSet(taskVideos')
        OBVIOUS
      <4>1. CASE i <= stored
        BY <2>4, <2>8, <4>1 DEF RowsSoFar
      <4>2. CASE ~(i <= stored)
        <5>1. i = s
          BY <2>3, <4>2
        <5>2. QED
          BY <2>2, <2>4, <5>1
      <4>3. QED
        BY <4>1, <4>2
    <3>2. CASE Video \in ToSet(taskVideos)
      <4>1. taskVideos' = taskVideos
        BY <2>1, <3>2
      <4>2. \A i \in Nat : i <= stored => i <= s
        BY <2>3
      <4>3. QED
        BY <2>1, <2>3, <2>6, <2>8, <3>1, <4>1, <4>2 DEF RowsSoFar
    <3>3. CASE Video \notin ToSet(taskVideos)
      <4>1. /\ Len(taskVideos') = n + 1 /\ taskVideos'[n + 1] = Video
            /\ \A k \in 1..n : taskVideos'[k] = taskVideos[k]
        BY <2>1, <2>2, <2>3, <3>3, AppendProperties
      <4>2. \A j \in Naming(Video) : ~(j <= stored) /\ j \in Nat
        BY <2>2, <2>3, <2>8, <3>3 DEF RowsSoFar
      <4>3. ASSUME NEW k \in 1..n
            PROVE  \E i \in Naming(taskVideos[k]) :
                     /\ i <= s
                     /\ \A l \in 1..(n + 1) : k < l => \A j \in Naming(taskVideos'[l]) : i < j
        <5>1. PICK i \in Naming(taskVideos[k]) :
                /\ i <= stored
                /\ \A l \in 1..n : k < l => \A j \in Naming(taskVideos[l]) : i < j
          BY <2>8 DEF RowsSoFar
        <5>2. i \in Nat /\ i <= s
          BY <2>3, <5>1
        <5>3. \A j \in Naming(taskVideos'[n + 1]) : i < j
          BY <2>3, <4>1, <4>2, <5>1, <5>2
        <5>4. \A l \in 1..(n + 1) : l \in 1..n \/ l = n + 1
          BY <2>3
        <5>5. QED
          BY <4>1, <5>1, <5>2, <5>3, <5>4
      <4>4. \A l \in 1..(n + 1) : ~(n + 1 < l)
        BY <2>3
      <4>5. \A k \in 1..(n + 1) :
              \E i \in Naming(taskVideos'[k]) :
                /\ i <= s
                /\ \A l \in 1..(n + 1) : k < l => \A j \in Naming(taskVideos'[l]) : i < j
        <5> SUFFICES ASSUME NEW k \in 1..(n + 1)
                     PROVE  \E i \in Naming(taskVideos'[k]) :
                              /\ i <= s
                              /\ \A l \in 1..(n + 1) :
                                   k < l => \A j \in Naming(taskVideos'[l]) : i < j
          OBVIOUS
        <5>1. CASE k \in 1..n
          <6>1. taskVideos'[k] = taskVideos[k]
            BY <4>1, <5>1
          <6>2. QED
            BY <4>3, <5>1, <6>1
        <5>2. CASE k = n + 1
          <6>1. s \in Naming(taskVideos'[k]) /\ s <= s
            BY <2>2, <2>3, <4>1, <5>2
          <6>2. QED
            BY <4>4, <5>2, <6>1
        <5>3. QED
          BY <2>3, <5>1, <5>2
      <4>6. \A k \in 1..Len(taskVideos') :
              \E i \in Naming(taskVideos[k])' :
                /\ i <= stored'
                /\ \A l \in 1..Len(taskVideos') :
                     k < l => \A j \in Naming(taskVideos[l])' : i < j
        <5>1. \A k : Naming(taskVideos[k])' = Naming(taskVideos'[k])
          BY <2>6
        <5>2. Len(taskVideos') = n + 1 /\ stored' = s
          BY <2>1, <4>1
        <5> HIDE DEF n, s
        <5>3. ASSUME NEW k \in 1..(n + 1)
              PROVE  \E i \in Naming(taskVideos[k])' :
                       /\ i <= s
                       /\ \A l \in 1..(n + 1) :
                            k < l => \A j \in Naming(taskVideos[l])' : i < j
          <6>1. PICK i \in Naming(taskVideos'[k]) :
                  /\ i <= s
                  /\ \A l \in 1..(n + 1) : k < l => \A j \in Naming(taskVideos'[l]) : i < j
            BY <4>5
          <6>2. i \in Naming(taskVideos[k])'
            BY <5>1, <6>1
          <6>3. QED
            BY <5>1, <6>1, <6>2
        <5>4. QED
          BY <5>2, <5>3
      <4>7. \A v \in Videos : \A i \in Naming(v)' : i <= stored' => v \in ToSet(taskVideos')
        BY <2>1, <2>6, <3>1
      <4>8. QED
        BY <4>6, <4>7 DEF RowsSoFar
    <3>4. QED
      BY <3>2, <3>3
  <2>9. RowsInv'
    BY <1>1, <2>1, <2>8 DEF IInv, RowsInv
  <2>10. QED
    BY <2>5, <2>6, <2>7, <2>9 DEF IInv
<1>4. QED
  BY <1>2, <1>3 DEF Flush

LEMMA FinishIInv ==
  ASSUME Assumption, IInv, Finish
  PROVE  IInv'
<1>1. /\ step = "store" /\ stored = Len(selected) /\ step' = "done"
      /\ stats' = [success |-> Cardinality(Okays), failure |-> Len(outcomes) - Cardinality(Okays)]
      /\ UNCHANGED <<selected, detail, outcomes, threaded, missing, stored, progress,
                     taskVideos, catalog, alone, runs>>
  BY DEF Finish, work, rows, Okays, Collecting
<1>2. stats' = [success |-> progress.success, failure |-> progress.failure]
  BY <1>1 DEF IInv, CountsInv
<1>3. TypeOK'
  <2>1. stats' \in [success : Nat, failure : Nat]
    BY <1>2 DEF IInv, TypeOK
  <2>2. QED
    BY <1>1, <2>1 DEF IInv, TypeOK, Indices
<1>4. Distinct' /\ Okays' = Okays /\ RowsSoFar' = RowsSoFar
  <2>1. Distinct' /\ Okays' = Okays /\ \A v : Naming(v)' = Naming(v)
    BY <1>1, AccountsKept DEF IInv, accounts
  <2>2. RowsSoFar' = RowsSoFar
    BY <1>1, <2>1 DEF RowsSoFar
  <2>3. QED
    BY <2>1, <2>2
<1>5. LoopInv'
  BY <1>1 DEF IInv, LoopInv
<1>6. CountsInv'
  BY <1>1, <1>2, <1>4 DEF IInv, CountsInv
<1>7. RowsInv'
  BY <1>1, <1>4 DEF IInv, RowsInv
<1>8. QED
  BY <1>3, <1>4, <1>5, <1>6, <1>7 DEF IInv

LEMMA NextIInv ==
  ASSUME Assumption, IInv, [Next]_vars
  PROVE  IInv'
<1>1. CASE UNCHANGED vars
  <2>1. UNCHANGED <<step, selected, detail, outcomes, threaded, missing, stored, progress, stats,
                    taskVideos, catalog, alone, runs>>
    BY <1>1 DEF vars, work, rows
  <2>2. TypeOK'
    BY <2>1 DEF IInv, TypeOK, Indices
  <2>3. QED
    BY <2>1, <2>2, NothingCounted, NoRowsChanged DEF IInv, accounts
<1>2. CASE Start \/ Thread \/ \E v \in Shared : Rival(v)
  BY <1>2, StartIInv, ThreadIInv, RivalIInv
<1>3. CASE Crash \/ Again \/ Overlap
  BY <1>3, CrashIInv, OverlapIInv
<1>4. CASE Run
  <2>1. CASE Drained
    BY <2>1, CrashIInv
  <2>2. CASE Crawl \/ Advance \/ Retry \/ Lookup \/ Flush \/ Finish
    BY <2>2, CrawlIInv, AdvanceIInv, RetryIInv, LookupIInv, FlushIInv, FinishIInv
  <2>3. CASE \E i \in Indices : Collect(i)
    BY <2>3, CollectIInv
  <2>4. QED
    BY <1>4, <2>1, <2>2, <2>3 DEF Run
<1>5. QED
  BY <1>1, <1>2, <1>3, <1>4 DEF Next

-----------------------------------------------------------------------------
\* The invariant of all that follows: types, at most one outcome of each
\* candidate, what each loop has left, the counts and the order of the rows.
THEOREM CandidateCrawlInvariant ==
  ASSUME Assumption
  PROVE  Spec => []IInv
<1>1. Init => IInv
  BY InitIInv
<1>2. IInv /\ [Next]_vars => IInv'
  BY NextIInv
<1>3. QED
  BY <1>1, <1>2, PTL DEF Spec

\* A run that is done has counted each candidate once, in whatever order the
\* futures completed, and unless another run interfered it has left one row for
\* each bvid that a detail bears (run_task, _upsert_task_video).
THEOREM CandidatesAccounted ==
  ASSUME Assumption
  PROVE  Spec => []EveryCandidateAccounted
<1>1. ASSUME IInv, step = "done"
      PROVE  /\ progress.processed = Len(selected)
             /\ stats = [success |-> progress.success, failure |-> progress.failure]
             /\ stats.success + stats.failure = Len(selected)
  <2>1. /\ progress = [processed |-> Len(outcomes), success |-> Cardinality(Okays),
                       failure |-> Len(outcomes) - Cardinality(Okays)]
        /\ stats = [success |-> progress.success, failure |-> progress.failure]
        /\ Len(outcomes) = Len(selected) /\ Len(selected) \in Nat
    BY <1>1, OutcomeTypes DEF IInv, CountsInv, LoopInv
  <2>2. progress.success = Cardinality(Okays) /\ Cardinality(Okays) \in Nat
    BY <1>1, <2>1 DEF IInv, TypeOK
  <2>3. QED
    BY <2>1, <2>2
<1>2. ASSUME IInv, step = "done", alone
      PROVE  /\ \A k, l \in 1..Len(taskVideos) : taskVideos[k] = taskVideos[l] => k = l
             /\ {taskVideos[k] : k \in 1..Len(taskVideos)} =
                  {outcomes[k].bvid : k \in {m \in 1..Len(outcomes) :
                                              outcomes[m].result = "ok"}}
  <2>1. RowsSoFar /\ stored = Len(selected)
    BY <1>2 DEF IInv, RowsInv, LoopInv
  <2>2. Len(taskVideos) \in Nat /\ \A v : \A i \in Naming(v) : i \in Nat
    BY <1>2, RanksAreNumbers, LenProperties DEF IInv, TypeOK
  <2>3. \A k, l \in 1..Len(taskVideos) : k < l => taskVideos[k] # taskVideos[l]
    <3> SUFFICES ASSUME NEW k \in 1..Len(taskVideos), NEW l \in 1..Len(taskVideos), k < l,
                        taskVideos[k] = taskVideos[l]
                 PROVE  FALSE
      OBVIOUS
    <3>1. PICK i \in Naming(taskVideos[k]) : \A j \in Naming(taskVideos[l]) : i < j
      BY <2>1 DEF RowsSoFar
    <3>2. i < i /\ i \in Nat
      BY <2>2, <3>1
    <3>3. QED
      BY <3>2
  <2>4. \A k, l \in 1..Len(taskVideos) : taskVideos[k] = taskVideos[l] => k = l
    BY <2>2, <2>3
  <2>5. ASSUME NEW k \in 1..Len(taskVideos)
        PROVE  \E m \in 1..Len(outcomes) : outcomes[m].result = "ok"
                                           /\ outcomes[m].bvid = taskVideos[k]
    <3>1. PICK i : i \in Naming(taskVideos[k])
      BY <2>1 DEF RowsSoFar
    <3>2. QED
      BY <3>1 DEF Naming
  <2>6. ASSUME NEW m \in 1..Len(outcomes), outcomes[m].result = "ok"
        PROVE  \E k \in 1..Len(taskVideos) : outcomes[m].bvid = taskVideos[k]
    <3>1. /\ outcomes[m].bvid \in Videos /\ outcomes[m].index \in 1..Len(selected)
          /\ Len(selected) \in Nat
      BY <1>2, OutcomeTypes DEF IInv, Collecting, Indices
    <3>2. outcomes[m].index \in Naming(outcomes[m].bvid)
      BY <2>6 DEF Naming
    <3>3. outcomes[m].index <= stored
      BY <2>1, <3>1
    <3>4. outcomes[m].bvid \in ToSet(taskVideos)
      BY <2>1, <3>1, <3>2, <3>3 DEF RowsSoFar
    <3>5. DOMAIN taskVideos = 1..Len(taskVideos)
      BY <1>2, LenProperties DEF IInv, TypeOK
    <3>6. QED
      BY <3>4, <3>5 DEF ToSet
  <2>7. QED
    BY <2>4, <2>5, <2>6
<1>3. IInv => EveryCandidateAccounted
  BY <1>1, <1>2 DEF EveryCandidateAccounted
<1>4. QED
  BY <1>3, CandidateCrawlInvariant, PTL

\* Until another run of the task changes them the rows of a run are in the order
\* of the search ranks, also when threads collected the candidates out of order,
\* some were crawled twice and some turned out to be the same video.
THEOREM RowsInRankOrder ==
  ASSUME Assumption
  PROVE  Spec => []RowsFollowRanks
<1>1. ASSUME IInv, step \in {"store", "flush", "done"}, alone
      PROVE  /\ \A k \in 1..Len(taskVideos) : Naming(taskVideos[k]) # {}
             /\ \A k, l \in 1..Len(taskVideos) : k < l =>
                  \E i \in Naming(taskVideos[k]) : \A j \in Naming(taskVideos[l]) : i < j
  BY <1>1 DEF IInv, RowsInv, RowsSoFar
<1>2. ASSUME IInv, step \in {"crawl", "collect", "drain", "retry"}, alone
      PROVE  1..Len(taskVideos) = {}
  BY <1>2 DEF IInv, RowsInv
<1>3. IInv => RowsFollowRanks
  BY <1>1, <1>2 DEF RowsFollowRanks, Running, IInv, TypeOK
<1>4. QED
  BY <1>3, CandidateCrawlInvariant, PTL

===============================================================================
