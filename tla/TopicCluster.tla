----------------------------- MODULE TopicCluster -----------------------------
(***************************************************************************)
(* TopicClusterService.cluster_task: the topics that the AI summaries of a *)
(* task name are gathered into clusters, clusters that are too small or    *)
(* too many are merged into others, and the rest is stored.                *)
(*                                                                         *)
(* A topic name is its rank in alphabetical order.  A cluster in memory is *)
(* the set of its relations <<video, role>>, "primary" if is_primary and    *)
(* else "other": the scores of a relation follow from these two.          *)
(***************************************************************************)
EXTENDS Integers, FiniteSets, Sequences, TopicPromises

CONSTANTS
  Heat,          \* Heat[S]: the sum of the heat scores of the videos of S
  TopicLists,    \* what a summary may name: the primary topic, then the topics
  Runs           \* bound on the runs of the clustering

Assumption ==
  /\ IsFiniteSet(Videos)
  /\ Names \subseteq Int /\ IsFiniteSet(Names) /\ Unnamed \in Names
  /\ Alias \in [Names -> Names]
  /\ Spare \in [Videos -> Seq(Names)]
  /\ Heat \in [SUBSET Videos -> Nat]
  /\ TopicLists \subseteq Seq(Names)
  /\ MinSize \in Int /\ MaxCount \in Nat \ {0}
  /\ Runs \in Nat

VARIABLES
  pc,         \* where cluster_task is
  todo,       \* the targets still to be gathered
  clusters,   \* clusters_by_name; {} for a name that has no cluster
  keep,       \* keep_names of _limit_cluster_count
  count,      \* clustered_topics of the task, committed
  runs        \* runs still to come

vars == <<topics, pc, todo, clusters, keep, stored, count, runs>>

NoClusters == [n \in Names |-> {}]

Init ==
  /\ topics \in [Videos -> TopicLists]
  /\ pc = "idle" /\ todo = {} /\ clusters = NoClusters /\ keep = {}
  /\ stored \in {{}, Leftover} /\ count = Cardinality(stored)
  /\ runs = Runs

-----------------------------------------------------------------------------
\* The clusters a video goes to.
Candidates(v) ==
  {Home(v)} \cup {Alias[topics[v][i]] : i \in Usable(topics[v])}

-----------------------------------------------------------------------------
(* A cluster in memory *)

Role(primary) == IF primary THEN "primary" ELSE "other"

Members(n) == {r[1] : r \in clusters[n]}

HasPrimary(n) == \E r \in clusters[n] : r[2] = "primary"

Live == {n \in Names : clusters[n] # {}}

TotalHeat(n) == Heat[Members(n)]

\* _cluster_sort_key
Before(m, n) ==
  LET size(x) == Cardinality(Members(x))
  IN \/ size(m) > size(n)
     \/ size(m) = size(n) /\ TotalHeat(m) > TotalHeat(n)
     \/ size(m) = size(n) /\ TotalHeat(m) = TotalHeat(n) /\ m < n

Position(n) == Cardinality({m \in Live : Before(m, n)}) + 1

\* _consolidate_cluster_relations: one relation for each video.
Consolidated(n) ==
  {<<v, Role(<<v, "primary">> \in clusters[n])>> : v \in Members(n)}

-----------------------------------------------------------------------------
\* The rows of the earlier run are deleted with the commit of the first log.
Reset ==
  /\ pc = "idle" /\ runs > 0
  /\ runs' = runs - 1
  /\ stored' = {} /\ clusters' = NoClusters /\ keep' = {}
  /\ IF Videos = {}
       THEN count' = 0 /\ pc' = "done" /\ todo' = {}
       ELSE UNCHANGED count /\ pc' = "gather" /\ todo' = Videos
  /\ UNCHANGED topics

Relations(v, n) ==
  IF n \in Candidates(v) THEN {<<v, Role(n = Home(v))>>} ELSE {}

\* One target: the loop of cluster_task.
Gather(v) ==
  /\ pc = "gather" /\ v \in todo
  /\ clusters' = [n \in Names |-> clusters[n] \cup Relations(v, n)]
  /\ todo' = todo \ {v}
  /\ pc' = IF todo' = {} THEN "merge" ELSE "gather"
  /\ UNCHANGED <<topics, keep, stored, count, runs>>

\* An error, or the process dies.  Nothing but the deletion has been
\* committed.
Interrupt ==
  /\ pc \in {"gather", "merge", "limit", "store"}
  /\ pc' = "idle" /\ todo' = {} /\ clusters' = NoClusters /\ keep' = {}
  /\ UNCHANGED <<topics, stored, count, runs>>

\* Mutant of Redistribute: the cluster that was merged is not deleted.
RedistributeCopies(n, targets) ==
  \E to \in [clusters[n] -> targets] :
    /\ \A r \in clusters[n] : Home(r[1]) \in targets => to[r] = Home(r[1])
    /\ clusters' = [m \in Names |->
         clusters[m] \cup {r \in clusters[n] : to[r] = m}]

\* _redistribute_cluster_relations: a relation goes to the cluster of the
\* video's primary topic when that is a target, and else to the most similar
\* one, which the texts decide.
Redistribute(n, targets) ==
  \E to \in [clusters[n] -> targets] :
    /\ \A r \in clusters[n] : Home(r[1]) \in targets => to[r] = Home(r[1])
    /\ clusters' = [m \in Names |->
         IF m = n THEN {} ELSE clusters[m] \cup {r \in clusters[n] : to[r] = m}]

TooSmall(n) ==
  /\ n \in Live /\ ~HasPrimary(n)
  /\ Cardinality(Members(n)) < MinSize

\* _merge_small_clusters.  The code merges them in the order in which they
\* were found; a cluster that is merged never receives a relation, so the
\* order does not matter.
MergeSmall(n) ==
  /\ pc = "merge" /\ MinSize > 1 /\ TooSmall(n) /\ Live # {n}
  /\ Redistribute(n, Live \ {n})
  /\ UNCHANGED <<topics, pc, todo, keep, stored, count, runs>>

\* Mutant of Kept: one cluster too many is kept.
KeptOneMore == {n \in Live : Position(n) <= MaxCount + 1}

Kept == {n \in Live : Position(n) <= MaxCount}

\* keep_names of _limit_cluster_count, which does nothing when all are kept
ChooseKept ==
  /\ pc = "merge"
  /\ ~ \E n \in Live : MinSize > 1 /\ TooSmall(n) /\ Live # {n}
  /\ keep' = Kept
  /\ pc' = IF keep' = Live THEN "store" ELSE "limit"
  /\ UNCHANGED <<topics, todo, clusters, stored, count, runs>>

\* The last cluster of those in excess goes first.
MergeExcess(n) ==
  /\ pc = "limit" /\ n \in Live \ keep
  /\ \A m \in Live \ (keep \cup {n}) : Before(m, n)
  /\ Redistribute(n, keep)
  /\ pc' = IF Live \ (keep \cup {n}) = {} THEN "store" ELSE "limit"
  /\ UNCHANGED <<topics, todo, keep, stored, count, runs>>

\* The clusters, their relations and the task's count in one commit.
Store ==
  /\ pc = "store"
  /\ stored' = {[name |-> n, order |-> Position(n),
                 relations |-> Consolidated(n)] : n \in Live}
  /\ count' = Cardinality(Live)
  /\ pc' = "done"
  /\ UNCHANGED <<topics, todo, clusters, keep, runs>>

\* The worker, or a batch task, clusters the task again.
Again ==
  /\ pc = "done" /\ pc' = "idle"
  /\ UNCHANGED <<topics, todo, clusters, keep, stored, count, runs>>

Next ==
  \/ Reset \/ Interrupt \/ ChooseKept \/ Store \/ Again
  \/ \E v \in Videos : Gather(v)
  \/ \E n \in Names : MergeSmall(n) \/ MergeExcess(n)

Spec == Init /\ [][Next]_vars

-----------------------------------------------------------------------------
RelationSet == Videos \X {"primary", "other"}

TypeOK ==
  /\ topics \in [Videos -> TopicLists]
  /\ pc \in {"idle", "gather", "merge", "limit", "store", "done"}
  /\ todo \subseteq Videos
  /\ clusters \in [Names -> SUBSET RelationSet]
  /\ keep \subseteq Names
  /\ stored \subseteq [name : Names, order : Nat, relations : SUBSET RelationSet]
  /\ count \in Nat /\ runs \in 0..Runs

=============================================================================
