----------------------------- MODULE TopicPromises -----------------------------
(***************************************************************************)
(* What the AI summaries of a task name, the clusters that are stored of   *)
(* it, and what TopicClusterService.cluster_task promises of these.        *)
(***************************************************************************)
EXTENDS Integers, FiniteSets, Sequences

CONSTANTS
  Videos,        \* the videos of the task with an AI summary
  Names,         \* cleaned topic names, integers
  Unnamed,       \* "video topic", the name when there is no other
  Reserved,      \* RESERVED_TOPIC_NAMES
  StopTopics,    \* stop_topics
  Alias,         \* topic_aliases: every name to its canonical name
  Spare,         \* Spare[v]: names in the tags and the title of a video
  MinSize,       \* min_cluster_size
  MaxCount       \* max_cluster_count

VARIABLES
  topics,        \* what the AI summary of each video names
  stored         \* the clusters of the task in the database

(* _resolve_cluster_candidates *)

\* _normalize_topic_name: the name to cluster under, if there is one.
Normalized(n) ==
  IF n \in Reserved \/ Alias[n] \in StopTopics \cup Reserved
    THEN {} ELSE {Alias[n]}

Usable(names) == {i \in DOMAIN names : Normalized(names[i]) # {}}

First(names) ==
  Alias[names[CHOOSE i \in Usable(names) : \A j \in Usable(names) : i <= j]]

\* The first usable name of the tags, the title and the configured fallback;
\* the summary's own topics have been tried already.
Derived(v) == IF Usable(Spare[v]) = {} THEN Unnamed ELSE First(Spare[v])

\* normalized_topics[0], the topic of the primary relation
Home(v) == IF Usable(topics[v]) = {} THEN Derived(v) ELSE First(topics[v])

-----------------------------------------------------------------------------
\* What an earlier run may have left: one cluster of each topic it knew.
Leftover == {[name |-> Unnamed, order |-> 1, relations |-> {}]}

Rebuilt == stored \notin {{}, Leftover}

\* However clusters were merged, a stored clustering files every video under
\* exactly one cluster as its primary one, and that is the cluster of its
\* primary topic unless the limit removed it; a cluster lists a video once.
\* An interrupted run leaves no part of a clustering behind.
OnePrimaryEach ==
  Rebuilt =>
    \A v \in Videos :
      /\ \E row \in stored :
           /\ <<v, "primary">> \in row.relations
           /\ \A other \in stored \ {row} : <<v, "primary">> \notin other.relations
           /\ (\E r \in stored : r.name = Home(v)) => row.name = Home(v)
      /\ \A row \in stored : ~ {<<v, "primary">>, <<v, "other">>} \subseteq row.relations

\* The stored clusters are at most the limit, numbered without gap, and none
\* of them is both below the minimum size and without a primary video:
\* neither kind of merging undoes what the other has done.
ClustersWithinLimits ==
  Rebuilt =>
    /\ Cardinality(stored) <= MaxCount
    /\ {row.order : row \in stored} = 1..Cardinality(stored)
    /\ \A row \in stored :
         \/ \E r \in row.relations : r[2] = "primary"
         \/ Cardinality({r[1] : r \in row.relations}) >= MinSize

=============================================================================
