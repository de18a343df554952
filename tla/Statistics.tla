------------------------------ MODULE Statistics ------------------------------
(***************************************************************************)
(* StatisticsService.calculate_task_statistics: the rows of a task's       *)
(* videos, of its topics and of the metric snapshots are read by three     *)
(* queries.  What is computed from them is in AnalysisViews.               *)
(*                                                                         *)
(* The analysis of a task that has not ended is computed for every request *)
(* (get_task_analysis), while runs of the task, which may overlap, store,  *)
(* cluster and delete rows.  Each query sees what is committed at that     *)
(* moment.                                                                 *)
(***************************************************************************)
EXTENDS AnalysisViews

CONSTANTS
  Tasks,
  Metrics,     \* what a crawl may see: [views, searched, likes, shares]
  Spread,      \* topics a video may be in: its primary one, then the others
  Crawls       \* bound on the runs that delete rows

Assumption ==
  /\ VideoIds \subseteq Nat /\ TopicIds \subseteq Nat \ {0}
  /\ IsFiniteSet(VideoIds) /\ IsFiniteSet(TopicIds) /\ Tasks # {}
  /\ Today \in Nat /\ Day \in [VideoIds -> Nat] /\ Heat \in [VideoIds -> Nat]
  /\ \A m \in DOMAIN Components : {Weights[m], Defaults[m]} \subseteq [Components[m] -> Nat]
  /\ \A m \in Metrics : m \in [views : Nat, searched : Nat, likes : Nat, shares : Nat]
  /\ Spread \subseteq Seq(TopicIds) \ {<<>>}
  /\ \A m \in {"burst_score", "community_score"} : DefaultTotal(m) = One
  /\ One \in Nat \ {0} /\ Crawls \in Nat

VARIABLES
  rows,        \* rows[t]: the metrics of each video row of the task, or Missing
  relations,   \* relations[t]: the topics of each clustered video, or <<>>
  crawls       \* runs still to come

vars == <<rows, relations, crawls, reader>>

NoRows == [v \in VideoIds |-> Missing]
NoTopics == [v \in VideoIds |-> <<>>]
Idle == [pc |-> "idle", task |-> CHOOSE t \in Tasks : TRUE,
         videos |-> NoRows, topics |-> NoTopics, history |-> {}]

Init ==
  /\ rows = [t \in Tasks |-> NoRows] /\ relations = [t \in Tasks |-> NoTopics]
  /\ crawls = Crawls /\ reader = Idle

-----------------------------------------------------------------------------
(* Runs of tasks *)

\* reset_task_outputs, at the beginning of a run
Reset(t) ==
  /\ crawls > 0 /\ crawls' = crawls - 1
  /\ rows' = [rows EXCEPT ![t] = NoRows]
  /\ relations' = [relations EXCEPT ![t] = NoTopics]
  /\ UNCHANGED reader

\* persist_scored_video: the row and the one snapshot the task has of the video
\* are inserted, or updated.
Store(t, v) ==
  /\ \E m \in Metrics : rows' = [rows EXCEPT ![t][v] = m]
  /\ UNCHANGED <<relations, crawls, reader>>

\* cluster_task (see TopicCluster): the videos without a summary get no topic.
Cluster(t) ==
  /\ \E into \in [VideoIds -> Spread \cup {<<>>}] :
       relations' = [relations EXCEPT ![t] =
         [v \in VideoIds |-> IF rows[t][v] = Missing THEN <<>> ELSE into[v]]]
  /\ UNCHANGED <<rows, crawls, reader>>

-----------------------------------------------------------------------------
(* The three queries *)

LoadVideos(t) ==
  /\ reader.pc = "idle"
  /\ reader' = [Idle EXCEPT !.pc = "topics", !.task = t, !.videos = rows[t]]
  /\ UNCHANGED <<rows, relations, crawls>>

LoadTopics ==
  /\ reader.pc = "topics"
  /\ reader' = [reader EXCEPT !.pc = "history", !.topics = relations[reader.task]]
  /\ UNCHANGED <<rows, relations, crawls>>

\* _load_video_history: the snapshots that this task took of the videos read.
History ==
  {s \in Tasks \X VideoIds :
     s[1] = reader.task /\ rows[s[1]][s[2]] # Missing /\ reader.videos[s[2]] # Missing}

LoadHistory ==
  /\ reader.pc = "history"
  /\ reader' = [reader EXCEPT !.pc = "computed", !.history = History]
  /\ UNCHANGED <<rows, relations, crawls>>

\* The answer is on its way.
Answer ==
  /\ reader.pc = "computed" /\ reader' = Idle
  /\ UNCHANGED <<rows, relations, crawls>>

Next ==
  \/ \E t \in Tasks : Reset(t) \/ Cluster(t) \/ LoadVideos(t)
  \/ \E t \in Tasks, v \in VideoIds : Store(t, v)
  \/ LoadTopics \/ LoadHistory \/ Answer

Spec == Init /\ [][Next]_vars

-----------------------------------------------------------------------------
\* Rows, relations and what the request holds are of their types.
TypeOK ==
  /\ rows \in [Tasks -> [VideoIds -> Metrics \cup {Missing}]]
  /\ relations \in [Tasks -> [VideoIds -> Spread \cup {<<>>}]]
  /\ crawls \in 0..Crawls
  /\ reader.pc \in {"idle", "topics", "history", "computed"} /\ reader.task \in Tasks
  /\ reader.videos \in [VideoIds -> Metrics \cup {Missing}]
  /\ reader.topics \in [VideoIds -> Spread \cup {<<>>}]
  /\ reader.history \subseteq Tasks \X VideoIds

\* A video that several tasks have taken snapshots of has a history of more
\* than one point (the analysis page: cross-task history snapshots).
HistoryAcrossTasks ==
  reader.pc = "history" =>
    \A v \in Read :
      Cardinality({t \in Tasks : rows[t][v] # Missing}) > 1
        => Cardinality({s \in History : s[2] = v}) > 1

=============================================================================
