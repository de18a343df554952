---------------------------- MODULE AnalysisViews ----------------------------
(***************************************************************************)
(* What StatisticsService.calculate_task_statistics computes from the rows *)
(* a request has read: the scores of videos and of topics.                 *)
(*                                                                         *)
(* Scores are integers, One standing for 1.0, and rounded down.  A missing *)
(* ratio counts as zero wherever it is compared, as in the code.  Of the   *)
(* components of a metric two stand for all.                               *)
(***************************************************************************)
EXTENDS FiniteSetsExt, SequencesExt, Functions

CONSTANTS
  VideoIds,    \* integers, in the order in which they were stored
  TopicIds,    \* clusters, integers in cluster_order
  Day,         \* Day[v]: day of publication, 0 when it is unknown
  Heat,        \* Heat[v]: heat_score of the video's row
  Weights,     \* Weights[metric][component]: the task's relative weights
  Defaults,    \* Defaults[metric][component]: default weights, in parts of One
  Today,       \* the day the statistics are computed
  One          \* 1.0

VARIABLE
  reader       \* the request: [pc, task, videos, topics, history]

\* A video without a row
Missing == [views |-> -1]

\* METRIC_SPECS: what a score is computed from
Components ==
  [burst_score |-> {"search_growth", "publish_velocity"},
   community_score |-> {"shares", "engagement_rate"},
   engagement_rate |-> {"likes", "shares"},
   topic_heat_index |-> {"total_heat_score", "burst_score", "community_score"}]

-----------------------------------------------------------------------------
(* Scores of a video *)

Read == {v \in VideoIds : reader.videos[v] # Missing}

DefaultTotal(metric) == SumFunction(Defaults[metric])

\* get_effective_metric_weights: relative weights become parts of what the
\* default weights come to.
Effective(metric) ==
  LET w == Weights[metric]
      total == SumFunction(w)
  IN IF total <= 0 THEN Defaults[metric]
     ELSE [c \in Components[metric] |-> (w[c] * DefaultTotal(metric)) \div total]

\* calculate_metric_score
MetricScore(metric, value) ==
  LET w == Effective(metric)
  IN SumFunction([c \in Components[metric] |-> w[c] * value[c]]) \div One

\* _calculate_ratio
Ratio(v, metric) ==
  LET m == reader.videos[v]
  IN IF m.views <= 0 THEN 0 ELSE (m[metric] * One) \div m.views

\* search_to_current_view_growth_ratio: negative when the count has shrunk.
SearchGrowth(v) ==
  LET m == reader.videos[v]
  IN IF m.searched <= 0 THEN 0 ELSE ((m.views - m.searched) * One) \div m.searched

\* views_per_hour_since_publish, with days for hours
Velocity(v) ==
  IF Day[v] = 0 THEN 0
  ELSE reader.videos[v].views \div Max({Today - Day[v], 1})

\* _calculate_engagement_rate
Engagement(v) ==
  MetricScore("engagement_rate",
              [c \in Components.engagement_rate |-> Ratio(v, c)])

Component(c, v) ==
  CASE c = "search_growth" -> SearchGrowth(v)
    [] c = "publish_velocity" -> Velocity(v)
    [] c = "engagement_rate" -> Engagement(v)
    [] OTHER -> Ratio(v, c)

\* The maxima of _finalize_video_insight_seeds
Maximum(c) == Max({0} \cup {Component(c, v) : v \in Read})

\* Mutant of NormalizePositive: a negative value stays negative.
NormalizeUnclamped(x, max) == IF max <= 0 THEN 0 ELSE (Min({x, max}) * One) \div max

\* _normalize_positive
NormalizePositive(x, max) == IF max <= 0 THEN 0 ELSE (Max({Min({x, max}), 0}) * One) \div max

\* burst_score, depth_score and community_score
Score(metric, v) ==
  MetricScore(metric, [c \in Components[metric] |->
                         NormalizePositive(Component(c, v), Maximum(c))])

-----------------------------------------------------------------------------
(* Topics *)

Mean(value) ==
  IF DOMAIN value = {} THEN 0 ELSE SumFunction(value) \div Cardinality(DOMAIN value)

TopicVideos(k) == {v \in VideoIds : Contains(reader.topics[v], k)}

\* _build_topic_insights: a topic with none of the videos read is left out.
InsightVideos(k) == TopicVideos(k) \cap Read

InsightTopics == {k \in TopicIds : InsightVideos(k) # {}}

TotalHeat(S) == SumFunction([v \in S |-> Heat[v]])

\* A point of a topic's trend (_build_topic_evolution)
HeatIndex(S) ==
  MetricScore("topic_heat_index",
    [c \in Components.topic_heat_index |->
       IF c = "total_heat_score" THEN TotalHeat(S) * One
       ELSE Mean([v \in S |-> Score(c, v)])])

\* The last bucket of a trend: that of the videos whose day is unknown, if any.
LatestDay(k) ==
  LET days == {Day[v] : v \in InsightVideos(k)} IN IF 0 \in days THEN 0 ELSE Max(days)

LatestIndex(k) == HeatIndex({v \in InsightVideos(k) : Day[v] = LatestDay(k)})

\* The score by which _build_latest_hot_topic ranks the topics, in percent
HotScore(k) ==
  LET heat(j) == TotalHeat(TopicVideos(j))
      newest == Max({Day[v] : v \in InsightVideos(k)})
      recency == IF newest = 0 THEN 0
                 ELSE Max({0, Min({One, One - ((Today - newest) * One) \div 14})})
  IN 30 * NormalizePositive(heat(k), Max({heat(j) : j \in InsightTopics}))
     + 25 * Mean([v \in InsightVideos(k) |-> Score("burst_score", v)])
     + 20 * Mean([v \in InsightVideos(k) |-> Score("community_score", v)])
     + 15 * recency + 10 * NormalizePositive(LatestIndex(k), 5 * One)

-----------------------------------------------------------------------------
\* Every score of a video is from 0 to 1 and that of a topic from 0 to 100 percent:
\* whatever weights the task has, all zero included, when counts have shrunk since
\* the search, when a video is dated after today, and when the videos and the
\* topics were read at different moments of a run that deletes and stores them.
ScoresWithinScale ==
  reader.pc = "computed" =>
    /\ \A metric \in {"burst_score", "community_score"}, v \in Read :
         Score(metric, v) \in 0..One
    /\ \A k \in InsightTopics : HotScore(k) \in 0..100 * One

=============================================================================
