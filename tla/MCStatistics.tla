----------------------------- MODULE MCStatistics -----------------------------
(* Two tasks that meet the same video *)
EXTENDS Statistics

MCMetrics == {[views |-> n, searched |-> 1, likes |-> 0, shares |-> 0] : n \in 1..2}
MCWeights ==
  [burst_score |-> [search_growth |-> 1, publish_velocity |-> 1],
   community_score |-> [shares |-> 1, engagement_rate |-> 1],
   engagement_rate |-> [likes |-> 1, shares |-> 1],
   topic_heat_index |-> [total_heat_score |-> 1, burst_score |-> 1, community_score |-> 1]]
MCDay == <<1, 2>>
MCHeat == <<1, 1>>
MCSpread == {<<1>>}

=============================================================================
