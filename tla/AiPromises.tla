------------------------------ MODULE AiPromises ------------------------------
(***************************************************************************)
(* What analyze_task promises of the summaries of a task, in the state     *)
(* that shows whether it keeps it: the stored videos with their committed  *)
(* summaries, and the number and the status that are shown of the task.    *)
(***************************************************************************)
EXTENDS Integers, FiniteSets

VARIABLES
  phase,        \* where the worker is
  whole,        \* the run is run_crawl_task, not run_ai_analysis_batch
  reuse,        \* reuse_existing_results
  targets,      \* stored videos of the task
  lost,         \* candidates whose crawl failed
  summary,      \* committed: "none", "model" or "heuristic" for each video
  analyzed,     \* committed: analyzed_videos
  finalStatus   \* final status of the last run

Summarised == {v \in targets : summary[v] # "none"}

\* The final status tells what a run has stored, although it is derived from
\* counts that leave the cached summaries out: a task fails only when it has
\* nothing to show for its candidates, and succeeds only when no candidate
\* and no summary is missing.
FinalStatusTruthful ==
  phase = "done" /\ whole =>
    /\ finalStatus = "failed" <=> (lost > 0 \/ targets # {}) /\ Summarised = {}
    /\ finalStatus = "success" <=> lost = 0 /\ Summarised = targets

\* With reuse switched on, a step of a batch run never replaces a summary that
\* a model has written by a heuristic one: not when the models have become
\* unreachable, and not when the batch ends halfway.
AiSummaryKept ==
  [][\A v \in DOMAIN summary :
       reuse /\ ~whole' /\ summary[v] = "model" => summary'[v] = "model"]_summary

\* When the summaries have been made the number shown is that of the stored
\* ones, over all batches and whatever was cached.
AnalyzedMatchesSummaries ==
  phase \in {"resolve", "done"} /\ (whole \/ reuse) => analyzed = Cardinality(Summarised)

===============================================================================
