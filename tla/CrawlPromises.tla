---------------------------- MODULE CrawlPromises ----------------------------
(***************************************************************************)
(* What the crawl of a run promises, in the state that shows whether it    *)
(* keeps it: the candidates in the order of their ranks, the progress and  *)
(* the statistics that are shown, and the task_video rows.                 *)
(***************************************************************************)
EXTENDS Integers, Sequences

VARIABLES
  step,         \* where the run is
  selected,     \* selected_candidates; an index into it is a rank
  outcomes,     \* ordered_outcomes: [index, result, bvid]
  progress,     \* crawl_progress as the run counts it: processed, success, failure
  stats,        \* crawl_stats as the run writes them: success, failure
  taskVideos,   \* task_video rows of the task, in order of insertion
  alone         \* no other run of the task has changed its rows since this one began

Indices == 1..Len(selected)
Running == step \notin {"idle", "done", "failed"}

\* Ranks of the candidates whose details came back under a bvid
Naming(v) ==
  {outcomes[k].index : k \in {m \in 1..Len(outcomes) :
                                outcomes[m].result = "ok" /\ outcomes[m].bvid = v}}

\* A run that is done has counted every candidate once, whatever the order in
\* which the threads finished and whether a candidate was crawled once or
\* twice: the progress and the statistics tell the same.  Unless another run of
\* the task has interfered, the rows are the videos that came back, one for each
\* bvid, be it that of the candidate or another, and for several candidates at once.
EveryCandidateAccounted ==
  step = "done" =>
    /\ progress.processed = Len(selected)
    /\ stats = [success |-> progress.success, failure |-> progress.failure]
    /\ stats.success + stats.failure = Len(selected)
    /\ alone =>
         /\ \A k, l \in 1..Len(taskVideos) : taskVideos[k] = taskVideos[l] => k = l
         /\ {taskVideos[k] : k \in 1..Len(taskVideos)} =
              {outcomes[k].bvid : k \in {m \in 1..Len(outcomes) : outcomes[m].result = "ok"}}

\* The rows of a run are inserted in the order of the search ranks, a video that
\* several candidates turned out to be at the first of them, also when the run
\* ends early; none is left of an earlier run that has ended.
RowsFollowRanks ==
  (Running \/ step = "done") /\ alone =>
    /\ \A k \in 1..Len(taskVideos) : Naming(taskVideos[k]) # {}
    /\ \A k, l \in 1..Len(taskVideos) : k < l =>
         \E i \in Naming(taskVideos[k]) : \A j \in Naming(taskVideos[l]) : i < j

==============================================================================
