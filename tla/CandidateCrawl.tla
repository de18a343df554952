----------------------------- MODULE CandidateCrawl -----------------------------
(***************************************************************************)
(* The second half of CrawlPipelineService.run_task: the details of the    *)
(* selected candidates are crawled, one after the other or by the threads  *)
(* of a pool, those that failed over HTTP are tried again with the browser *)
(* and the videos are stored in the order of their ranks, a commit each.   *)
(*                                                                         *)
(* assert_task_execution_allowed is called before each candidate, but on   *)
(* the copy the run's session holds, so that it never ends a run (see      *)
(* TaskLifecycle!RunSeesNoControl).  Rows of videos are shared by all      *)
(* tasks, and another task may insert one at any moment.  A second run of  *)
(* the same task, which a redelivered message or a pause and a resume may  *)
(* start, deletes and inserts rows of the task meanwhile.                  *)
(*                                                                         *)
(* A row is kept under the bvid of the detail that was fetched, which need *)
(* not be that of the candidate.                                           *)
(***************************************************************************)
EXTENDS FiniteSets, SequencesExt, CrawlPromises

CONSTANTS
  Videos,       \* bvids of the site, and "" if a detail may lack one
  Bears,        \* Bears[v]: bvids that the detail of v may bear
  Selections,   \* lists of candidates a run may select
  Shared,       \* videos another run, of this task or of another, may store meanwhile
  Concurrency,  \* crawler_concurrency
  Runs          \* bound on the runs

Assumption ==
  /\ IsFiniteSet(Videos) /\ Shared \subseteq Videos
  /\ Bears \in [Videos -> SUBSET Videos]
  /\ Selections \subseteq Seq(Videos)
  /\ Concurrency \in Nat \ {0} /\ Runs \in Nat

VARIABLES
  detail,     \* future of each candidate
  threaded,   \* threaded_failures: the indices, in their order
  missing,    \* _upsert_video found no row for the video it stores
  stored,     \* candidates whose outcome has been stored
  catalog,    \* videos that have a row of their own
  runs        \* runs still to come

work == <<selected, detail, outcomes, threaded>>
rows == <<taskVideos, catalog, alone>>
vars == <<step, work, missing, stored, progress, stats, rows, runs>>

Finished == {i \in Indices : detail[i] \in {"ok", "error", "broken"}}
Collected == {outcomes[k].index : k \in 1..Len(outcomes)} \cup ToSet(threaded)

\* video_concurrency
Threads == LET n == Len(selected) IN IF n < Concurrency THEN n ELSE Concurrency

NoProgress == [processed |-> 0, success |-> 0, failure |-> 0]

Init ==
  /\ step = "idle" /\ selected = <<>> /\ detail = <<>>
  /\ outcomes = <<>> /\ threaded = <<>> /\ missing = FALSE /\ stored = 0
  /\ progress = NoProgress
  /\ stats = [success |-> 0, failure |-> 0]
  /\ taskVideos = <<>> /\ catalog = {} /\ alone = TRUE /\ runs = Runs

-----------------------------------------------------------------------------
\* reset_task_outputs, also of what a run that has not ended has stored
Reset == taskVideos' = <<>> /\ alone' = TRUE

\* The candidates are selected, the outputs of earlier runs are deleted and
\* the pool, if there is one, is given all candidates.
Start ==
  /\ step = "idle" /\ runs > 0 /\ runs' = runs - 1
  /\ \E list \in Selections :
       /\ selected' = list
       /\ detail' = [i \in 1..Len(list) |-> "queued"]
       /\ step' = IF Len(list) <= 1 \/ Concurrency = 1 THEN "crawl" ELSE "collect"
  /\ outcomes' = <<>> /\ threaded' = <<>> /\ missing' = FALSE
  /\ stored' = 0 /\ progress' = NoProgress /\ Reset
  /\ UNCHANGED <<stats, catalog>>

\* A thread takes the next candidate (_crawl_candidate_http_only).
Take(i) ==
  /\ step \in {"collect", "drain"}
  /\ detail[i] = "queued" /\ \A j \in 1..(i - 1) : detail[j] # "queued"
  /\ Cardinality({j \in Indices : detail[j] = "running"}) < Threads
  /\ detail' = [detail EXCEPT ![i] = "running"]
  /\ UNCHANGED <<step, selected, outcomes, threaded, missing, stored, progress,
                 stats, rows, runs>>

\* It ends with a video, with a BilibiliCrawlerError, or with another error,
\* a subtitle that is no JSON for instance.
Fetched(i) ==
  /\ detail[i] = "running"
  /\ \E result \in {"ok", "error", "broken"} :
       detail' = [detail EXCEPT ![i] = result]
  /\ UNCHANGED <<step, selected, outcomes, threaded, missing, stored, progress,
                 stats, rows, runs>>

\* An error leaves the with block of the pool, which waits for its threads.
Raise == step' = IF step = "collect" THEN "drain" ELSE "failed"

\* _update_crawl_progress
Count(result) ==
  progress' = [processed |-> progress.processed + 1,
               success |-> progress.success + (IF result = "ok" THEN 1 ELSE 0),
               failure |-> progress.failure + (IF result = "ok" THEN 0 ELSE 1)]

\* A failure bears the bvid of the candidate, a video that of its detail.
Outcomes(i, result) ==
  [index : {i}, result : {result},
   bvid : IF result = "ok" THEN Bears[selected[i]] ELSE {selected[i]}]

\* Candidate i is crawled by the run itself (_crawl_candidate, which has the
\* browser to fall back on).
CrawlHere(i) ==
  /\ \/ Raise /\ UNCHANGED <<outcomes, progress>>
     \/ /\ \E result \in {"ok", "error"} : \E o \in Outcomes(i, result) :
              outcomes' = Append(outcomes, o) /\ Count(result)
        /\ UNCHANGED step
  /\ UNCHANGED <<selected, detail, missing, stored, stats, rows, runs>>

Crawl ==
  /\ step = "crawl" /\ Len(outcomes) < Len(selected)
  /\ CrawlHere(Len(outcomes) + 1) /\ UNCHANGED threaded

\* Mutant of Collect: a candidate that failed over HTTP is forgotten.
CollectOnlyVideos(i) ==
  /\ step = "collect" /\ i \in Finished \ Collected
  /\ IF detail[i] = "broken" THEN Raise ELSE UNCHANGED step
  /\ IF detail[i] = "ok"
       THEN /\ \E o \in Outcomes(i, "ok") : outcomes' = Append(outcomes, o)
            /\ UNCHANGED threaded /\ Count("ok")
       ELSE /\ \E o \in Outcomes(i, "none") : outcomes' = Append(outcomes, o)
            /\ UNCHANGED <<threaded, progress>>
  /\ UNCHANGED <<selected, detail, missing, stored, stats, rows, runs>>

\* as_completed yields the future of candidate i.  Which bvid its detail bears
\* was settled when it was fetched, and matters from here on.
Collect(i) ==
  /\ step = "collect" /\ i \in Finished \ Collected
  /\ IF detail[i] = "broken" THEN Raise ELSE UNCHANGED step
  /\ IF detail[i] = "ok"
       THEN /\ \E o \in Outcomes(i, "ok") : outcomes' = Append(outcomes, o)
            /\ Count("ok")
       ELSE UNCHANGED <<outcomes, progress>>
  /\ threaded' = IF detail[i] = "error" THEN Append(threaded, i) ELSE threaded
  /\ UNCHANGED <<selected, detail, missing, stored, stats, rows, runs>>

\* Mutant of Drained: the pool is left as soon as no thread is busy, with
\* candidates still queued.
DrainedUntaken ==
  /\ step = "drain" /\ \A i \in Indices : detail[i] = "queued"
  /\ step' = "failed"
  /\ UNCHANGED <<work, missing, stored, progress, stats, rows, runs>>

\* The pool waits for every candidate, the queued ones included.
Drained ==
  /\ step = "drain" /\ Finished = Indices
  /\ step' = "failed"
  /\ UNCHANGED <<work, missing, stored, progress, stats, rows, runs>>

\* A loop has come to its end.
Advance ==
  /\ \/ step = "collect" /\ Collected = Indices /\ step' = "retry"
     \/ step \in {"crawl", "retry"} /\ Len(outcomes) = Len(selected) /\ step' = "store"
  /\ UNCHANGED <<work, missing, stored, progress, stats, rows, runs>>

\* The candidates in threaded_failures are crawled again.
Retry ==
  /\ step = "retry" /\ Len(outcomes) < Len(selected)
  /\ CrawlHere(threaded[Len(outcomes) - (Len(selected) - Len(threaded)) + 1])
  /\ UNCHANGED threaded

\* Mutant of Ordered: the outcomes are stored as they came.
OrderedAsCollected == outcomes

\* sorted(ordered_outcomes); no two outcomes have the same index.
Ordered ==
  CHOOSE s \in [1..Len(outcomes) -> ToSet(outcomes)] :
    \A k, l \in 1..Len(outcomes) : k < l => s[k].index < s[l].index

Upcoming == Ordered[stored + 1]
Video == Upcoming.bvid

\* The first query of _upsert_video; an outcome that is a failure is logged.
Lookup ==
  /\ step = "store" /\ stored < Len(selected)
  /\ IF Upcoming.result = "ok"
       THEN step' = "flush" /\ missing' = (Video \notin catalog) /\ UNCHANGED stored
       ELSE stored' = stored + 1 /\ UNCHANGED <<step, missing>>
  /\ UNCHANGED <<work, progress, stats, rows, runs>>

\* The rest of persist_scored_video, with the commit.  The insertion of a video
\* violates the unique key if another run has inserted it meanwhile.
Stored ==
  /\ ~(missing /\ Video \in catalog)
  /\ taskVideos' = IF Video \in ToSet(taskVideos) THEN taskVideos
                    ELSE Append(taskVideos, Video)
  /\ catalog' = catalog \cup {Video}
  /\ stored' = stored + 1 /\ step' = "store"
  /\ UNCHANGED alone

\* That is one error, and another run of the task that inserts or deletes the
\* same rows between the queries for them and the flush causes others.
Refused ==
  /\ (missing /\ Video \in catalog) \/ ~alone
  /\ Raise /\ UNCHANGED <<stored, rows>>

Flush ==
  /\ step = "flush"
  /\ Stored \/ Refused
  /\ UNCHANGED <<work, missing, progress, stats, runs>>

\* The final statistics.
Finish ==
  /\ step = "store" /\ stored = Len(selected)
  /\ LET videos == {k \in 1..Len(outcomes) : outcomes[k].result = "ok"}
     IN stats' = [success |-> Cardinality(videos),
                  failure |-> Len(outcomes) - Cardinality(videos)]
  /\ step' = "done"
  /\ UNCHANGED <<work, missing, stored, progress, rows, runs>>

\* The process dies with its threads.
Crash ==
  /\ Running /\ step' = "idle"
  /\ detail' = [i \in Indices |-> "queued"]
  /\ UNCHANGED <<selected, outcomes, threaded, missing, stored, progress, stats,
                 rows, runs>>

\* The task is resumed, retried or its message is delivered again.
Again ==
  /\ step \in {"done", "failed"} /\ step' = "idle"
  /\ UNCHANGED <<work, missing, stored, progress, stats, rows, runs>>

\* Another task stores a video.
Rival(v) ==
  /\ v \notin catalog /\ catalog' = catalog \cup {v}
  /\ UNCHANGED <<step, work, missing, stored, progress, stats, taskVideos, alone, runs>>

\* Another run of this task, begun before this one or after it, deletes the
\* task's rows or stores a video.
Overlap ==
  /\ Running /\ alone' = FALSE
  /\ \/ taskVideos' = <<>> /\ UNCHANGED catalog
     \/ \E v \in Shared \ ToSet(taskVideos) :
          taskVideos' = Append(taskVideos, v) /\ catalog' = catalog \cup {v}
  /\ UNCHANGED <<step, work, missing, stored, progress, stats, runs>>

Run ==
  \/ Crawl \/ Drained \/ Advance \/ Retry \/ Lookup \/ Flush \/ Finish
  \/ \E i \in Indices : Collect(i)

Thread == \E i \in Indices : Take(i) \/ Fetched(i)

Next ==
  \/ Start \/ Run \/ Thread \/ Crash \/ Again \/ Overlap
  \/ \E v \in Shared : Rival(v)

\* The run and its threads are scheduled; nothing else must happen.
Fairness == WF_vars(Run) /\ WF_vars(Thread)

Spec == Init /\ [][Next]_vars /\ Fairness

-----------------------------------------------------------------------------
TypeOK ==
  /\ step \in {"idle", "crawl", "collect", "drain", "retry", "store", "flush",
             "done", "failed"}
  /\ missing \in BOOLEAN
  /\ selected \in Seq(Videos)
  /\ detail \in [Indices -> {"queued", "running", "ok", "error", "broken"}]
  /\ outcomes \in Seq([index : Indices, result : {"ok", "error"}, bvid : Videos])
  /\ threaded \in Seq(Indices) /\ stored \in 0..Len(selected)
  /\ progress \in [processed : Nat, success : Nat, failure : Nat]
  /\ stats \in [success : Nat, failure : Nat]
  /\ taskVideos \in Seq(Videos) /\ catalog \subseteq Videos /\ alone \in BOOLEAN
  /\ runs \in 0..Runs

\* A run ends, unless the process dies: an error waits for the threads that
\* still run, and they do not wait for it.
RunEnds == []<>~Running
=============================================================================
