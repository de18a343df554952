------------------------------- MODULE AiAnalysis -------------------------------
(***************************************************************************)
(* VideoAiService.analyze_task and OpenAICompatibleAiClient.generate_json: *)
(* the stored videos of a task are summarised in batches, a commit each,   *)
(* by a language model, by a second model when the first gives no usable   *)
(* answer, and else by a heuristic.  The worker derives the final status   *)
(* of the task from the counts.                                            *)
(***************************************************************************)
EXTENDS Integers, FiniteSets, Sequences, SequencesExt, AiPromises

CONSTANTS
  Videos,       \* videos a run may store
  BatchSize,    \* ai batch_size
  Models,       \* models to try: 1, or 2 with a distinct fallback model
  MaxRetries,   \* attempts with each model
  Runs          \* bound on the runs

Assumption ==
  /\ IsFiniteSet(Videos) /\ BatchSize \in Nat \ {0} /\ Models \in {1, 2}
  /\ MaxRetries \in Nat \ {0} /\ Runs \in Nat

VARIABLES
  draft,      \* summaries of the batch, not committed
  queue,      \* targets that wait for their analysis
  counts,     \* [cached, success, failure]
  asked,      \* <<model, attempt>> of the request that is due
  halted,     \* the session's copy of the task says paused or cancelled
  available,  \* there is an API key
  runs        \* runs still to come

vars == <<phase, whole, targets, lost, summary, analyzed, draft, queue, counts, asked,
          finalStatus, halted, reuse, available, runs>>

settings == <<reuse, available>>
job == <<whole, targets, lost>>

Empty == [v \in Videos |-> "none"]
NoCounts == [cached |-> 0, success |-> 0, failure |-> 0]

Init ==
  /\ phase = "idle" /\ whole = FALSE /\ targets = {} /\ lost = 0
  /\ summary = Empty /\ analyzed = 0 /\ draft = Empty /\ queue = <<>>
  /\ counts = NoCounts /\ asked = <<1, 1>>
  /\ finalStatus = "none" /\ halted = FALSE
  /\ reuse \in BOOLEAN /\ available \in BOOLEAN /\ runs = Runs

-----------------------------------------------------------------------------
\* reset_task_outputs deletes the summaries, analyzed_videos stays.
Cleared == Empty

\* The crawl stage: some videos are stored, some candidates are lost.
Crawl ==
  /\ phase = "idle" /\ runs > 0 /\ runs' = runs - 1
  /\ targets' \in SUBSET Videos /\ lost' \in 0..1
  /\ summary' = Cleared
  /\ whole' = TRUE /\ halted' = FALSE /\ phase' = "load"
  /\ UNCHANGED <<analyzed, draft, queue, counts, asked, finalStatus, settings>>

\* run_ai_analysis_batch of a task that a run has left
Rerun ==
  /\ phase = "idle" /\ runs > 0 /\ runs' = runs - 1
  /\ halted' \in BOOLEAN /\ whole' = FALSE /\ phase' = "load"
  /\ UNCHANGED <<targets, lost, summary, analyzed, draft, queue, counts, asked,
                 finalStatus, settings>>

\* Mutant of Reusable: only what no model has written is analysed again.
ReusableHeuristic(v) == reuse /\ summary[v] = "heuristic"

\* _should_reuse_existing_result.  The text of a stored video does not change.
Reusable(v) == reuse /\ summary[v] # "none"

\* _load_targets, the split into cached and pending targets, and the commit
\* of the number of cached ones.
Load ==
  /\ phase = "load"
  /\ LET cached == {v \in targets : Reusable(v)}
     IN /\ queue' = SetToSeq(targets \ cached)
        /\ counts' = [NoCounts EXCEPT !.cached = Cardinality(cached)]
        /\ analyzed' = Cardinality(cached)
  /\ draft' = Empty /\ phase' = IF queue' = <<>> THEN "resolve" ELSE "assert"
  /\ UNCHANGED <<job, summary, asked, finalStatus, halted, settings, runs>>

\* task.analyzed_videos in the worker's session
Analyzed == counts.cached + counts.success

\* The session is rolled back.
Abandon ==
  /\ phase' = "idle" /\ draft' = Empty /\ queue' = <<>> /\ counts' = NoCounts
  /\ asked' = <<1, 1>>

\* assert_task_execution_allowed, on the session's copy
CheckControl ==
  /\ phase = "assert"
  /\ IF halted THEN Abandon
     ELSE /\ phase' = IF available THEN "ask" ELSE "fallback"
          /\ UNCHANGED <<draft, queue, counts, asked>>
  /\ UNCHANGED <<job, summary, analyzed, finalStatus, halted, settings, runs>>

\* Mutant of RetriesLeft: one attempt more.
OneRetryMore == asked[2] <= MaxRetries

RetriesLeft == asked[2] < MaxRetries

\* One request of _request_completion.  A connection error, a timeout or a
\* rate limit is retried; an answer without a JSON object is not.
Ask ==
  /\ phase = "ask"
  /\ \/ phase' = "control" /\ asked' = <<1, 1>>
     \/ \* transient
        RetriesLeft /\ asked' = <<asked[1], asked[2] + 1>> /\ UNCHANGED phase
     \/ \* unusable, or transient once too often
        asked[1] < Models /\ asked' = <<asked[1] + 1, 1>> /\ UNCHANGED phase
     \/ asked[1] = Models /\ asked' = <<1, 1>> /\ phase' = "fallback"
  /\ UNCHANGED <<job, summary, analyzed, draft, queue, counts, finalStatus,
                 halted, settings, runs>>

\* The head of the queue is done; kind is "none" when its analysis failed.
Settle(kind) ==
  /\ draft' = [draft EXCEPT ![queue[1]] = kind]
  /\ counts' = IF kind = "none" THEN [counts EXCEPT !.failure = @ + 1]
                                ELSE [counts EXCEPT !.success = @ + 1]
  /\ queue' = Tail(queue)
  /\ phase' = IF queue' = <<>> \/ (counts'.success + counts'.failure) % BatchSize = 0
             THEN "commit" ELSE "assert"

\* _apply_quality_control and _upsert_ai_summary: a draft that is invalid or
\* too short makes room for the heuristic.
Control ==
  /\ phase = "control"
  /\ \/ Settle("model")
     \/ phase' = "fallback" /\ UNCHANGED <<draft, counts, queue>>
  /\ UNCHANGED <<job, summary, analyzed, asked, finalStatus, halted, settings, runs>>

\* _build_fallback_summary, which fails without the optional tokenizer.
Fallback ==
  /\ phase = "fallback"
  /\ Settle("heuristic") \/ Settle("none")
  /\ UNCHANGED <<job, summary, analyzed, asked, finalStatus, halted, settings, runs>>

\* Mutant of Merged: a failed analysis erases the summary there was.
MergedWhole(v) == IF v \in targets /\ v \notin ToSet(queue) THEN draft[v] ELSE summary[v]

\* What the commit stores.
Merged(v) == IF draft[v] = "none" THEN summary[v] ELSE draft[v]

CommitBatch ==
  /\ phase = "commit"
  /\ summary' = [v \in Videos |-> Merged(v)]
  /\ analyzed' = Analyzed
  /\ draft' = Empty
  /\ phase' = IF queue = <<>> THEN "resolve" ELSE "assert"
  /\ UNCHANGED <<job, queue, counts, asked, finalStatus, halted, settings, runs>>

\* Mutant of Resolved: the crawl alone decides.
ResolvedByCrawl ==
  IF lost > 0 /\ targets = {} THEN "failed"
  ELSE IF lost > 0 THEN "partial_success" ELSE "success"

\* _resolve_final_task_status
Resolved ==
  IF \/ lost > 0 /\ targets = {}
     \/ targets # {} /\ counts.success = 0 /\ counts.failure > 0
    THEN "failed"
  ELSE IF lost > 0 \/ counts.failure > 0 THEN "partial_success" ELSE "success"

\* The later stages follow; a batch task leaves the status alone.
Resolve ==
  /\ phase = "resolve" /\ phase' = "done"
  /\ finalStatus' = IF whole THEN Resolved ELSE finalStatus
  /\ UNCHANGED <<job, summary, analyzed, draft, queue, counts, asked,
                 halted, settings, runs>>

Again ==
  /\ phase = "done" /\ phase' = "idle"
  /\ UNCHANGED <<job, summary, analyzed, draft, queue, counts, asked,
                 finalStatus, halted, settings, runs>>

Crash ==
  /\ phase \notin {"idle", "done"} /\ Abandon
  /\ UNCHANGED <<job, summary, analyzed, finalStatus, halted, settings, runs>>

Next ==
  \/ Crawl \/ Rerun \/ Load \/ CheckControl \/ Ask \/ Control \/ Fallback
  \/ CommitBatch \/ Resolve \/ Again \/ Crash

Spec == Init /\ [][Next]_vars

-----------------------------------------------------------------------------
TypeOK ==
  /\ phase \in {"idle", "load", "assert", "ask", "control", "fallback", "commit",
             "resolve", "done"}
  /\ whole \in BOOLEAN /\ targets \subseteq Videos /\ lost \in 0..1
  /\ summary \in [Videos -> {"none", "model", "heuristic"}]
  /\ draft \in [Videos -> {"none", "model", "heuristic"}]
  /\ queue \in Seq(Videos) /\ analyzed \in Nat
  /\ counts \in [cached : Nat, success : Nat, failure : Nat]
  /\ asked \in (1..Models) \X (1..MaxRetries)
  /\ halted \in BOOLEAN
  /\ finalStatus \in {"none", "failed", "partial_success", "success"}
  /\ reuse \in BOOLEAN /\ available \in BOOLEAN /\ runs \in 0..Runs
=============================================================================
