# spiderbilibili in TLA+

A verification project for the backend of spiderbilibili: TLA+ modules of its
concurrent core and of the services around a run, TLC runs on small instances, and theorems that
TLAPS checks for every value of the constants.  Paths below are relative to `backend/app/` unless
they say otherwise.

## 1. The system

spiderbilibili crawls Bilibili videos for a keyword (or the hot list), analyses them
with an AI model, clusters topics and reports.  A FastAPI process serves a Vue front
end, stores tasks in a SQL database and sends each task to a Celery worker through a
Redis broker; Redis also holds the global concurrency gate and monitoring counters.

| component | state it keeps | operations | interacts with |
|---|---|---|---|
| status state machine, `services/task_state_machine.py` | none: a table | check a move, carry it out | called by every writer of a task |
| task control, `services/task_service.py`, `api/routes/tasks.py` | row `crawl_task`: status, `deleted_at`, error, JSON column `extra_params` | create, retry, pause, resume, cancel, delete, restore, permanent delete, detail, list | database sessions; sends queue messages; inspects workers |
| reconciliation, `services/task_service.py:362` | `updated_at` against the stale window, 5 s cache of an inspection | fail a task whose worker is gone | called by detail, list, pause, cancel, delete and the gate |
| worker, `worker.py` | one session per call, heartbeat thread with sessions of its own | `run_crawl_task`, AI batch, topic batch | queue, gate, row, pipeline, alerts |
| execution gate, `services/task_concurrency_service.py` | Redis sorted set of task ids and lease ends | acquire, release, sweep | workers; reads the tasks' rows; reconciliation |
| crawl pipeline, `services/crawl_pipeline_service.py`, `crawler/` | candidates, outcomes by index, counts, outputs of the task | collect, dedupe, select, crawl in a thread pool, store | HTTP client shared by threads, storage, control check |
| HTTP client, `crawler/client.py` | failure count, circuit opening time, request times, under a lock | request with retries, back-off, circuit breaker, rate limit | threads of the detail crawl |
| AI analysis, topics, expansion, `services/video_ai_service.py`, `topic_cluster_service.py`, `keyword_expansion_service.py` | summaries, clusters, the expansion in `extra_params` | analyse a batch, reuse cached results, cluster | pipeline, model API |
| analysis outputs, `services/task_analysis_service.py`, `task_report_service.py`, `task_result_service.py` | snapshot, report and weights in `extra_params` | compute, store, serve, edit the weights | worker, pages |
| statistics and authors, `services/statistics_service.py`, `popular_author_service.py` | none: they read rows, and lists of Bilibili | scores, topics, trends, recommendations, profiles of authors | worker, pages, HTTP client, model API |
| alerting, `services/alerting.py` | Redis claim with an expiry | claim, deliver, release the claim | worker, monitoring |
| monitoring, `services/monitoring.py` | Redis counters, heartbeat keys | record, snapshot | worker, reconciliation's fallback |
| configuration and login, `services/system_config_service.py`, `bilibili_auth_service.py` | configuration rows, the Bilibili cookie and the account it belongs to | read, save, import from a browser, merge with the environment | API, HTTP client |
| exports, acceptance | none | read and render | API |
| front end, `frontend/src` | polling timers, stores | polls detail and list | API |

What is hard in it:

* **Copies.** `db/session.py` builds sessions with `expire_on_commit=False` and
  `autoflush=False`.  A session's copy of a task is read once; later queries of the
  session return the same object unrefreshed; a commit writes the columns the session
  changed to the row as it is by then.  `extra_params` is one column that requests,
  workers and heartbeats all rewrite whole.
* **Delivery.** Messages are acknowledged before they are executed (a worker's death
  loses the work) and redelivered after Redis's visibility timeout (two calls for one
  message).
* **Judging from afar.** Reconciliation fails a task on the strength of a timestamp and
  of a Celery inspection, which may be empty or old.
* **Optimistic locking** at the gate, with sweeps by other workers, lease ends, Redis
  errors and killed processes in between.
* **Threads** that share one HTTP client.

Correctness, component by component: a status moves only along the table as far as each
session can see; a trashed task stays trashed until it is restored; nothing that nobody
attends to stays QUEUED; a live run is not failed; every attended task settles in the end;
the gate never holds more tasks than its limit, leaks no slot, and turns every caller away or
lets it in; the client's circuit follows its failures, its throttle keeps the rate and its requests
end; outcomes belong to their candidates, and the counts that decide the final status add up; a
video has one primary topic; what the pages show of a task is computed from one set of rows
and weights, and its scores keep to their scale; one alert of a kind goes out per window; the account
shown is the one whose session is sent.

## 2. Modules

| module | models |
|---|---|
| `TaskStateMachine` | statuses, table, check and transition of one session's copy |
| `TaskLifecycle` | one task: row, API request slots, queue, worker calls, heartbeats, staleness |
| `MCTaskLifecycle` | constants of its runs |
| `TaskLifecycleProofs` | type correctness, the safety theorems |
| `SlotPool` | abstract: the tasks executed never outnumber the limit |
| `ExecutionGate` | the gate, and the worker call around it |
| `MCExecutionGate` | constants of its runs |
| `ExecutionGateProofs` | type correctness, bound on the slots, no leaked slot; the gate implements `SlotPool` under stated conditions |
| `HttpClient` | the threads that share the HTTP client: retries, circuit breaker, throttle |
| `MCHttpClient` | constants of its run |
| `HttpClientProofs` | type correctness, circuit, rate |
| `Listing` | what the loops and sorts of the services make of a list, without the loop |
| `CandidateSearch` | keyword expansion, search, hot lists, merging and selection of candidates |
| `SearchPromises` | which keywords a run searches, what its candidates are, which it selects |
| `CandidateCrawl` | details crawled in a pool of threads, second attempts, storing, counts |
| `CrawlPromises` | what a run that is done owes to its candidates |
| `CandidateCrawlProofs` | every candidate accounted for, rows in the order of ranks |
| `AiAnalysis` | summaries in batches, models and heuristic, final status |
| `AiPromises` | what the counts, the status and the summaries of a run tell |
| `AiAnalysisProofs` | counts are those of the summaries, truthful status, model summaries kept |
| `TopicCluster` | topics gathered, merged, limited and stored |
| `TopicPromises` | what a stored clustering looks like |
| `TopicClusterProofs` | one primary cluster for each video, the limits |
| `TaskOutputs` | snapshot, report and weights in `extra_params`: runs, which may overlap, and editors |
| `OutputPromises` | what the pages are served, and what a run and an edit leave |
| `Statistics` | three queries of a request against runs that rewrite rows |
| `AnalysisViews` | the scores of videos and of topics, from the rows read; that they keep to their scale |
| `AuthorRanking` | which authors an analysis is about, in which order; that each is profiled once |
| `PopularAuthors` | authors listed page by page, details fetched, profiles made |
| `SelectionProofs` | `CandidateSearch`, `PopularAuthors`, `Statistics`: keywords, merged and selected candidates, authors, scores of the analysis |
| `Alerts` | claim, delivery, release and expiry of an alert |
| `AlertPromises` | what `send_alert` promises, over claims, senders and what was shown |
| `Monitoring` | heartbeats, counters and probes in Redis |
| `MonitoringPromises` | whom a probe counts, the health page, and the failure ratio |
| `BilibiliLogin` | the saved cookie, its account, the merge with the environment |
| `LoginPromises` | the stored row, the resolved cookie, whose account is shown |
| `ServicesProofs` | `Alerts`, `BilibiliLogin`, `TaskOutputs`, `Monitoring`: one alert per window, the account of the session, the outputs served, steady workers counted, no more failures than calls |
| `MCServices` | constants of these ten, side by side, and their properties |
| `MCStatistics` | constants of the run `cross_task_history` |

Operators whose comment begins with "Mutant of" are plausible bugs of the operator they
name.  They occur in no specification; put in the place of that operator, each makes TLC
find one property violated, which shows that the property depends on that code.

### TaskLifecycle

`row` is the committed row, `req[r]` a request handler and `run[w]` a worker call, each
with the `copy` its session holds, `beat[w]` a heartbeat thread with the `extra_params` it
read.  The program counters mark the places where another actor may act: between a read and
the commit that follows it, between the first inspection of reconciliation, the refresh and the
second one, between the commit of a QUEUED row and its dispatch, before and after the gate.  A call of
the broker that fails may have sent the message (`Enqueue`).  `Flush(old, new)` is the
UPDATE of a session that turned `old` into `new`; `Commit` adds what the database does: no
row, no effect (the caller gets StaleDataError), otherwise `updated_at` is renewed.

Of `extra_params` the model keeps the dispatch generation, the message id and the state of
the keyword expansion (taken to be enabled); `control` metadata, which nothing reads, and
progress are left out, but the writes that carry them are not.  Handlers that refuse, and
reads without reconciliation, do nothing.  Crawl, AI, topic, statistics and report stages
are one action `Progress`, taken any number of times: check, write, commit.  `Outcomes` is
the set of final statuses; which of them follows from counts is left open.  A bulk delete is
the single delete of each task.  `retry` inserts another row the way `create` does.

Time appears in one place.  `BecomeStale` needs every request idle, no worker call in a
phase of milliseconds and no heartbeat thread alive: the stale window (180 s by default, 30 s at
least, `services/task_service.py:1171`) is taken to be longer than each of these and longer
than a heartbeat interval (a third of the window, at most 60 s, `worker.py:88`).  With the
smallest permitted window the interval is half of it.  A worker that is stopped for longer
than the window between a read and a commit is outside the model.

### ExecutionGate

`expiry` is the sorted set (0: not a member), `call[c]` a call of `run_crawl_task` with the
local variables of `acquire`: deadline, owners seen, the time of the attempt.  `dirty` says
that the watched key has changed since WATCH; `Moves` marks every watching connection, the
one that made the change included, as Redis does.  Each Redis command that another worker
can come between is an action; ZCARD and ZSCORE are one, because a change between them
makes the transaction fail as a change after them does.  The rows are reduced to active
(QUEUED or RUNNING), stopped (by a user) and settled.  All workers share one clock, and the
lease and wait are given in its ticks.

### HttpClient

`thread[t]` is a thread inside `_send_request`; the other variables are the attributes that
`_state_lock` guards, so that each locked section is one step.  Times are relative: ages of the
timestamps, time left of a sleep or of the open circuit.  Ages stop at the window, beyond
which the code makes no difference between them; hence time needs no horizon, and `Tick` may
come between any two steps.  `tripped` is `_circuit_open_until > 0`, `openFor` what is left of it: the
code lets the circuit stay set after its time until the next check.  60 / rate_limit is rounded up
to whole ticks.  Two history variables, `recent` and `spilled`, are read by properties only.
A random pause is any value between its limits.  Signing is left out: its cached keys are used
by the sequential author crawl alone.  So are the codes in a response's body, which raise
errors after the request has been recorded as a success.

### CandidateSearch and CandidateCrawl

The two halves of `CrawlPipelineService.run_task`.  A candidate is a video with its rank and the
keywords that led to it.  `seen` holds the objects as the site returned them and `found` the
same objects after the first merge, because `dedupe_search_candidates` changes them in place and
the caller merges them again.  `Absorb` is one turn of its loop, with the positions of the objects
for their identity.  `candidates` is the selection, kept as a variable because the properties compare it with
`seen`.  Lists are not built item by item: `Firsts` is the set of places at which the loop over the synonyms
appends, `Picked` the words there in their order, `Upto` the `break` at the count, and `Sorted` a
list given by what comes before each element.  Ranks are positions on the pages, dates are the set `Recent`.

A page of search results states its own page size, from which ranks follow (`Listed`); the hot lists number by
position (`ByPosition`).  A result may lack its bvid, which then is the empty one.

`detail[i]` is the future of candidate `i`; `Take` and `Fetched` are the threads, `Collect` the
loop over `as_completed`, `Retry` the second attempts, `Lookup` and `Flush` the storing of one
video with a gap in which `Rival`, another task, inserts the same one.  A result is a video, a
`BilibiliCrawlerError`, or another error, which ends the run after the pool has drained.  A row is
kept under the bvid that the fetched detail bears (`Bears`, `crawler/detail_spider.py:78`), which need
not be the candidate's: then two successes share one row.  `Overlap` is another run of the same task, which
deletes all its rows or stores some, at any moment; the flush of a run that it disturbs may fail (`Refused`).
`alone`, a history variable, says that none has done so since this run deleted the rows.

### AiAnalysis and TopicCluster

`summary` is what is committed, `draft` what the open batch adds.  `asked` counts models and
attempts within one request; whether a request succeeds, how, and whether quality control accepts
it are free.  `whole` tells a run of the task, which has deleted the summaries before, from a
batch task, which meets cached ones.

A topic name is its alphabetical rank and a cluster the set of its relations `<<video, role>>`, from
which the scores follow; `Heat` gives the heat of each set of videos.  Which cluster is most similar to a
relation's texts is left open among the permitted ones.  The deletion of the old clusters is a commit of its own, as in the code.

Both modules have **one run of a task at a time**.  The code allows more: a redelivered message, or a pause and a
resume, start a second run beside the first (see the findings), and a batch task may be sent during a run.  What such runs leave
together, summaries counted by one and deleted by the other, or clusters of both, is not modelled: no statement of
the repository speaks of it.  What is said of these two modules is therefore said of a run that is alone.

### TaskOutputs

The column `extra_params` reduced to weights, snapshot and report, each result being the run
whose rows and the weights it was computed with.  `copy[s]` is the column in the session of a
worker or of an editor, and `Written` what a commit makes of the column: the whole of it.  Workers take up
the task in any status and at any time, so that runs overlap, and `Requeue` stands for a pause
followed by a resume, which a run that is under way does not see.  `held[w]` is the status in a worker's session; a
commit writes the status only if the session's has changed, and `Finish` fails when the table
(`TaskStateMachine`) refuses the move.  `sole[w]`, a history variable, says that no other run, pause or resume
has written to the task since the worker read it.  A rerun of a settled task that ends with the
status it had before is covered: `FinishedWithOwnOutputs` speaks of the end of a run, not of a change of
the status.  That the pages show the older results until then is left as it is.

### Statistics and PopularAuthors

`reader` is a request for the analysis of a task under way: what each of its three queries saw, while
runs of the task, overlapping ones included, delete, store and cluster; only videos that have
a summary get a topic (`Cluster`).  The scores are operators of `AnalysisViews`.  Two of a metric's components stand for
all, chosen so that they differ in kind (a growth that may be negative, a speed, ratios, another metric);
the depth score is the sum of ratios again and is left out.  Scores are integers with `One` for 1.0, every quotient
rounded down (the code rounds weights and ratios to 6 digits and scores to 4, which takes away
what the rounded weights may come to beyond 1.0); the weights of a task are scaled to what the
default weights come to, 1.0 for the scores of a video.  A missing ratio counts as zero where it is compared,
and days stand for hours.  The lists, trends and recommendations that are
built from the scores are left out.  Of the recommendations that matters: a video without a topic of its
own is compared by the topic name of its summary (`services/statistics_service.py:569-571`, `:1217`), so
that it may be recommended for a topic whose insight does not count it.  Nothing in the repository says otherwise.

Authors are keyed by id or,
without one, by name.  `AuthorRanking` says who is chosen overall and by topic, and in which order; the chosen ones
are the `queue` of `PopularAuthors`.  Lists of an author come page by page and may shift in between; a detail
that fails is replaced, a page that fails ends the analysis.

### Alerts, Monitoring, BilibiliLogin

Each step is one call to Redis or to the database.  In `Alerts` a failing call to Redis may have taken effect, and
a failing call of a channel may have shown the alert: a timeout, a status that is raised, an SMTP error after the
message.  A channel that answers with success is taken to show it.  `send_alert` counts the failing call as a failure in any case;
when every channel failed it gives the claim back and the alert may be shown again, which is the exception that
`misread` stands for.  `shown`, `reached`, `blind`, `stuck` and `misread` are history variables that only properties read.
The window is taken to be longer than a delivery: 15 minutes by default against 8 seconds a channel.

In `Monitoring` a live process renews its key long before it expires; of the outcomes of an AI stage only
the total and the failures are kept.  What a probe finds is shown on the health page.  Reconciliation reads heartbeats too
when Celery does not answer, but fails a task whose worker it cannot tell just as one without a worker
(`services/task_service.py:1293-1297`), so that nothing of it is claimed here.

In `BilibiliLogin` a cookie maps each field to the account it came from; any field may lack, and the fields of one
cookie may be of several accounts: the code checks neither what is pasted, nor what the browsers' databases hold, nor the
window in which the user logs in, which it reads as soon as there is a session.  Row and environment are merged
field by field (`Resolved`).  Bilibili tells whose cookie it is by the session, and `ProfileIsOfLogin` is about the
session only: with a part of a login saved over a configured environment, the token that is sent may be of
another account than the session, and so it is in the model.  An update writes nothing when the row it read
had the same value (`Stored`).  When no account is shown, the environment's session may be sent all the same.

## 3. Runs

All bounds are constants of the modules and named there.

| run | instance | shows |
|---|---|---|
| `control` | 1 worker, 1 user with create, pause, cancel, resume; 3 generations, 2 messages, 1 redelivery, empty inspections | `TypeOK`; `RunSeesNoControl`: checks inside a run never stop it; `ClosedYieldsOnlyToOlderReads`: SUCCESS, FAILED and CANCELLED change only at the hand of a session that read the row earlier |
| `trash` | 1 worker, 2 pages with create, cancel, delete, purge, poll, list, restore; 1 redelivery, empty inspections | `OnlyRestoreUntrashes`, `NoSilentStall` |
| `attended` | 2 workers, create and poll; 1 redelivery, 1 death of a process or thread, honest inspections | `NoSilentStall`, `LiveRunSpared`, and under fairness `EventuallySettled` |
| `stopped` | as `control` without redelivery | violated: a paused or cancelled task is completed |
| `superseded` | 2 workers, as `control` | violated: a superseded message is executed |
| `resume` | 2 workers, as `control` without redelivery | violated: the model is asked again after a resume |
| `gate_slots` | 3 calls, 2 of them of one task; limit 1, lease and wait 1 tick, clock to 2; 1 Redis error, 1 death, user control | `TypeOK`, `SlotBound`, `NoLeakedSlot` |
| `gate_pool` | 3 tasks, limit 2, leases beyond the horizon, 2 deaths | `PoolSpec` (refinement), and under fairness `AcquireEnds` |
| `gate_running` | as `gate_pool`, with users pausing tasks | violated: more calls execute than the limit |
| `http` | 2 threads with 2 requests each, 1 retry; 2 requests per window of 3 ticks, pauses up to 1; threshold 3, recovery 2 | `TypeOK`, `OpenIffFailing`, `RateHolds`, `OneRequestSpills`, and under fairness `RequestEnds` |
| `services` | ten modules side by side, see below | 21 properties, see below |
| `cross_task_history` | 2 tasks that store one video | violated: the history shown of it has one point |

`services` is the sum of ten state graphs and not their product: the modules share no variable, `which`
names the one that moves, and each property speaks of one module (`TypeOK` of the one that moves).
The eight modules named `...Promises` (`Alert`, `Login`, `Output`, `Search`, `Crawl`, `Ai`, `Topic`, `Monitoring`),
`AuthorRanking` and `AnalysisViews` hold the part of the state that the properties of their component speak of,
and these properties: the modules that take the steps, and with them the proofs, and `MCServices` extend the
same definitions.  Its properties and instances:

| module | instance | properties |
|---|---|---|
| `TopicCluster` | 3 videos, 6 names with an alias, a reserved and a stop topic; minimum size 2, limit 2; 2 runs | `OnePrimaryEach`, `ClustersWithinLimits` |
| `CandidateSearch` | 3 videos and a result without bvid, 2 videos recent, 4 words, 2 synonyms; page sizes 1 and 2, 2 pages, limit 2; 2 runs | `KeywordsWellFormed`, `CandidatesMerged`, `SelectionIsBest` |
| `CandidateCrawl` | lists of 2 and 3 candidates, two of which turn out to be one video, 2 threads, a shared video, other runs of the task at any time; 2 runs | `EveryCandidateAccounted`, `RowsFollowRanks`, and under fairness `RunEnds` |
| `AiAnalysis` | 3 videos in batches of 2, 2 models with 2 attempts; 2 runs | `FinalStatusTruthful`, `AnalyzedMatchesSummaries`, `AiSummaryKept` |
| `TaskOutputs` | 2 workers and 2 editors, of which three take part at a time (`MaxInvolved`), 2 weight settings; 2 runs that may overlap | `FinishedWithOwnOutputs`, `EditLeavesOwnOutputs` |
| `Alerts` | 2 senders, 1 kind, 2 channels | `OneAlertPerWindow`, `SilenceHasReason` |
| `Monitoring` | 2 processes, 1 expected, 2 AI stages | `SteadyWorkersCounted`, `AiRatioAtMostOne` |
| `BilibiliLogin` | 2 requests, 3 accounts, one of them of the environment; cookies without a token, without a session and, merged with the environment's, of two accounts | `ProfileIsOfLogin` |
| `Statistics` | 1 task, 2 videos, one dated after today and one without a date, 2 topics, 2 sets of counts, one shrunk since the search, a redelivery during the queries; one metric with weights of zero | `ScoresWithinScale` |
| `PopularAuthors` | 3 authors, one without an id, one choice overall and one by topic, pages that overlap | `AuthorsProfiledOnce` |

`TypeOK` is that of all ten, each in the states in which its module moves.

Why the bounds are enough: every hazard in these runs needs one writer with an old copy and one
with a newer one.  Three generations are a create, a pause and a resume; two messages are
the old and the new dispatch; one redelivery gives two calls of one message; one death is one
loss.  The gate needs two callers that race for the last slot and a third party that sweeps,
shares the slot or is turned away; a clock of two ticks lets a lease and a wait end.  In `gate_pool` two workers
may die in possession of both slots, so that the third caller must be turned away.  The client
needs two threads that wait for one slot of the window, and enough requests (4 with up to 2
attempts) to fill the window, open the circuit, see it recover and open it again.

Of the services, two runs are needed for what one leaves to the next: rows, summaries, an expansion,
clusters, an analysis.  Three videos make a batch that is full and one that is not, two threads with
one candidate queued, clusters to keep, to merge and to remove.  Two of each kind of concurrent
actor (senders, editors, requests, processes) give every order of two conflicting steps; the numbers
of senders, editors, requests, channels, videos, candidates, threads, batches, topics, processes and
stages are arbitrary in the theorems.

Deadlock is not checked: a system without requests rests, the services end with their last run, and the bounds on messages and
generations stop it elsewhere.

`LiveRunSpared` is stated for messages that are delivered once: a redelivery that starts after
the second inspection (`Reinspect`) is failed although it has begun.  The same happens with the list
endpoint, which reuses an inspection for 5 s; `attended` therefore polls the detail only.  And it
happens with a resume between the second inspection and the commit, which starts a new call.
`NoSilentStall` is checked, and proved, without resume, so lost generations are the business of `superseded`: a lost update of the generation there
leaves a QUEUED task with no acceptable message until reconciliation fails it.

### Findings

Five statements of the repository are contradicted by the code; each has its run.

* `stopped`: the table (`services/task_state_machine.py:37-41`, `:49`) gives a paused task no way
  to SUCCESS and a cancelled one no way anywhere.  The run's session still holds RUNNING and
  commits SUCCESS over it.
* `superseded`: "Task dispatch has been superseded by a newer queue instruction."
  (`services/task_service.py:1342`).  A worker writes `extra_params` back with the generation it
  read, and the old message passes again.
* `resume`: `docs/archive/keyword-synonym-expansion/SPEC_KEYWORD_SYNONYM_EXPANSION_PHASE0.md:238-239`
  promises that resume reuses the expansion and does not call the model again.
* `gate_running`: the limit on tasks executed at one time (`core/config.py:169`, `worker.py:691`)
  is exceeded, since a paused task loses its slot while its run goes on.
* `cross_task_history`: the analysis page (`frontend/src/views/TopicAnalysisView.vue:536`) and the
  notes of the analysis (`services/statistics_service.py:1259`, `:1268`) speak of snapshots across tasks.
  The query (`:402`) reads those of this task, which has one of each video.

### Fairness

`TaskLifecycle!Fairness`: requests are carried to their end; workers take messages and every
step of a call is taken, because each request of the pipeline has a timeout and a bounded
number of retries; time passes; a page that shows the task keeps polling (`frontend/src/views`
polls unfinished tasks).  Nothing is assumed of faults, redelivery, or of a heartbeat's reads.
`ExecutionGate!Fairness`: worker threads are scheduled, time passes, runs end.
`CandidateCrawl!Fairness`: the run is scheduled and so are its threads, whose requests the HTTP library
ends; nothing is assumed of crashes or other tasks.  `HttpClient!FairSpec`: threads are scheduled, time passes, and the timeout of the HTTP library ends
every request.  All of it is weak fairness.  `RequestEnds` is about finitely many requests, as many
as the crawl has: against rivals that never stop, a thread could wait in the throttle for ever.  `AcquireEnds` needs no assumption on who wins a race: a refused EXEC means that
another call's EXEC, sweep or release took effect, and there are finitely many.

## 4. Proofs

Assumptions: `LifecycleAssumption`, `GateAssumption`, `ClientAssumption` and the `Assumption` of each service module, which say
what kind of value each constant is, the last ones as hypotheses of the theorems (TLC evaluates them in
`MCServices`).  Sets of videos and processes are finite; there are one or two models,
`services/video_ai_service.py` knowing a primary and a fallback one; the default weights of a video's score come to 1.0
(`services/analysis_weight_service.py`).  Nothing is assumed of the number of
workers, requests, messages, generations, candidates, threads, names, runs or faults, nor of what a cookie or a
detail holds.

* `TypeCorrect` (`TaskLifecycle`).  `TypeOK` is not inductive: a call past `idle` must hold a
  message, or the id it commits would be 0 where an id of a message is wanted (`BusyHasMessage`).
* `RunNeverSeesControl`.  Inductive with the type invariant: `Admit` reads and checks the row in one
  step, and every later action leaves status, trash mark and generation of the copy alone.
* `TrashNeedsRestore`.  A session writes `deleted_at` only if it changed it, and no operation but
  restore clears it.  `Create` and `Purge` write the whole row, so the invariant
  `GoneNotTrashed` (no trash mark without a row) is needed.
* `ClosedHolds`.  If a commit changes a closed status, the status of the session's copy differed from
  the one it wrote; `CanMove` on that copy excludes every closed status as its origin, so the copy is
  older.  `HandlerCopies` says what the handlers' copies may be at each program counter;
  `NeverStored` says a row that never was has the initial value.
* `NothingStalls`: without resume, and as long as no process dies, `NoSilentStall` holds.  The invariant
  `StallInv` says that creation is the only dispatch (`OneDispatch`), so that a message is never
  superseded; that every session holding a copy of a QUEUED row read it QUEUED, so that whatever it
  commits moves the row on (`QueuedUntouched`); that a QUEUED row has a request, a message or a worker's call
  on the way (`QueuedCarried`); and that a RUNNING row has a call whose copy says RUNNING
  (`RunningExecuted`), whose end settles the row because `CanMove` allows it.  `StatusSources` is the lemma that
  only a creation makes a row QUEUED and only a call that read it QUEUED makes it RUNNING.  With
  resume the first part fails: see the finding on superseded messages.
* `GateTypeCorrect`, `SlotsBounded`.  The bound alone is not inductive, for EXEC acts on an
  older count.  `CountStillHolds` adds: a caller about to EXEC whose connection is not marked still
  finds room.  Any change of the set marks it; otherwise the count stands.
* `NoSlotLeaks`.  `SlotsOwned`: without errors and deaths, each member of the set has a call that
  has yet to leave.
* `CalmGateIsAPool`.  Under `Calm` (limit not 0, no Redis error, no user control, leases beyond the
  horizon, one call per task) `ExecutionGate` implements `SlotPool`, deaths included.  `CalmInv` says
  that a call with a slot is in the set, that a task is active until its call leaves, that only what
  is over is swept, and that no lease ends.  The running calls then map one to one into the set,
  whose bound is `SlotsBounded`.  Each condition of `Calm` is needed; for user control,
  `gate_running` is the counterexample.
* `ClientTypeCorrect`, `CircuitFollowsFailures` (inductive with the types) and `OneSpillPerThread`, for
  which `SpentIsBarred` says that a thread that has sent since the circuit opened is not past its
  check again.
* `ThrottleBoundsRate`.  `ThrottleInv`: the timestamps kept are the newest of the last RateLimit
  reservations, and those dropped are a window old.  A thread goes ahead only with fewer
  timestamps than the limit, so the oldest of RateLimit remembered ones is a dropped one.

* `OneAlert`, `NoSilenceWithoutReason` (`Alerts`).  The bound of one alert is not inductive: a second sender
  at work would show a second one.  `Exclusive` adds that, while Redis answers and no claim was given back
  for an alert that was shown (`misread`), whoever works on a kind of alert holds its claim and has shown what has been
  shown.  A sender that clears has been answered by no channel (`Told`); if none has shown its alert either, deleting
  the key unconditionally frees only its own claim.
* `ProfileShownIsLogin` (`BilibiliLogin`).  `Matches`: the account at hand or stored beside a cookie is that of the
  cookie's session.  So a row with an account has a session of its own, which hides that of the environment, and
  it has both from one request.  Of the other fields nothing is assumed.
* `RunFinishesWithOwnOutputs`, `EditFinishesWithOwnOutputs` (`TaskOutputs`).  `Own`: a session about to report
  has its own snapshot, with the weights of its copy, and one about to finish its own report.  `Undisturbed`: a worker that
  no other run has interfered with holds the status the task has, and the rows are those it has analysed.
  The last commit then writes results that agree with each other (`CommitAgrees`), over whatever editors have
  written before; for an editor the first part is enough, so runs that overlap do no harm to it.

* `CandidatesAccounted`, `RowsInRankOrder` (`CandidateCrawl`).  Neither is inductive: they hold at the end only
  because every loop leaves to the next what it has not settled.  `LoopInv` says what that is at
  each step: while the run collects, a failure of a thread is in `threaded` and has no outcome; while it retries, the
  failures from `Due` on have none.  `Distinct` then makes the outcomes, once there are as many as
  candidates, a bijection of their indices (`OutcomesComplete`), and `sorted` the list that has candidate i at place i
  (`OrderedByRank`).  `CountsInv` is the progress in terms of the outcomes.  `RowsInv` holds while the run is
  `alone`: each row is named by a stored outcome that comes before every one that names a later row
  (`RowsSoFar`), so that several candidates which turn out to be one video have their row at the first of them.
* `AnalyzedIsStored`, `StatusTellsWhatIsStored` (`AiAnalysis`).  `CountsInv`: the counters are the cardinalities of
  `Made` and `Failed`, over what is committed and what the open batch has drafted.  That needs `NothingTwice`: no
  video has a draft and a summary, or a draft and a place in the queue.  The count of analysed videos is
  stated for runs that delete the summaries first or keep those there are (`Additive`): a batch that
  replaces one counts it again.  The final status needs `PhaseInv`, which ties it to the phases.
* `ModelSummariesAreKept` (`AiAnalysis`), from the same invariant: a step of a batch run that reuses results does not
  replace the summary of a model.  A new run of the task deletes all of them.
* `OnePrimaryClusterEach`, `LimitsAreKept` (`TopicCluster`).  `GatheredInv`: each video gathered has one primary
  relation, in the cluster of its primary topic as long as that cluster has members (`Filed`); a merge moves
  the relations of a whole cluster, and one dropped as too small has no primary one (`SizeInv`).
  `LimitInv`: the clusters kept are the greatest of those that are left, no more than the limit, and in the end
  no other is left.  The proof that gathering ends in a cluster rests on `FirstNamed`, the least usable position
  in the list of names.
* `SteadyWorkersAreCounted` (`Monitoring`).  `ProbeInv`: whoever has been there since the probe began has a key, is among the
  keys it has listed and then among the workers it counts; as many workers as are expected then make the page say "ok".
* `FailuresWithinTotal` (`Monitoring`).  A process adds to the total before it adds to the failures, so at any time
  failures are missing, never totals.  `CountersInv` says how many are missing: the sum over the processes, written as
  the cardinality of a set (`OwedFailures`).
* `LiveRunsSpared` (`TaskLifecycle`), under `Attended`: nobody resumes the task, an inspection lists every call under
  way, and no page uses one from the cache.  Requests, workers, deaths and the other operations are arbitrary.
  `OneMessage` and `OneNumber`: then there is one message, and a copy in use, a heartbeat and a RUNNING row name it;
  the row, because a control that rewrites `extra_params` also stops the task (`ControlledExtra`).  So an
  inspection that does not list the row's message lists no call at all (`ReinspectFindsNone`).  `TakenOnce`: the
  queue is empty by then, and so no call begins before the commit (`DoomedIsGone`).  Each condition is needed
  (section 3); redelivery is excluded by the property itself.
* `SearchesOwnKeywords` (`CandidateSearch`).  The invariant `SearchInv` is about the row: a stored expansion has
  words of their own and is a success just when it has some (`ExpansionFits`), so a run that finds one is as good
  as the run that stored it.  `NthPlace` says that the places of a loop are numbered without gaps (the ranks are an
  injection of a finite set into as many numbers, hence onto them); with it `PickedList` gives the length of a
  list built by a loop and a place of its own for each element.
* `SearchMergesCandidates` (`CandidateSearch`), for any pages, keywords and limits.  `LoopInv(o, s, n)` says what the
  merge knows after turn n: the objects are those it was given but for the keywords and the primary keyword (`Keeps`);
  what it holds for a video has the least rank of its occurrences so far and all their keywords; what comes
  later is untouched.  `LoopTurn` is one turn, `LoopEnd` the whole loop.  Two merges in a row give the
  keywords of the pages and no others (`MergedTwice`), although the second one meets objects that the first has
  changed.  `SelectInv` carries this through the stages; `SearchTypeOK` is the type invariant.
* `SearchSelectsBest` (`CandidateSearch`).  `BeforeOrders`: the order of the ranking is total on the videos found, because
  the place where a video was first found tells two of one rank apart (the sort is stable).  `DedupedRanking`, `FilteredRanking` and `UptoRanking` then follow the list through
  sort, filter and limit, and `Selection` compares what is left with what was found.
* `AuthorsAreProfiledOnce` (`PopularAuthors`), for any videos, figures, topics and limits.  `ExceedsOrders` is the
  lexicographic order of the figures, the place in the list deciding last; `RankedList` says what the sort keeps, `DistinctList`
  that keys are picked once, and `Aggregates` that the order by popularity has every author named overall or under
  a topic.  `ProfilesInv`: the profiles made, followed by the queue, are that list at every moment, so that an author is
  neither lost nor profiled again when a page or a detail fails.  `AuthorTypeOK` is the type invariant.
* `ScoresKeepToScale` (`Statistics`), for any counts, topics, heats, dates and relative weights.  `SumWithin` is the arithmetic of
  it: numbers from 0 to One, weighted by what sums to One at most, come to no more than One, although every
  quotient is rounded.  `EffectiveWithin` gives such weights, also when the task's are all zero (`SumOfOnes`
  and `QuotientWithin` are about the scaling), `NormalizedWithin` such numbers, be the value negative or above the maximum;
  `ScoreWithin` then bounds a video's score, `MeanWithin` its average over a topic's videos, and `HotScoreWithin` the
  topic's, with the age clamped between 0 and 1.  The proof uses nothing of the rows but their types, so it
  holds of what any three queries may have seen.  `StatisticsTypeOK` is the type invariant.

Loops, sums and sorts are recursive functions or folds of the community modules.  What they compute is proved by
a step that the library's induction theorems do not offer to these provers: a set of turns with a least
member missing (`LeastNumber`, from `WFMin` and `NatLessThanWellFounded`) gives `AfterEachTurn`, which says that what holds at first
and from turn to turn holds to the end.  It serves twice for each such definition: that the recursive function
has a solution (`AbsorbedDef`, `SumDef`, `SumFunctionDef`, `FlattenSeqDef`), and what the solution is
(`LoopEnd`, `SumType`, `SumOfParts`, `SumWithin`, `FlattenSeqList`).

Only model-checked:

* `EventuallySettled`, `AcquireEnds`, `RequestEnds` and `RunEnds`: liveness under fairness is beyond the prover;
* `TypeOK` of `MCServices`, which is the conjunction of the modules' own: the type invariants of the single
  modules are theorems or parts of the invariants above.

## 5. Not modelled, and the plan

Left out for good:

* exports, acceptance, the text of reports, lists and filters of results: they read the rows of one
  query and change nothing;
* recommendations, trends, co-occurrence, distributions and correlation in the statistics: sequential arithmetic over one query,
  partly in floating point;
* browser client and raw archive: I/O, whose failures are outcomes in the modules above;
* the counters of requests and stages, the Prometheus text, decryption of browser cookies, rendering
  in the front end;
* the similarity of clusters, prompts, summaries and style tags: data, chosen freely.

Left open by the models because no statement of the repository says what should happen: the 5 s old
inspection of the list endpoint, a gate failure of an old message and a block announced in a body
(listed as hazards without a property); edits of weights that overwrite each other, heuristic
summaries taken as cached, duplicates counted by the hot lists, a probe whose first call fails, a
cookie that lacks fields saved over a login, an alert shown by a channel that then fails, a late success that
closes the circuit, what overlapping runs of a task leave in summaries and clusters, recommendations by the name of a topic.

Next, in this order:

1. `TaskLifecycle` with `TaskOutputs` in one module, in place of the reduced status of the latter.
2. Abstract specifications: a sequential crawl that `CandidateCrawl` implements, and the lifecycle as its
   users see it.
