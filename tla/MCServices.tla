------------------------------ MODULE MCServices ------------------------------
(***************************************************************************)
(* The services around a task's run, side by side in one state graph.  No  *)
(* two of these modules share a variable: a behaviour is a behaviour of    *)
(* the module that `which` names, and the others stay as they begin.       *)
(***************************************************************************)
EXTENDS Integers, Sequences, FiniteSetsExt, TLC, TopicPromises, CrawlPromises, AiPromises,
        OutputPromises, AlertPromises, MonitoringPromises, LoginPromises, SearchPromises,
        AuthorRanking, AnalysisViews

CONSTANTS v1, v2, v3, p1, p2, r1, r2, t1

VARIABLES
  which,
  topicPc, todo, clusters, keep, count, topicRuns,
  mode, enabled, at, searchPage, merged, searchRuns,
  detail, threaded, missing, crawlStored, catalog, crawlRuns,
  draft, aiQueue, aiCounts, asked, halted, available, aiRuns,
  copy, held, run, outputRuns,
  via, reached,
  process, beats, redis, adding, stages,
  loginPc, cookie, profile, found,
  videoRows, relations, crawls,
  authorQueue, authorPage, listed, videos, authorRuns

topicVars == <<topics, topicPc, todo, clusters, keep, stored, count, topicRuns>>
searchVars == <<mode, enabled, expansion, stage, keywords, at, searchPage, seen,
                merged, candidates, total, searchRuns>>
crawlVars == <<step, selected, detail, outcomes, threaded, missing, crawlStored,
               progress, stats, taskVideos, catalog, alone, crawlRuns>>
aiVars == <<phase, whole, targets, lost, summary, analyzed, draft, aiQueue, aiCounts,
            asked, finalStatus, halted, reuse, available, aiRuns>>
outputVars == <<status, rows, column, pc, sole, copy, held, run, outputRuns>>
alertVars == <<claim, event, next, via, reached, shown, blind, stuck, misread>>
monitorVars == <<process, beats, redis, counts, adding, missed, stages, probe, steady>>
loginVars == <<row, loginPc, cookie, profile, found>>
statisticVars == <<videoRows, relations, crawls, reader>>
authorVars == <<doing, insights, authorQueue, authorPage, listed, videos, profiles,
                authorRuns>>

-----------------------------------------------------------------------------
\* Topics in alphabetical order: 4 is a stop topic, 5 an alias of 1, and 9 the
\* name of a video that has no other.
MCAlias == [n \in Names |-> IF n = 5 THEN 1 ELSE n]
MCSpare == v1 :> <<>> @@ v2 :> <<4, 2>> @@ v3 :> <<4>>

Scores == v1 :> 2 @@ v2 :> 1 @@ v3 :> 1

Topic == INSTANCE TopicCluster WITH
  pc <- topicPc, runs <- topicRuns,
  Heat <- [S \in SUBSET Videos |-> FoldSet(LAMBDA v, sum : sum + Scores[v], 0, S)],
  TopicLists <- {<<1>>, <<2, 1>>, <<3, 2, 1>>, <<1, 3>>, <<2, 5>>, <<4>>},
  Runs <- 2

MCWords == {"rust", "Rust", "crab", "ferris"}
MCCasefold == [w \in MCWords |-> IF w = "Rust" THEN "rust" ELSE w]

Result(bvid, index) == [bvid |-> bvid, index |-> index]

Search == INSTANCE CandidateSearch WITH
  page <- searchPage, found <- merged, runs <- searchRuns,
  Bvids <- {"a", "b", "c", ""}, Words <- MCWords,
  Answers <- {<<"Rust", "crab">>, <<"crab", "crab", "ferris">>, <<"Rust">>},
  PageResults <- {<<Result("c", 1), Result("a", 1)>>, <<Result("b", 2), Result("", 1)>>},
  Sizes <- {1, 2}, PageSize <- 2, MaxPages <- 2, Runs <- 2

Crawl == INSTANCE CandidateCrawl WITH
  stored <- crawlStored, runs <- crawlRuns,
  Bears <- v1 :> {v1} @@ v2 :> {v2} @@ v3 :> {v1},
  Selections <- {<<v1, v2, v3>>, <<v3, v1>>}, Shared <- {v2},
  Concurrency <- 2, Runs <- 2

Ai == INSTANCE AiAnalysis WITH
  queue <- aiQueue, counts <- aiCounts, runs <- aiRuns,
  BatchSize <- 2, Models <- 2, MaxRetries <- 2, Runs <- 2

Outputs == INSTANCE TaskOutputs WITH
  runs <- outputRuns, Weights <- {0, 1}, Runs <- 2

\* Three of the two workers and two editors take part at a time.
Involved == {s \in Workers \cup Editors : pc[s] # "idle"}
MaxInvolved == 3

Alert == INSTANCE Alerts WITH Channels <- 2

Monitor == INSTANCE Monitoring WITH
  Processes <- {p1, p2}, Stages <- 2,
  Batches <- {[total |-> 1, failure |-> 1], [total |-> 2, failure |-> 1]}

\* A cookie whose session and token come from these accounts.  One that the form
\* shows, and the user saves, is merged with the environment's.
From(session, token) == "SESSDATA" :> session @@ "bili_jct" :> token
MCEnvironment == From("env", "env")

Account == INSTANCE BilibiliLogin WITH
  pc <- loginPc,
  Requests <- {r1, r2},
  Pasted <- {From(None, "a")},
  Profiles <- {From("b", None)}

Metric(views, searches, likes, shares) ==
  [views |-> views, searched |-> searches, likes |-> likes, shares |-> shares]
MCWeights ==
  [burst_score |-> [search_growth |-> 2, publish_velocity |-> 1],
   community_score |-> [shares |-> 0, engagement_rate |-> 0],
   engagement_rate |-> [likes |-> 1, shares |-> 1],
   topic_heat_index |-> [total_heat_score |-> 1, burst_score |-> 1, community_score |-> 1]]

\* One is 100.
MCDefaults ==
  [burst_score |-> [search_growth |-> 55, publish_velocity |-> 45],
   community_score |-> [shares |-> 60, engagement_rate |-> 40],
   engagement_rate |-> [likes |-> 100, shares |-> 100],
   topic_heat_index |-> [total_heat_score |-> 100, burst_score |-> 100, community_score |-> 100]]
MCDay == <<8, 0>>
MCHeat == <<3, 1>>

Statistic == INSTANCE Statistics WITH
  rows <- videoRows,
  Tasks <- {t1}, Metrics <- {Metric(8, 4, 4, 2), Metric(2, 4, 0, 1)},
  Spread <- {<<1>>, <<2, 1>>}, Crawls <- 1

MCTopics == <<"t1", "t2">>

Sample(mid, name, topic, heat) ==
  [mid |-> mid, name |-> name, topic |-> topic, heat |-> heat, composite |-> heat]

Author == INSTANCE PopularAuthors WITH
  queue <- authorQueue, page <- authorPage, runs <- authorRuns,
  Insights <- {<<Sample("m1", "x", "t1", 3), Sample("m2", "y", "t2", 1),
                 Sample("", "x", "t1", 2)>>,
               <<Sample("", "", "t1", 9), Sample("m1", "x", "t1", 1),
                 Sample("m1", "x", "", 1), Sample("m2", "y", "t1", 2)>>},
  Uploaded <- {<<"a", "b">>, <<"b">>, <<>>}, Bvids <- {"a", "b"},
  PageSize <- 2, MaxPages <- 2, Runs <- 1

\* What the modules assume of their constants.
ASSUME ServicesAssumption ==
  /\ Topic!Assumption /\ Search!Assumption /\ Crawl!Assumption /\ Ai!Assumption
  /\ Outputs!Assumption /\ Alert!Assumption /\ Monitor!Assumption /\ Account!Assumption
  /\ Statistic!Assumption /\ Author!Assumption

-----------------------------------------------------------------------------
\* A module that has several initial states begins in one of them when it is
\* not the one that moves.
Init ==
  /\ which \in {"topics", "search", "crawl", "ai", "outputs", "alerts", "monitoring",
                "login", "statistics", "authors"}
  /\ Topic!Init /\ (which = "topics" \/ (topics = [v \in Videos |-> <<1>>] /\ count = 0))
  /\ Search!Init /\ (which = "search" \/ (mode = "keyword" /\ ~enabled))
  /\ Crawl!Init
  /\ Ai!Init /\ (which = "ai" \/ (reuse /\ available))
  /\ Outputs!Init /\ Alert!Init /\ Monitor!Init /\ Account!Init
  /\ Statistic!Init /\ Author!Init

Next ==
  /\ IF which = "topics" THEN Topic!Next ELSE UNCHANGED topicVars
  /\ IF which = "search" THEN Search!Next ELSE UNCHANGED searchVars
  /\ IF which = "crawl" THEN Crawl!Next ELSE UNCHANGED crawlVars
  /\ IF which = "ai" THEN Ai!Next ELSE UNCHANGED aiVars
  /\ IF which = "outputs"
       THEN Outputs!Next /\ Cardinality(Involved') <= MaxInvolved
       ELSE UNCHANGED outputVars
  /\ IF which = "alerts" THEN Alert!Next ELSE UNCHANGED alertVars
  /\ IF which = "monitoring" THEN Monitor!Next ELSE UNCHANGED monitorVars
  /\ IF which = "login" THEN Account!Next ELSE UNCHANGED loginVars
  /\ IF which = "statistics" THEN Statistic!Next ELSE UNCHANGED statisticVars
  /\ IF which = "authors" THEN Author!Next ELSE UNCHANGED authorVars
  /\ UNCHANGED which

vars == <<which, topicVars, searchVars, crawlVars, aiVars, outputVars, alertVars,
          monitorVars, loginVars, statisticVars, authorVars>>

\* The threads of a crawl are scheduled; see CandidateCrawl.
Spec == Init /\ [][Next]_vars /\ Crawl!Fairness

-----------------------------------------------------------------------------
\* Every module's state is of its type: that of the one that moves, since each
\* of the others is in an initial state of its own.
TypeOK ==
  CASE which = "topics" -> Topic!TypeOK
    [] which = "search" -> Search!TypeOK
    [] which = "crawl" -> Crawl!TypeOK
    [] which = "ai" -> Ai!TypeOK
    [] which = "outputs" -> Outputs!TypeOK
    [] which = "alerts" -> Alert!TypeOK
    [] which = "monitoring" -> Monitor!TypeOK
    [] which = "login" -> Account!TypeOK
    [] which = "statistics" -> Statistic!TypeOK
    [] which = "authors" -> Author!TypeOK

\* The other properties are stated and explained in the modules extended here.
\* This one is of the crawl of details in crawl_pipeline_service, which ends.
RunEnds == Crawl!RunEnds

=============================================================================
