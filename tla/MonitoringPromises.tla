------------------------- MODULE MonitoringPromises -------------------------
(***************************************************************************)
(* What is made of a probe (collect_monitoring_snapshot), of its workers   *)
(* and of its counters, and what that promises.                            *)
(***************************************************************************)
EXTENDS Integers, FiniteSets

CONSTANT Expected   \* monitoring_worker_expected_count

VARIABLES
  counts,    \* the counters total and failure
  missed,    \* some call to the counters has failed
  probe,     \* [pc, ok, keys, workers] of the probe
  steady     \* processes whose heartbeat has been there since the probe began

\* overall_status of a probe while the database answers
HealthStatus ==
  IF probe.ok /\ (Expected <= 0 \/ Cardinality(probe.workers) >= Expected)
    THEN "ok" ELSE "degraded"

\* However a probe falls between heartbeats, expiries and failing calls, a probe
\* that ends shows every worker whose heartbeat was there all the time, and a
\* service with enough of them is not shown as degraded.  A probe whose first
\* call fails is the exception; it shows no worker at all.
SteadyWorkersCounted ==
  probe.pc = "done" /\ probe.ok =>
    /\ steady \subseteq probe.workers
    /\ Cardinality(steady) >= Expected => HealthStatus = "ok"

\* The share of failures that the page shows is at most one, between any two of
\* the calls of several workers, unless a call was lost.
AiRatioAtMostOne == ~missed => counts.failure <= counts.total

=============================================================================
