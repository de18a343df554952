------------------------------ MODULE Monitoring ------------------------------
(***************************************************************************)
(* What workers leave in Redis about themselves, and what is made of it.   *)
(*                                                                         *)
(* A worker process renews a heartbeat key of its own, which expires, and  *)
(* adds the outcomes of a task's AI stage to counters, one call for each   *)
(* outcome; errors of these calls are ignored.  A probe                    *)
(* (collect_monitoring_snapshot) pings Redis, scans for the keys, reads    *)
(* them and reads the counters for the health page.  The reconciliation of *)
(* tasks probes too, but does the same whatever the probe finds (see       *)
(* TaskLifecycle).                                                         *)
(***************************************************************************)
EXTENDS Integers, FiniteSets, Sequences, MonitoringPromises

CONSTANTS
  Processes,   \* worker processes; one that is started again is another one
  Batches,     \* outcomes of an AI stage: [total, success, failure, ...]
  Stages       \* bound on the AI stages recorded

Assumption ==
  /\ IsFiniteSet(Processes) /\ Expected \in Int /\ Stages \in Nat
  /\ \A b \in Batches : b.total \in Nat /\ b.failure \in 0..b.total

VARIABLES
  process,   \* "unborn", "alive" or "dead"
  beats,     \* processes whose heartbeat key is in Redis
  redis,     \* whether Redis answers
  adding,    \* calls a process still has to make: <<counter, increment>>
  stages     \* AI stages still to be recorded

vars == <<process, beats, redis, counts, adding, missed, stages, probe, steady>>

NoProbe == [pc |-> "idle", ok |-> FALSE, keys |-> {}, workers |-> {}]

Init ==
  /\ process = [p \in Processes |-> "unborn"] /\ beats = {} /\ redis = TRUE
  /\ counts = [total |-> 0, failure |-> 0]
  /\ adding = [p \in Processes |-> <<>>] /\ missed = FALSE
  /\ stages = Stages
  /\ probe = NoProbe /\ steady = {}

-----------------------------------------------------------------------------
(* Worker processes *)

\* record_worker_heartbeat: at the start and with each heartbeat of Celery.
Beat(p) ==
  /\ process[p] \in {"unborn", "alive"}
  /\ process' = [process EXCEPT ![p] = "alive"]
  /\ beats' = IF redis THEN beats \cup {p} ELSE beats
  /\ UNCHANGED <<redis, counts, adding, missed, stages, probe, steady>>

\* The key of a live process is renewed long before it expires, as long as
\* Redis answers.
Expire(p) ==
  /\ p \in beats /\ (process[p] = "dead" \/ ~redis)
  /\ beats' = beats \ {p} /\ steady' = steady \ {p}
  /\ UNCHANGED <<process, redis, counts, adding, missed, stages, probe>>

Dies(p) ==
  /\ process[p] = "alive"
  /\ process' = [process EXCEPT ![p] = "dead"]
  /\ steady' = steady \ {p}
  /\ missed' = (missed \/ adding[p] # <<>>)
  /\ adding' = [adding EXCEPT ![p] = <<>>]
  /\ UNCHANGED <<beats, redis, counts, stages, probe>>

Interrupted ==
  /\ redis' = ~redis
  /\ UNCHANGED <<process, beats, counts, adding, missed, stages, probe, steady>>

Call(counter, n) == IF n > 0 THEN << <<counter, n>> >> ELSE <<>>

\* Mutant of Calls: the outcomes in the other order.
CallsFailureFirst(b) == Call("failure", b.failure) \o Call("total", b.total)

\* record_ai_batch_outcomes: a call for each outcome that occurred, the total
\* first.
Calls(b) == Call("total", b.total) \o Call("failure", b.failure)

\* A task's AI stage is over.
Record(p) ==
  /\ process[p] = "alive" /\ adding[p] = <<>>
  /\ stages > 0 /\ stages' = stages - 1
  /\ \E b \in Batches : adding' = [adding EXCEPT ![p] = Calls(b)]
  /\ UNCHANGED <<process, beats, redis, counts, missed, probe, steady>>

\* _increment_hash_counter
Increment(p) ==
  /\ adding[p] # <<>>
  /\ LET call == adding[p][1]
     IN IF redis
          THEN counts' = [counts EXCEPT ![call[1]] = @ + call[2]]
               /\ UNCHANGED missed
          ELSE missed' = TRUE /\ UNCHANGED counts
  /\ adding' = [adding EXCEPT ![p] = Tail(@)]
  /\ UNCHANGED <<process, beats, redis, stages, probe, steady>>

-----------------------------------------------------------------------------
(* A probe *)

\* Each step of the probe is one call to Redis.
Step(pc, next) ==
  /\ probe.pc = pc /\ probe' = next
  /\ UNCHANGED <<process, beats, redis, counts, adding, missed, stages>>

\* _safe_redis_check: without an answer there are no workers and no counters.
Ping ==
  /\ steady' = {p \in beats : process[p] = "alive"}
  /\ Step("idle", [NoProbe EXCEPT !.ok = redis,
                                  !.pc = IF redis THEN "scan" ELSE "done"])

\* Mutant of Scan: one call of SCAN, which returns some of the keys.
ScanOnce ==
  /\ UNCHANGED steady
  /\ \E keys \in SUBSET beats :
       Step("scan", IF redis THEN [probe EXCEPT !.keys = keys,
                                                !.pc = IF keys = {} THEN "done" ELSE "read"]
                             ELSE [probe EXCEPT !.pc = "raised"])

\* The keys, and then their values if there are keys; an error here is passed on.
\* SCAN finds whatever is there all the time, also when it takes several calls.
Scan ==
  /\ UNCHANGED steady
  /\ Step("scan", IF redis THEN [probe EXCEPT !.keys = beats,
                                              !.pc = IF beats = {} THEN "done" ELSE "read"]
                           ELSE [probe EXCEPT !.pc = "raised"])

Read ==
  /\ UNCHANGED steady
  /\ Step("read", IF redis THEN [probe EXCEPT !.workers = probe.keys \cap beats,
                                              !.pc = "done"]
                           ELSE [probe EXCEPT !.pc = "raised"])

Forget ==
  /\ probe.pc \in {"done", "raised"}
  /\ steady' = {}
  /\ Step(probe.pc, NoProbe)

Next ==
  \/ \E p \in Processes :
       Beat(p) \/ Expire(p) \/ Dies(p) \/ Record(p) \/ Increment(p)
  \/ Interrupted \/ Ping \/ Scan \/ Read \/ Forget

Spec == Init /\ [][Next]_vars

-----------------------------------------------------------------------------
TypeOK ==
  /\ process \in [Processes -> {"unborn", "alive", "dead"}]
  /\ beats \subseteq Processes /\ redis \in BOOLEAN
  /\ counts \in [total : Nat, failure : Nat] /\ stages \in 0..Stages
  /\ adding \in [Processes -> Seq({"total", "failure"} \X Nat)]
  /\ missed \in BOOLEAN /\ steady \subseteq Processes
  /\ probe \in [pc : {"idle", "scan", "read", "done", "raised"}, ok : BOOLEAN,
                keys : SUBSET Processes, workers : SUBSET Processes]
===============================================================================
