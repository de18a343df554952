---------------------------- MODULE TaskLifecycle ----------------------------
(***************************************************************************)
(* The life of one crawl task: the crawl_task row, the API requests that   *)
(* control it, the queue messages that dispatch it, the Celery workers     *)
(* that execute it with their heartbeat threads, and the reconciliation    *)
(* that fails a task whose worker is gone.                                 *)
(*                                                                         *)
(* Every actor works on a copy of the row held by its database session.    *)
(* The session factory is built with expire_on_commit=False and            *)
(* autoflush=False, so a copy is read once, is not refreshed by later      *)
(* queries of the same session, and a commit writes the columns the        *)
(* session changed and no others.  A read and the commit that follows it   *)
(* are therefore separate actions, and anything may happen in between.     *)
(***************************************************************************)
EXTENDS Naturals, FiniteSets, TaskStateMachine

CONSTANTS
  Workers,        \* worker threads that take messages from the queue
  Requests,       \* API request handlers, each with a session of its own
  OpsOf,          \* OpsOf[r]: the operations request slot r may be asked for
  MaxGen,         \* bound on the dispatch generation
  MaxMsg,         \* bound on the number of queue messages
  MaxRedeliver,   \* how often the broker redelivers a message
  MaxFault,       \* how many processes or threads die
  InspectFails    \* whether a Celery inspection may come back empty

Operations == {"create", "poll", "list", "pause", "cancel", "resume",
               "delete", "restore", "purge"}

ASSUME LifecycleAssumption ==
  /\ OpsOf \in [Requests -> SUBSET Operations]
  /\ MaxGen \in Nat /\ MaxMsg \in Nat
  /\ MaxRedeliver \in Nat /\ MaxFault \in Nat
  /\ InspectFails \in BOOLEAN

VARIABLES
  row,        \* the crawl_task row as committed
  stale,      \* updated_at lies more than the stale window in the past
  broker,     \* messages waiting in the queue
  sent,       \* number of messages sent so far; a message's id is its number
  req,        \* the API request slots
  run,        \* the run_crawl_task calls of the workers
  beat,       \* the heartbeat threads of those calls
  redelivered, faults,   \* what the environment has done, for the bounds
  expansions  \* calls of the keyword expansion model, counted up to two

vars == <<row, stale, broker, sent, req, run, beat,
          redelivered, faults, expansions>>

-----------------------------------------------------------------------------
(* Data *)

\* extra_params: the dispatch generation, the id of the message last
\* dispatched or acknowledged (0: none) and the keyword expansion's state.
Extras == [gen: 0..MaxGen, cid: 0..MaxMsg, exp: {"pending", "done"}]

Tasks == [life: {"none", "stored", "purged"}, status: Statuses,
          trashed: BOOLEAN, err: ErrorMessages, extra: Extras]

Messages == [id: 1..MaxMsg, gen: 0..MaxGen]

\* What one Celery inspection reports: message ids that a worker executes
\* and ids that a worker has reserved.
Snapshots == [active: SUBSET (1..MaxMsg), reserved: SUBSET (1..MaxMsg)]

NoTask == [life |-> "none", status |-> "PENDING", trashed |-> FALSE,
           err |-> "none", extra |-> [gen |-> 0, cid |-> 0, exp |-> "pending"]]

NoMessage == [id |-> 0, gen |-> 0]

NothingSeen == [active |-> {}, reserved |-> {}]

RequestSlots ==
  [pc : {"idle", "listing", "ready", "probe", "recheck", "reinspect", "doom",
         "reload", "enqueue", "unanswered", "note"},
   op : Operations, copy : Tasks, seen : Snapshots]

RunSlots ==
  [pc : {"idle", "gate", "overload", "begin", "expand", "work", "failing"},
   msg : Messages \cup {NoMessage}, copy : Tasks]

BeatSlots == [pc : {"off", "wait", "read"}, id : 0..MaxMsg, extra : Extras]

IdleRequest == [pc |-> "idle", op |-> "poll", copy |-> NoTask,
                seen |-> NothingSeen]

IdleRun == [pc |-> "idle", msg |-> NoMessage, copy |-> NoTask]

NoBeat == [pc |-> "off", id |-> 0, extra |-> NoTask.extra]

Init ==
  /\ row = NoTask /\ stale = FALSE
  /\ broker = {} /\ sent = 0
  /\ req = [r \in Requests |-> IdleRequest]
  /\ run = [w \in Workers |-> IdleRun]
  /\ beat = [w \in Workers |-> NoBeat]
  /\ redelivered = 0 /\ faults = 0 /\ expansions = 0

-----------------------------------------------------------------------------
(* Sessions: a commit writes the columns in which the session's new copy   *)
(* differs from the copy it read, to the row as it is now.                 *)

Changed(old, new, now) == IF new = old THEN now ELSE new

\* Mutant of Flush: the session writes every column.
FlushWholeRow(old, new) == [new EXCEPT !.life = row.life]

Flush(old, new) ==
  [life    |-> row.life,
   status  |-> Changed(old.status, new.status, row.status),
   trashed |-> Changed(old.trashed, new.trashed, row.trashed),
   err     |-> Changed(old.err, new.err, row.err),
   extra   |-> Changed(old.extra, new.extra, row.extra)]

\* extra_params is one JSON column: progress or a heartbeat changes it as a
\* whole, whichever of its members the model keeps.
FlushAll(old, new) == [Flush(old, new) EXCEPT !.extra = new.extra]

\* An UPDATE that matches no row raises StaleDataError; otherwise it also
\* renews updated_at.
Commit(new) ==
  IF row.life = "stored"
    THEN row' = new /\ stale' = FALSE
    ELSE UNCHANGED <<row, stale>>

\* Mutant of AdvanceGeneration: counts down.
LowerGeneration(task) == [task EXCEPT !.extra.gen = @ - 1]

AdvanceGeneration(task) == [task EXCEPT !.extra.gen = @ + 1]

-----------------------------------------------------------------------------
(* Reconciliation *)

ExecutingIds == {run[w].msg.id : w \in {v \in Workers : run[v].pc # "idle"}}

QueuedIds == {m.id : m \in broker}

\* _build_celery_runtime_state_resolver: an inspection lists every message
\* under execution and those the workers have prefetched; an inspection that
\* raises, or that no worker answers in 0.2 s, lists none.
Inspections ==
  {[active |-> ExecutingIds, reserved |-> ids] : ids \in SUBSET QueuedIds}
  \cup (IF InspectFails THEN {NothingSeen} ELSE {})

\* Mutant of LooksActive: takes the word of a RUNNING row.
TrustsRunning(task, seen) ==
  task.status = "RUNNING" \/ task.extra.cid \in seen.active \cup seen.reserved

\* _is_runtime_state_active_for_task
LooksActive(task, seen) ==
  \/ task.status = "RUNNING" /\ task.extra.cid \in seen.active
  \/ task.status = "QUEUED"  /\ task.extra.cid \in seen.active \cup seen.reserved

\* _should_reconcile_running_task
Unfinished(task) == task.status \in {"QUEUED", "RUNNING"}

-----------------------------------------------------------------------------
(* API requests.  req[r].pc is                                             *)
(*   idle -> ready                        a plain read, then the decision  *)
(*   idle -> probe -> recheck -> reinspect -> doom -> reload -> ready      *)
(*                                        reconciling                      *)
(*   ready -> enqueue -> note -> idle     an operation that dispatches,    *)
(*            enqueue -> unanswered       or whose dispatch is in doubt    *)

\* The operations whose handler calls reconcile_task_runtime_state first.
Reconciling == {"poll", "list", "pause", "cancel", "delete"}

\* get_task_or_raise and get_trashed_task_or_raise
Visible(op) ==
  row.life = "stored" /\ (row.trashed <=> op \in {"restore", "purge"})

\* The statuses in which a handler carries its operation out.
Permitted(op, status) ==
  CASE op = "pause"  -> status \in {"PENDING", "QUEUED", "RUNNING"}
    [] op = "cancel" -> status \in {"PENDING", "QUEUED", "RUNNING", "PAUSED"}
    [] op = "resume" -> status = "PAUSED"
    [] op \in {"delete", "restore", "purge"} -> TRUE
    [] OTHER -> FALSE

StepTo(r, pc) == req' = [req EXCEPT ![r].pc = pc]

Finished(r) == req' = [req EXCEPT ![r] = IdleRequest]

\* create_crawl_task up to its first commit: the row is inserted QUEUED with
\* generation 1.  retry_crawl_task inserts its new row the same way.
Create(r) ==
  /\ req[r].pc = "idle" /\ "create" \in OpsOf[r]
  /\ row.life = "none" /\ MaxGen >= 1
  /\ LET new == [MoveTo(AdvanceGeneration(NoTask), "QUEUED")
                   EXCEPT !.life = "stored"]
     IN /\ row' = new
        /\ req' = [req EXCEPT ![r] =
                     [IdleRequest EXCEPT !.pc = "enqueue", !.op = "create",
                                         !.copy = new]]
  /\ stale' = FALSE
  /\ UNCHANGED <<broker, sent, run, beat, redelivered, faults, expansions>>

\* The list endpoint takes its inspection from a cache of 5 s, so before it
\* reads the rows.
TakeSnapshot(r) ==
  /\ req[r].pc = "idle" /\ "list" \in OpsOf[r]
  /\ \E seen \in Inspections :
       req' = [req EXCEPT ![r] =
                 [IdleRequest EXCEPT !.pc = "listing", !.op = "list",
                                     !.seen = seen]]
  /\ UNCHANGED <<row, stale, broker, sent, run, beat,
                 redelivered, faults, expansions>>

\* A handler reads the row.  A reader that has nothing to reconcile has no
\* effect and is left out.
Load(r, op) ==
  /\ op \in OpsOf[r] \ {"create"} /\ Visible(op)
  /\ IF op = "list" THEN req[r].pc = "listing" ELSE req[r].pc = "idle"
  /\ LET reconcile == op \in Reconciling /\ Unfinished(row) /\ stale
     IN /\ reconcile \/ op # "poll"
        /\ req' = [req EXCEPT ![r] =
                     [@ EXCEPT !.op = op, !.copy = row,
                               !.pc = IF reconcile THEN "probe" ELSE "ready"]]
  /\ UNCHANGED <<row, stale, broker, sent, run, beat,
                 redelivered, faults, expansions>>

\* What the handler believes when it asks whether the task is running.
Answers(r) == IF req[r].op = "list" THEN {req[r].seen} ELSE Inspections

\* First check of reconcile_task_runtime_state, on the copy as read.
Probe(r) ==
  /\ req[r].pc = "probe"
  /\ \E seen \in Answers(r) :
       StepTo(r, IF LooksActive(req[r].copy, seen) THEN "ready" ELSE "recheck")
  /\ UNCHANGED <<row, stale, broker, sent, run, beat,
                 redelivered, faults, expansions>>

\* The copy is refreshed, which raises if the row is gone; staleness is not
\* checked again.
Recheck(r) ==
  /\ req[r].pc = "recheck"
  /\ IF row.life # "stored"
       THEN Finished(r)
       ELSE req' = [req EXCEPT ![r].copy = row,
                      ![r].pc = IF Unfinished(row) THEN "reinspect" ELSE "ready"]
  /\ UNCHANGED <<row, stale, broker, sent, run, beat,
                 redelivered, faults, expansions>>

\* Mutant of Reinspect: the first answer is not asked for again.
ReinspectNever(r) ==
  /\ req[r].pc = "reinspect" /\ StepTo(r, "doom")
  /\ UNCHANGED <<row, stale, broker, sent, run, beat,
                 redelivered, faults, expansions>>

\* Second inspection, for the copy as refreshed.
Reinspect(r) ==
  /\ req[r].pc = "reinspect"
  /\ \E seen \in Answers(r) :
       StepTo(r, IF LooksActive(req[r].copy, seen) THEN "ready" ELSE "doom")
  /\ UNCHANGED <<row, stale, broker, sent, run, beat,
                 redelivered, faults, expansions>>

\* The task is marked FAILED and committed ...
Doom(r) ==
  /\ req[r].pc = "doom"
  /\ Commit(Flush(req[r].copy, MoveTo(req[r].copy, "FAILED")))
  /\ IF row.life = "stored" THEN StepTo(r, "reload") ELSE Finished(r)
  /\ UNCHANGED <<broker, sent, run, beat, redelivered, faults, expansions>>

\* ... and the copy is refreshed before the handler goes on.
Reload(r) ==
  /\ req[r].pc = "reload"
  /\ IF row.life = "stored"
       THEN req' = [req EXCEPT ![r].copy = row, ![r].pc = "ready"]
       ELSE Finished(r)
  /\ UNCHANGED <<row, stale, broker, sent, run, beat,
                 redelivered, faults, expansions>>

\* The operation is a read, or its status check refuses it.
Reply(r) ==
  /\ req[r].pc = "ready" /\ ~Permitted(req[r].op, req[r].copy.status)
  /\ Finished(r)
  /\ UNCHANGED <<row, stale, broker, sent, run, beat,
                 redelivered, faults, expansions>>

\* delete_crawl_task cancels a task that is not terminal yet.
Trashed(task) ==
  IF task.status \in {"PENDING", "QUEUED", "RUNNING", "PAUSED"}
    THEN [MoveTo(AdvanceGeneration(task), "CANCELLED")
            EXCEPT !.trashed = TRUE, !.err = "user"]
    ELSE [task EXCEPT !.trashed = TRUE]

\* The copy as the handler leaves it before its commit.
Controlled(op, task) ==
  CASE op = "pause"   -> MoveTo(AdvanceGeneration(task), "PAUSED")
    [] op = "resume"  -> MoveTo(AdvanceGeneration(task), "QUEUED")
    [] op = "cancel"  -> [MoveTo(AdvanceGeneration(task), "CANCELLED")
                            EXCEPT !.err = "user"]
    [] op = "delete"  -> Trashed(task)
    [] op = "restore" -> [task EXCEPT !.trashed = FALSE]

\* The commit of pause, cancel, resume, delete and restore; resume goes on
\* to dispatch the task.
Control(r) ==
  LET op == req[r].op
      old == req[r].copy
      new == Controlled(op, old)
  IN /\ req[r].pc = "ready" /\ op # "purge" /\ Permitted(op, old.status)
     /\ new.extra.gen <= MaxGen
     /\ Commit(Flush(old, new))
     /\ IF op = "resume" /\ row.life = "stored"
          THEN req' = [req EXCEPT ![r].copy = new, ![r].pc = "enqueue"]
          ELSE Finished(r)
     /\ UNCHANGED <<broker, sent, run, beat, redelivered, faults, expansions>>

\* permanently_delete_crawl_task and empty_task_trash delete the row by its
\* key; the tables that hang off it go with it.
Purge(r) ==
  /\ req[r].pc = "ready" /\ req[r].op = "purge"
  /\ row' = IF row.life = "stored" THEN [NoTask EXCEPT !.life = "purged"]
                                   ELSE row
  /\ stale' = FALSE
  /\ Finished(r)
  /\ UNCHANGED <<broker, sent, run, beat, redelivered, faults, expansions>>

\* enqueue_crawl_task reaches the broker, whose answer may be lost.
Enqueue(r) ==
  /\ req[r].pc = "enqueue" /\ sent < MaxMsg
  /\ sent' = sent + 1
  /\ broker' = broker \cup {[id |-> sent + 1, gen |-> req[r].copy.extra.gen]}
  /\ \/ req' = [req EXCEPT ![r].pc = "note",
                           ![r].copy.extra.cid = sent + 1]
     \/ StepTo(r, "unanswered")
  /\ UNCHANGED <<row, stale, run, beat, redelivered, faults, expansions>>

\* Mutant of EnqueueError: the error is passed on, the row stays QUEUED.
EnqueueErrorPassedOn(r) ==
  /\ req[r].pc \in {"enqueue", "unanswered"} /\ Finished(r)
  /\ UNCHANGED <<row, stale, broker, sent, run, beat,
                 redelivered, faults, expansions>>

\* enqueue_crawl_task raises, whether or not the message has gone out: the
\* task is failed.
EnqueueError(r) ==
  /\ req[r].pc \in {"enqueue", "unanswered"}
  /\ Commit(Flush(req[r].copy, MoveTo(req[r].copy, "FAILED")))
  /\ Finished(r)
  /\ UNCHANGED <<broker, sent, run, beat, redelivered, faults, expansions>>

\* The message id is recorded, in the extra_params the session read earlier.
NoteDispatch(r) ==
  /\ req[r].pc = "note"
  /\ Commit([row EXCEPT !.extra = req[r].copy.extra])
  /\ Finished(r)
  /\ UNCHANGED <<broker, sent, run, beat, redelivered, faults, expansions>>

\* The API process dies around the dispatch.
RequestDies(r) ==
  /\ req[r].pc \in {"enqueue", "unanswered", "note"} /\ faults < MaxFault
  /\ faults' = faults + 1
  /\ Finished(r)
  /\ UNCHANGED <<row, stale, broker, sent, run, beat, redelivered, expansions>>

-----------------------------------------------------------------------------
(* Workers.  run[w].pc is idle -> gate -> begin -> expand -> work -> idle, *)
(* with overload and failing on the two error paths.                       *)

\* assert_task_execution_allowed, on the copy the session holds.
Allowed(task, gen) ==
  /\ ~task.trashed /\ task.extra.gen = gen
  /\ task.status \notin {"PAUSED", "CANCELLED"}

Stopped(w) == run' = [run EXCEPT ![w] = IdleRun]

\* The heartbeat thread is told to stop and joined when the call ends; a
\* write it has begun still happens.
StopBeat(w) ==
  beat' = [beat EXCEPT ![w] = IF @.pc = "read" THEN @ ELSE NoBeat]

\* The worker takes a message and acknowledges it before executing it.  A
\* message held beyond the broker's visibility timeout is delivered again.
Deliver(w, m) ==
  /\ run[w].pc = "idle" /\ beat[w].pc = "off" /\ m \in broker
  /\ run' = [run EXCEPT ![w] = [IdleRun EXCEPT !.pc = "gate", !.msg = m]]
  /\ \/ broker' = broker \ {m} /\ UNCHANGED redelivered
     \/ /\ redelivered < MaxRedeliver
        /\ redelivered' = redelivered + 1
        /\ UNCHANGED broker
  /\ UNCHANGED <<row, stale, sent, req, beat, faults, expansions>>

\* Mutant of Admit: the call starts without the check.
AdmitUnchecked(w) ==
  /\ run[w].pc = "gate"
  /\ IF row.life = "stored"
       THEN run' = [run EXCEPT ![w].pc = "begin", ![w].copy = row]
       ELSE Stopped(w)
  /\ UNCHANGED <<row, stale, broker, sent, req, beat,
                 redelivered, faults, expansions>>

\* The execution gate admits the call, which reads the task and checks it.
Admit(w) ==
  /\ run[w].pc = "gate"
  /\ IF row.life = "stored" /\ Allowed(row, run[w].msg.gen)
       THEN run' = [run EXCEPT ![w].pc = "begin", ![w].copy = row]
       ELSE Stopped(w)
  /\ UNCHANGED <<row, stale, broker, sent, req, beat,
                 redelivered, faults, expansions>>

\* The gate stays saturated until its deadline; a fresh session reads the
\* task (_persist_gate_acquire_failure) ...
Overload(w) ==
  /\ run[w].pc = "gate"
  /\ IF row.life = "stored" /\ row.status \notin {"PAUSED", "CANCELLED"}
       THEN run' = [run EXCEPT ![w].pc = "overload", ![w].copy = row]
       ELSE Stopped(w)
  /\ UNCHANGED <<row, stale, broker, sent, req, beat,
                 redelivered, faults, expansions>>

\* Mutant of OverloadCommit: the call only reports that it got no slot.
OverloadReported(w) ==
  /\ run[w].pc = "overload" /\ Stopped(w)
  /\ UNCHANGED <<row, stale, broker, sent, req, beat,
                 redelivered, faults, expansions>>

\* ... and fails it; a move the state machine refuses raises.
OverloadCommit(w) ==
  LET old == run[w].copy
      new == [MoveTo(old, "FAILED") EXCEPT !.extra.cid = run[w].msg.id]
  IN /\ run[w].pc = "overload"
     /\ IF CanMove(old.status, "FAILED")
          THEN Commit(FlushAll(old, new))
          ELSE UNCHANGED <<row, stale>>
     /\ Stopped(w)
     /\ UNCHANGED <<broker, sent, req, beat, redelivered, faults, expansions>>

\* The call acknowledges the task, commits and starts its heartbeat.
Begin(w) ==
  LET old == run[w].copy
      moved == IF old.status = "QUEUED" THEN MoveTo(old, "RUNNING") ELSE old
      new == [moved EXCEPT !.extra.cid = run[w].msg.id]
  IN /\ run[w].pc = "begin"
     /\ Commit(FlushAll(old, new))
     /\ IF row.life = "stored"
          THEN /\ run' = [run EXCEPT ![w].pc = "expand", ![w].copy = new]
               /\ beat' = [beat EXCEPT ![w] =
                             [NoBeat EXCEPT !.pc = "wait", !.id = run[w].msg.id]]
          ELSE Stopped(w) /\ UNCHANGED beat
     /\ UNCHANGED <<broker, sent, req, redelivered, faults, expansions>>

\* The pipeline's first step: the keyword expansion model is called unless
\* the session's copy says that it has been, and the keywords are committed.
Expand(w) ==
  LET new == [run[w].copy EXCEPT !.extra.exp = "done"]
  IN /\ run[w].pc = "expand" /\ row.life = "stored"
     /\ expansions' = IF run[w].copy.extra.exp = "pending" /\ expansions < 2
                        THEN expansions + 1 ELSE expansions
     /\ Commit(FlushAll(run[w].copy, new))
     /\ run' = [run EXCEPT ![w].pc = "work", ![w].copy = new]
     /\ UNCHANGED <<broker, sent, req, beat, redelivered, faults>>

\* One stretch of the crawl, AI, topic, statistics or report work: the
\* session checks whether it may go on and commits its progress.
Progress(w) ==
  /\ run[w].pc = "work" /\ row.life = "stored"
  /\ IF Allowed(run[w].copy, run[w].msg.gen)
       THEN /\ Commit(FlushAll(run[w].copy, run[w].copy))
            /\ UNCHANGED <<run, beat>>
       ELSE /\ Stopped(w) /\ StopBeat(w)
            /\ UNCHANGED <<row, stale>>
  /\ UNCHANGED <<broker, sent, req, redelivered, faults, expansions>>

\* _resolve_final_task_status; which one depends on counts the model leaves out.
Outcomes == {"SUCCESS", "PARTIAL_SUCCESS", "FAILED"}

\* The final status is written; a move the state machine refuses raises
\* outside the handler that would mark the task failed.
Finish(w, final) ==
  LET old == run[w].copy
  IN /\ run[w].pc = "work"
     /\ IF CanMove(old.status, final)
          THEN Commit(FlushAll(old, MoveTo(old, final)))
          ELSE UNCHANGED <<row, stale>>
     /\ Stopped(w) /\ StopBeat(w)
     /\ UNCHANGED <<broker, sent, req, redelivered, faults, expansions>>

\* The pipeline raises: the session is rolled back and the row read again.
PipelineError(w) ==
  /\ run[w].pc \in {"expand", "work"}
  /\ IF row.life = "stored"
       THEN run' = [run EXCEPT ![w].pc = "failing", ![w].copy = row]
            /\ UNCHANGED beat
       ELSE Stopped(w) /\ StopBeat(w)
  /\ UNCHANGED <<row, stale, broker, sent, req, redelivered, faults, expansions>>

\* Mutant of FailCommit: FAILED is assigned without the state machine.
FailUnchecked(w) ==
  /\ run[w].pc = "failing"
  /\ Commit(Flush(run[w].copy, MoveTo(run[w].copy, "FAILED")))
  /\ Stopped(w) /\ StopBeat(w)
  /\ UNCHANGED <<broker, sent, req, redelivered, faults, expansions>>

FailCommit(w) ==
  LET old == run[w].copy
  IN /\ run[w].pc = "failing"
     /\ IF CanMove(old.status, "FAILED")
          THEN Commit(Flush(old, MoveTo(old, "FAILED")))
          ELSE UNCHANGED <<row, stale>>
     /\ Stopped(w) /\ StopBeat(w)
     /\ UNCHANGED <<broker, sent, req, redelivered, faults, expansions>>

\* The worker process dies; its message has been acknowledged already.
WorkerDies(w) ==
  /\ run[w].pc # "idle" /\ faults < MaxFault
  /\ faults' = faults + 1
  /\ Stopped(w)
  /\ beat' = [beat EXCEPT ![w] = NoBeat]
  /\ UNCHANGED <<row, stale, broker, sent, req, redelivered, expansions>>

-----------------------------------------------------------------------------
(* Heartbeat threads: record_task_runtime_heartbeat with its own session.  *)
(* Of its copy the thread writes extra_params and updated_at only.         *)

BeatRead(w) ==
  /\ beat[w].pc = "wait"
  /\ beat' = [beat EXCEPT ![w] = IF row.life = "stored" /\ Unfinished(row)
                                   THEN [@ EXCEPT !.pc = "read", !.extra = row.extra]
                                   ELSE NoBeat]
  /\ UNCHANGED <<row, stale, broker, sent, req, run,
                 redelivered, faults, expansions>>

BeatWrite(w) ==
  /\ beat[w].pc = "read"
  /\ Commit([row EXCEPT !.extra = [beat[w].extra EXCEPT !.cid = beat[w].id]])
  /\ beat' = [beat EXCEPT ![w] =
                IF row.life = "stored" /\ run[w].pc # "idle"
                  THEN [@ EXCEPT !.pc = "wait", !.extra = NoTask.extra]
                  ELSE NoBeat]
  /\ UNCHANGED <<broker, sent, req, run, redelivered, faults, expansions>>

\* A database error in the thread is not caught: the thread ends, its call
\* goes on.
BeatDies(w) ==
  /\ beat[w].pc \in {"wait", "read"} /\ faults < MaxFault
  /\ faults' = faults + 1
  /\ beat' = [beat EXCEPT ![w] = NoBeat]
  /\ UNCHANGED <<row, stale, broker, sent, req, run, redelivered, expansions>>

-----------------------------------------------------------------------------
(* Time.  The stale window (at least 30 s, 180 s by default) is longer     *)
(* than a request, than the short steps of a worker and than a heartbeat   *)
(* interval, so it passes only while none of them is under way.            *)

LongPhases == {"idle", "gate", "expand", "work"}

BecomeStale ==
  /\ row.life = "stored" /\ ~stale
  /\ \A r \in Requests : req[r].pc = "idle"
  /\ \A w \in Workers : run[w].pc \in LongPhases /\ beat[w].pc = "off"
  /\ stale' = TRUE
  /\ UNCHANGED <<row, broker, sent, req, run, beat,
                 redelivered, faults, expansions>>

-----------------------------------------------------------------------------
RequestStep(r) ==
  \/ Create(r) \/ TakeSnapshot(r)
  \/ \E op \in Operations : Load(r, op)
  \/ Probe(r) \/ Recheck(r) \/ Reinspect(r) \/ Doom(r) \/ Reload(r)
  \/ Reply(r) \/ Control(r) \/ Purge(r)
  \/ Enqueue(r) \/ EnqueueError(r) \/ NoteDispatch(r) \/ RequestDies(r)

WorkerStep(w) ==
  \/ \E m \in broker : Deliver(w, m)
  \/ Admit(w) \/ Overload(w) \/ OverloadCommit(w)
  \/ Begin(w) \/ Expand(w) \/ Progress(w)
  \/ \E final \in Outcomes : Finish(w, final)
  \/ PipelineError(w) \/ FailCommit(w) \/ WorkerDies(w)

BeatStep(w) == BeatRead(w) \/ BeatWrite(w) \/ BeatDies(w)

Next ==
  \/ \E r \in Requests : RequestStep(r)
  \/ \E w \in Workers : WorkerStep(w) \/ BeatStep(w)
  \/ BecomeStale

Spec == Init /\ [][Next]_vars

-----------------------------------------------------------------------------
(* Properties *)

TypeOK ==
  /\ row \in Tasks /\ stale \in BOOLEAN
  /\ broker \subseteq Messages /\ sent \in 0..MaxMsg
  /\ req \in [Requests -> RequestSlots]
  /\ run \in [Workers -> RunSlots]
  /\ beat \in [Workers -> BeatSlots]
  /\ redelivered \in 0..MaxRedeliver /\ faults \in 0..MaxFault
  /\ expansions \in 0..2

\* The checks inside a running pipeline never stop it: the session's copy
\* keeps the status and the generation it had when the call began, whatever
\* pause, cancel, delete or resume have committed since.  (The stop of a run
\* rests entirely on the check made when the message is taken.)
Executing == {"begin", "expand", "work"}

RunSeesNoControl ==
  \A w \in Workers :
    run[w].pc \in Executing => Allowed(run[w].copy, run[w].msg.gen)

\* Nobody but the restore operation takes a task out of the trash: a worker
\* or a reconciliation that read the row before it was trashed commits
\* around the deleted_at column.
OnlyRestoreUntrashes ==
  [][(row.trashed /\ row'.life = "stored" /\ ~row'.trashed) =>
        \E r \in Requests : req[r].pc = "ready" /\ req[r].op = "restore"]_vars

\* A task that has reached a status without successors changes status only
\* at the hand of a session that read it before it got there; one that reads
\* it afterwards, a failing pipeline included, is refused.
Closed == {s \in Statuses : AllowedTransitions[s] = {}}

ClosedYieldsOnlyToOlderReads ==
  [][(row.status \in Closed /\ row'.life = "stored"
        /\ row'.status # row.status) =>
        \/ \E w \in Workers : /\ run'[w] # run[w]
                              /\ run[w].copy.status # row.status
        \/ \E r \in Requests : /\ req'[r] # req[r]
                               /\ req[r].copy.status # row.status]_vars

\* Once the queue is empty and nobody is at work, the task is not waiting
\* for a worker, provided no process died on the way.
Quiet ==
  /\ broker = {}
  /\ \A r \in Requests : req[r].pc = "idle"
  /\ \A w \in Workers : run[w].pc = "idle" /\ beat[w].pc = "off"

NoSilentStall == Quiet /\ faults = 0 => ~Unfinished(row)

\* A reconciliation that finds the task RUNNING and fails it is right: the
\* worker call that the row names is not executing it, as long as the broker
\* delivers its message once.  (It is so for fresh inspections that list all
\* calls, and while nobody resumes the task.)
Dooms(r) ==
  req[r].pc = "doom" /\ req'[r].pc # "doom" /\ req[r].copy.status = "RUNNING"

LiveRunSpared ==
  [][\A r \in Requests, w \in Workers :
       (/\ Dooms(r) /\ redelivered = 0
        /\ row.life = "stored" /\ run[w].msg.id = row.extra.cid)
         => run[w].pc \notin {"expand", "work"}]_vars

\* A task that a user has paused or cancelled is not completed.
StoppedTaskNotCompleted ==
  [][(row.status \in {"PAUSED", "CANCELLED"} /\ row'.life = "stored")
        => row'.status \notin {"SUCCESS", "PARTIAL_SUCCESS"}]_vars

\* A message does not start a run when a newer dispatch of the task is
\* already in the queue or in the hands of a worker.
SupersededNeverRuns ==
  [][\A w \in Workers :
       run[w].pc = "gate" /\ run'[w].pc = "begin" =>
         \A m \in broker \cup {run[v].msg : v \in Workers} :
           m.gen <= run[w].msg.gen]_vars

\* A resume of a task whose keywords have been expanded re-queues it with
\* that expansion on record.
ResumeReusesExpansion ==
  [][\A r \in Requests :
       (/\ req[r].pc = "ready" /\ req[r].op = "resume"
        /\ req'[r].pc = "enqueue" /\ expansions > 0)
         => row'.extra.exp = "done"]_vars

-----------------------------------------------------------------------------
(* Liveness.  A call ends (every request of the pipeline has a timeout and *)
(* a retry limit), workers keep taking messages, requests are carried to   *)
(* their end, time passes, and a page that shows the task keeps polling.   *)

Fairness ==
  /\ \A r \in Requests :
       /\ WF_vars(Load(r, "poll"))
       /\ WF_vars(Probe(r) \/ Recheck(r) \/ Reinspect(r) \/ Doom(r) \/ Reload(r)
                  \/ Reply(r) \/ Control(r) \/ Purge(r) \/ NoteDispatch(r))
       /\ WF_vars(Enqueue(r) \/ EnqueueError(r))
  /\ \A w \in Workers :
       /\ WF_vars(\E m \in broker : Deliver(w, m))
       /\ WF_vars(Admit(w) \/ Overload(w))
       /\ WF_vars(OverloadCommit(w) \/ Begin(w) \/ FailCommit(w))
       /\ WF_vars(Expand(w) \/ PipelineError(w))
       /\ WF_vars(\E final \in Outcomes : Finish(w, final))
       /\ WF_vars(BeatWrite(w))
  /\ WF_vars(BecomeStale)

FairSpec == Spec /\ Fairness

\* A task does not stay QUEUED or RUNNING for ever: its worker settles it,
\* or a reconciliation fails it once the worker is gone.
EventuallySettled ==
  (row.life = "stored" /\ Unfinished(row))
    ~> (row.life # "stored" \/ ~Unfinished(row))
=============================================================================
