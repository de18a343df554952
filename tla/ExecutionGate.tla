---------------------------- MODULE ExecutionGate ----------------------------
(***************************************************************************)
(* The gate in front of run_crawl_task (TaskExecutionGate): a Redis sorted *)
(* set of task ids, each with the time its lease ends.  A worker call adds *)
(* its task under optimistic locking (WATCH, read, MULTI/EXEC) when the    *)
(* set is not full, after it has swept out the tasks it finds finished.    *)
(*                                                                         *)
(* Redis is external: a connection that watches the key has its EXEC       *)
(* refused once anybody, itself included, has changed the key.             *)
(***************************************************************************)
EXTENDS Naturals, FiniteSets

CONSTANTS
  Owners,       \* the tasks
  Callers,      \* the run_crawl_task calls, one for each message delivered
  TaskOf,       \* the task of each call; two dispatches of a task share it
  Limit,        \* worker_global_task_concurrency
  Wait,         \* worker_task_concurrency_wait_seconds
  Lease,        \* worker_task_concurrency_lease_seconds
  Horizon,      \* bound on the clock
  MaxFault,     \* bound on Redis errors
  MaxDeath,     \* bound on worker processes killed
  Interrupts    \* whether users pause and resume tasks meanwhile

ASSUME GateAssumption ==
  /\ IsFiniteSet(Owners)
  /\ TaskOf \in [Callers -> Owners]
  /\ Limit \in Nat /\ Wait \in Nat /\ Lease \in Nat \ {0} /\ Horizon \in Nat
  /\ MaxFault \in Nat /\ MaxDeath \in Nat
  /\ Interrupts \in BOOLEAN

VARIABLES
  now,      \* the clock of the workers
  expiry,   \* the sorted set: when each task's lease ends, 0 if not a member
  status,   \* the tasks' rows: QUEUED or RUNNING, stopped by a user, settled
  call,     \* the worker calls
  faults, deaths

vars == <<now, expiry, status, call, faults, deaths>>

Scores == 0..(Horizon + Lease)

Calls ==
  [pc : {"idle", "look", "judge", "sweep", "watch", "evict", "count", "exec",
         "full", "held", "running", "leaving", "done"},
   deadline : 0..Horizon,     \* when the wait for a slot is over
   owners : SUBSET Owners,    \* seen in the set, later: to be swept out
   stamp : 0..Horizon,        \* the time this attempt goes by
   dirty : BOOLEAN]           \* the key has changed since WATCH

NewCall == [pc |-> "idle", deadline |-> 0, owners |-> {}, stamp |-> 0,
            dirty |-> FALSE]

Init ==
  /\ now = 0 /\ faults = 0 /\ deaths = 0
  /\ expiry = [o \in Owners |-> 0]
  /\ status = [o \in Owners |-> "active"]
  /\ call = [c \in Callers |-> NewCall]

Members == {o \in Owners : expiry[o] # 0}

-----------------------------------------------------------------------------
(* Redis *)

Remove(gone) == expiry' = [o \in Owners |-> IF o \in gone THEN 0 ELSE expiry[o]]

\* A connection watches the key between WATCH and EXEC or UNWATCH.
Watching == {"evict", "count", "exec"}

\* Caller c comes to `next`; if it has changed the set, at the members
\* `changed`, every connection that watches the key is marked.
Moves(c, next, changed) ==
  LET moved == [call EXCEPT ![c] = next]
  IN call' = [d \in Callers |->
                IF changed # {} /\ moved[d].pc \in Watching
                  THEN [moved[d] EXCEPT !.dirty = TRUE] ELSE moved[d]]

StepTo(c, pc) == call' = [call EXCEPT ![c].pc = pc]

\* What acquire and the call after it keep: the loop its deadline, and
\* whoever is past the loop nothing.
Again(c, pc) ==
  [NewCall EXCEPT !.pc = pc, !.deadline = call[c].deadline]

Past(pc) == [NewCall EXCEPT !.pc = pc]

\* A Redis command fails in one of MaxFault cases.
RedisError == faults < MaxFault /\ faults' = faults + 1

-----------------------------------------------------------------------------
(* TaskExecutionGate.acquire.  call[c].pc is                               *)
(*   idle -> look -> judge -> sweep -> watch -> evict -> count             *)
(*   count -> exec -> held, and count -> full -> look or done              *)

\* The call begins; a limit of 0 turns the gate off.
Call(c) ==
  /\ call[c].pc = "idle" /\ now + Wait <= Horizon
  /\ call' = [call EXCEPT ![c] =
                IF Limit = 0 THEN Past("held")
                  ELSE [@ EXCEPT !.pc = "look", !.deadline = now + Wait]]
  /\ UNCHANGED <<now, expiry, status, faults, deaths>>

\* _cleanup_stale_leases lists the owners; on an error it gives up.
Look(c) ==
  /\ call[c].pc = "look"
  /\ \/ /\ call' = [call EXCEPT ![c].owners = Members,
                      ![c].pc = IF Members = {} THEN "watch" ELSE "judge"]
        /\ UNCHANGED faults
     \/ RedisError /\ StepTo(c, "watch")
  /\ UNCHANGED <<now, expiry, status, deaths>>

\* No call is left that may execute the task.
Abandoned(o) ==
  \A c \in Callers : TaskOf[c] = o => call[c].pc \in {"idle", "done"}

\* _find_stale_owner_ids: the owners whose task is neither QUEUED nor
\* RUNNING, with those that reconciliation fails here and now.
Judge(c) ==
  /\ call[c].pc = "judge"
  /\ \E failed \in SUBSET {o \in call[c].owners :
                             status[o] = "active" /\ Abandoned(o)} :
       LET finished == {o \in call[c].owners : status[o] # "active"}
           stale == finished \cup failed
       IN /\ status' = [o \in Owners |->
                          IF o \in failed THEN "settled" ELSE status[o]]
          /\ call' = [call EXCEPT ![c].owners = stale,
                        ![c].pc = IF stale = {} THEN "watch" ELSE "sweep"]
  /\ UNCHANGED <<now, expiry, faults, deaths>>

\* One stale owner is removed, or the error is logged.
Sweep(c, o) ==
  /\ call[c].pc = "sweep" /\ o \in call[c].owners
  /\ LET rest == call[c].owners \ {o}
         next == [call[c] EXCEPT !.owners = rest,
                    !.pc = IF rest = {} THEN "watch" ELSE "sweep"]
     IN \/ Remove({o}) /\ Moves(c, next, {o} \cap Members) /\ UNCHANGED faults
        \/ RedisError /\ Moves(c, next, {}) /\ UNCHANGED expiry
  /\ UNCHANGED <<now, status, deaths>>

\* WATCH, with the time read just before.
Watch(c) ==
  /\ call[c].pc = "watch"
  /\ call' = [call EXCEPT ![c].pc = "evict", ![c].stamp = now]
  /\ UNCHANGED <<now, expiry, status, faults, deaths>>

Expired(t) == {o \in Members : expiry[o] <= t}

\* ZREMRANGEBYSCORE removes the leases that have ended.
Evict(c) ==
  /\ call[c].pc = "evict"
  /\ LET gone == Expired(call[c].stamp)
     IN /\ Remove(gone)
        /\ Moves(c, [call[c] EXCEPT !.pc = "count"], gone)
  /\ UNCHANGED <<now, status, faults, deaths>>

\* Mutant of HasRoom: off by one.
HasOneTooMany(c) == TaskOf[c] \in Members \/ Cardinality(Members) <= Limit

\* ZCARD and ZSCORE: is there a slot for the task, or does it have one?
HasRoom(c) == TaskOf[c] \in Members \/ Cardinality(Members) < Limit

Count(c) ==
  /\ call[c].pc = "count"
  /\ call' = [call EXCEPT ![c] =
                IF HasRoom(c) THEN [@ EXCEPT !.pc = "exec"] ELSE Again(c, "full")]
  /\ UNCHANGED <<now, expiry, status, faults, deaths>>

\* Mutant of Entered: the lease starts when the wait would have ended.
EnteredLate(c) ==
  [expiry EXCEPT ![TaskOf[c]] = call[c].stamp + Wait + Lease]

Entered(c) == [expiry EXCEPT ![TaskOf[c]] = call[c].stamp + Lease]

\* Mutant of Exec: the transaction is sent without WATCH.
ExecUnwatched(c) ==
  /\ call[c].pc = "exec"
  /\ expiry' = Entered(c) /\ Moves(c, Past("held"), {TaskOf[c]})
  /\ UNCHANGED <<now, status, faults, deaths>>

\* EXEC; a WatchError goes straight back to the start of the loop.
Exec(c) ==
  /\ call[c].pc = "exec"
  /\ IF call[c].dirty
       THEN call' = [call EXCEPT ![c] = Again(c, "look")] /\ UNCHANGED expiry
       ELSE expiry' = Entered(c) /\ Moves(c, Past("held"), {TaskOf[c]})
  /\ UNCHANGED <<now, status, faults, deaths>>

\* A Redis error anywhere in the transaction lets the call pass; an EXEC
\* whose answer is lost may have taken effect.
PassOnError(c) ==
  /\ call[c].pc \in {"watch", "evict", "count", "exec"} /\ RedisError
  /\ \/ Moves(c, Past("held"), {}) /\ UNCHANGED expiry
     \/ /\ call[c].pc = "exec" /\ ~call[c].dirty
        /\ expiry' = Entered(c) /\ Moves(c, Past("held"), {TaskOf[c]})
  /\ UNCHANGED <<now, status, deaths>>

\* Mutant of Retry: the loop forgets its deadline.
RetryForever(c) ==
  /\ call[c].pc = "full" /\ StepTo(c, "look")
  /\ UNCHANGED <<now, expiry, status, faults, deaths>>

\* The call sleeps and tries again ...
Retry(c) ==
  /\ call[c].pc = "full" /\ now < call[c].deadline
  /\ StepTo(c, "look")
  /\ UNCHANGED <<now, expiry, status, faults, deaths>>

\* ... or gives up, and fails its task unless a user has stopped it.
Saturated(c) ==
  /\ call[c].pc = "full" /\ now >= call[c].deadline
  /\ call' = [call EXCEPT ![c] = Past("done")]
  /\ status' = [status EXCEPT ![TaskOf[c]] =
                  IF @ = "stopped" THEN @ ELSE "settled"]
  /\ UNCHANGED <<now, expiry, faults, deaths>>

-----------------------------------------------------------------------------
(* What run_crawl_task does with its slot. *)

\* assert_task_execution_allowed accepts the task ...
Run(c) ==
  /\ call[c].pc = "held" /\ status[TaskOf[c]] # "stopped"
  /\ StepTo(c, "running")
  /\ UNCHANGED <<now, expiry, status, faults, deaths>>

\* Mutant of Refuse: returns before the finally block.
RefuseAndKeep(c) ==
  /\ call[c].pc = "held" /\ status[TaskOf[c]] = "stopped"
  /\ StepTo(c, "done")
  /\ UNCHANGED <<now, expiry, status, faults, deaths>>

\* ... or refuses it: it is stopped, or another dispatch superseded this one.
Refuse(c) ==
  /\ call[c].pc = "held"
  /\ \/ status[TaskOf[c]] = "stopped"
     \/ \E d \in Callers \ {c} : TaskOf[d] = TaskOf[c]
  /\ StepTo(c, "leaving")
  /\ UNCHANGED <<now, expiry, status, faults, deaths>>

\* The pipeline ends and commits the task's final status, whatever has been
\* committed meanwhile, or fails to.
End(c) ==
  /\ call[c].pc = "running"
  /\ StepTo(c, "leaving")
  /\ \/ status' = [status EXCEPT ![TaskOf[c]] = "settled"]
     \/ status[TaskOf[c]] # "active" /\ UNCHANGED status
  /\ UNCHANGED <<now, expiry, faults, deaths>>

\* TaskExecutionLease.release in the finally block.
Release(c) ==
  /\ call[c].pc = "leaving"
  /\ LET o == TaskOf[c]
         next == Past("done")
     IN \/ /\ UNCHANGED faults
           /\ IF Limit = 0
                THEN Moves(c, next, {}) /\ UNCHANGED expiry
                ELSE Remove({o}) /\ Moves(c, next, {o} \cap Members)
        \/ Limit # 0 /\ RedisError /\ Moves(c, next, {}) /\ UNCHANGED expiry
  /\ UNCHANGED <<now, status, deaths>>

Dies(c) ==
  /\ call[c].pc \notin {"idle", "done"} /\ deaths < MaxDeath
  /\ deaths' = deaths + 1
  /\ call' = [call EXCEPT ![c] = Past("done")]
  /\ UNCHANGED <<now, expiry, status, faults>>

-----------------------------------------------------------------------------
(* Users and time *)

\* pause, cancel and delete; resume.
Interrupt(o) ==
  /\ Interrupts
  /\ \/ status[o] = "active"  /\ status' = [status EXCEPT ![o] = "stopped"]
     \/ status[o] = "stopped" /\ status' = [status EXCEPT ![o] = "active"]
  /\ UNCHANGED <<now, expiry, call, faults, deaths>>

Tick ==
  /\ now < Horizon /\ now' = now + 1
  /\ UNCHANGED <<expiry, status, call, faults, deaths>>

Acquire(c) ==
  \/ Look(c) \/ Judge(c) \/ \E o \in Owners : Sweep(c, o)
  \/ Watch(c) \/ Evict(c) \/ Count(c) \/ Exec(c)
  \/ Retry(c) \/ Saturated(c)

CallStep(c) ==
  \/ Call(c) \/ Acquire(c) \/ PassOnError(c)
  \/ Run(c) \/ Refuse(c) \/ End(c) \/ Release(c) \/ Dies(c)

Next ==
  \/ \E c \in Callers : CallStep(c)
  \/ \E o \in Owners : Interrupt(o)
  \/ Tick

Spec == Init /\ [][Next]_vars

-----------------------------------------------------------------------------
(* Properties *)

TypeOK ==
  /\ now \in 0..Horizon
  /\ expiry \in [Owners -> Scores]
  /\ status \in [Owners -> {"active", "stopped", "settled"}]
  /\ call \in [Callers -> Calls]
  /\ faults \in 0..MaxFault /\ deaths \in 0..MaxDeath

\* The sorted set never holds more tasks than the limit, however the WATCH
\* sections of the workers, their sweeps and their releases interleave and
\* whichever of them are cut short.
SlotBound == Cardinality(Members) <= Limit

\* Once every call is over, none has left its slot behind, unless Redis
\* failed or a worker was killed.
Over == \A c \in Callers : call[c].pc \in {"idle", "done"}

NoLeakedSlot == Over /\ faults = 0 /\ deaths = 0 => Members = {}

\* The promise of the setting.
Running == {c \in Callers : call[c].pc = "running"}

Pool == INSTANCE SlotPool WITH running <- Running

PoolSpec == Pool!Spec

\* No more calls than the limit execute their task.
RunningBound == Limit # 0 => Cardinality(Running) <= Limit

-----------------------------------------------------------------------------
(* Liveness.  Every worker thread is scheduled, time passes, calls end.    *)

Fairness ==
  /\ WF_vars(Tick)
  /\ \A c \in Callers :
       /\ WF_vars(Acquire(c))
       /\ WF_vars(Run(c) \/ Refuse(c))
       /\ WF_vars(End(c))
       /\ WF_vars(Release(c))

FairSpec == Spec /\ Fairness

\* A call that waits at the gate is let in or turned away: the loop, which
\* tests its deadline only when the set was full, does not spin for ever.
Waiting(c) ==
  call[c].pc \in {"look", "judge", "sweep", "watch", "evict", "count", "exec", "full"}

AcquireEnds == \A c \in Callers : Waiting(c) ~> ~Waiting(c)
=============================================================================
