------------------------- MODULE TaskLifecycleProofs -------------------------
(***************************************************************************)
(* Proofs about TaskLifecycle for any number of workers and requests and   *)
(* for every value of the bounds.                                          *)
(***************************************************************************)
EXTENDS TaskLifecycle, TLAPS

(* The operators on tasks keep the type of a task. *)

LEMMA MoveToType ==
  ASSUME NEW t \in Tasks, NEW s \in Statuses
  PROVE  MoveTo(t, s) \in Tasks
BY DEF MoveTo, Tasks, ErrorMessages

LEMMA CidType ==
  ASSUME NEW t \in Tasks, NEW id \in 0..MaxMsg
  PROVE  [t EXCEPT !.extra.cid = id] \in Tasks
BY DEF Tasks, Extras

LEMMA FlushType ==
  ASSUME row \in Tasks, NEW old \in Tasks, NEW new \in Tasks
  PROVE  Flush(old, new) \in Tasks /\ FlushAll(old, new) \in Tasks
BY DEF Flush, FlushAll, Changed, Tasks

LEMMA CommitType ==
  ASSUME row \in Tasks, stale \in BOOLEAN, NEW new \in Tasks, Commit(new)
  PROVE  row' \in Tasks /\ stale' \in BOOLEAN
BY DEF Commit

LEMMA NoTaskType == NoTask \in Tasks /\ NoTask.extra \in Extras
BY LifecycleAssumption DEF NoTask, Tasks, Extras, Statuses, ErrorMessages

LEMMA IdleTypes ==
  /\ IdleRequest \in RequestSlots
  /\ IdleRun \in RunSlots
  /\ NoBeat \in BeatSlots
BY NoTaskType, LifecycleAssumption
   DEF IdleRequest, RequestSlots, IdleRun, RunSlots, NoBeat, BeatSlots,
       Operations, NothingSeen, Snapshots

-----------------------------------------------------------------------------
(* A worker that is not idle holds a message; without this the ids that an *)
(* inspection reports, or that a worker writes, would not be message ids.  *)

BusyHasMessage ==
  \A w \in Workers : run[w].pc # "idle" => run[w].msg \in Messages

TypeInv == TypeOK /\ BusyHasMessage

LEMMA InspectionType ==
  ASSUME TypeInv PROVE Inspections \subseteq Snapshots
<1>1. ExecutingIds \subseteq 1..MaxMsg
  BY DEF TypeInv, TypeOK, BusyHasMessage, ExecutingIds, Messages
<1>2. QueuedIds \subseteq 1..MaxMsg
  BY DEF TypeInv, TypeOK, QueuedIds, Messages
<1>3. NothingSeen \in Snapshots
  BY DEF NothingSeen, Snapshots
<1>4. ASSUME NEW ids \in SUBSET QueuedIds
      PROVE  [active |-> ExecutingIds, reserved |-> ids] \in Snapshots
  BY <1>1, <1>2 DEF Snapshots
<1>5. QED
  BY <1>3, <1>4, Zenon DEF Inspections

LEMMA InitType == Init => TypeInv
<1> SUFFICES ASSUME Init PROVE TypeInv
  OBVIOUS
<1>1. row \in Tasks /\ stale \in BOOLEAN /\ broker \subseteq Messages
  BY NoTaskType DEF Init
<1>2. /\ req \in [Requests -> RequestSlots]
      /\ run \in [Workers -> RunSlots]
      /\ beat \in [Workers -> BeatSlots]
  BY IdleTypes DEF Init
<1>3. /\ sent \in 0..MaxMsg /\ redelivered \in 0..MaxRedeliver
      /\ faults \in 0..MaxFault /\ expansions \in 0..2
  BY LifecycleAssumption DEF Init
<1>4. BusyHasMessage
  BY DEF Init, BusyHasMessage, IdleRun
<1>5. QED
  BY <1>1, <1>2, <1>3, <1>4 DEF TypeInv, TypeOK

-----------------------------------------------------------------------------
(* What an action does to one slot keeps the slots typed. *)

LEMMA RequestMoves ==
  ASSUME req \in [Requests -> RequestSlots], NEW r \in Requests,
         NEW slot \in RequestSlots, req' = [req EXCEPT ![r] = slot]
  PROVE  req' \in [Requests -> RequestSlots]
OBVIOUS

LEMMA RequestSteps ==
  ASSUME TypeInv, NEW r \in Requests, NEW pc, StepTo(r, pc),
         pc \in {"idle", "listing", "ready", "probe", "recheck", "reinspect",
                 "doom", "reload", "enqueue", "unanswered", "note"}
  PROVE  req' \in [Requests -> RequestSlots]
BY DEF TypeInv, TypeOK, StepTo, RequestSlots

LEMMA RequestFinishes ==
  ASSUME TypeInv, NEW r \in Requests, Finished(r)
  PROVE  req' \in [Requests -> RequestSlots]
BY IdleTypes DEF TypeInv, TypeOK, Finished

LEMMA RunStops ==
  ASSUME TypeInv, NEW w \in Workers, Stopped(w)
  PROVE  run' \in [Workers -> RunSlots] /\ BusyHasMessage'
BY IdleTypes DEF TypeInv, TypeOK, BusyHasMessage, Stopped, IdleRun

LEMMA BeatStops ==
  ASSUME TypeInv, NEW w \in Workers, StopBeat(w)
  PROVE  beat' \in [Workers -> BeatSlots]
BY IdleTypes DEF TypeInv, TypeOK, StopBeat

LEMMA ControlledType ==
  ASSUME NEW op \in Operations, NEW t \in Tasks, Permitted(op, t.status),
         op # "purge", Controlled(op, t).extra.gen <= MaxGen
  PROVE  Controlled(op, t) \in Tasks
<1>1. AdvanceGeneration(t).extra.gen <= MaxGen => AdvanceGeneration(t) \in Tasks
  BY LifecycleAssumption DEF AdvanceGeneration, Tasks, Extras
<1>2. CASE op \in {"pause", "resume", "cancel"}
  BY <1>1, <1>2, LifecycleAssumption
     DEF Controlled, MoveTo, AdvanceGeneration, Tasks, Extras, Statuses, ErrorMessages
<1>3. CASE op = "delete"
  BY <1>1, <1>3, LifecycleAssumption
     DEF Controlled, Trashed, MoveTo, AdvanceGeneration, Tasks, Extras, Statuses,
         ErrorMessages
<1>4. CASE op = "restore"
  BY <1>4 DEF Controlled, Tasks
<1>5. QED
  BY <1>2, <1>3, <1>4 DEF Operations, Permitted

-----------------------------------------------------------------------------
(* Each step of a request preserves the type invariant. *)

LEMMA CreateType ==
  ASSUME TypeInv, NEW r \in Requests, Create(r) PROVE TypeInv'
<1> DEFINE new == [MoveTo(AdvanceGeneration(NoTask), "QUEUED")
                     EXCEPT !.life = "stored"]
<1>1. new \in Tasks
  <2>1. NoTask.extra.gen = 0 /\ 1 \in 0..MaxGen
    BY LifecycleAssumption DEF NoTask, Create
  <2>2. AdvanceGeneration(NoTask) \in Tasks
    BY <2>1, NoTaskType DEF AdvanceGeneration, Tasks, Extras
  <2>3. MoveTo(AdvanceGeneration(NoTask), "QUEUED") \in Tasks
    BY <2>2, MoveToType DEF Statuses
  <2>4. QED
    BY <2>3 DEF Tasks
<1>2. [IdleRequest EXCEPT !.pc = "enqueue", !.op = "create", !.copy = new]
        \in RequestSlots
  BY <1>1, IdleTypes DEF RequestSlots, Operations
<1>3. req' \in [Requests -> RequestSlots]
  BY <1>2, RequestMoves DEF Create, TypeInv, TypeOK
<1>4. QED
  BY <1>1, <1>3 DEF Create, TypeInv, TypeOK, BusyHasMessage

LEMMA TakeSnapshotType ==
  ASSUME TypeInv, NEW r \in Requests, TakeSnapshot(r) PROVE TypeInv'
<1>1. PICK seen \in Inspections :
        req' = [req EXCEPT ![r] =
                  [IdleRequest EXCEPT !.pc = "listing", !.op = "list",
                                      !.seen = seen]]
  BY DEF TakeSnapshot
<1>2. [IdleRequest EXCEPT !.pc = "listing", !.op = "list", !.seen = seen]
        \in RequestSlots
  BY InspectionType, IdleTypes DEF RequestSlots, Operations
<1>3. req' \in [Requests -> RequestSlots]
  BY <1>1, <1>2, RequestMoves DEF TypeInv, TypeOK
<1>4. QED
  BY <1>3 DEF TakeSnapshot, TypeInv, TypeOK, BusyHasMessage

LEMMA LoadType ==
  ASSUME TypeInv, NEW r \in Requests, NEW op \in Operations, Load(r, op)
  PROVE  TypeInv'
<1>1. req' \in [Requests -> RequestSlots]
  BY DEF Load, TypeInv, TypeOK, RequestSlots
<1>2. QED
  BY <1>1 DEF Load, TypeInv, TypeOK, BusyHasMessage

LEMMA ProbeType ==
  ASSUME TypeInv, NEW r \in Requests, Probe(r) PROVE TypeInv'
<1>1. req' \in [Requests -> RequestSlots]
  BY RequestSteps DEF Probe
<1>2. QED
  BY <1>1 DEF Probe, TypeInv, TypeOK, BusyHasMessage

LEMMA RecheckType ==
  ASSUME TypeInv, NEW r \in Requests, Recheck(r) PROVE TypeInv'
<1>1. req' \in [Requests -> RequestSlots]
  <2>1. CASE row.life # "stored"
    BY <2>1, RequestFinishes DEF Recheck
  <2>2. CASE row.life = "stored"
    BY <2>2 DEF Recheck, TypeInv, TypeOK, RequestSlots
  <2>3. QED
    BY <2>1, <2>2
<1>2. QED
  BY <1>1 DEF Recheck, TypeInv, TypeOK, BusyHasMessage

LEMMA ReinspectType ==
  ASSUME TypeInv, NEW r \in Requests, Reinspect(r) PROVE TypeInv'
<1>1. req' \in [Requests -> RequestSlots]
  BY RequestSteps DEF Reinspect
<1>2. QED
  BY <1>1 DEF Reinspect, TypeInv, TypeOK, BusyHasMessage

\* A commit of a copy that moves to FAILED, by Doom and EnqueueError.
LEMMA FailureCommitType ==
  ASSUME TypeInv, NEW t \in Tasks, Commit(Flush(t, MoveTo(t, "FAILED")))
  PROVE  row' \in Tasks /\ stale' \in BOOLEAN
<1>1. MoveTo(t, "FAILED") \in Tasks
  BY MoveToType DEF Statuses
<1>2. QED
  BY <1>1, FlushType, CommitType DEF TypeInv, TypeOK

LEMMA DoomType ==
  ASSUME TypeInv, NEW r \in Requests, Doom(r) PROVE TypeInv'
<1>1. row' \in Tasks /\ stale' \in BOOLEAN
  BY FailureCommitType DEF Doom, TypeInv, TypeOK, RequestSlots
<1>2. req' \in [Requests -> RequestSlots]
  BY RequestSteps, RequestFinishes DEF Doom
<1>3. QED
  BY <1>1, <1>2 DEF Doom, TypeInv, TypeOK, BusyHasMessage

LEMMA ReloadType ==
  ASSUME TypeInv, NEW r \in Requests, Reload(r) PROVE TypeInv'
<1>1. req' \in [Requests -> RequestSlots]
  <2>1. CASE row.life # "stored"
    BY <2>1, RequestFinishes DEF Reload
  <2>2. CASE row.life = "stored"
    BY <2>2 DEF Reload, TypeInv, TypeOK, RequestSlots
  <2>3. QED
    BY <2>1, <2>2
<1>2. QED
  BY <1>1 DEF Reload, TypeInv, TypeOK, BusyHasMessage

LEMMA ReplyType ==
  ASSUME TypeInv, NEW r \in Requests, Reply(r) PROVE TypeInv'
BY RequestFinishes DEF Reply, TypeInv, TypeOK, BusyHasMessage

LEMMA ControlType ==
  ASSUME TypeInv, NEW r \in Requests, Control(r) PROVE TypeInv'
<1> DEFINE old == req[r].copy
           new == Controlled(req[r].op, old)
<1>1. old \in Tasks /\ new \in Tasks
  BY ControlledType DEF Control, TypeInv, TypeOK, RequestSlots
<1>2. row' \in Tasks /\ stale' \in BOOLEAN
  BY <1>1, FlushType, CommitType DEF Control, TypeInv, TypeOK
<1>3. req' \in [Requests -> RequestSlots]
  <2>1. CASE req[r].op = "resume" /\ row.life = "stored"
    <3>1. req' = [req EXCEPT ![r].copy = new, ![r].pc = "enqueue"]
      BY <2>1 DEF Control
    <3>2. QED
      BY <1>1, <3>1 DEF TypeInv, TypeOK, RequestSlots
  <2>2. CASE ~(req[r].op = "resume" /\ row.life = "stored")
    BY <2>2, RequestFinishes DEF Control
  <2>3. QED
    BY <2>1, <2>2
<1>4. QED
  BY <1>2, <1>3 DEF Control, TypeInv, TypeOK, BusyHasMessage

LEMMA PurgeType ==
  ASSUME TypeInv, NEW r \in Requests, Purge(r) PROVE TypeInv'
<1>1. [NoTask EXCEPT !.life = "purged"] \in Tasks
  BY NoTaskType DEF Tasks
<1>2. row' \in Tasks
  BY <1>1 DEF Purge, TypeInv, TypeOK
<1>3. QED
  BY <1>2, RequestFinishes DEF Purge, TypeInv, TypeOK, BusyHasMessage

LEMMA EnqueueType ==
  ASSUME TypeInv, NEW r \in Requests, Enqueue(r) PROVE TypeInv'
<1>1. sent + 1 \in 1..MaxMsg
  BY LifecycleAssumption DEF Enqueue, TypeInv, TypeOK
<1>2. broker' \subseteq Messages
  BY <1>1 DEF Enqueue, TypeInv, TypeOK, Messages, RequestSlots, Tasks, Extras
<1>3. req' \in [Requests -> RequestSlots]
  <2> DEFINE slot == [req[r] EXCEPT !.pc = "note", !.copy.extra.cid = sent + 1]
  <2>1. req[r] \in RequestSlots
    BY DEF TypeInv, TypeOK
  <2>2. [req[r].copy EXCEPT !.extra.cid = sent + 1] \in Tasks
    BY <1>1, <2>1, CidType DEF RequestSlots
  <2>3. slot = [req[r] EXCEPT !.pc = "note",
                  !.copy = [req[r].copy EXCEPT !.extra.cid = sent + 1]]
    BY <2>1 DEF RequestSlots
  <2>4. slot \in RequestSlots
    BY <2>1, <2>2, <2>3 DEF RequestSlots
  <2>5. StepTo(r, "unanswered") \/ req' = [req EXCEPT ![r] = slot]
    BY DEF Enqueue, TypeInv, TypeOK
  <2>6. QED
    BY <2>4, <2>5, RequestMoves, RequestSteps DEF TypeInv, TypeOK
<1>4. QED
  BY <1>1, <1>2, <1>3 DEF Enqueue, TypeInv, TypeOK, BusyHasMessage

LEMMA EnqueueErrorType ==
  ASSUME TypeInv, NEW r \in Requests, EnqueueError(r) PROVE TypeInv'
<1>1. row' \in Tasks /\ stale' \in BOOLEAN
  BY FailureCommitType DEF EnqueueError, TypeInv, TypeOK, RequestSlots
<1>2. QED
  BY <1>1, RequestFinishes DEF EnqueueError, TypeInv, TypeOK, BusyHasMessage

LEMMA NoteDispatchType ==
  ASSUME TypeInv, NEW r \in Requests, NoteDispatch(r) PROVE TypeInv'
<1>1. [row EXCEPT !.extra = req[r].copy.extra] \in Tasks
  BY DEF TypeInv, TypeOK, RequestSlots, Tasks
<1>2. row' \in Tasks /\ stale' \in BOOLEAN
  BY <1>1, CommitType DEF NoteDispatch, TypeInv, TypeOK
<1>3. QED
  BY <1>2, RequestFinishes DEF NoteDispatch, TypeInv, TypeOK, BusyHasMessage

LEMMA RequestDiesType ==
  ASSUME TypeInv, NEW r \in Requests, RequestDies(r) PROVE TypeInv'
<1>1. faults' \in 0..MaxFault
  BY LifecycleAssumption DEF RequestDies, TypeInv, TypeOK
<1>2. QED
  BY <1>1, RequestFinishes DEF RequestDies, TypeInv, TypeOK, BusyHasMessage

-----------------------------------------------------------------------------
(* Each step of a worker preserves the type invariant. *)

\* The run of one worker moves to another slot of the right type, with a
\* message in its hands.
LEMMA RunMoves ==
  ASSUME TypeInv, NEW w \in Workers, NEW slot \in RunSlots,
         run' = [run EXCEPT ![w] = slot],
         slot.pc = "idle" \/ slot.msg \in Messages
  PROVE  run' \in [Workers -> RunSlots] /\ BusyHasMessage'
BY DEF TypeInv, TypeOK, BusyHasMessage

LEMMA DeliverType ==
  ASSUME TypeInv, NEW w \in Workers, NEW m \in broker, Deliver(w, m)
  PROVE  TypeInv'
<1>1. m \in Messages
  BY DEF TypeInv, TypeOK
<1>2. /\ [IdleRun EXCEPT !.pc = "gate", !.msg = m] \in RunSlots
      /\ [IdleRun EXCEPT !.pc = "gate", !.msg = m].msg = m
  BY <1>1, IdleTypes DEF RunSlots
<1>3. run' \in [Workers -> RunSlots] /\ BusyHasMessage'
  BY <1>1, <1>2, RunMoves DEF Deliver
<1>4. broker' \subseteq Messages /\ redelivered' \in 0..MaxRedeliver
  BY LifecycleAssumption DEF Deliver, TypeInv, TypeOK
<1>5. QED
  BY <1>3, <1>4 DEF Deliver, TypeInv, TypeOK

LEMMA AdmitType ==
  ASSUME TypeInv, NEW w \in Workers, Admit(w) PROVE TypeInv'
<1>1. run' \in [Workers -> RunSlots] /\ BusyHasMessage'
  BY RunStops DEF Admit, TypeInv, TypeOK, RunSlots, BusyHasMessage
<1>2. QED
  BY <1>1 DEF Admit, TypeInv, TypeOK

LEMMA OverloadType ==
  ASSUME TypeInv, NEW w \in Workers, Overload(w) PROVE TypeInv'
<1>1. run' \in [Workers -> RunSlots] /\ BusyHasMessage'
  BY RunStops DEF Overload, TypeInv, TypeOK, RunSlots, BusyHasMessage
<1>2. QED
  BY <1>1 DEF Overload, TypeInv, TypeOK

\* A worker that is not idle holds a copy of the task and a message.
LEMMA BusyTypes ==
  ASSUME TypeInv, NEW w \in Workers, run[w].pc # "idle"
  PROVE  /\ run[w].copy \in Tasks
         /\ run[w].msg \in Messages
         /\ run[w].msg.id \in 0..MaxMsg
BY LifecycleAssumption DEF TypeInv, TypeOK, BusyHasMessage, RunSlots, Messages

LEMMA OverloadCommitType ==
  ASSUME TypeInv, NEW w \in Workers, OverloadCommit(w) PROVE TypeInv'
<1> DEFINE old == run[w].copy
           new == [MoveTo(old, "FAILED") EXCEPT !.extra.cid = run[w].msg.id]
<1>1. old \in Tasks /\ run[w].msg.id \in 0..MaxMsg
  BY BusyTypes DEF OverloadCommit
<1>2. new \in Tasks
  BY <1>1, MoveToType, CidType DEF Statuses
<1>3. row' \in Tasks /\ stale' \in BOOLEAN
  BY <1>1, <1>2, FlushType, CommitType DEF OverloadCommit, TypeInv, TypeOK
<1>4. QED
  BY <1>3, RunStops DEF OverloadCommit, TypeInv, TypeOK

LEMMA BeginType ==
  ASSUME TypeInv, NEW w \in Workers, Begin(w) PROVE TypeInv'
<1> DEFINE old == run[w].copy
           moved == IF old.status = "QUEUED" THEN MoveTo(old, "RUNNING") ELSE old
           new == [moved EXCEPT !.extra.cid = run[w].msg.id]
<1>1. /\ old \in Tasks /\ run[w].msg \in Messages
      /\ run[w].msg.id \in 0..MaxMsg
  BY BusyTypes DEF Begin
<1>2. new \in Tasks
  BY <1>1, MoveToType, CidType DEF Statuses
<1>3. row' \in Tasks /\ stale' \in BOOLEAN
  BY <1>1, <1>2, FlushType, CommitType DEF Begin, TypeInv, TypeOK
<1>4. CASE row.life = "stored"
  <2>1. run' = [run EXCEPT ![w].pc = "expand", ![w].copy = new]
    BY <1>4 DEF Begin
  <2>2. run' \in [Workers -> RunSlots] /\ BusyHasMessage'
    <3> DEFINE slot == [run[w] EXCEPT !.pc = "expand", !.copy = new]
    <3>1. slot \in RunSlots /\ slot.msg \in Messages
      BY <1>1, <1>2 DEF TypeInv, TypeOK, RunSlots
    <3>2. run' = [run EXCEPT ![w] = slot]
      BY <2>1 DEF TypeInv, TypeOK
    <3>3. QED
      BY <3>1, <3>2, RunMoves
  <2>3. beat' \in [Workers -> BeatSlots]
    <3>1. [NoBeat EXCEPT !.pc = "wait", !.id = run[w].msg.id] \in BeatSlots
      BY <1>1, IdleTypes DEF BeatSlots
    <3>2. beat' = [beat EXCEPT ![w] =
                     [NoBeat EXCEPT !.pc = "wait", !.id = run[w].msg.id]]
      BY <1>4 DEF Begin
    <3>3. QED
      BY <3>1, <3>2 DEF TypeInv, TypeOK
  <2>4. QED
    BY <1>3, <2>2, <2>3 DEF Begin, TypeInv, TypeOK
<1>5. CASE row.life # "stored"
  BY <1>3, <1>5, RunStops DEF Begin, TypeInv, TypeOK
<1>6. QED
  BY <1>4, <1>5

LEMMA ExpandType ==
  ASSUME TypeInv, NEW w \in Workers, Expand(w) PROVE TypeInv'
<1>1. run[w].copy \in Tasks /\ run[w].msg \in Messages
  BY BusyTypes DEF Expand
<1>2. run' \in [Workers -> RunSlots] /\ BusyHasMessage'
  <2> DEFINE slot == [run[w] EXCEPT !.pc = "work", !.copy.extra.exp = "done"]
  <2>1. [run[w].copy EXCEPT !.extra.exp = "done"] \in Tasks
    BY <1>1 DEF Tasks, Extras
  <2>2. slot = [run[w] EXCEPT !.pc = "work",
                  !.copy = [run[w].copy EXCEPT !.extra.exp = "done"]]
    BY DEF TypeInv, TypeOK, RunSlots
  <2>3. slot \in RunSlots /\ slot.msg \in Messages
    <3> HIDE DEF slot
    <3>1. slot = [pc |-> "work", msg |-> run[w].msg,
                  copy |-> [run[w].copy EXCEPT !.extra.exp = "done"]]
      BY <2>2 DEF TypeInv, TypeOK, RunSlots
    <3>2. QED
      BY <1>1, <2>1, <3>1 DEF RunSlots
  <2>4. run' = [run EXCEPT ![w] = slot]
    BY DEF Expand, TypeInv, TypeOK
  <2>5. QED
    BY <2>3, <2>4, RunMoves
<1>3. row' \in Tasks /\ stale' \in BOOLEAN
  <2> DEFINE new == [run[w].copy EXCEPT !.extra.exp = "done"]
  <2>1. new \in Tasks /\ Commit(FlushAll(run[w].copy, new))
    BY <1>1 DEF Expand, Tasks, Extras
  <2> HIDE DEF new
  <2>2. QED
    BY <1>1, <2>1, FlushType, CommitType DEF TypeInv, TypeOK
<1>4. expansions' \in 0..2
  BY DEF Expand, TypeInv, TypeOK
<1>5. QED
  BY <1>2, <1>3, <1>4 DEF Expand, TypeInv, TypeOK

LEMMA ProgressType ==
  ASSUME TypeInv, NEW w \in Workers, Progress(w) PROVE TypeInv'
<1>1. run[w].copy \in Tasks
  BY BusyTypes DEF Progress
<1>2. CASE Allowed(run[w].copy, run[w].msg.gen)
  <2>1. row' \in Tasks /\ stale' \in BOOLEAN
    BY <1>1, <1>2, FlushType, CommitType DEF Progress, TypeInv, TypeOK
  <2>2. QED
    BY <1>2, <2>1 DEF Progress, TypeInv, TypeOK, BusyHasMessage
<1>3. CASE ~Allowed(run[w].copy, run[w].msg.gen)
  BY <1>3, RunStops, BeatStops DEF Progress, TypeInv, TypeOK
<1>4. QED
  BY <1>2, <1>3

LEMMA FinishType ==
  ASSUME TypeInv, NEW w \in Workers, NEW final \in Outcomes, Finish(w, final)
  PROVE  TypeInv'
<1>1. run[w].copy \in Tasks /\ MoveTo(run[w].copy, final) \in Tasks
  BY BusyTypes, MoveToType DEF Finish, Outcomes, Statuses
<1>2. row' \in Tasks /\ stale' \in BOOLEAN
  BY <1>1, FlushType, CommitType DEF Finish, TypeInv, TypeOK
<1>3. QED
  BY <1>2, RunStops, BeatStops DEF Finish, TypeInv, TypeOK

LEMMA PipelineErrorType ==
  ASSUME TypeInv, NEW w \in Workers, PipelineError(w) PROVE TypeInv'
<1>1. CASE row.life = "stored"
  <2>1. run' = [run EXCEPT ![w].pc = "failing", ![w].copy = row]
    BY <1>1 DEF PipelineError
  <2>2. run' \in [Workers -> RunSlots] /\ BusyHasMessage'
    BY <2>1, BusyTypes DEF PipelineError, TypeInv, TypeOK, RunSlots, BusyHasMessage
  <2>3. QED
    BY <1>1, <2>2 DEF PipelineError, TypeInv, TypeOK
<1>2. CASE row.life # "stored"
  BY <1>2, RunStops, BeatStops DEF PipelineError, TypeInv, TypeOK
<1>3. QED
  BY <1>1, <1>2

LEMMA FailCommitStepType ==
  ASSUME TypeInv, NEW w \in Workers, FailCommit(w) PROVE TypeInv'
<1>1. run[w].copy \in Tasks
  BY BusyTypes DEF FailCommit
<1>2. row' \in Tasks /\ stale' \in BOOLEAN
  BY <1>1, FailureCommitType DEF FailCommit, TypeInv, TypeOK
<1>3. QED
  BY <1>2, RunStops, BeatStops DEF FailCommit, TypeInv, TypeOK

LEMMA WorkerDiesType ==
  ASSUME TypeInv, NEW w \in Workers, WorkerDies(w) PROVE TypeInv'
<1>1. faults' \in 0..MaxFault /\ beat' \in [Workers -> BeatSlots]
  BY IdleTypes, LifecycleAssumption DEF WorkerDies, TypeInv, TypeOK
<1>2. QED
  BY <1>1, RunStops DEF WorkerDies, TypeInv, TypeOK

-----------------------------------------------------------------------------
(* Each step of a heartbeat thread preserves the type invariant. *)

LEMMA BeatReadType ==
  ASSUME TypeInv, NEW w \in Workers, BeatRead(w) PROVE TypeInv'
<1>1. row.extra \in Extras
  BY DEF TypeInv, TypeOK, Tasks
<1>2. beat' \in [Workers -> BeatSlots]
  BY <1>1, IdleTypes DEF BeatRead, TypeInv, TypeOK, BeatSlots
<1>3. QED
  BY <1>2 DEF BeatRead, TypeInv, TypeOK, BusyHasMessage

LEMMA BeatWriteType ==
  ASSUME TypeInv, NEW w \in Workers, BeatWrite(w) PROVE TypeInv'
<1>1. [beat[w].extra EXCEPT !.cid = beat[w].id] \in Extras
  BY DEF TypeInv, TypeOK, BeatSlots, Extras
<1>2. [row EXCEPT !.extra = [beat[w].extra EXCEPT !.cid = beat[w].id]] \in Tasks
  BY <1>1 DEF TypeInv, TypeOK, Tasks
<1>3. row' \in Tasks /\ stale' \in BOOLEAN
  BY <1>2, CommitType DEF BeatWrite, TypeInv, TypeOK
<1>4. beat' \in [Workers -> BeatSlots]
  BY IdleTypes, NoTaskType DEF BeatWrite, TypeInv, TypeOK, BeatSlots
<1>5. QED
  BY <1>3, <1>4 DEF BeatWrite, TypeInv, TypeOK, BusyHasMessage

LEMMA BeatDiesType ==
  ASSUME TypeInv, NEW w \in Workers, BeatDies(w) PROVE TypeInv'
<1>1. faults' \in 0..MaxFault /\ beat' \in [Workers -> BeatSlots]
  BY IdleTypes, LifecycleAssumption DEF BeatDies, TypeInv, TypeOK
<1>2. QED
  BY <1>1 DEF BeatDies, TypeInv, TypeOK, BusyHasMessage

-----------------------------------------------------------------------------
LEMMA TypeStep == TypeInv /\ [Next]_vars => TypeInv'
<1> SUFFICES ASSUME TypeInv, [Next]_vars PROVE TypeInv'
  OBVIOUS
<1>1. ASSUME NEW r \in Requests, RequestStep(r) PROVE TypeInv'
  BY <1>1, CreateType, TakeSnapshotType, LoadType, ProbeType, RecheckType, ReinspectType,
     DoomType, ReloadType, ReplyType, ControlType, PurgeType, EnqueueType,
     EnqueueErrorType, NoteDispatchType, RequestDiesType DEF RequestStep
<1>2. ASSUME NEW w \in Workers, WorkerStep(w) PROVE TypeInv'
  BY <1>2, DeliverType, AdmitType, OverloadType, OverloadCommitType, BeginType,
     ExpandType, ProgressType, FinishType, PipelineErrorType,
     FailCommitStepType, WorkerDiesType DEF WorkerStep
<1>3. ASSUME NEW w \in Workers, BeatStep(w) PROVE TypeInv'
  BY <1>3, BeatReadType, BeatWriteType, BeatDiesType DEF BeatStep
<1>4. ASSUME BecomeStale PROVE TypeInv'
  BY <1>4 DEF BecomeStale, TypeInv, TypeOK, BusyHasMessage
<1>5. ASSUME UNCHANGED vars PROVE TypeInv'
  BY <1>5 DEF vars, TypeInv, TypeOK, BusyHasMessage
<1>6. QED
  BY <1>1, <1>2, <1>3, <1>4, <1>5 DEF Next

LEMMA SpecTypeInv == Spec => []TypeInv
BY InitType, TypeStep, PTL DEF Spec

\* The row, every session's copy of it, the queue and the slots of requests,
\* workers and heartbeats keep their types, whatever the interleaving.
THEOREM TypeCorrect == Spec => []TypeOK
<1>1. TypeInv => TypeOK
  BY DEF TypeInv
<1>2. QED
  BY <1>1, SpecTypeInv, PTL


-----------------------------------------------------------------------------
(* What a pipeline sees of the controls.  RunSeesNoControl is inductive    *)
(* once the slots are typed.                                               *)

LEMMA BeginSeesNoControl ==
  ASSUME TypeInv, RunSeesNoControl, NEW w \in Workers, Begin(w)
  PROVE  RunSeesNoControl'
<1> DEFINE old == run[w].copy
           moved == IF old.status = "QUEUED" THEN MoveTo(old, "RUNNING") ELSE old
           new == [moved EXCEPT !.extra.cid = run[w].msg.id]
<1>1. old \in Tasks /\ Allowed(old, run[w].msg.gen)
  BY BusyTypes DEF Begin, RunSeesNoControl, Executing
<1>2. moved \in Tasks /\ Allowed(moved, run[w].msg.gen)
  <2>1. MoveTo(old, "RUNNING") \in Tasks
    BY <1>1, MoveToType DEF Statuses
  <2>2. Allowed(MoveTo(old, "RUNNING"), run[w].msg.gen)
    BY <1>1 DEF Allowed, MoveTo, Tasks
  <2>3. QED
    BY <1>1, <2>1, <2>2
<1>3. Allowed(new, run[w].msg.gen)
  <2> HIDE DEF moved
  <2>1. QED
    BY <1>2 DEF Allowed, Tasks, Extras
<1>4. CASE row.life = "stored"
  <2>1. run' = [run EXCEPT ![w].pc = "expand", ![w].copy = new]
    BY <1>4 DEF Begin
  <2>2. run'[w].copy = new /\ run'[w].msg = run[w].msg
    <3> HIDE DEF new
    <3>1. QED
      BY <2>1 DEF TypeInv, TypeOK, RunSlots
  <2>3. \A v \in Workers : v # w => run'[v] = run[v]
    <3> HIDE DEF new
    <3>1. QED
      BY <2>1 DEF TypeInv, TypeOK
  <2>4. QED
    BY <1>3, <2>2, <2>3 DEF RunSeesNoControl
<1>5. CASE row.life # "stored"
  BY <1>5 DEF Begin, Stopped, IdleRun, RunSeesNoControl, Executing, TypeInv, TypeOK
<1>6. QED
  BY <1>4, <1>5

LEMMA ExpandSeesNoControl ==
  ASSUME TypeInv, RunSeesNoControl, NEW w \in Workers, Expand(w)
  PROVE  RunSeesNoControl'
<1>1. run[w].copy \in Tasks /\ Allowed(run[w].copy, run[w].msg.gen)
  BY BusyTypes DEF Expand, RunSeesNoControl, Executing
<1>2. /\ run'[w].msg = run[w].msg
      /\ run'[w].copy = [run[w].copy EXCEPT !.extra.exp = "done"]
  BY DEF Expand, TypeInv, TypeOK, RunSlots
<1>3. Allowed(run'[w].copy, run'[w].msg.gen)
  BY <1>1, <1>2 DEF Allowed, Tasks, Extras
<1>4. \A v \in Workers : v # w => run'[v] = run[v]
  BY DEF Expand, TypeInv, TypeOK
<1>5. QED
  BY <1>3, <1>4 DEF RunSeesNoControl

LEMMA WorkerSeesNoControl ==
  ASSUME TypeInv, RunSeesNoControl, NEW w \in Workers, WorkerStep(w)
  PROVE  RunSeesNoControl'
<1> USE DEF RunSeesNoControl, Executing, TypeInv, TypeOK, RunSlots
<1>1. ASSUME NEW m \in broker, Deliver(w, m) PROVE RunSeesNoControl'
  BY <1>1 DEF Deliver, IdleRun
<1>2. CASE Admit(w)
  BY <1>2 DEF Admit, Stopped, IdleRun
<1>3. CASE Overload(w)
  BY <1>3 DEF Overload, Stopped, IdleRun
<1>4. CASE OverloadCommit(w)
  BY <1>4 DEF OverloadCommit, Stopped, IdleRun
<1>5. CASE Begin(w)
  BY <1>5, BeginSeesNoControl
<1>6. CASE Expand(w)
  BY <1>6, ExpandSeesNoControl
<1>7. CASE Progress(w)
  BY <1>7 DEF Progress, Stopped, IdleRun
<1>8. ASSUME NEW final \in Outcomes, Finish(w, final) PROVE RunSeesNoControl'
  BY <1>8 DEF Finish, Stopped, IdleRun
<1>9. CASE PipelineError(w)
  BY <1>9 DEF PipelineError, Stopped, IdleRun
<1>10. CASE FailCommit(w)
  BY <1>10 DEF FailCommit, Stopped, IdleRun
<1>11. CASE WorkerDies(w)
  BY <1>11 DEF WorkerDies, Stopped, IdleRun
<1>12. QED
  BY <1>1, <1>2, <1>3, <1>4, <1>5, <1>6, <1>7, <1>8, <1>9, <1>10, <1>11
     DEF WorkerStep

\* Nobody but a worker touches the runs.
LEMMA RunsAreTheWorkers ==
  ASSUME [Next]_vars, ~\E w \in Workers : WorkerStep(w)
  PROVE  run' = run
<1>1. ASSUME NEW r \in Requests, RequestStep(r) PROVE run' = run
  BY <1>1 DEF RequestStep, Create, TakeSnapshot, Load, Probe, Recheck, Reinspect, Doom,
     Reload, Reply, Control, Purge, Enqueue, EnqueueError, NoteDispatch,
     RequestDies
<1>2. ASSUME NEW w \in Workers, BeatStep(w) PROVE run' = run
  BY <1>2 DEF BeatStep, BeatRead, BeatWrite, BeatDies
<1>3. QED
  BY <1>1, <1>2 DEF Next, BecomeStale, vars

\* The check inside a running pipeline never fails: no pause, cancel, delete
\* or resume that commits while a call executes is ever seen by that call.
THEOREM RunNeverSeesControl == Spec => []RunSeesNoControl
<1>1. Init => RunSeesNoControl
  BY DEF Init, RunSeesNoControl, IdleRun, Executing
<1>2. TypeInv /\ RunSeesNoControl /\ [Next]_vars => RunSeesNoControl'
  <2> SUFFICES ASSUME TypeInv, RunSeesNoControl, [Next]_vars
               PROVE  RunSeesNoControl'
    OBVIOUS
  <2>1. CASE \E w \in Workers : WorkerStep(w)
    BY <2>1, WorkerSeesNoControl
  <2>2. CASE ~\E w \in Workers : WorkerStep(w)
    BY <2>2, RunsAreTheWorkers DEF RunSeesNoControl
  <2>3. QED
    BY <2>1, <2>2
<1>3. QED
  BY <1>1, <1>2, SpecTypeInv, PTL DEF Spec

-----------------------------------------------------------------------------
(* Rows that are gone.  A commit changes nothing of a row that is not      *)
(* stored, so only an insert can, and that asks for a row never stored.    *)

LEMMA CommitSparesTheGone ==
  ASSUME NEW new, Commit(new), row.life # "stored" PROVE row' = row
BY DEF Commit

LEMMA StepKeepsPurged ==
  ASSUME [Next]_vars, row.life = "purged" PROVE row' = row
<1>1. ASSUME NEW r \in Requests, RequestStep(r) PROVE row' = row
  BY <1>1, CommitSparesTheGone
     DEF RequestStep, Create, TakeSnapshot, Load, Probe, Recheck, Reinspect, Doom, Reload,
         Reply, Control, Purge, Enqueue, EnqueueError, NoteDispatch, RequestDies
<1>2. ASSUME NEW w \in Workers, WorkerStep(w) PROVE row' = row
  BY <1>2, CommitSparesTheGone
     DEF WorkerStep, Deliver, Admit, Overload, OverloadCommit, Begin, Expand,
         Progress, Finish, PipelineError, FailCommit, WorkerDies
<1>3. ASSUME NEW w \in Workers, BeatStep(w) PROVE row' = row
  BY <1>3, CommitSparesTheGone DEF BeatStep, BeatRead, BeatWrite, BeatDies
<1>4. QED
  BY <1>1, <1>2, <1>3 DEF Next, BecomeStale, vars

(* What a commit writes of a session's copy. *)

LEMMA FlushWrites ==
  ASSUME NEW old, NEW new, Commit(Flush(old, new)) \/ Commit(FlushAll(old, new))
  PROVE  /\ row'.trashed # row.trashed =>
              old.trashed # new.trashed /\ row'.trashed = new.trashed
         /\ row'.status # row.status =>
              old.status # new.status /\ row'.status = new.status
         /\ row'.life = row.life
<1>1. CASE row.life # "stored"
  BY <1>1 DEF Commit
<1>2. CASE row.life = "stored" /\ Commit(Flush(old, new))
  BY <1>2 DEF Commit, Flush, Changed
<1>3. CASE row.life = "stored" /\ Commit(FlushAll(old, new))
  BY <1>3 DEF Commit, FlushAll, Flush, Changed
<1>4. QED
  BY <1>1, <1>2, <1>3

LEMMA ExtraWrites ==
  ASSUME NEW x, Commit([row EXCEPT !.extra = x]), row \in Tasks
  PROVE  /\ row'.trashed = row.trashed
         /\ row'.status = row.status
         /\ row'.life = row.life
BY DEF Commit, Tasks

LEMMA MoveToWrites ==
  ASSUME NEW t \in Tasks, NEW s \in Statuses
  PROVE  MoveTo(t, s).status = s /\ MoveTo(t, s).trashed = t.trashed
BY DEF MoveTo, Tasks

\* Failing a task leaves the trash alone.
LEMMA FailureKeepsTrash ==
  ASSUME NEW t \in Tasks, \/ Commit(Flush(t, MoveTo(t, "FAILED")))
                          \/ Commit(FlushAll(t, MoveTo(t, "FAILED")))
  PROVE  row'.trashed = row.trashed
BY FlushWrites, MoveToWrites DEF Statuses

-----------------------------------------------------------------------------
(* The trash.  A row that is not stored is not in it: it takes the restore *)
(* operation, and not an insert, to bring a trashed row back.              *)

GoneNotTrashed == row.life # "stored" => ~row.trashed

LEMMA ControlledTrash ==
  ASSUME NEW op \in Operations, NEW t \in Tasks, Permitted(op, t.status),
         op # "purge", op # "restore"
  PROVE  Controlled(op, t).trashed \in {t.trashed, TRUE}
<1>1. CASE op \in {"pause", "resume", "cancel"}
  BY <1>1 DEF Controlled, MoveTo, AdvanceGeneration, Tasks, Extras
<1>2. CASE op = "delete"
  BY <1>2 DEF Controlled, Trashed, MoveTo, AdvanceGeneration, Tasks, Extras
<1>3. QED
  BY <1>1, <1>2 DEF Operations, Permitted

\* What a step other than a restore does to the trash.
TrashKept ==
  /\ row'.life # "stored" => ~row'.trashed
  /\ row.trashed /\ row'.life = "stored" => row'.trashed

LEMMA ControlKeepsTrash ==
  ASSUME TypeInv, GoneNotTrashed, NEW r \in Requests, Control(r),
         req[r].op # "restore"
  PROVE  TrashKept
<1> DEFINE old == req[r].copy
           new == Controlled(req[r].op, old)
<1>1. /\ old \in Tasks /\ req[r].op \in Operations
      /\ Commit(Flush(old, new)) /\ req[r].op # "purge"
      /\ Permitted(req[r].op, old.status)
  BY DEF Control, TypeInv, TypeOK, RequestSlots
<1>2. new.trashed \in {old.trashed, TRUE}
  BY <1>1, ControlledTrash
<1>3. CASE row.life # "stored"
  BY <1>1, <1>3, CommitSparesTheGone DEF GoneNotTrashed, TrashKept
<1>4. CASE row.life = "stored"
  <2> HIDE DEF new, old
  <2>1. row'.life = "stored"
    BY <1>1, <1>4, FlushWrites
  <2>2. row'.trashed # row.trashed => row'.trashed = TRUE
    BY <1>1, <1>2, FlushWrites
  <2>3. row.trashed => row'.trashed
    BY <2>2
  <2>4. QED
    BY <2>1, <2>3 DEF TrashKept
<1>5. QED
  BY <1>3, <1>4

LEMMA RequestKeepsTrash ==
  ASSUME TypeInv, GoneNotTrashed, NEW r \in Requests, RequestStep(r),
         ~(req[r].pc = "ready" /\ req[r].op = "restore")
  PROVE  TrashKept
<1> USE DEF GoneNotTrashed, TrashKept
<1>1. CASE Create(r)
  BY <1>1 DEF Create, MoveTo, AdvanceGeneration, NoTask
<1>2. ASSUME row' = row PROVE TrashKept
  BY <1>2
<1>3. CASE Doom(r) \/ EnqueueError(r)
  <2>1. Commit(Flush(req[r].copy, MoveTo(req[r].copy, "FAILED")))
    BY <1>3 DEF Doom, EnqueueError
  <2>2. req[r].copy \in Tasks
    BY DEF TypeInv, TypeOK, RequestSlots
  <2>3. row'.trashed = row.trashed /\ row'.life = row.life
    BY <2>1, <2>2, FailureKeepsTrash, FlushWrites
  <2>4. QED
    BY <2>3
<1>4. CASE Control(r)
  BY <1>4, ControlKeepsTrash DEF Control
<1>5. CASE Purge(r)
  BY <1>5 DEF Purge, NoTask
<1>6. CASE NoteDispatch(r)
  BY <1>6, ExtraWrites DEF NoteDispatch, TypeInv, TypeOK
<1>7. QED
  BY <1>1, <1>2, <1>3, <1>4, <1>5, <1>6
     DEF RequestStep, TakeSnapshot, Load, Probe, Recheck, Reinspect, Reload, Reply,
         Enqueue, RequestDies

LEMMA WorkerKeepsTrash ==
  ASSUME TypeInv, GoneNotTrashed, NEW w \in Workers, WorkerStep(w)
  PROVE  TrashKept
<1> DEFINE old == run[w].copy
<1> USE DEF GoneNotTrashed, TrashKept
<1>1. run[w].pc # "idle" => old \in Tasks /\ run[w].msg.id \in 0..MaxMsg
  BY BusyTypes
<1>2. ASSUME row' = row PROVE TrashKept
  BY <1>2
<1>3. ASSUME row'.trashed = row.trashed, row'.life = row.life PROVE TrashKept
  BY <1>3
<1>4. CASE OverloadCommit(w)
  <2> DEFINE new == [MoveTo(old, "FAILED") EXCEPT !.extra.cid = run[w].msg.id]
  <2>1. old \in Tasks /\ new.trashed = old.trashed
    BY <1>1, <1>4 DEF OverloadCommit, MoveTo, Tasks
  <2>2. Commit(FlushAll(old, new)) \/ row' = row
    BY <1>4 DEF OverloadCommit
  <2>3. QED
    BY <1>2, <1>3, <2>1, <2>2, FlushWrites
<1>5. CASE Begin(w)
  <2> DEFINE moved == IF old.status = "QUEUED" THEN MoveTo(old, "RUNNING") ELSE old
             new == [moved EXCEPT !.extra.cid = run[w].msg.id]
  <2>1. old \in Tasks /\ new.trashed = old.trashed
    <3>1. old \in Tasks
      BY <1>1, <1>5 DEF Begin
    <3>2. moved \in Tasks /\ moved.trashed = old.trashed
      BY <3>1, MoveToType, MoveToWrites DEF Statuses
    <3>3. new.trashed = moved.trashed
      <4> HIDE DEF moved
      <4>1. QED
        BY <3>2 DEF Tasks
    <3>4. QED
      BY <3>1, <3>2, <3>3
  <2>2. Commit(FlushAll(old, new))
    BY <1>5 DEF Begin
  <2> HIDE DEF new, old
  <2>3. row'.trashed = row.trashed /\ row'.life = row.life
    BY <2>1, <2>2, FlushWrites
  <2>4. QED
    BY <1>3, <2>3
<1>6. CASE Expand(w)
  <2> DEFINE new == [old EXCEPT !.extra.exp = "done"]
  <2>1. old \in Tasks /\ new.trashed = old.trashed
    BY <1>1, <1>6 DEF Expand, Tasks
  <2>2. Commit(FlushAll(old, new))
    BY <1>6 DEF Expand
  <2> HIDE DEF new, old
  <2>3. QED
    BY <1>3, <2>1, <2>2, FlushWrites
<1>7. CASE Progress(w)
  BY <1>2, <1>3, <1>7, FlushWrites DEF Progress
<1>8. ASSUME NEW final \in Outcomes, Finish(w, final) PROVE TrashKept
  <2>1. old \in Tasks /\ MoveTo(old, final).trashed = old.trashed
    BY <1>1, <1>8, MoveToWrites DEF Finish, Outcomes, Statuses
  <2>2. Commit(FlushAll(old, MoveTo(old, final))) \/ row' = row
    BY <1>8 DEF Finish
  <2>3. QED
    BY <1>2, <1>3, <2>1, <2>2, FlushWrites
<1>9. CASE FailCommit(w)
  BY <1>1, <1>2, <1>3, <1>9, FailureKeepsTrash, FlushWrites DEF FailCommit
<1>10. QED
  BY <1>2, <1>4, <1>5, <1>6, <1>7, <1>8, <1>9
     DEF WorkerStep, Deliver, Admit, Overload, PipelineError, WorkerDies

LEMMA StepKeepsTrash ==
  ASSUME TypeInv, GoneNotTrashed, [Next]_vars,
         ~\E r \in Requests : req[r].pc = "ready" /\ req[r].op = "restore"
  PROVE  TrashKept
<1>1. ASSUME NEW r \in Requests, RequestStep(r) PROVE TrashKept
  BY <1>1, RequestKeepsTrash
<1>2. ASSUME NEW w \in Workers, WorkerStep(w) PROVE TrashKept
  BY <1>2, WorkerKeepsTrash
<1>3. ASSUME NEW w \in Workers, BeatStep(w) PROVE TrashKept
  BY <1>3, ExtraWrites
     DEF BeatStep, BeatRead, BeatWrite, BeatDies, GoneNotTrashed, TrashKept,
         TypeInv, TypeOK
<1>4. QED
  BY <1>1, <1>2, <1>3 DEF Next, BecomeStale, vars, GoneNotTrashed, TrashKept

LEMMA StepKeepsGone ==
  ASSUME TypeInv, GoneNotTrashed, [Next]_vars PROVE GoneNotTrashed'
<1>1. ASSUME NEW r \in Requests, RequestStep(r),
             ~(req[r].pc = "ready" /\ req[r].op = "restore")
      PROVE  GoneNotTrashed'
  BY <1>1, RequestKeepsTrash DEF TrashKept, GoneNotTrashed
<1>2. ASSUME NEW r \in Requests, RequestStep(r), req[r].pc = "ready",
             req[r].op = "restore"
      PROVE  GoneNotTrashed'
  <2>1. row' = row \/ Control(r)
    BY <1>2 DEF RequestStep, Create, TakeSnapshot, Load, Probe, Recheck, Reinspect, Doom,
       Reload, Reply, Purge, Enqueue, EnqueueError, NoteDispatch, RequestDies
  <2>2. ASSUME Control(r), row.life = "stored" PROVE row'.life = "stored"
    BY <2>2, FlushWrites DEF Control
  <2>3. ASSUME Control(r), row.life # "stored" PROVE row' = row
    BY <2>3, CommitSparesTheGone DEF Control
  <2>4. QED
    BY <2>1, <2>2, <2>3 DEF GoneNotTrashed
<1>3. ASSUME NEW w \in Workers, WorkerStep(w) PROVE GoneNotTrashed'
  BY <1>3, WorkerKeepsTrash DEF TrashKept, GoneNotTrashed
<1>4. ASSUME NEW w \in Workers, BeatStep(w) PROVE GoneNotTrashed'
  BY <1>4, ExtraWrites
     DEF BeatStep, BeatRead, BeatWrite, BeatDies, GoneNotTrashed, TypeInv, TypeOK
<1>5. QED
  BY <1>1, <1>2, <1>3, <1>4 DEF Next, BecomeStale, vars, GoneNotTrashed

\* Only the restore operation takes a task out of the trash, whatever a
\* worker, a heartbeat or a reconciliation commits around deleted_at.
THEOREM TrashNeedsRestore == Spec => OnlyRestoreUntrashes
<1>1. Init => GoneNotTrashed
  BY DEF Init, GoneNotTrashed, NoTask
<1>2. TypeInv /\ GoneNotTrashed /\ [Next]_vars => GoneNotTrashed'
  BY StepKeepsGone
<1>3. TypeInv /\ GoneNotTrashed /\ [Next]_vars =>
        [(row.trashed /\ row'.life = "stored" /\ ~row'.trashed) =>
            \E r \in Requests : req[r].pc = "ready" /\ req[r].op = "restore"]_vars
  BY StepKeepsTrash DEF TrashKept
<1>4. QED
  BY <1>1, <1>2, <1>3, SpecTypeInv, PTL DEF Spec, OnlyRestoreUntrashes

-----------------------------------------------------------------------------
(* Closed tasks.  The session that changes the status of a closed task     *)
(* read it earlier, because from a closed status it could not have moved.  *)
(* The invariant says with what copy a handler comes to a commit.          *)

HandlerCopies ==
  \A r \in Requests :
    /\ req[r].pc \in {"reinspect", "doom"} => Unfinished(req[r].copy)
    /\ req[r].pc \in {"enqueue", "unanswered"} => req[r].copy.status = "QUEUED"

NeverStored == row.life = "none" => row.status = "PENDING"

LEMMA OthersUnmoved ==
  ASSUME TypeInv, NEW r \in Requests, RequestStep(r)
  PROVE  \A q \in Requests : q # r => req'[q] = req[q]
BY DEF TypeInv, TypeOK, RequestStep, Create, TakeSnapshot, Load, Probe, Recheck, Reinspect,
       Doom, Reload, Reply, Control, Purge, Enqueue, EnqueueError, NoteDispatch,
       RequestDies, StepTo, Finished

LEMMA RequestCopies ==
  ASSUME TypeInv, HandlerCopies, NEW r \in Requests, RequestStep(r)
  PROVE  /\ req'[r].pc \in {"reinspect", "doom"} => Unfinished(req'[r].copy)
         /\ req'[r].pc \in {"enqueue", "unanswered"} =>
              req'[r].copy.status = "QUEUED"
<1> USE DEF TypeInv, TypeOK, RequestSlots, StepTo, Finished, IdleRequest
<1>1. CASE Create(r)
  <2> DEFINE new == [MoveTo(AdvanceGeneration(NoTask), "QUEUED")
                       EXCEPT !.life = "stored"]
  <2>1. new.status = "QUEUED"
    BY DEF MoveTo, AdvanceGeneration, NoTask
  <2>2. req'[r].pc = "enqueue" /\ req'[r].copy = new
    <3> HIDE DEF new
    <3>1. req' = [req EXCEPT ![r] = [IdleRequest EXCEPT !.pc = "enqueue",
                                        !.op = "create", !.copy = new]]
      BY <1>1 DEF Create, new
    <3>2. QED
      BY <3>1
  <2>3. QED
    BY <2>1, <2>2
<1>2. CASE TakeSnapshot(r) \/ Probe(r) \/ \E op \in Operations : Load(r, op)
  <2>1. ASSUME TakeSnapshot(r) PROVE req'[r].pc = "listing"
    BY <2>1 DEF TakeSnapshot
  <2>2. ASSUME Probe(r) PROVE req'[r].pc \in {"ready", "recheck"}
    BY <2>2 DEF Probe
  <2>3. ASSUME NEW op \in Operations, Load(r, op)
        PROVE  req'[r].pc \in {"ready", "probe"}
    BY <2>3 DEF Load
  <2>4. QED
    BY <1>2, <2>1, <2>2, <2>3
<1>3. CASE Recheck(r) \/ Reinspect(r)
  <2>1. req'[r].pc \notin {"enqueue", "unanswered"}
    BY <1>3 DEF Recheck, Reinspect
  <2>2. ASSUME Recheck(r)
        PROVE  req'[r].pc \in {"reinspect", "doom"} => Unfinished(req'[r].copy)
    BY <2>2 DEF Recheck, Unfinished
  <2>3. ASSUME Reinspect(r) PROVE req'[r].copy = req[r].copy /\ req[r].pc = "reinspect"
    BY <2>3 DEF Reinspect
  <2>4. QED
    BY <1>3, <2>1, <2>2, <2>3 DEF HandlerCopies, Unfinished
<1>4. CASE Control(r)
  <2> DEFINE new == Controlled(req[r].op, req[r].copy)
  <2>1. CASE req[r].op = "resume" /\ row.life = "stored"
    <3>1. new.status = "QUEUED"
      <4>1. new = MoveTo(AdvanceGeneration(req[r].copy), "QUEUED")
        BY <2>1 DEF Controlled
      <4>2. AdvanceGeneration(req[r].copy).status = req[r].copy.status
        BY DEF AdvanceGeneration, Tasks
      <4>3. QED
        BY <4>1 DEF MoveTo, AdvanceGeneration, Tasks
    <3>2. req' = [req EXCEPT ![r].copy = new, ![r].pc = "enqueue"]
      BY <1>4, <2>1 DEF Control
    <3>3. req'[r].pc = "enqueue" /\ req'[r].copy = new
      <4> HIDE DEF new
      <4>1. QED
        BY <3>2
    <3>4. QED
      BY <3>1, <3>3
  <2>2. CASE ~(req[r].op = "resume" /\ row.life = "stored")
    BY <1>4, <2>2 DEF Control
  <2>3. QED
    BY <2>1, <2>2
<1>5. CASE Enqueue(r)
  <2>1. req[r].pc = "enqueue" /\ req'[r].pc \in {"note", "unanswered"}
    BY <1>5 DEF Enqueue
  <2>2. req'[r].pc = "unanswered" => req'[r].copy = req[r].copy
    BY <1>5 DEF Enqueue
  <2>3. QED
    BY <2>1, <2>2 DEF HandlerCopies
<1>6. CASE Doom(r) \/ Reload(r) \/ Reply(r) \/ Purge(r) \/ EnqueueError(r)
             \/ NoteDispatch(r) \/ RequestDies(r)
  BY <1>6 DEF Doom, Reload, Reply, Purge, EnqueueError, NoteDispatch, RequestDies
<1>7. QED
  BY <1>1, <1>2, <1>3, <1>4, <1>5, <1>6 DEF RequestStep

LEMMA StepKeepsCopies ==
  ASSUME TypeInv, HandlerCopies, [Next]_vars PROVE HandlerCopies'
<1>1. ASSUME NEW r \in Requests, RequestStep(r) PROVE HandlerCopies'
  BY <1>1, OthersUnmoved, RequestCopies DEF HandlerCopies, Unfinished
<1>2. ASSUME req' = req PROVE HandlerCopies'
  BY <1>2 DEF HandlerCopies, Unfinished
<1>3. ASSUME NEW w \in Workers, WorkerStep(w) \/ BeatStep(w) PROVE req' = req
  BY <1>3 DEF WorkerStep, Deliver, Admit, Overload, OverloadCommit, Begin, Expand,
     Progress, Finish, PipelineError, FailCommit, WorkerDies, BeatStep, BeatRead,
     BeatWrite, BeatDies
<1>4. QED
  BY <1>1, <1>2, <1>3 DEF Next, BecomeStale, vars

\* A step that changes the row leaves it stored, unless it purges it.
LEMMA RowAfterStep ==
  ASSUME TypeInv, [Next]_vars
  PROVE  \/ row' = row
         \/ row'.life = "stored"
         \/ row'.life = "purged" /\ row'.status = "PENDING"
<1> DEFINE Kept == \/ row' = row
                   \/ row'.life = "stored"
                   \/ row'.life = "purged" /\ row'.status = "PENDING"
<1>1. ASSUME NEW new, Commit(new), row.life = "stored" => new.life = "stored"
      PROVE  Kept
  BY <1>1 DEF Commit
<1>2. ASSUME NEW old, NEW new, row.life = "stored"
      PROVE  Flush(old, new).life = "stored" /\ FlushAll(old, new).life = "stored"
  BY <1>2 DEF Flush, FlushAll
<1>3. ASSUME NEW x, row.life = "stored"
      PROVE  [row EXCEPT !.extra = x].life = "stored"
  BY <1>3 DEF TypeInv, TypeOK, Tasks
<1>4. ASSUME NEW r \in Requests, RequestStep(r) PROVE Kept
  <2>1. CASE Create(r)
    BY <2>1 DEF Create, MoveTo, AdvanceGeneration, NoTask
  <2>2. CASE Purge(r)
    BY <2>2 DEF Purge, NoTask
  <2>3. CASE Doom(r) \/ EnqueueError(r) \/ NoteDispatch(r) \/ Control(r)
    BY <2>3, <1>1, <1>2, <1>3 DEF Doom, EnqueueError, NoteDispatch, Control
  <2>4. QED
    BY <1>4, <2>1, <2>2, <2>3 DEF RequestStep, TakeSnapshot, Load, Probe, Recheck, Reinspect,
       Reload, Reply, Enqueue, RequestDies
<1>5. ASSUME NEW w \in Workers, WorkerStep(w) PROVE Kept
  <2> DEFINE old == run[w].copy
             moved == IF old.status = "QUEUED" THEN MoveTo(old, "RUNNING") ELSE old
  <2>1. ASSUME NEW new, Commit(FlushAll(old, new)) \/ Commit(Flush(old, new))
        PROVE  Kept
    BY <2>1, <1>1, <1>2
  <2>2. CASE OverloadCommit(w)
    <3>1. Commit(FlushAll(old, [MoveTo(old, "FAILED")
                                  EXCEPT !.extra.cid = run[w].msg.id])) \/ row' = row
      BY <2>2 DEF OverloadCommit
    <3>2. QED
      BY <2>1, <3>1
  <2>3. CASE Begin(w)
    <3>1. Commit(FlushAll(old, [moved EXCEPT !.extra.cid = run[w].msg.id]))
      BY <2>3 DEF Begin
    <3>2. QED
      BY <2>1, <3>1
  <2>4. CASE Expand(w)
    <3>1. Commit(FlushAll(old, [old EXCEPT !.extra.exp = "done"]))
      BY <2>4 DEF Expand
    <3>2. QED
      BY <2>1, <3>1
  <2>5. CASE Progress(w) \/ FailCommit(w) \/ \E final \in Outcomes : Finish(w, final)
    BY <2>1, <2>5 DEF Progress, FailCommit, Finish
  <2>6. QED
    BY <1>5, <2>2, <2>3, <2>4, <2>5
       DEF WorkerStep, Deliver, Admit, Overload, PipelineError, WorkerDies
<1>6. ASSUME NEW w \in Workers, BeatStep(w) PROVE Kept
  BY <1>6, <1>1, <1>3 DEF BeatStep, BeatRead, BeatWrite, BeatDies
<1>7. QED
  BY <1>4, <1>5, <1>6 DEF Next, BecomeStale, vars

LEMMA StepKeepsNeverStored ==
  ASSUME TypeInv, NeverStored, [Next]_vars PROVE NeverStored'
BY RowAfterStep DEF NeverStored

\* The step closes over a closed task.
Reopens == row.status \in Closed /\ row'.life = "stored" /\ row'.status # row.status

\* A session whose copy has the status of a closed row writes no other status.
LEMMA ClosedCopyKeepsStatus ==
  ASSUME NEW old, NEW new, Commit(Flush(old, new)) \/ Commit(FlushAll(old, new)),
         row.status \in Closed, CanMove(old.status, new.status),
         row'.status # row.status
  PROVE  old.status # row.status
<1>1. old.status # new.status
  BY FlushWrites
<1>2. new.status \in AllowedTransitions[old.status]
  BY <1>1 DEF CanMove
<1>3. QED
  BY <1>2 DEF Closed

LEMMA StoredBefore ==
  ASSUME Reopens, NeverStored PROVE row.life # "none"
BY DEF Reopens, NeverStored, Closed, AllowedTransitions, Statuses

LEMMA RequestReopensFromOlderRead ==
  ASSUME TypeInv, HandlerCopies, NeverStored, Reopens,
         NEW r \in Requests, RequestStep(r)
  PROVE  req'[r] # req[r] /\ req[r].copy.status # row.status
<1> DEFINE old == req[r].copy
<1>0. /\ old \in Tasks /\ row.life # "none" /\ row' # row
      /\ row.status \in Closed /\ row'.status # row.status
  BY StoredBefore DEF Reopens, TypeInv, TypeOK, RequestSlots
<1>1. CASE Doom(r) \/ EnqueueError(r)
  <2>1. Commit(Flush(old, MoveTo(old, "FAILED")))
    BY <1>1 DEF Doom, EnqueueError
  <2>2. old.status \in {"QUEUED", "RUNNING"}
    BY <1>1 DEF Doom, EnqueueError, HandlerCopies, Unfinished
  <2>3. CanMove(old.status, MoveTo(old, "FAILED").status)
    BY <1>0, <2>2, MoveToWrites DEF CanMove, AllowedTransitions, Statuses
  <2>4. req'[r] # req[r]
    BY <1>1 DEF Doom, EnqueueError, StepTo, Finished, IdleRequest, TypeInv, TypeOK,
       RequestSlots
  <2>5. QED
    BY <1>0, <2>1, <2>3, <2>4, ClosedCopyKeepsStatus
<1>2. CASE Control(r)
  <2> DEFINE op == req[r].op
             new == Controlled(op, old)
  <2>1. /\ Commit(Flush(old, new)) /\ Permitted(op, old.status)
        /\ op # "purge" /\ op \in Operations
    BY <1>2 DEF Control, TypeInv, TypeOK, RequestSlots
  <2>2. CanMove(old.status, new.status)
    <3>1. AdvanceGeneration(old).status = old.status
      BY <1>0 DEF AdvanceGeneration, Tasks
    <3>2. ASSUME NEW s
          PROVE  MoveTo(AdvanceGeneration(old), s).status = s
      BY <1>0 DEF MoveTo, AdvanceGeneration, Tasks
    <3>3. CASE op = "pause"
      BY <2>1, <3>2, <3>3 DEF Controlled, Permitted, CanMove, AllowedTransitions, Statuses
    <3>4. CASE op = "cancel"
      <4>1. new.status = "CANCELLED"
        BY <1>0, <3>4 DEF Controlled, MoveTo, AdvanceGeneration, Tasks
      <4>2. old.status \in {"PENDING", "QUEUED", "RUNNING", "PAUSED"}
        BY <2>1, <3>4 DEF Permitted
      <4>3. QED
        BY <4>1, <4>2 DEF CanMove, AllowedTransitions, Statuses
    <3>5. CASE op = "resume"
      BY <2>1, <3>2, <3>5 DEF Controlled, Permitted, CanMove, AllowedTransitions, Statuses
    <3>6. CASE op = "delete"
      <4>1. CASE old.status \in {"PENDING", "QUEUED", "RUNNING", "PAUSED"}
        <5>1. new.status = "CANCELLED"
          BY <1>0, <3>6, <4>1 DEF Controlled, Trashed, MoveTo, AdvanceGeneration, Tasks
        <5>2. QED
          BY <4>1, <5>1 DEF CanMove, AllowedTransitions, Statuses
      <4>2. CASE old.status \notin {"PENDING", "QUEUED", "RUNNING", "PAUSED"}
        BY <1>0, <3>6, <4>2 DEF Controlled, Trashed, CanMove, Tasks
      <4>3. QED
        BY <4>1, <4>2
    <3>7. CASE op = "restore"
      BY <1>0, <3>7 DEF Controlled, CanMove, Tasks
    <3>8. QED
      BY <2>1, <3>3, <3>4, <3>5, <3>6, <3>7 DEF Operations, Permitted
  <2>3. req'[r].pc # "ready"
    <3> HIDE DEF new
    <3>1. \/ Finished(r)
          \/ req' = [req EXCEPT ![r].copy = new, ![r].pc = "enqueue"]
      BY <1>2 DEF Control, new
    <3>2. ASSUME Finished(r) PROVE req'[r].pc = "idle"
      BY <3>2 DEF Finished, IdleRequest, TypeInv, TypeOK
    <3>3. ASSUME req' = [req EXCEPT ![r].copy = new, ![r].pc = "enqueue"]
          PROVE  req'[r].pc = "enqueue"
      BY <3>3 DEF TypeInv, TypeOK, RequestSlots
    <3>4. QED
      BY <3>1, <3>2, <3>3
  <2>4. req'[r] # req[r]
    BY <1>2, <2>3 DEF Control
  <2>5. QED
    BY <1>0, <2>1, <2>2, <2>4, ClosedCopyKeepsStatus
<1>3. ASSUME Purge(r) PROVE FALSE
  BY <1>0, <1>3 DEF Reopens, Purge, NoTask
<1>4. ASSUME Create(r) PROVE FALSE
  BY <1>0, <1>4 DEF Create
<1>5. ASSUME NoteDispatch(r) PROVE FALSE
  BY <1>0, <1>5, ExtraWrites DEF NoteDispatch, TypeInv, TypeOK
<1>6. QED
  BY <1>0, <1>1, <1>2, <1>3, <1>4, <1>5
     DEF RequestStep, TakeSnapshot, Load, Probe, Recheck, Reinspect, Reload, Reply,
         Enqueue, RequestDies

LEMMA WorkerReopensFromOlderRead ==
  ASSUME TypeInv, NeverStored, Reopens, NEW w \in Workers, WorkerStep(w)
  PROVE  run'[w] # run[w] /\ run[w].copy.status # row.status
<1> DEFINE old == run[w].copy
<1>0. /\ row.life = "stored" /\ row' # row
      /\ row.status \in Closed /\ row'.status # row.status
  <2>1. row' # row
    BY DEF Reopens
  <2>2. row.life # "purged"
    BY <2>1, StepKeepsPurged DEF Next
  <2>3. QED
    BY <2>1, <2>2, StoredBefore DEF Reopens, TypeInv, TypeOK, Tasks
<1>1. run[w].pc # "idle" => old \in Tasks
  BY BusyTypes
<1>2. ASSUME run[w].pc # "idle", Stopped(w) PROVE run'[w] # run[w]
  BY <1>2 DEF Stopped, IdleRun, TypeInv, TypeOK
<1>3. CASE OverloadCommit(w)
  <2> DEFINE new == [MoveTo(old, "FAILED") EXCEPT !.extra.cid = run[w].msg.id]
  <2>1. new.status = "FAILED"
    BY <1>1, <1>3 DEF OverloadCommit, MoveTo, Tasks
  <2>2. /\ Commit(FlushAll(old, new)) /\ CanMove(old.status, "FAILED")
        /\ Stopped(w) /\ run[w].pc # "idle"
    BY <1>0, <1>3 DEF OverloadCommit
  <2> HIDE DEF new, old
  <2>3. old.status # row.status
    BY <1>0, <2>1, <2>2, ClosedCopyKeepsStatus
  <2>4. QED
    BY <1>2, <2>2, <2>3 DEF old
<1>4. CASE Begin(w)
  <2> DEFINE moved == IF old.status = "QUEUED" THEN MoveTo(old, "RUNNING") ELSE old
             new == [moved EXCEPT !.extra.cid = run[w].msg.id]
  <2>1. old \in Tasks
    BY <1>1, <1>4 DEF Begin
  <2>2. moved \in Tasks
        /\ moved.status = IF old.status = "QUEUED" THEN "RUNNING" ELSE old.status
    BY <2>1, MoveToType, MoveToWrites DEF Statuses
  <2>3. new.status = moved.status
    <3> HIDE DEF moved
    <3>1. QED
      BY <2>2 DEF Tasks
  <2>4. Commit(FlushAll(old, new)) /\ run[w].pc = "begin"
    BY <1>4 DEF Begin
  <2>5. CanMove(old.status, new.status)
    <3> HIDE DEF moved, new
    <3>1. QED
      BY <2>2, <2>3 DEF CanMove, AllowedTransitions, Statuses
  <2>6. run' = [run EXCEPT ![w].pc = "expand", ![w].copy = new]
    BY <1>0, <1>4 DEF Begin
  <2> HIDE DEF new, old, moved
  <2>7. run'[w] # run[w]
    BY <2>4, <2>6 DEF TypeInv, TypeOK, RunSlots
  <2>8. old.status # row.status
    BY <1>0, <2>4, <2>5, ClosedCopyKeepsStatus
  <2>9. QED
    BY <2>7, <2>8 DEF old
<1>5. ASSUME Expand(w) PROVE FALSE
  <2> DEFINE new == [old EXCEPT !.extra.exp = "done"]
  <2>1. old \in Tasks /\ new.status = old.status
    BY <1>1, <1>5 DEF Expand, Tasks
  <2>2. Commit(FlushAll(old, new))
    BY <1>5 DEF Expand
  <2> HIDE DEF new, old
  <2>3. QED
    BY <1>0, <2>1, <2>2, FlushWrites
<1>6. ASSUME Progress(w) PROVE FALSE
  BY <1>0, <1>6, FlushWrites DEF Progress
<1>7. CASE FailCommit(w) \/ \E final \in Outcomes : Finish(w, final)
  <2>1. PICK s \in Statuses : /\ \/ Commit(Flush(old, MoveTo(old, s)))
                                 \/ Commit(FlushAll(old, MoveTo(old, s)))
                              /\ CanMove(old.status, s)
    BY <1>0, <1>7 DEF FailCommit, Finish, Outcomes, Statuses
  <2>2. Stopped(w) /\ run[w].pc # "idle"
    BY <1>7 DEF FailCommit, Finish
  <2>3. MoveTo(old, s).status = s
    BY <1>1, <2>2, MoveToWrites
  <2>4. QED
    BY <1>0, <1>2, <2>1, <2>2, <2>3, ClosedCopyKeepsStatus
<1>8. QED
  BY <1>0, <1>3, <1>4, <1>5, <1>6, <1>7
     DEF WorkerStep, Deliver, Admit, Overload, PipelineError, WorkerDies

\* A closed task changes status only at the hand of a session that read it
\* before it was closed.
THEOREM ClosedHolds == Spec => ClosedYieldsOnlyToOlderReads
<1> DEFINE Inv == TypeInv /\ HandlerCopies /\ NeverStored
<1>1. Init => HandlerCopies /\ NeverStored
  BY DEF Init, HandlerCopies, NeverStored, NoTask, IdleRequest
<1>2. Inv /\ [Next]_vars => HandlerCopies' /\ NeverStored'
  BY StepKeepsCopies, StepKeepsNeverStored
<1>3. Inv /\ [Next]_vars =>
        [(row.status \in Closed /\ row'.life = "stored"
            /\ row'.status # row.status) =>
           \/ \E w \in Workers : /\ run'[w] # run[w]
                                 /\ run[w].copy.status # row.status
           \/ \E r \in Requests : /\ req'[r] # req[r]
                                  /\ req[r].copy.status # row.status]_vars
  <2> SUFFICES ASSUME Inv, [Next]_vars, Reopens
               PROVE  \/ \E w \in Workers : /\ run'[w] # run[w]
                                            /\ run[w].copy.status # row.status
                      \/ \E r \in Requests : /\ req'[r] # req[r]
                                             /\ req[r].copy.status # row.status
    BY DEF Reopens
  <2>1. CASE \E r \in Requests : RequestStep(r)
    BY <2>1, RequestReopensFromOlderRead
  <2>2. CASE \E w \in Workers : WorkerStep(w)
    BY <2>2, WorkerReopensFromOlderRead
  <2>3. ASSUME NEW w \in Workers, BeatStep(w) PROVE FALSE
    BY <2>3, ExtraWrites DEF BeatStep, BeatRead, BeatWrite, BeatDies, Reopens,
       TypeInv, TypeOK
  <2>4. QED
    BY <2>1, <2>2, <2>3 DEF Next, BecomeStale, vars, Reopens
<1>4. QED
  BY <1>1, <1>2, <1>3, SpecTypeInv, PTL DEF Spec, ClosedYieldsOnlyToOlderReads

-----------------------------------------------------------------------------
(* Silent stalls, where nobody resumes the task.  Its creation is then its *)
(* only dispatch: a QUEUED row is still as it was inserted and every       *)
(* session that has read it saw it QUEUED, so whatever a session commits   *)
(* next moves it on.                                                       *)

NoResume == \A r \in Requests : "resume" \notin OpsOf[r]

NothingBefore ==
  row.life = "none" =>
    /\ broker = {}
    /\ \A w \in Workers : run[w].pc = "idle" /\ beat[w].pc = "off"
    /\ \A r \in Requests : req[r].pc \in {"idle", "listing"}

GonePending == row.life # "stored" => row.status = "PENDING"

OneDispatch ==
  /\ \A m \in broker : m.gen = 1
  /\ \A w \in Workers : run[w].pc # "idle" => run[w].msg.gen = 1
  /\ \A r \in Requests :
       /\ req[r].op # "resume"
       /\ req[r].pc \in {"enqueue", "note"} => req[r].copy.extra.gen = 1

Untouched(w) ==
  /\ run[w].pc \in {"idle", "gate", "overload", "begin"}
  /\ run[w].pc \in {"overload", "begin"} => run[w].copy.status = "QUEUED"
  /\ beat[w].pc = "off"

SeenQueued(r) ==
  req[r].pc \notin {"idle", "listing"} =>
    req[r].pc # "reload" /\ req[r].copy.status = "QUEUED"

QueuedUntouched ==
  row.status = "QUEUED" =>
    /\ ~row.trashed /\ row.extra.gen = 1
    /\ \A w \in Workers : Untouched(w)
    /\ \A r \in Requests : SeenQueued(r)

QueuedCarried ==
  row.status = "QUEUED" /\ faults = 0 =>
    \/ broker # {}
    \/ \E r \in Requests : req[r].pc = "enqueue"
    \/ \E w \in Workers : run[w].pc # "idle"

Executes(w) ==
  /\ run[w].pc \in {"expand", "work", "failing"}
  /\ run[w].copy.status = "RUNNING"

RunningExecuted ==
  row.status = "RUNNING" /\ faults = 0 => \E w \in Workers : Executes(w)

StallInv ==
  /\ NothingBefore /\ GonePending /\ OneDispatch
  /\ QueuedUntouched /\ QueuedCarried /\ RunningExecuted

(* What a commit makes of the row's status. *)

LEMMA FlushMoves ==
  ASSUME NEW old, NEW new, row.life = "stored", old.status # new.status,
         Commit(Flush(old, new)) \/ Commit(FlushAll(old, new))
  PROVE  row'.status = new.status
<1>1. new # old
  OBVIOUS
<1>2. QED
  BY <1>1 DEF Commit, Flush, FlushAll, Changed

\* Without resume a control leads to PAUSED or CANCELLED, or leaves the
\* status as the handler read it; only restore does so for a QUEUED task.
LEMMA ControlledStatus ==
  ASSUME NEW op \in Operations, NEW t \in Tasks, Permitted(op, t.status),
         op \notin {"purge", "resume"}
  PROVE  /\ Controlled(op, t).status \in {"PAUSED", "CANCELLED", t.status}
         /\ t.status = "QUEUED" /\ op # "restore" =>
              Controlled(op, t).status \in {"PAUSED", "CANCELLED"}
<1>1. CASE op \in {"pause", "cancel"}
  BY <1>1 DEF Controlled, MoveTo, AdvanceGeneration, Tasks
<1>2. CASE op = "delete"
  BY <1>2 DEF Controlled, Trashed, MoveTo, AdvanceGeneration, Tasks
<1>3. CASE op = "restore"
  BY <1>3 DEF Controlled, Tasks
<1>4. QED
  BY <1>1, <1>2, <1>3 DEF Operations, Permitted

LEMMA BeginMoves ==
  ASSUME TypeInv, NEW w \in Workers, Begin(w)
  PROVE  /\ row.life = "stored" =>
              /\ run[w].copy.status = "QUEUED" => row'.status = "RUNNING"
              /\ run'[w].pc = "expand"
              /\ run'[w].copy.status = IF run[w].copy.status = "QUEUED"
                                         THEN "RUNNING" ELSE run[w].copy.status
         /\ row'.status # row.status =>
              run[w].copy.status = "QUEUED" /\ row'.status = "RUNNING"
<1> DEFINE old == run[w].copy
           moved == IF old.status = "QUEUED" THEN MoveTo(old, "RUNNING") ELSE old
           new == [moved EXCEPT !.extra.cid = run[w].msg.id]
<1>1. old \in Tasks /\ run[w].pc = "begin"
  BY BusyTypes DEF Begin
<1>2. moved \in Tasks
      /\ moved.status = IF old.status = "QUEUED" THEN "RUNNING" ELSE old.status
  BY <1>1, MoveToType, MoveToWrites DEF Statuses
<1>3. new.status = moved.status
  <2> HIDE DEF moved
  <2>1. QED
    BY <1>2 DEF Tasks
<1>4. Commit(FlushAll(old, new))
  BY DEF Begin
<1>5. row.life = "stored" => run' = [run EXCEPT ![w].pc = "expand", ![w].copy = new]
  BY DEF Begin
<1> HIDE DEF new, moved
<1>6. row.life = "stored" => run'[w].pc = "expand" /\ run'[w].copy = new
  BY <1>5 DEF TypeInv, TypeOK, RunSlots
<1>7. row'.status # row.status => old.status # new.status /\ row'.status = new.status
  BY <1>4, FlushWrites
<1>8. row.life = "stored" /\ old.status # new.status => row'.status = new.status
  BY <1>4, FlushMoves
<1>9. QED
  BY <1>2, <1>3, <1>6, <1>7, <1>8

LEMMA OverloadWrites ==
  ASSUME TypeInv, NEW w \in Workers, OverloadCommit(w)
  PROVE  /\ row'.status # row.status => row'.status = "FAILED"
         /\ row.life = "stored" /\ run[w].copy.status = "QUEUED" =>
              row'.status = "FAILED"
<1> DEFINE old == run[w].copy
           new == [MoveTo(old, "FAILED") EXCEPT !.extra.cid = run[w].msg.id]
<1>1. old \in Tasks
  BY BusyTypes DEF OverloadCommit
<1>2. new.status = "FAILED"
  BY <1>1 DEF MoveTo, Tasks
<1>3. CanMove("QUEUED", "FAILED")
  BY DEF CanMove, AllowedTransitions, Statuses
<1>4. /\ CanMove(old.status, "FAILED") => Commit(FlushAll(old, new))
      /\ ~CanMove(old.status, "FAILED") => row' = row
  BY DEF OverloadCommit
<1> HIDE DEF new
<1>5. QED
  BY <1>2, <1>3, <1>4, FlushWrites, FlushMoves

LEMMA FailureMoves ==
  ASSUME NEW t \in Tasks, Commit(Flush(t, MoveTo(t, "FAILED")))
  PROVE  /\ row'.status # row.status => row'.status = "FAILED"
         /\ row.life = "stored" /\ t.status # "FAILED" => row'.status = "FAILED"
<1>1. MoveTo(t, "FAILED").status = "FAILED"
  BY MoveToWrites DEF Statuses
<1>2. QED
  BY <1>1, FlushWrites, FlushMoves

\* A row becomes QUEUED by its creation and RUNNING by a call that read it
\* QUEUED, and in no other way.
LEMMA StatusSources ==
  ASSUME TypeInv, OneDispatch, [Next]_vars, row'.status # row.status
  PROVE  \/ \E r \in Requests : Create(r)
         \/ row'.status \notin {"QUEUED", "RUNNING"}
         \/ /\ row'.status = "RUNNING"
            /\ \E w \in Workers : Begin(w) /\ run[w].copy.status = "QUEUED"
<1>1. ASSUME NEW r \in Requests, RequestStep(r), ~Create(r)
      PROVE  row'.status \notin {"QUEUED", "RUNNING"}
  <2>1. CASE Doom(r) \/ EnqueueError(r)
    <3>1. req[r].copy \in Tasks
      BY DEF TypeInv, TypeOK, RequestSlots
    <3>2. QED
      BY <2>1, <3>1, FailureMoves DEF Doom, EnqueueError
  <2>2. CASE Control(r)
    <3> DEFINE new == Controlled(req[r].op, req[r].copy)
    <3>1. new.status \in {"PAUSED", "CANCELLED", req[r].copy.status}
      BY <2>2, ControlledStatus DEF Control, OneDispatch, TypeInv, TypeOK, RequestSlots
    <3>2. Commit(Flush(req[r].copy, new))
      BY <2>2 DEF Control
    <3> HIDE DEF new
    <3>3. QED
      BY <3>1, <3>2, FlushWrites
  <2>3. CASE Purge(r)
    BY <2>3 DEF Purge, NoTask
  <2>4. CASE NoteDispatch(r)
    BY <2>4, ExtraWrites DEF NoteDispatch, TypeInv, TypeOK
  <2>5. QED
    BY <1>1, <2>1, <2>2, <2>3, <2>4
       DEF RequestStep, TakeSnapshot, Load, Probe, Recheck, Reinspect, Reload, Reply,
           Enqueue, RequestDies
<1>2. ASSUME NEW w \in Workers, WorkerStep(w), ~Begin(w)
      PROVE  row'.status \notin {"QUEUED", "RUNNING"}
  <2> DEFINE old == run[w].copy
  <2>1. CASE OverloadCommit(w)
    BY <2>1, OverloadWrites
  <2>2. CASE Expand(w)
    <3> DEFINE new == [old EXCEPT !.extra.exp = "done"]
    <3>1. Commit(FlushAll(old, new)) /\ old.status = new.status
      BY <2>2, BusyTypes DEF Expand, Tasks
    <3> HIDE DEF new
    <3>2. QED
      BY <3>1, FlushWrites
  <2>3. CASE Progress(w)
    BY <2>3, FlushWrites DEF Progress
  <2>4. CASE FailCommit(w) \/ \E final \in Outcomes : Finish(w, final)
    <3>1. PICK s \in {"SUCCESS", "PARTIAL_SUCCESS", "FAILED"} :
            \/ Commit(Flush(old, MoveTo(old, s)))
            \/ Commit(FlushAll(old, MoveTo(old, s)))
      BY <2>4 DEF FailCommit, Finish, Outcomes
    <3>2. MoveTo(old, s).status = s
      BY <2>4, BusyTypes, MoveToWrites DEF FailCommit, Finish, Statuses
    <3>3. QED
      BY <3>1, <3>2, FlushWrites
  <2>5. QED
    BY <1>2, <2>1, <2>2, <2>3, <2>4
       DEF WorkerStep, Deliver, Admit, Overload, PipelineError, WorkerDies
<1>3. ASSUME NEW w \in Workers, Begin(w)
      PROVE  run[w].copy.status = "QUEUED" /\ row'.status = "RUNNING"
  BY <1>3, BeginMoves
<1>4. ASSUME NEW w \in Workers, BeatStep(w) PROVE FALSE
  BY <1>4, ExtraWrites DEF BeatStep, BeatRead, BeatWrite, BeatDies, TypeInv, TypeOK
<1>5. QED
  BY <1>1, <1>2, <1>3, <1>4 DEF Next, BecomeStale, vars

-----------------------------------------------------------------------------
(* Each part of the invariant is preserved. *)

LEMMA StepKeepsNothingBefore ==
  ASSUME TypeInv, NothingBefore, [Next]_vars PROVE NothingBefore'
<1> SUFFICES ASSUME row'.life = "none"
             PROVE  /\ broker' = {}
                    /\ \A w \in Workers : run'[w].pc = "idle" /\ beat'[w].pc = "off"
                    /\ \A r \in Requests : req'[r].pc \in {"idle", "listing"}
  BY DEF NothingBefore
<1>1. /\ row.life = "none" /\ broker = {}
      /\ \A w \in Workers : run[w].pc = "idle" /\ beat[w].pc = "off"
      /\ \A r \in Requests : req[r].pc \in {"idle", "listing"}
  BY RowAfterStep DEF NothingBefore
<1>2. ASSUME NEW r \in Requests, RequestStep(r) PROVE TakeSnapshot(r)
  <2>1. ~Create(r)
    BY DEF Create, MoveTo, AdvanceGeneration, NoTask
  <2>2. QED
    BY <1>1, <1>2, <2>1
       DEF RequestStep, Load, Visible, Probe, Recheck, Reinspect, Doom, Reload, Reply,
           Control, Purge, Enqueue, EnqueueError, NoteDispatch, RequestDies
<1>3. ASSUME NEW w \in Workers, WorkerStep(w) \/ BeatStep(w) PROVE FALSE
  BY <1>1, <1>3
     DEF WorkerStep, Deliver, Admit, Overload, OverloadCommit, Begin, Expand,
         Progress, Finish, PipelineError, FailCommit, WorkerDies,
         BeatStep, BeatRead, BeatWrite, BeatDies
<1>4. ASSUME NEW r \in Requests, TakeSnapshot(r)
      PROVE  /\ broker' = broker /\ run' = run /\ beat' = beat
             /\ \A q \in Requests : req'[q].pc \in {"idle", "listing"}
  BY <1>1, <1>4 DEF TakeSnapshot, TypeInv, TypeOK, RequestSlots
<1>5. QED
  BY <1>1, <1>2, <1>3, <1>4 DEF Next, BecomeStale, vars

LEMMA StepKeepsGonePending ==
  ASSUME TypeInv, GonePending, [Next]_vars PROVE GonePending'
BY RowAfterStep DEF GonePending

LEMMA CreatedOnce ==
  ASSUME TypeInv, NEW r \in Requests, Create(r)
  PROVE  /\ row'.status = "QUEUED" /\ ~row'.trashed /\ row'.extra.gen = 1
         /\ req'[r].pc = "enqueue" /\ req'[r].op = "create" /\ req'[r].copy = row'
<1>1. row' = [MoveTo(AdvanceGeneration(NoTask), "QUEUED") EXCEPT !.life = "stored"]
  BY DEF Create
<1>2. row'.status = "QUEUED" /\ ~row'.trashed /\ row'.extra.gen = 1
  BY <1>1 DEF MoveTo, AdvanceGeneration, NoTask
<1>3. req' = [req EXCEPT ![r] = [IdleRequest EXCEPT !.pc = "enqueue",
                                    !.op = "create", !.copy = row']]
  BY <1>1 DEF Create
<1>4. QED
  BY <1>2, <1>3 DEF TypeInv, TypeOK, IdleRequest

LEMMA StepKeepsOneDispatch ==
  ASSUME TypeInv, NoResume, OneDispatch, [Next]_vars PROVE OneDispatch'
<1> DEFINE One(r) == /\ req[r].op # "resume"
                     /\ req[r].pc \in {"enqueue", "note"} =>
                          req[r].copy.extra.gen = 1
<1>1. ASSUME NEW r \in Requests, RequestStep(r)
      PROVE  One(r)' /\ run' = run /\ \A m \in broker' : m.gen = 1
  <2>1. run' = run
    BY <1>1 DEF RequestStep, Create, TakeSnapshot, Load, Probe, Recheck, Reinspect, Doom,
       Reload, Reply, Control, Purge, Enqueue, EnqueueError, NoteDispatch,
       RequestDies
  <2>2. CASE Create(r)
    BY <2>1, <2>2, CreatedOnce DEF Create, OneDispatch
  <2>3. CASE TakeSnapshot(r) \/ \E op \in Operations : Load(r, op)
    <3>1. req'[r].op # "resume" /\ req'[r].pc \in {"listing", "probe", "ready"}
      <4>1. CASE TakeSnapshot(r)
        BY <4>1 DEF TakeSnapshot, IdleRequest, TypeInv, TypeOK
      <4>2. ASSUME NEW op \in Operations, Load(r, op)
            PROVE  /\ req'[r].op = op /\ op \in OpsOf[r]
                   /\ req'[r].pc \in {"probe", "ready"}
        BY <4>2 DEF Load, TypeInv, TypeOK, RequestSlots
      <4>3. QED
        BY <2>3, <4>1, <4>2 DEF NoResume
    <3>2. broker' = broker
      BY <2>3 DEF TakeSnapshot, Load
    <3>3. QED
      BY <2>1, <3>1, <3>2 DEF OneDispatch
  <2>4. CASE Enqueue(r)
    <3>1. /\ req'[r].op = req[r].op /\ req[r].pc = "enqueue"
          /\ req'[r].copy.extra.gen = req[r].copy.extra.gen
      BY <2>4 DEF Enqueue, StepTo, TypeInv, TypeOK, RequestSlots, Tasks, Extras
    <3>2. \A m \in broker' : m \in broker \/ m.gen = req[r].copy.extra.gen
      BY <2>4 DEF Enqueue
    <3>3. QED
      BY <2>1, <3>1, <3>2 DEF OneDispatch
  <2>5. CASE Probe(r) \/ Recheck(r) \/ Reinspect(r) \/ Doom(r) \/ Reload(r)
    <3>1. ASSUME StepTo(r, "ready") \/ StepTo(r, "recheck") \/ StepTo(r, "reload")
                 \/ StepTo(r, "doom") \/ Finished(r)
          PROVE  One(r)'
      BY <3>1 DEF StepTo, Finished, IdleRequest, OneDispatch, TypeInv, TypeOK, RequestSlots
    <3>2. One(r)'
      BY <2>5, <3>1 DEF Probe, Recheck, Reinspect, Doom, Reload, OneDispatch, TypeInv,
         TypeOK, RequestSlots
    <3>3. QED
      BY <2>1, <2>5, <3>2 DEF Probe, Recheck, Reinspect, Doom, Reload, OneDispatch
  <2>6. CASE Reply(r) \/ Control(r) \/ Purge(r) \/ EnqueueError(r)
              \/ NoteDispatch(r) \/ RequestDies(r)
    <3>1. Finished(r) /\ broker' = broker
      BY <2>6 DEF Reply, Control, Purge, EnqueueError, NoteDispatch, RequestDies,
         OneDispatch
    <3>2. QED
      BY <2>1, <3>1 DEF Finished, IdleRequest, OneDispatch, TypeInv, TypeOK
  <2>7. QED
    BY <1>1, <2>2, <2>3, <2>4, <2>5, <2>6 DEF RequestStep
<1>2. ASSUME NEW w \in Workers, WorkerStep(w)
      PROVE  /\ run'[w].pc # "idle" => run'[w].msg.gen = 1
             /\ \A v \in Workers : v # w => run'[v] = run[v]
             /\ broker' \subseteq broker /\ req' = req
  <2>1. ASSUME NEW m \in broker, Deliver(w, m)
        PROVE  /\ run'[w].msg = m /\ broker' \subseteq broker /\ req' = req
               /\ \A v \in Workers : v # w => run'[v] = run[v]
    BY <2>1 DEF Deliver, IdleRun, TypeInv, TypeOK
  <2>2. ASSUME Stopped(w)
        PROVE  /\ run'[w].pc = "idle"
               /\ \A v \in Workers : v # w => run'[v] = run[v]
    BY <2>2 DEF Stopped, IdleRun, TypeInv, TypeOK
  <2>3. ASSUME NEW pc, NEW copy, run' = [run EXCEPT ![w].pc = pc, ![w].copy = copy]
        PROVE  /\ run'[w].msg = run[w].msg
               /\ \A v \in Workers : v # w => run'[v] = run[v]
    BY <2>3 DEF TypeInv, TypeOK, RunSlots
  <2>4. CASE Admit(w) \/ Overload(w) \/ Begin(w) \/ Expand(w) \/ PipelineError(w)
    <3>1. /\ \/ Stopped(w)
             \/ \E pc, copy : run' = [run EXCEPT ![w].pc = pc, ![w].copy = copy]
          /\ run[w].pc # "idle" /\ broker' = broker /\ req' = req
      <4>1. CASE Admit(w) \/ Overload(w)
        BY <4>1 DEF Admit, Overload
      <4>2. CASE Begin(w)
        BY <4>2 DEF Begin
      <4>3. CASE Expand(w)
        BY <4>3 DEF Expand
      <4>4. CASE PipelineError(w)
        BY <4>4 DEF PipelineError
      <4>5. QED
        BY <2>4, <4>1, <4>2, <4>3, <4>4
    <3>2. CASE Stopped(w)
      BY <2>2, <3>1, <3>2
    <3>3. CASE \E pc, copy : run' = [run EXCEPT ![w].pc = pc, ![w].copy = copy]
      <4>1. PICK pc, copy : run' = [run EXCEPT ![w].pc = pc, ![w].copy = copy]
        BY <3>3
      <4>2. /\ run'[w].msg = run[w].msg
            /\ \A v \in Workers : v # w => run'[v] = run[v]
        BY <2>3, <4>1
      <4>3. QED
        BY <3>1, <4>2 DEF OneDispatch
    <3>4. QED
      BY <3>1, <3>2, <3>3
  <2>5. CASE OverloadCommit(w) \/ Progress(w) \/ FailCommit(w) \/ WorkerDies(w)
              \/ \E final \in Outcomes : Finish(w, final)
    BY <2>2, <2>5 DEF OverloadCommit, Progress, Finish, FailCommit, WorkerDies,
       OneDispatch
  <2>6. QED
    BY <1>2, <2>1, <2>4, <2>5 DEF WorkerStep, OneDispatch
<1>3. ASSUME UNCHANGED <<broker, run, req>> PROVE OneDispatch'
  BY <1>3 DEF OneDispatch
<1>4. ASSUME NEW w \in Workers, BeatStep(w) PROVE UNCHANGED <<broker, run, req>>
  BY <1>4 DEF BeatStep, BeatRead, BeatWrite, BeatDies
<1>5. ASSUME NEW r \in Requests, RequestStep(r) PROVE OneDispatch'
  BY <1>1, <1>5, OthersUnmoved DEF OneDispatch
<1>6. ASSUME NEW w \in Workers, WorkerStep(w) PROVE OneDispatch'
  BY <1>2, <1>6 DEF OneDispatch
<1>7. QED
  BY <1>3, <1>4, <1>5, <1>6 DEF Next, BecomeStale, vars

\* While the row stays QUEUED, nobody has committed a decision about it.
StillQueued == row.status = "QUEUED" /\ row'.status = "QUEUED"

LEMMA QueuedRequestSteps ==
  ASSUME TypeInv, GonePending, OneDispatch, QueuedUntouched, StillQueued,
         NEW r \in Requests, RequestStep(r)
  PROVE  \/ TakeSnapshot(r) \/ Probe(r) \/ Recheck(r) \/ Reinspect(r) \/ Reply(r)
         \/ \E op \in Operations : Load(r, op)
         \/ Control(r) /\ req[r].op = "restore"
         \/ Enqueue(r) \/ NoteDispatch(r) \/ RequestDies(r)
<1> DEFINE old == req[r].copy
<1>1. row.life = "stored" /\ row.status = "QUEUED" /\ row'.status = "QUEUED"
  BY DEF GonePending, StillQueued
<1>2. req[r].pc \notin {"idle", "listing"} =>
        old \in Tasks /\ req[r].pc # "reload" /\ old.status = "QUEUED"
  BY <1>1 DEF QueuedUntouched, SeenQueued, TypeInv, TypeOK, RequestSlots
<1>3. ~(Doom(r) \/ EnqueueError(r))
  BY <1>1, <1>2, FailureMoves DEF Doom, EnqueueError
<1>4. Control(r) => req[r].op = "restore"
  <2> SUFFICES ASSUME Control(r), req[r].op # "restore" PROVE FALSE
    OBVIOUS
  <2> DEFINE new == Controlled(req[r].op, old)
  <2>1. new.status \in {"PAUSED", "CANCELLED"}
    BY <1>2, ControlledStatus DEF Control, OneDispatch, TypeInv, TypeOK, RequestSlots
  <2>2. Commit(Flush(old, new)) /\ old.status = "QUEUED"
    BY <1>2 DEF Control
  <2> HIDE DEF new
  <2>3. QED
    BY <1>1, <2>1, <2>2, FlushMoves
<1>5. ~Purge(r) /\ ~Reload(r) /\ ~Create(r)
  BY <1>1, <1>2 DEF Purge, NoTask, Reload, Create
<1>6. QED
  BY <1>3, <1>4, <1>5 DEF RequestStep

LEMMA QueuedWorkerSteps ==
  ASSUME TypeInv, GonePending, QueuedUntouched, StillQueued,
         NEW w \in Workers, WorkerStep(w) \/ BeatStep(w)
  PROVE  (\E m \in broker : Deliver(w, m)) \/ Admit(w) \/ Overload(w) \/ WorkerDies(w)
<1>1. /\ row.life = "stored" /\ row.status = "QUEUED" /\ row'.status = "QUEUED"
      /\ Untouched(w)
  BY DEF GonePending, StillQueued, QueuedUntouched
<1>2. ~OverloadCommit(w)
  BY <1>1, OverloadWrites DEF Untouched, OverloadCommit
<1>3. ~Begin(w)
  BY <1>1, BeginMoves DEF Untouched, Begin
<1>4. ~BeatStep(w)
  BY <1>1 DEF Untouched, BeatStep, BeatRead, BeatWrite, BeatDies
<1>5. QED
  BY <1>1, <1>2, <1>3, <1>4
     DEF Untouched, WorkerStep, Expand, Progress, Finish, PipelineError, FailCommit

LEMMA QueuedRequestKeeps ==
  ASSUME TypeInv, GonePending, OneDispatch, QueuedUntouched, StillQueued,
         NEW r \in Requests, RequestStep(r)
  PROVE  SeenQueued(r)' /\ ~row'.trashed /\ row'.extra.gen = 1
<1>1. /\ row.life = "stored" /\ row.status = "QUEUED"
      /\ ~row.trashed /\ row.extra.gen = 1 /\ row \in Tasks /\ SeenQueued(r)
  BY DEF GonePending, StillQueued, QueuedUntouched, TypeInv, TypeOK
<1> USE DEF TypeInv, TypeOK, RequestSlots
<1>2. CASE TakeSnapshot(r) \/ Probe(r) \/ Reinspect(r) \/ Reply(r) \/ RequestDies(r)
  <2>1. ASSUME TakeSnapshot(r) PROVE req'[r].pc = "listing"
    BY <2>1 DEF TakeSnapshot
  <2>2. ASSUME Probe(r)
        PROVE  req'[r].pc \in {"ready", "recheck"} /\ req'[r].copy = req[r].copy
               /\ req[r].pc = "probe"
    BY <2>2 DEF Probe, StepTo
  <2>3. ASSUME Finished(r) PROVE req'[r].pc = "idle"
    BY <2>3 DEF Finished, IdleRequest
  <2>4. ASSUME Reinspect(r)
        PROVE  req'[r].pc \in {"ready", "doom"} /\ req'[r].copy = req[r].copy
               /\ req[r].pc = "reinspect"
    BY <2>4 DEF Reinspect, StepTo
  <2>5. SeenQueued(r)'
    BY <1>1, <1>2, <2>1, <2>2, <2>3, <2>4 DEF Reply, RequestDies, SeenQueued
  <2>6. row' = row
    BY <1>2 DEF TakeSnapshot, Probe, Reinspect, Reply, RequestDies
  <2>7. QED
    BY <1>1, <2>5, <2>6
<1>3. CASE Recheck(r)
  BY <1>1, <1>3 DEF Recheck, SeenQueued
<1>4. ASSUME NEW op \in Operations, Load(r, op)
      PROVE  SeenQueued(r)' /\ ~row'.trashed /\ row'.extra.gen = 1
  <2>1. req'[r].pc \in {"probe", "ready"} /\ req'[r].copy = row /\ row' = row
    BY <1>4 DEF Load
  <2>2. QED
    BY <1>1, <2>1 DEF SeenQueued
<1>5. CASE Control(r) /\ req[r].op = "restore"
  <2> DEFINE new == [req[r].copy EXCEPT !.trashed = FALSE]
  <2>1. Commit(Flush(req[r].copy, new)) /\ Finished(r)
    BY <1>5 DEF Control, Controlled
  <2>2. new.extra = req[r].copy.extra /\ ~new.trashed
    BY DEF Tasks
  <2> HIDE DEF new
  <2>3. row'.extra = row.extra /\ ~row'.trashed
    BY <1>1, <2>1, <2>2 DEF Commit, Flush, Changed
  <2>4. QED
    BY <1>1, <2>1, <2>3 DEF Finished, IdleRequest, SeenQueued
<1>6. CASE Enqueue(r)
  <2>1. req'[r].pc \in {"note", "unanswered"}
        /\ req'[r].copy.status = req[r].copy.status
    BY <1>6 DEF Enqueue, StepTo, Tasks, Extras
  <2>2. row' = row /\ req[r].pc = "enqueue"
    BY <1>6 DEF Enqueue
  <2>3. QED
    BY <1>1, <2>1, <2>2 DEF SeenQueued
<1>7. CASE NoteDispatch(r)
  <2>1. Finished(r) /\ Commit([row EXCEPT !.extra = req[r].copy.extra])
        /\ req[r].copy.extra.gen = 1
    BY <1>7 DEF NoteDispatch, OneDispatch
  <2>2. ~row'.trashed /\ row'.extra.gen = 1
    BY <1>1, <2>1 DEF Commit, Tasks
  <2>3. QED
    BY <2>1, <2>2 DEF Finished, IdleRequest, SeenQueued
<1>8. QED
  BY <1>2, <1>3, <1>4, <1>5, <1>6, <1>7, QueuedRequestSteps

LEMMA QueuedWorkerKeeps ==
  ASSUME TypeInv, GonePending, OneDispatch, QueuedUntouched, StillQueued,
         NEW w \in Workers, WorkerStep(w) \/ BeatStep(w)
  PROVE  /\ Untouched(w)' /\ row' = row /\ req' = req
         /\ \A v \in Workers : v # w => run'[v] = run[v] /\ beat'[v] = beat[v]
         /\ faults' = faults => run'[w].pc # "idle"
<1>1. /\ row.life = "stored" /\ row.status = "QUEUED"
      /\ ~row.trashed /\ row.extra.gen = 1 /\ row \in Tasks /\ Untouched(w)
  BY DEF GonePending, StillQueued, QueuedUntouched, TypeInv, TypeOK
<1> USE DEF TypeInv, TypeOK, RunSlots
<1>2. ASSUME NEW m \in broker, Deliver(w, m)
      PROVE  /\ run'[w].pc = "gate" /\ UNCHANGED <<row, req, beat>>
             /\ \A v \in Workers : v # w => run'[v] = run[v]
  BY <1>2 DEF Deliver, IdleRun
<1>3. CASE Admit(w)
  <2>1. Allowed(row, run[w].msg.gen)
    BY <1>1, <1>3 DEF Admit, Allowed, OneDispatch
  <2>2. run' = [run EXCEPT ![w].pc = "begin", ![w].copy = row]
        /\ UNCHANGED <<row, req, beat>>
    BY <1>1, <1>3, <2>1 DEF Admit
  <2>3. QED
    BY <1>1, <2>2 DEF Untouched
<1>4. CASE Overload(w)
  <2>1. run' = [run EXCEPT ![w].pc = "overload", ![w].copy = row]
        /\ UNCHANGED <<row, req, beat>>
    BY <1>1, <1>4 DEF Overload
  <2>2. QED
    BY <1>1, <2>1 DEF Untouched
<1>5. CASE WorkerDies(w)
  <2>1. run' = [run EXCEPT ![w] = IdleRun] /\ beat' = [beat EXCEPT ![w] = NoBeat]
        /\ faults' # faults /\ row' = row /\ req' = req
    BY <1>5 DEF WorkerDies, Stopped
  <2>2. QED
    BY <2>1 DEF Untouched, IdleRun, NoBeat
<1>6. QED
  BY <1>1, <1>2, <1>3, <1>4, <1>5, QueuedWorkerSteps DEF Untouched

\* A creation finds nobody at work and leaves its request on the way to the
\* broker.
LEMMA CreateStarts ==
  ASSUME TypeInv, NothingBefore, NEW r \in Requests, Create(r)
  PROVE  QueuedUntouched' /\ QueuedCarried' /\ row'.status # "RUNNING"
<1>1. /\ \A w \in Workers : run'[w].pc = "idle" /\ beat'[w].pc = "off"
      /\ \A q \in Requests : req[q].pc \in {"idle", "listing"}
  BY DEF Create, NothingBefore
<1>2. \A q \in Requests : q # r => req'[q] = req[q]
  BY OthersUnmoved DEF RequestStep
<1>3. QED
  BY <1>1, <1>2, CreatedOnce DEF QueuedUntouched, QueuedCarried, Untouched, SeenQueued

LEMMA StepKeepsQueued ==
  ASSUME TypeInv, StallInv, [Next]_vars
  PROVE  QueuedUntouched' /\ QueuedCarried'
<1> SUFFICES ASSUME row'.status = "QUEUED", ~\E r \in Requests : Create(r)
             PROVE  QueuedUntouched' /\ QueuedCarried'
  BY CreateStarts DEF StallInv, QueuedUntouched, QueuedCarried
<1>1. StillQueued
  BY StatusSources DEF StallInv, StillQueued
<1>2. /\ ~row.trashed /\ row.extra.gen = 1
      /\ \A w \in Workers : Untouched(w)
      /\ \A r \in Requests : SeenQueued(r)
  BY <1>1 DEF StallInv, QueuedUntouched, StillQueued
<1>3. ASSUME NEW r \in Requests, RequestStep(r)
      PROVE  QueuedUntouched' /\ QueuedCarried'
  <2>1. run' = run /\ beat' = beat
    BY <1>3 DEF RequestStep, Create, TakeSnapshot, Load, Probe, Recheck, Reinspect, Doom,
       Reload, Reply, Control, Purge, Enqueue, EnqueueError, NoteDispatch,
       RequestDies
  <2>2. QueuedUntouched'
    BY <1>1, <1>2, <1>3, <2>1, QueuedRequestKeeps, OthersUnmoved
       DEF StallInv, QueuedUntouched, SeenQueued, Untouched
  <2>3. QueuedCarried'
    <3>1. \/ Enqueue(r)
          \/ RequestDies(r)
          \/ req[r].pc # "enqueue" /\ broker' = broker /\ faults' = faults
      BY <1>1, <1>3, QueuedRequestSteps
         DEF StallInv, TakeSnapshot, Load, Probe, Recheck, Reinspect, Reply, Control, NoteDispatch
    <3>2. CASE Enqueue(r)
      BY <3>2 DEF Enqueue, QueuedCarried
    <3>3. CASE RequestDies(r)
      BY <3>3 DEF RequestDies, QueuedCarried, TypeInv, TypeOK
    <3>4. CASE req[r].pc # "enqueue" /\ broker' = broker /\ faults' = faults
      BY <1>1, <1>3, <2>1, <3>4, OthersUnmoved DEF StallInv, QueuedCarried, StillQueued
    <3>5. QED
      BY <3>1, <3>2, <3>3, <3>4
  <2>4. QED
    BY <2>2, <2>3
<1>4. ASSUME NEW w \in Workers, WorkerStep(w) \/ BeatStep(w)
      PROVE  QueuedUntouched' /\ QueuedCarried'
  <2>1. /\ Untouched(w)' /\ row' = row /\ req' = req
        /\ \A v \in Workers : v # w => run'[v] = run[v] /\ beat'[v] = beat[v]
        /\ faults' = faults => run'[w].pc # "idle"
    BY <1>1, <1>4, QueuedWorkerKeeps DEF StallInv
  <2>2. QueuedUntouched'
    BY <1>2, <2>1 DEF QueuedUntouched, SeenQueued, Untouched
  <2>3. faults' = 0 => faults' = faults
    <3>1. faults' \in {faults, faults + 1}
      BY <1>1, <1>4, QueuedWorkerSteps DEF StallInv, Deliver, Admit, Overload, WorkerDies
    <3>2. QED
      BY <3>1 DEF TypeInv, TypeOK
  <2>4. QueuedCarried'
    BY <2>1, <2>3 DEF QueuedCarried
  <2>5. QED
    BY <2>2, <2>4
<1>5. ASSUME UNCHANGED <<row, req, run, beat, broker, faults>>
      PROVE  QueuedUntouched' /\ QueuedCarried'
  BY <1>5 DEF StallInv, QueuedUntouched, QueuedCarried, SeenQueued, Untouched
<1>6. QED
  BY <1>3, <1>4, <1>5 DEF Next, BecomeStale, vars

\* The call that executes a RUNNING task goes on with it, dies, or settles it.
LEMMA ExecutorGoesOn ==
  ASSUME TypeInv, RunSeesNoControl, GonePending, NEW w \in Workers, Executes(w),
         WorkerStep(w), row.status = "RUNNING", row'.status = "RUNNING", faults' = 0
  PROVE  Executes(w)'
<1>1. row.life = "stored" /\ run[w].copy \in Tasks /\ run[w].copy.status = "RUNNING"
  BY BusyTypes DEF GonePending, Executes
<1> USE DEF TypeInv, TypeOK, RunSlots
<1>2. CASE Expand(w)
  <2> DEFINE new == [run[w].copy EXCEPT !.extra.exp = "done"]
  <2>1. new.status = "RUNNING"
    BY <1>1 DEF Tasks
  <2>2. run' = [run EXCEPT ![w].pc = "work", ![w].copy = new]
    BY <1>2 DEF Expand
  <2> HIDE DEF new
  <2>3. QED
    BY <2>1, <2>2 DEF Executes
<1>3. CASE Progress(w)
  BY <1>3 DEF Progress, RunSeesNoControl, Executing, Executes
<1>4. CASE PipelineError(w)
  <2>1. run' = [run EXCEPT ![w].pc = "failing", ![w].copy = row]
    BY <1>1, <1>4 DEF PipelineError
  <2>2. QED
    BY <2>1 DEF Executes
<1>5. ~(FailCommit(w) \/ \E final \in Outcomes : Finish(w, final))
  <2> SUFFICES ASSUME FailCommit(w) \/ \E final \in Outcomes : Finish(w, final)
               PROVE  FALSE
    OBVIOUS
  <2>1. PICK s \in Outcomes :
          CanMove("RUNNING", s) =>
            \/ Commit(Flush(run[w].copy, MoveTo(run[w].copy, s)))
            \/ Commit(FlushAll(run[w].copy, MoveTo(run[w].copy, s)))
    BY <1>1 DEF FailCommit, Finish, Outcomes
  <2>2. CanMove("RUNNING", s) /\ s # "RUNNING"
    BY DEF Outcomes, CanMove, AllowedTransitions, Statuses
  <2>3. MoveTo(run[w].copy, s).status = s
    BY <1>1, MoveToWrites DEF Outcomes, Statuses
  <2>4. QED
    BY <1>1, <2>1, <2>2, <2>3, FlushMoves
<1>6. ~WorkerDies(w)
  BY DEF WorkerDies
<1>7. QED
  BY <1>2, <1>3, <1>4, <1>5, <1>6
     DEF Executes, WorkerStep, Deliver, Admit, Overload, OverloadCommit, Begin

LEMMA StepKeepsExecuted ==
  ASSUME TypeInv, RunSeesNoControl, StallInv, [Next]_vars PROVE RunningExecuted'
<1> SUFFICES ASSUME row'.status = "RUNNING", faults' = 0
             PROVE  \E w \in Workers : Executes(w)'
  BY DEF RunningExecuted
<1>1. CASE row.status # "RUNNING"
  <2>1. row.life = "stored" \/ \E r \in Requests : Create(r)
    <3>1. row' # row
      BY <1>1
    <3>2. ASSUME row.life # "stored", ~\E r \in Requests : Create(r) PROVE row' = row
      <4>1. ASSUME NEW w \in Workers, Begin(w) PROVE row' = row
        BY <3>2, <4>1, CommitSparesTheGone DEF Begin
      <4>2. QED
        BY <1>1, <3>2, <4>1, StatusSources DEF StallInv
    <3>3. QED
      BY <3>1, <3>2
  <2>2. ~\E r \in Requests : Create(r)
    BY CreateStarts DEF StallInv
  <2>3. PICK w \in Workers : Begin(w) /\ run[w].copy.status = "QUEUED"
    BY <1>1, <2>2, StatusSources DEF StallInv
  <2>4. QED
    BY <2>1, <2>2, <2>3, BeginMoves DEF Executes
<1>2. CASE row.status = "RUNNING"
  <2>1. faults = 0
    <3>1. ASSUME NEW r \in Requests, RequestStep(r) PROVE faults' \in {faults, faults + 1}
      BY <3>1 DEF RequestStep, Create, TakeSnapshot, Load, Probe, Recheck, Reinspect, Doom,
         Reload, Reply, Control, Purge, Enqueue, EnqueueError, NoteDispatch,
         RequestDies
    <3>2. ASSUME NEW w \in Workers, WorkerStep(w) \/ BeatStep(w)
          PROVE  faults' \in {faults, faults + 1}
      BY <3>2 DEF WorkerStep, Deliver, Admit, Overload, OverloadCommit, Begin,
         Expand, Progress, Finish, PipelineError, FailCommit, WorkerDies,
         BeatStep, BeatRead, BeatWrite, BeatDies
    <3>3. faults' \in {faults, faults + 1}
      BY <3>1, <3>2 DEF Next, BecomeStale, vars
    <3>4. QED
      BY <3>3 DEF TypeInv, TypeOK
  <2>2. PICK w \in Workers : Executes(w)
    BY <1>2, <2>1 DEF StallInv, RunningExecuted
  <2>3. CASE WorkerStep(w)
    BY <1>2, <2>2, <2>3, ExecutorGoesOn DEF StallInv
  <2>4. ASSUME NEW v \in Workers, v # w, WorkerStep(v) PROVE run'[w] = run[w]
    BY <2>4 DEF WorkerStep, Deliver, Admit, Overload, OverloadCommit, Begin,
       Expand, Progress, Finish, PipelineError, FailCommit, WorkerDies, Stopped,
       TypeInv, TypeOK
  <2>5. ~(\E v \in Workers : WorkerStep(v)) => run' = run
    BY RunsAreTheWorkers
  <2>6. QED
    BY <2>2, <2>3, <2>4, <2>5 DEF Executes
<1>3. QED
  BY <1>1, <1>2

\* No silent stall: as long as nobody resumes the task and no process dies, an
\* empty queue and idle workers and requests mean that the task is settled.
THEOREM NothingStalls ==
  ASSUME NoResume
  PROVE  Spec => []NoSilentStall
<1> DEFINE Inv == TypeInv /\ RunSeesNoControl /\ StallInv
<1>1. Init => StallInv
  <2>1. ASSUME Init PROVE StallInv
    BY <2>1 DEF Init, NoTask, IdleRequest, IdleRun, NoBeat, StallInv, NothingBefore,
       GonePending, OneDispatch, QueuedUntouched, QueuedCarried, RunningExecuted
  <2>2. QED
    BY <2>1
<1>2. Inv /\ [Next]_vars => StallInv'
  <2> SUFFICES ASSUME Inv, [Next]_vars PROVE StallInv'
    OBVIOUS
  <2>1. NothingBefore' /\ GonePending' /\ OneDispatch'
    BY StepKeepsNothingBefore, StepKeepsGonePending, StepKeepsOneDispatch DEF StallInv
  <2>2. QueuedUntouched' /\ QueuedCarried' /\ RunningExecuted'
    BY StepKeepsQueued, StepKeepsExecuted
  <2>3. QED
    BY <2>1, <2>2 DEF StallInv
<1>3. StallInv => NoSilentStall
  BY DEF StallInv, NoSilentStall, Quiet, Unfinished, QueuedCarried, RunningExecuted,
     Executes
<1>4. QED
  BY <1>1, <1>2, <1>3, SpecTypeInv, RunNeverSeesControl, PTL DEF Spec

-----------------------------------------------------------------------------
(* Reconciliation and live runs, where nobody resumes the task, inspections *)
(* are honest and fresh, and the message is delivered once.  There is then  *)
(* one message, whose number every copy in use and a RUNNING row name: an   *)
(* inspection that does not list it finds no call at all, and none follows. *)

Attended ==
  /\ NoResume /\ ~InspectFails
  /\ \A r \in Requests : "list" \notin OpsOf[r]

NoLister == \A r \in Requests : req[r].op # "list"

OneMessage ==
  /\ sent <= 1
  /\ row.life = "none" => sent = 0
  /\ \A m \in broker : m.id = 1 /\ sent = 1
  /\ \A w \in Workers : run[w].pc # "idle" => run[w].msg.id = 1 /\ sent = 1
  /\ \A r \in Requests : req[r].pc = "enqueue" =>
       sent = 0 /\ \A q \in Requests \ {r} : req[q].pc # "enqueue"

OneNumber ==
  /\ \A w \in Workers :
       /\ run[w].pc \in {"expand", "work"} => run[w].copy.extra.cid = 1
       /\ beat[w].pc # "off" => beat[w].id = 1
  /\ \A r \in Requests :
       /\ req[r].pc = "note" => req[r].copy.extra.cid = 1
       /\ req[r].pc = "reinspect" /\ req[r].copy.status = "RUNNING" =>
            req[r].copy.extra.cid = 1
  /\ row.status = "RUNNING" => row.extra.cid = 1

TakenOnce ==
  redelivered = 0 /\ (row.status = "RUNNING" \/ \E w \in Workers : run[w].pc # "idle")
    => broker = {} /\ sent = 1

DoomedIsGone ==
  \A r \in Requests :
    req[r].copy.status = "RUNNING" /\ redelivered = 0 =>
      /\ req[r].pc \in {"reinspect", "doom"} => broker = {} /\ sent = 1
      /\ req[r].pc = "doom" => \A w \in Workers : run[w].pc = "idle"

AttendedInv ==
  /\ NothingBefore /\ OneDispatch
  /\ NoLister /\ OneMessage /\ OneNumber /\ TakenOnce /\ DoomedIsGone

(* Who moves what. *)

LEMMA RequestLeaves ==
  ASSUME NEW r \in Requests, RequestStep(r)
  PROVE  /\ run' = run /\ beat' = beat /\ redelivered' = redelivered
         /\ ~Enqueue(r) => broker' = broker /\ sent' = sent
BY DEF RequestStep, Create, TakeSnapshot, Load, Probe, Recheck, Reinspect, Doom, Reload,
       Reply, Control, Purge, Enqueue, EnqueueError, NoteDispatch, RequestDies

\* Where a request slot goes, and what it then works on.
LEMMA RequestGoes ==
  ASSUME TypeInv, NEW r \in Requests, RequestStep(r), req[r].op # "resume"
  PROVE  /\ req'[r].pc = "enqueue" => Create(r)
         /\ req'[r].pc = "note" => Enqueue(r)
         /\ req'[r].pc = "reinspect" => Recheck(r)
         /\ req'[r].pc = "doom" => Reinspect(r)
         /\ req'[r].op \in {"poll", "create", req[r].op} \cup OpsOf[r]
<1> USE DEF TypeInv, TypeOK, RequestSlots
<1>1. ASSUME Finished(r) PROVE req'[r].pc = "idle" /\ req'[r].op = "poll"
  BY <1>1 DEF Finished, IdleRequest
<1>2. ASSUME NEW pc, StepTo(r, pc) PROVE req'[r].pc = pc /\ req'[r].op = req[r].op
  BY <1>2 DEF StepTo
<1>3. CASE Create(r)
  BY <1>3, CreatedOnce
<1>4. CASE TakeSnapshot(r)
  <2>1. /\ "list" \in OpsOf[r]
        /\ \E seen : req' = [req EXCEPT ![r] =
              [IdleRequest EXCEPT !.pc = "listing", !.op = "list", !.seen = seen]]
    BY <1>4 DEF TakeSnapshot
  <2>2. req'[r].pc = "listing" /\ req'[r].op = "list"
    BY <2>1 DEF IdleRequest
  <2>3. QED
    BY <2>1, <2>2
<1>5. ASSUME NEW op \in Operations, Load(r, op)
      PROVE  req'[r].pc \in {"probe", "ready"} /\ req'[r].op \in OpsOf[r]
  BY <1>5 DEF Load
<1>6. CASE Probe(r)
  BY <1>2, <1>6 DEF Probe
<1>7. CASE Recheck(r) \/ Reinspect(r)
  <2>1. ASSUME Recheck(r)
        PROVE  req'[r].pc \in {"idle", "reinspect", "ready"}
               /\ req'[r].op \in {"poll", req[r].op}
    BY <1>1, <2>1 DEF Recheck
  <2>2. ASSUME Reinspect(r)
        PROVE  req'[r].pc \in {"doom", "ready"} /\ req'[r].op = req[r].op
    BY <1>2, <2>2 DEF Reinspect
  <2>3. QED
    BY <1>7, <2>1, <2>2
<1>8. CASE Doom(r)
  BY <1>1, <1>2, <1>8 DEF Doom
<1>9. CASE Reload(r)
  <2>1. req'[r].pc \in {"idle", "ready"} /\ req'[r].op \in {"poll", req[r].op}
    BY <1>1, <1>9 DEF Reload
  <2>2. QED
    BY <2>1
<1>10. CASE Reply(r) \/ Control(r) \/ Purge(r) \/ EnqueueError(r)
             \/ NoteDispatch(r) \/ RequestDies(r)
  <2>1. Finished(r)
    BY <1>10 DEF Reply, Control, Purge, EnqueueError, NoteDispatch, RequestDies
  <2>2. QED
    BY <1>1, <2>1
<1>11. CASE Enqueue(r)
  <2>1. req'[r].pc \in {"note", "unanswered"} /\ req'[r].op = req[r].op
    BY <1>11 DEF Enqueue, StepTo
  <2>2. QED
    BY <1>11, <2>1
<1>12. QED
  BY <1>3, <1>4, <1>5, <1>6, <1>7, <1>8, <1>9, <1>10, <1>11 DEF RequestStep

LEMMA WorkerMoves ==
  ASSUME TypeInv, NEW w \in Workers, WorkerStep(w)
  PROVE  /\ req' = req /\ sent' = sent /\ broker' \subseteq broker
         /\ \A v \in Workers : v # w => run'[v] = run[v] /\ beat'[v] = beat[v]
         /\ \/ \E m \in broker : Deliver(w, m)
            \/ /\ redelivered' = redelivered /\ broker' = broker /\ run[w].pc # "idle"
               /\ run'[w].pc = "idle" \/ run'[w].msg = run[w].msg
<1> USE DEF TypeInv, TypeOK, RunSlots
<1>1. ASSUME Stopped(w)
      PROVE  run'[w].pc = "idle" /\ \A v \in Workers : v # w => run'[v] = run[v]
  BY <1>1 DEF Stopped, IdleRun
<1>2. ASSUME NEW pc, NEW copy, run' = [run EXCEPT ![w].pc = pc, ![w].copy = copy]
      PROVE  /\ run'[w].msg = run[w].msg
             /\ \A v \in Workers : v # w => run'[v] = run[v]
  BY <1>2
<1>3. ASSUME StopBeat(w) \/ beat' = beat
      PROVE  \A v \in Workers : v # w => beat'[v] = beat[v]
  BY <1>3 DEF StopBeat
<1>4. ASSUME NEW m \in broker, Deliver(w, m)
      PROVE  /\ req' = req /\ sent' = sent /\ broker' \subseteq broker
             /\ \A v \in Workers : v # w => run'[v] = run[v] /\ beat'[v] = beat[v]
  BY <1>4 DEF Deliver
<1>5. CASE Admit(w) \/ Overload(w) \/ Expand(w) \/ PipelineError(w)
  <2>1. \/ Stopped(w)
        \/ \E pc, copy : run' = [run EXCEPT ![w].pc = pc, ![w].copy = copy]
    BY <1>5 DEF Admit, Overload, Expand, PipelineError
  <2>2. /\ req' = req /\ sent' = sent /\ broker' = broker /\ run[w].pc # "idle"
        /\ redelivered' = redelivered /\ (StopBeat(w) \/ beat' = beat)
    BY <1>5 DEF Admit, Overload, Expand, PipelineError
  <2>3. QED
    BY <1>1, <1>2, <1>3, <2>1, <2>2
<1>6. CASE Begin(w)
  <2>1. /\ req' = req /\ sent' = sent /\ broker' = broker /\ run[w].pc # "idle"
        /\ redelivered' = redelivered
    BY <1>6 DEF Begin
  <2>2. CASE row.life = "stored"
    <3> DEFINE old == run[w].copy
               moved == IF old.status = "QUEUED" THEN MoveTo(old, "RUNNING") ELSE old
               new == [moved EXCEPT !.extra.cid = run[w].msg.id]
               started == [NoBeat EXCEPT !.pc = "wait", !.id = run[w].msg.id]
    <3>1. /\ run' = [run EXCEPT ![w].pc = "expand", ![w].copy = new]
          /\ beat' = [beat EXCEPT ![w] = started]
      BY <1>6, <2>2 DEF Begin
    <3> HIDE DEF new, started
    <3>2. /\ run'[w].msg = run[w].msg
          /\ \A v \in Workers : v # w => run'[v] = run[v] /\ beat'[v] = beat[v]
      BY <3>1
    <3>3. QED
      BY <2>1, <3>2
  <2>3. CASE row.life # "stored"
    BY <1>1, <1>6, <2>1, <2>3 DEF Begin
  <2>4. QED
    BY <2>2, <2>3
<1>7. CASE OverloadCommit(w) \/ Progress(w) \/ FailCommit(w) \/ WorkerDies(w)
             \/ \E final \in Outcomes : Finish(w, final)
  <2>1. /\ req' = req /\ sent' = sent /\ broker' = broker /\ run[w].pc # "idle"
        /\ redelivered' = redelivered /\ (Stopped(w) \/ run' = run)
        /\ \A v \in Workers : v # w => beat'[v] = beat[v]
    BY <1>3, <1>7 DEF OverloadCommit, Progress, FailCommit, WorkerDies, Finish
  <2>2. QED
    BY <1>1, <2>1
<1>8. QED
  BY <1>4, <1>5, <1>6, <1>7 DEF WorkerStep

LEMMA BeatMoves ==
  ASSUME TypeInv, NEW w \in Workers, BeatStep(w)
  PROVE  /\ UNCHANGED <<req, run, sent, broker, redelivered>>
         /\ \A v \in Workers : v # w => beat'[v] = beat[v]
         /\ beat'[w].pc # "off" => beat[w].pc # "off" /\ beat'[w].id = beat[w].id
<1> USE DEF TypeInv, TypeOK, BeatSlots, NoBeat
<1>1. CASE BeatRead(w)
  BY <1>1 DEF BeatRead
<1>2. CASE BeatWrite(w)
  BY <1>2 DEF BeatWrite
<1>3. CASE BeatDies(w)
  BY <1>3 DEF BeatDies
<1>4. QED
  BY <1>1, <1>2, <1>3 DEF BeatStep

LEMMA RestMoves ==
  ASSUME TypeInv, [Next]_vars
  PROVE  \/ \E r \in Requests : RequestStep(r)
         \/ \E w \in Workers : WorkerStep(w)
         \/ \E w \in Workers : BeatStep(w)
         \/ UNCHANGED <<row, broker, sent, req, run, beat, redelivered>>
BY DEF Next, BecomeStale, vars
(* Which message numbers are written where. *)

LEMMA FlushKeepsExtra ==
  ASSUME NEW old, NEW new, Commit(Flush(old, new)), old.extra = new.extra
  PROVE  row'.extra = row.extra
BY DEF Commit, Flush, Changed

LEMMA FlushAllWritesExtra ==
  ASSUME NEW old, NEW new, Commit(FlushAll(old, new))
  PROVE  row' = row \/ row'.extra = new.extra
BY DEF Commit, FlushAll, Flush

LEMMA MoveToExtra ==
  ASSUME NEW t \in Tasks, NEW s PROVE MoveTo(t, s).extra = t.extra
BY DEF MoveTo, Tasks

\* A control that touches the dispatch generation also stops the task.
LEMMA ControlledExtra ==
  ASSUME NEW op \in Operations, NEW t \in Tasks, Permitted(op, t.status),
         op \notin {"purge", "resume"}, Controlled(op, t).extra # t.extra
  PROVE  /\ Controlled(op, t).status \in {"PAUSED", "CANCELLED"}
         /\ Controlled(op, t).status # t.status
<1>1. CASE op \in {"pause", "cancel"}
  BY <1>1 DEF Controlled, Permitted, MoveTo, AdvanceGeneration, Tasks
<1>2. CASE op = "delete"
  BY <1>2 DEF Controlled, Trashed, MoveTo, AdvanceGeneration, Tasks
<1>3. CASE op = "restore"
  BY <1>3 DEF Controlled, Tasks
<1>4. QED
  BY <1>1, <1>2, <1>3 DEF Operations, Permitted

\* What begins or goes on carries the number of its message.
LEMMA BeginNumbers ==
  ASSUME TypeInv, NEW w \in Workers, Begin(w), run[w].msg.id = 1
  PROVE  /\ row' = row \/ row'.extra.cid = 1
         /\ run'[w].pc # "idle" => run'[w].copy.extra.cid = 1
         /\ beat'[w] = beat[w] \/ beat'[w].id = 1
<1> DEFINE old == run[w].copy
           moved == IF old.status = "QUEUED" THEN MoveTo(old, "RUNNING") ELSE old
           new == [moved EXCEPT !.extra.cid = run[w].msg.id]
<1>1. old \in Tasks
  BY BusyTypes DEF Begin
<1>2. moved \in Tasks
  BY <1>1, MoveToType DEF Statuses
<1>3. new.extra.cid = 1
  <2> HIDE DEF moved
  <2>1. QED
    BY <1>2 DEF Tasks, Extras
<1>4. Commit(FlushAll(old, new))
  BY DEF Begin
<1>5. row.life = "stored" =>
        /\ run' = [run EXCEPT ![w].pc = "expand", ![w].copy = new]
        /\ beat' = [beat EXCEPT ![w] =
                      [NoBeat EXCEPT !.pc = "wait", !.id = run[w].msg.id]]
  BY DEF Begin
<1>6. row.life # "stored" => Stopped(w) /\ beat' = beat
  BY DEF Begin
<1> HIDE DEF new, moved
<1>7. row' = row \/ row'.extra.cid = 1
  BY <1>3, <1>4, FlushAllWritesExtra
<1>8. row.life = "stored" => run'[w].copy = new /\ beat'[w].id = 1
  <2>1. ASSUME row.life = "stored" PROVE run'[w].copy = new
    BY <1>5, <2>1 DEF TypeInv, TypeOK, RunSlots
  <2>2. ASSUME row.life = "stored" PROVE beat'[w].id = 1
    BY <1>5, <2>2 DEF TypeInv, TypeOK, BeatSlots, NoBeat
  <2>3. QED
    BY <2>1, <2>2
<1>9. row.life # "stored" => run'[w].pc = "idle" /\ beat'[w] = beat[w]
  BY <1>6 DEF Stopped, IdleRun, TypeInv, TypeOK
<1>10. QED
  BY <1>3, <1>7, <1>8, <1>9

LEMMA ExpandNumbers ==
  ASSUME TypeInv, NEW w \in Workers, Expand(w), run[w].copy.extra.cid = 1
  PROVE  /\ row' = row \/ row'.extra.cid = 1
         /\ run'[w].copy.extra.cid = 1 /\ beat' = beat
<1> DEFINE new == [run[w].copy EXCEPT !.extra.exp = "done"]
<1>1. new.extra.cid = 1
  BY BusyTypes DEF Expand, Tasks, Extras
<1>2. /\ Commit(FlushAll(run[w].copy, new)) /\ beat' = beat
      /\ run' = [run EXCEPT ![w].pc = "work", ![w].copy = new]
  BY DEF Expand
<1> HIDE DEF new
<1>3. run'[w].copy = new
  BY <1>2 DEF TypeInv, TypeOK, RunSlots
<1>4. QED
  BY <1>1, <1>2, <1>3, FlushAllWritesExtra

\* A worker's step writes the number of its message, or leaves the row's.
LEMMA WorkerNumbers ==
  ASSUME TypeInv, NEW w \in Workers, WorkerStep(w), OneMessage, OneNumber
  PROVE  /\ row'.extra = row.extra \/ row'.extra.cid = 1
         /\ run'[w].pc \in {"expand", "work"} => run'[w].copy.extra.cid = 1
         /\ beat'[w].pc # "off" => beat'[w].id = 1
<1> DEFINE Good == /\ row'.extra = row.extra \/ row'.extra.cid = 1
                   /\ run'[w].pc \in {"expand", "work"} => run'[w].copy.extra.cid = 1
                   /\ beat'[w].pc # "off" => beat'[w].id = 1
<1> USE DEF TypeInv, TypeOK, RunSlots, BeatSlots
<1>1. ASSUME Stopped(w) PROVE run'[w].pc = "idle"
  BY <1>1 DEF Stopped, IdleRun
<1>2. ASSUME StopBeat(w) \/ beat' = beat PROVE beat'[w].pc # "off" => beat'[w].id = 1
  BY <1>2 DEF StopBeat, NoBeat, OneNumber
<1>3. run[w].pc # "idle" => run[w].msg.id = 1
  BY DEF OneMessage
<1>4. run[w].pc \in {"expand", "work"} => run[w].copy.extra.cid = 1
  BY DEF OneNumber
<1>5. CASE \E m \in broker : Deliver(w, m)
  <2>1. /\ row' = row /\ beat' = beat
        /\ \E m : run' = [run EXCEPT ![w] = [IdleRun EXCEPT !.pc = "gate", !.msg = m]]
    BY <1>5 DEF Deliver
  <2>2. run'[w].pc = "gate"
    BY <2>1 DEF IdleRun
  <2>3. QED
    BY <1>2, <2>1, <2>2
<1>6. CASE Admit(w) \/ Overload(w) \/ PipelineError(w)
  <2>1. /\ row' = row /\ (StopBeat(w) \/ beat' = beat)
        /\ run'[w].pc \in {"idle", "begin", "overload", "failing"}
    BY <1>1, <1>6 DEF Admit, Overload, PipelineError
  <2>2. QED
    BY <1>2, <2>1
<1>7. CASE OverloadCommit(w)
  <2> DEFINE old == run[w].copy
             new == [MoveTo(old, "FAILED") EXCEPT !.extra.cid = run[w].msg.id]
  <2>1. old \in Tasks /\ run[w].msg.id = 1
    BY <1>3, <1>7, BusyTypes DEF OverloadCommit
  <2>2. MoveTo(old, "FAILED") \in Tasks
    BY <2>1, MoveToType DEF Statuses
  <2>3. new.extra.cid = 1
    BY <2>1, <2>2 DEF Tasks, Extras
  <2>4. /\ Commit(FlushAll(old, new)) \/ row' = row
        /\ Stopped(w) /\ beat' = beat
    BY <1>7 DEF OverloadCommit
  <2> HIDE DEF new
  <2>5. QED
    BY <1>1, <1>2, <2>3, <2>4, FlushAllWritesExtra
<1>8. CASE Begin(w)
  BY <1>2, <1>3, <1>8, BeginNumbers DEF Begin, OneNumber
<1>9. CASE Expand(w)
  BY <1>2, <1>4, <1>9, ExpandNumbers DEF Expand
<1>10. CASE Progress(w)
  <2>1. /\ Commit(FlushAll(run[w].copy, run[w].copy)) \/ row' = row
        /\ Stopped(w) \/ run' = run
        /\ StopBeat(w) \/ beat' = beat
        /\ run[w].pc = "work"
    BY <1>10 DEF Progress
  <2>2. row' = row \/ row'.extra = run[w].copy.extra
    BY <2>1, FlushAllWritesExtra
  <2>3. QED
    BY <1>1, <1>2, <1>4, <2>1, <2>2
<1>11. CASE \E final \in Outcomes : Finish(w, final)
  <2>1. PICK final \in Outcomes : Finish(w, final)
    BY <1>11
  <2> DEFINE new == MoveTo(run[w].copy, final)
  <2>2. new.extra = run[w].copy.extra /\ run[w].pc = "work"
    BY <2>1, BusyTypes, MoveToExtra DEF Finish
  <2>3. /\ Commit(FlushAll(run[w].copy, new)) \/ row' = row
        /\ Stopped(w) /\ StopBeat(w)
    BY <2>1 DEF Finish
  <2> HIDE DEF new
  <2>4. QED
    BY <1>1, <1>2, <1>4, <2>2, <2>3, FlushAllWritesExtra
<1>12. CASE FailCommit(w)
  <2> DEFINE new == MoveTo(run[w].copy, "FAILED")
  <2>1. new.extra = run[w].copy.extra
    BY <1>12, BusyTypes, MoveToExtra DEF FailCommit
  <2>2. /\ Commit(Flush(run[w].copy, new)) \/ row' = row
        /\ Stopped(w) /\ StopBeat(w)
    BY <1>12 DEF FailCommit
  <2> HIDE DEF new
  <2>3. QED
    BY <1>1, <1>2, <2>1, <2>2, FlushKeepsExtra
<1>13. CASE WorkerDies(w)
  <2>1. row' = row /\ Stopped(w) /\ beat'[w] = NoBeat
    BY <1>13 DEF WorkerDies
  <2>2. QED
    BY <1>1, <2>1 DEF NoBeat
<1>14. QED
  BY <1>5, <1>6, <1>7, <1>8, <1>9, <1>10, <1>11, <1>12, <1>13 DEF WorkerStep

\* A request leaves the number of a row that stays RUNNING, or writes the
\* one it has dispatched.
LEMMA RequestNumbers ==
  ASSUME TypeInv, OneDispatch, OneNumber, NEW r \in Requests, RequestStep(r),
         row.status = "RUNNING", row'.status = "RUNNING"
  PROVE  row'.extra = row.extra \/ row'.extra.cid = 1
<1> DEFINE old == req[r].copy
<1>1. old \in Tasks /\ req[r].op \in Operations
  BY DEF TypeInv, TypeOK, RequestSlots
<1>2. CASE Doom(r) \/ EnqueueError(r)
  <2>1. Commit(Flush(old, MoveTo(old, "FAILED")))
    BY <1>2 DEF Doom, EnqueueError
  <2>2. QED
    BY <1>1, <2>1, MoveToExtra, FlushKeepsExtra
<1>3. CASE Control(r)
  <2> DEFINE new == Controlled(req[r].op, old)
  <2>1. Commit(Flush(old, new))
    BY <1>3 DEF Control
  <2>2. new.extra # old.extra => /\ new.status \in {"PAUSED", "CANCELLED"}
                                 /\ new.status # old.status
    BY <1>1, <1>3, ControlledExtra DEF Control, OneDispatch
  <2> HIDE DEF new
  <2>3. CASE row.life # "stored"
    BY <2>1, <2>3 DEF Commit
  <2>4. CASE row.life = "stored"
    BY <2>1, <2>2, <2>4, FlushMoves, FlushKeepsExtra
  <2>5. QED
    BY <2>3, <2>4
<1>4. CASE NoteDispatch(r)
  <2>1. old.extra.cid = 1 /\ Commit([row EXCEPT !.extra = old.extra])
    BY <1>4 DEF NoteDispatch, OneNumber
  <2>2. QED
    BY <2>1 DEF Commit, TypeInv, TypeOK, Tasks
<1>5. CASE Create(r)
  BY <1>5, CreatedOnce
<1>6. CASE Purge(r)
  BY <1>6 DEF Purge, NoTask
<1>7. QED
  BY <1>2, <1>3, <1>4, <1>5, <1>6
     DEF RequestStep, TakeSnapshot, Load, Probe, Recheck, Reinspect, Reload, Reply,
         Enqueue, RequestDies

LEMMA BeatNumbers ==
  ASSUME TypeInv, OneNumber, NEW w \in Workers, BeatStep(w)
  PROVE  row'.extra = row.extra \/ row'.extra.cid = 1
<1>1. CASE BeatWrite(w)
  <2> DEFINE new == [beat[w].extra EXCEPT !.cid = beat[w].id]
  <2>1. new.cid = 1
    BY <1>1 DEF BeatWrite, OneNumber, TypeInv, TypeOK, BeatSlots, Extras
  <2>2. Commit([row EXCEPT !.extra = new])
    BY <1>1 DEF BeatWrite
  <2> HIDE DEF new
  <2>3. QED
    BY <2>1, <2>2 DEF Commit, TypeInv, TypeOK, Tasks
<1>2. QED
  BY <1>1 DEF BeatStep, BeatRead, BeatDies

LEMMA RowNumber ==
  ASSUME TypeInv, OneDispatch, OneMessage, OneNumber, [Next]_vars,
         row'.status = "RUNNING"
  PROVE  /\ row'.extra.cid = 1
         /\ row.status = "RUNNING" \/ \E w \in Workers : Begin(w)
<1>1. CASE row.status # "RUNNING"
  <2>1. PICK w \in Workers : Begin(w)
    BY <1>1, StatusSources, CreatedOnce
  <2>2. row' = row \/ row'.extra.cid = 1
    BY <2>1, BeginNumbers DEF Begin, OneMessage
  <2>3. QED
    BY <1>1, <2>1, <2>2
<1>2. CASE row.status = "RUNNING"
  <2>1. row.extra.cid = 1
    BY <1>2 DEF OneNumber
  <2>2. row'.extra = row.extra \/ row'.extra.cid = 1
    BY <1>2, RequestNumbers, WorkerNumbers, BeatNumbers DEF Next, BecomeStale, vars
  <2>3. QED
    BY <1>2, <2>1, <2>2
<1>3. QED
  BY <1>1, <1>2

-----------------------------------------------------------------------------
(* Each part of the invariant is preserved. *)

LEMMA StepKeepsNoLister ==
  ASSUME Attended, TypeInv, OneDispatch, NoLister, [Next]_vars PROVE NoLister'
<1>1. ASSUME NEW r \in Requests, RequestStep(r)
      PROVE  \A q \in Requests : req'[q].op # "list"
  BY <1>1, OthersUnmoved, RequestGoes DEF NoLister, OneDispatch, Attended
<1>2. ASSUME req' = req PROVE NoLister'
  BY <1>2 DEF NoLister
<1>3. QED
  BY <1>1, <1>2, WorkerMoves, BeatMoves, RestMoves DEF NoLister

\* The only dispatch: nothing has been sent before it, nothing is after it.
LEMMA StepKeepsOneMessage ==
  ASSUME TypeInv, NothingBefore, OneDispatch, OneMessage, [Next]_vars
  PROVE  OneMessage'
<1>1. row'.life = "none" => row.life = "none"
  BY RowAfterStep
<1>2. ASSUME NEW r \in Requests, Create(r) PROVE OneMessage'
  <2>1. /\ broker = {} /\ sent = 0 /\ row'.life = "stored"
        /\ \A w \in Workers : run[w].pc = "idle"
        /\ \A q \in Requests : req[q].pc \in {"idle", "listing"}
    BY <1>2 DEF Create, NothingBefore, OneMessage
  <2>2. /\ broker' = broker /\ sent' = sent /\ run' = run
        /\ \A q \in Requests : q # r => req'[q] = req[q]
    BY <1>2, OthersUnmoved DEF Create, RequestStep
  <2>3. QED
    BY <2>1, <2>2 DEF OneMessage
<1>3. ASSUME NEW r \in Requests, Enqueue(r) PROVE OneMessage'
  <2>1. sent = 0 /\ \A q \in Requests \ {r} : req[q].pc # "enqueue"
    BY <1>3 DEF Enqueue, OneMessage
  <2>2. broker = {} /\ \A w \in Workers : run[w].pc = "idle"
    BY <2>1 DEF OneMessage
  <2>3. sent' = 1 /\ \A m \in broker' : m.id = 1
    BY <1>3, <2>1, <2>2 DEF Enqueue
  <2>4. run' = run /\ row' = row /\ req'[r].pc # "enqueue"
        /\ \A q \in Requests : q # r => req'[q] = req[q]
    BY <1>3, OthersUnmoved
       DEF Enqueue, StepTo, RequestStep, TypeInv, TypeOK, RequestSlots
  <2>5. row.life # "none"
    BY <1>3 DEF Enqueue, NothingBefore
  <2>6. QED
    BY <2>1, <2>2, <2>3, <2>4, <2>5 DEF OneMessage
<1>4. ASSUME NEW r \in Requests, RequestStep(r), ~Create(r), ~Enqueue(r)
      PROVE  OneMessage'
  <2>1. /\ broker' = broker /\ sent' = sent /\ run' = run
        /\ \A q \in Requests : q # r => req'[q] = req[q]
    BY <1>4, RequestLeaves, OthersUnmoved
  <2>2. req'[r].pc # "enqueue"
    BY <1>4, RequestGoes DEF OneDispatch
  <2>3. QED
    BY <1>1, <2>1, <2>2 DEF OneMessage
<1>5. ASSUME NEW w \in Workers, WorkerStep(w) PROVE OneMessage'
  <2>1. run'[w].pc # "idle" => run'[w].msg.id = 1 /\ sent = 1
    <3>1. ASSUME NEW m \in broker, Deliver(w, m) PROVE run'[w].msg = m
      BY <3>1 DEF Deliver, IdleRun, TypeInv, TypeOK
    <3>2. QED
      BY <1>5, <3>1, WorkerMoves DEF OneMessage
  <2>2. /\ req' = req /\ sent' = sent /\ broker' \subseteq broker
        /\ \A v \in Workers : v # w => run'[v] = run[v]
    BY <1>5, WorkerMoves
  <2>3. QED
    BY <1>1, <2>1, <2>2 DEF OneMessage
<1>6. ASSUME UNCHANGED <<req, sent, broker, run>> PROVE OneMessage'
  BY <1>1, <1>6 DEF OneMessage
<1>7. QED
  BY <1>2, <1>3, <1>4, <1>5, <1>6, BeatMoves, RestMoves

LEMMA StepKeepsOneNumber ==
  ASSUME TypeInv, OneDispatch, OneMessage, OneNumber, [Next]_vars
  PROVE  OneNumber'
<1>1. row'.status = "RUNNING" => row'.extra.cid = 1
  BY RowNumber
<1>2. ASSUME NEW r \in Requests, RequestStep(r) PROVE OneNumber'
  <2>1. run' = run /\ beat' = beat /\ \A q \in Requests : q # r => req'[q] = req[q]
    BY <1>2, RequestLeaves, OthersUnmoved
  <2>2. req'[r].pc = "note" => req'[r].copy.extra.cid = 1
    <3>1. ASSUME Enqueue(r), req'[r].pc = "note"
          PROVE  req'[r].copy.extra.cid = sent + 1 /\ sent = 0
      BY <3>1 DEF Enqueue, StepTo, OneMessage, TypeInv, TypeOK, RequestSlots, Tasks,
         Extras
    <3>2. QED
      BY <1>2, <3>1, RequestGoes DEF OneDispatch
  <2>3. req'[r].pc = "reinspect" => req'[r].copy = row
    <3>1. ASSUME Recheck(r), req'[r].pc = "reinspect" PROVE req'[r].copy = row
      BY <3>1 DEF Recheck, Finished, IdleRequest, TypeInv, TypeOK, RequestSlots
    <3>2. QED
      BY <1>2, <3>1, RequestGoes DEF OneDispatch
  <2>4. QED
    BY <1>1, <2>1, <2>2, <2>3 DEF OneNumber
<1>3. ASSUME NEW w \in Workers, WorkerStep(w) PROVE OneNumber'
  BY <1>1, <1>3, WorkerMoves, WorkerNumbers DEF OneNumber
<1>4. ASSUME NEW w \in Workers, BeatStep(w) PROVE OneNumber'
  BY <1>1, <1>4, BeatMoves DEF OneNumber
<1>5. ASSUME UNCHANGED <<req, run, beat>> PROVE OneNumber'
  BY <1>1, <1>5 DEF OneNumber
<1>6. QED
  BY <1>2, <1>3, <1>4, <1>5, RestMoves

\* Nothing but the delivery of a message makes an idle worker busy.
LEMMA IdleUntilDelivered ==
  ASSUME TypeInv, [Next]_vars, broker = {}, \A w \in Workers : run[w].pc = "idle"
  PROVE  \A w \in Workers : run'[w].pc = "idle"
<1>1. ASSUME NEW w \in Workers PROVE ~WorkerStep(w)
  BY WorkerMoves
<1>2. QED
  BY <1>1, RequestLeaves, BeatMoves, RestMoves

LEMMA StepKeepsTakenOnce ==
  ASSUME TypeInv, OneDispatch, OneMessage, OneNumber, TakenOnce, [Next]_vars
  PROVE  TakenOnce'
<1> SUFFICES ASSUME redelivered' = 0,
                    row'.status = "RUNNING" \/ \E w \in Workers : run'[w].pc # "idle"
             PROVE  broker' = {} /\ sent' = 1
  BY DEF TakenOnce
<1>1. row'.status = "RUNNING" =>
        row.status = "RUNNING" \/ \E w \in Workers : run[w].pc # "idle"
  BY RowNumber DEF Begin
<1>2. ASSUME NEW r \in Requests, RequestStep(r) PROVE broker' = {} /\ sent' = 1
  <2>1. run' = run /\ redelivered = 0
    BY <1>2, RequestLeaves
  <2>2. broker = {} /\ sent = 1
    BY <1>1, <2>1 DEF TakenOnce
  <2>3. ~Enqueue(r)
    BY <2>2 DEF Enqueue, OneMessage
  <2>4. QED
    BY <1>2, <2>2, <2>3, RequestLeaves
<1>3. ASSUME NEW w \in Workers, NEW m \in broker, Deliver(w, m)
      PROVE  broker' = {} /\ sent' = 1
  <2>1. broker' = broker \ {m} /\ sent' = sent
    BY <1>3 DEF Deliver, TypeInv, TypeOK
  <2>2. \A n \in broker : n = m
    BY DEF OneMessage, OneDispatch, TypeInv, TypeOK, Messages
  <2>3. QED
    BY <2>1, <2>2 DEF OneMessage
<1>4. ASSUME NEW w \in Workers, WorkerStep(w), \A m \in broker : ~Deliver(w, m)
      PROVE  broker' = {} /\ sent' = 1
  <2>1. redelivered' = redelivered /\ broker' = broker /\ run[w].pc # "idle"
        /\ sent' = sent
    BY <1>4, WorkerMoves
  <2>2. QED
    BY <2>1 DEF TakenOnce
<1>5. ASSUME UNCHANGED <<sent, broker, run, redelivered>>
      PROVE  broker' = {} /\ sent' = 1
  BY <1>1, <1>5 DEF TakenOnce
<1>6. QED
  BY <1>2, <1>3, <1>4, <1>5, BeatMoves, RestMoves

\* The second inspection of a reconciliation that goes on to fail a RUNNING
\* task has listed no call.
LEMMA ReinspectFindsNone ==
  ASSUME Attended, TypeInv, NoLister, OneMessage, OneNumber,
         NEW r \in Requests, Reinspect(r), req'[r].pc = "doom",
         req'[r].copy.status = "RUNNING"
  PROVE  /\ req[r].copy.status = "RUNNING" /\ req[r].pc = "reinspect"
         /\ \A w \in Workers : run[w].pc = "idle"
<1>1. Answers(r) = Inspections
  BY DEF Answers, NoLister
<1>2. PICK seen \in Inspections :
        StepTo(r, IF LooksActive(req[r].copy, seen) THEN "ready" ELSE "doom")
  BY <1>1 DEF Reinspect
<1>3. /\ req[r].copy.status = "RUNNING" /\ req[r].pc = "reinspect"
      /\ ~LooksActive(req[r].copy, seen)
  BY <1>2 DEF Reinspect, StepTo, TypeInv, TypeOK, RequestSlots
<1>4. seen.active = ExecutingIds
  BY DEF Inspections, Attended
<1>5. req[r].copy.extra.cid = 1
  BY <1>3 DEF OneNumber
<1>6. 1 \notin ExecutingIds
  BY <1>3, <1>4, <1>5 DEF LooksActive
<1>7. QED
  BY <1>3, <1>6 DEF ExecutingIds, OneMessage

\* From the refresh that reads the task RUNNING on, its message has been
\* taken; from the second inspection on, nobody executes it.
LEMMA StepKeepsDoomed ==
  ASSUME Attended, TypeInv, OneDispatch, NoLister, OneMessage, OneNumber,
         TakenOnce, DoomedIsGone, [Next]_vars
  PROVE  DoomedIsGone'
<1> SUFFICES ASSUME NEW r \in Requests, req'[r].pc \in {"reinspect", "doom"},
                    req'[r].copy.status = "RUNNING", redelivered' = 0
             PROVE  /\ broker' = {} /\ sent' = 1
                    /\ req'[r].pc = "doom" => \A w \in Workers : run'[w].pc = "idle"
  BY DEF DoomedIsGone
<1>1. CASE Recheck(r)
  <2>1. row.status = "RUNNING" /\ req'[r].pc = "reinspect"
    BY <1>1 DEF Recheck, Finished, IdleRequest, TypeInv, TypeOK, RequestSlots
  <2>2. UNCHANGED <<broker, sent, run, redelivered>>
    BY <1>1 DEF Recheck
  <2>3. QED
    BY <2>1, <2>2 DEF TakenOnce
<1>2. CASE Reinspect(r) /\ req'[r].pc = "doom"
  <2>1. /\ req[r].copy.status = "RUNNING" /\ req[r].pc = "reinspect"
        /\ \A w \in Workers : run[w].pc = "idle"
    BY <1>2, ReinspectFindsNone
  <2>2. UNCHANGED <<broker, sent, run, redelivered>>
    BY <1>2 DEF Reinspect
  <2>3. QED
    BY <2>1, <2>2 DEF DoomedIsGone
<1>3. CASE req'[r] = req[r]
  <2>1. redelivered = 0
    <3>1. redelivered' = redelivered \/ redelivered' = redelivered + 1
      BY RequestLeaves, BeatMoves, RestMoves, WorkerMoves DEF Deliver
    <3>2. QED
      BY <3>1 DEF TypeInv, TypeOK
  <2>2. /\ broker = {} /\ sent = 1
        /\ req[r].pc = "doom" => \A w \in Workers : run[w].pc = "idle"
    BY <1>3, <2>1 DEF DoomedIsGone
  <2>3. req'[r].pc = "doom" => \A w \in Workers : run'[w].pc = "idle"
    BY <1>3, <2>2, IdleUntilDelivered
  <2>4. ASSUME NEW q \in Requests, RequestStep(q) PROVE broker' = broker /\ sent' = sent
    <3>1. ~Enqueue(q)
      BY <2>2 DEF Enqueue, OneMessage
    <3>2. QED
      BY <2>4, <3>1, RequestLeaves
  <2>5. ASSUME NEW w \in Workers, WorkerStep(w) PROVE broker' = {} /\ sent' = sent
    BY <2>2, <2>5, WorkerMoves
  <2>6. broker' = {} /\ sent' = sent
    BY <2>2, <2>4, <2>5, BeatMoves, RestMoves
  <2>7. QED
    BY <2>2, <2>3, <2>6
<1>4. ASSUME ~Recheck(r), ~(Reinspect(r) /\ req'[r].pc = "doom")
      PROVE  req'[r] = req[r]
  <2>1. ~RequestStep(r)
    BY <1>4, RequestGoes DEF OneDispatch
  <2>2. ASSUME NEW q \in Requests, RequestStep(q) PROVE req'[r] = req[r]
    BY <2>1, <2>2, OthersUnmoved
  <2>3. QED
    BY <2>2, WorkerMoves, BeatMoves, RestMoves
<1>5. QED
  BY <1>1, <1>2, <1>3, <1>4

-----------------------------------------------------------------------------
\* Where nobody resumes the task and inspections are honest and fresh, a
\* reconciliation never fails a task under a call that is executing it, for
\* any number of users, pages and workers.
THEOREM LiveRunsSpared ==
  ASSUME Attended PROVE Spec => LiveRunSpared
<1>1. Init => AttendedInv
  BY DEF Init, AttendedInv, NothingBefore, OneDispatch, NoLister,
     OneMessage, OneNumber, TakenOnce, DoomedIsGone, NoTask, IdleRequest, IdleRun,
     NoBeat
<1>2. TypeInv /\ AttendedInv /\ [Next]_vars => AttendedInv'
  BY StepKeepsNothingBefore, StepKeepsOneDispatch,
     StepKeepsNoLister, StepKeepsOneMessage, StepKeepsOneNumber, StepKeepsTakenOnce,
     StepKeepsDoomed
     DEF AttendedInv, Attended
<1> DEFINE Spared ==
      \A r \in Requests, w \in Workers :
        (/\ Dooms(r) /\ redelivered = 0
         /\ row.life = "stored" /\ run[w].msg.id = row.extra.cid)
          => run[w].pc \notin {"expand", "work"}
<1>3. AttendedInv => Spared
  BY DEF AttendedInv, DoomedIsGone, Dooms
<1>4. TypeInv /\ AttendedInv /\ [Next]_vars => [Spared]_vars
  BY <1>3
<1>5. QED
  BY <1>1, <1>2, <1>4, SpecTypeInv, PTL DEF Spec, LiveRunSpared
===============================================================================
