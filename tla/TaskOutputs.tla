------------------------------- MODULE TaskOutputs -------------------------------
(***************************************************************************)
(* The analysis snapshot, the report and the metric weights of a task,     *)
(* which share the JSON column extra_params: who computes them from which  *)
(* rows, and what the pages are shown.                                     *)
(*                                                                         *)
(* A worker runs the task, and another one, or the same again, when the    *)
(* message is delivered again or the task was paused and resumed: their    *)
(* runs may overlap.  Users edit the weights of a task that has ended      *)
(* (update_task_analysis_weights).  Each works on the copy of the task its *)
(* session read at the beginning, and each commit writes the whole column  *)
(* from that copy, and the status only where the copy's has changed.       *)
(***************************************************************************)
EXTENDS OutputPromises

CONSTANTS
  Weights,   \* weight settings
  Runs       \* bound on the runs of the task

Assumption ==
  /\ Default \in Weights /\ Runs \in Nat
  /\ Workers \cap Editors = {}

VARIABLES
  copy,     \* extra_params in the session of each
  held,     \* the status in the session of each worker
  run,      \* the run that each worker does
  runs      \* the runs that have begun

vars == <<status, rows, column, pc, sole, copy, held, run, runs>>

Sessions == Editors \cup Workers

Machine == INSTANCE TaskStateMachine

NoOutputs == [weights |-> Default, snapshot |-> NoResult, report |-> NoResult]

Init ==
  /\ status = "QUEUED" /\ rows = 0 /\ column = NoOutputs
  /\ pc = [s \in Sessions |-> "idle"] /\ sole = [w \in Workers |-> FALSE]
  /\ copy = [s \in Sessions |-> NoOutputs]
  /\ held = [w \in Workers |-> "QUEUED"]
  /\ run = [w \in Workers |-> 0] /\ runs = 0

-----------------------------------------------------------------------------
\* Session s writes to the task: no other worker is its sole writer any more.
Interfere(s) == sole' = [w \in Workers |-> sole[w] /\ s \in Editors \cup {w}]

\* So when its run ends with that, or the task is put into the queue again.
InterfereAll == sole' = [w \in Workers |-> FALSE]

Go(s, label) == pc' = [pc EXCEPT ![s] = label]

\* The session of s is closed, and what it holds is gone.
End(s, label) == Go(s, label) /\ copy' = [copy EXCEPT ![s] = NoOutputs]

\* So with what a worker knows besides.
EndRun(w, label) ==
  /\ End(w, label)
  /\ held' = [held EXCEPT ![w] = "QUEUED"] /\ run' = [run EXCEPT ![w] = 0]

\* Mutant of Written: only the key that the session has changed is written.
WrittenKey(key, value) == [column EXCEPT ![key] = value[key]]

\* The column after a session that has changed key commits its copy.
Written(key, value) == value

\* Session s sets the key in its copy and commits.
Save(s, key, value) ==
  /\ copy' = [copy EXCEPT ![s] = [copy[s] EXCEPT ![key] = value]]
  /\ column' = Written(key, copy'[s])

\* StatisticsService.generate_and_persist: what there is in the tables, with
\* the weights of the session's copy.
Computed(s) == [rows |-> rows, weights |-> copy[s].weights]

\* Mutant of Reported: a report that exists is kept.
ReportedOnce(s) ==
  IF copy[s].report = NoResult THEN copy[s].snapshot ELSE copy[s].report

\* TaskReportService.generate_and_persist: the snapshot of the copy, if there
\* is one, and else what get_task_analysis computes.
Reported(s) ==
  IF copy[s].snapshot = NoResult THEN Computed(s) ELSE copy[s].snapshot

\* Statistics and report are the same two steps for a worker and an editor.
Analyse(s) ==
  /\ pc[s] = "statistics" /\ Go(s, "report")
  /\ Save(s, "snapshot", Computed(s)) /\ Interfere(s)
  /\ UNCHANGED <<status, rows, held, run, runs>>

Report(s) ==
  /\ pc[s] = "report" /\ Go(s, "finish")
  /\ Save(s, "report", Reported(s)) /\ Interfere(s)
  /\ UNCHANGED <<status, rows, held, run, runs>>

-----------------------------------------------------------------------------
(* Workers *)

\* assert_task_execution_allowed in a fresh session
Begin(w) ==
  /\ pc[w] \in {"idle", "done"} /\ runs < Runs /\ Go(w, "admit")
  /\ runs' = runs + 1 /\ run' = [run EXCEPT ![w] = runs + 1]
  /\ held' = [held EXCEPT ![w] = status] /\ copy' = [copy EXCEPT ![w] = column]
  /\ sole' = [sole EXCEPT ![w] = TRUE]
  /\ UNCHANGED <<status, rows, column>>

\* A queued task becomes running, one that has ended keeps its status; the
\* dispatch metadata are merged into the column and committed.
Admit(w) ==
  /\ pc[w] = "admit" /\ Go(w, "crawl") /\ Interfere(w)
  /\ IF held[w] = "QUEUED"
       THEN status' = "RUNNING" /\ held' = [held EXCEPT ![w] = "RUNNING"]
       ELSE UNCHANGED <<status, held>>
  /\ column' = Written("weights", copy[w])
  /\ UNCHANGED <<rows, copy, run, runs>>

\* reset_task_outputs, and the commit of its progress from the copy
Reset(w) ==
  /\ pc[w] = "crawl" /\ Go(w, "store") /\ Interfere(w)
  /\ rows' = 0 /\ column' = Written("weights", copy[w])
  /\ UNCHANGED <<status, copy, held, run, runs>>

\* The videos, the summaries and the topics are stored, and progress with them.
Store(w) ==
  /\ pc[w] = "store" /\ Go(w, "statistics") /\ Interfere(w)
  /\ rows' = run[w] /\ column' = Written("weights", copy[w])
  /\ UNCHANGED <<status, copy, held, run, runs>>

\* The final commit.  A move the state machine refuses raises instead.
Finish(w) ==
  /\ pc[w] = "finish"
  /\ \E final \in Terminal :
       \/ /\ Machine!CanMove(held[w], final) /\ EndRun(w, "done") /\ InterfereAll
          /\ status' = IF held[w] = final THEN status ELSE final
          /\ column' = Written("report", copy[w])
       \/ /\ ~Machine!CanMove(held[w], final) /\ EndRun(w, "idle")
          /\ UNCHANGED <<status, column, sole>>
  /\ UNCHANGED <<rows, runs>>

\* The pipeline raises.  The session is rolled back, reads the task again and
\* writes the status only, if it may.
Fail(w) ==
  /\ pc[w] \in {"crawl", "store", "statistics", "report"} /\ EndRun(w, "idle")
  /\ status' = IF Machine!CanMove(status, "FAILED") THEN "FAILED" ELSE status
  /\ InterfereAll
  /\ UNCHANGED <<rows, column, runs>>

\* A pause and a resume, of which the runs that are under way see nothing
\* (see TaskLifecycle), put the task into the queue again.
Requeue ==
  /\ status = "RUNNING" /\ status' = "QUEUED"
  /\ InterfereAll
  /\ UNCHANGED <<rows, column, pc, copy, held, run, runs>>

-----------------------------------------------------------------------------
(* Editors *)

Load(e) ==
  /\ pc[e] = "idle" /\ status \in Terminal /\ Go(e, "weigh")
  /\ copy' = [copy EXCEPT ![e] = column]
  /\ UNCHANGED <<status, rows, column, sole, held, run, runs>>

\* The validated weights are merged into those of the copy.
Weigh(e) ==
  /\ pc[e] = "weigh" /\ Go(e, "statistics")
  /\ \E w \in Weights \ {Default} : Save(e, "weights", w)
  /\ UNCHANGED <<status, rows, sole, held, run, runs>>

Edited(e) ==
  /\ pc[e] = "finish" /\ End(e, "done")
  /\ column' = Written("report", copy[e])
  /\ UNCHANGED <<status, rows, sole, held, run, runs>>

\* The request fails, in the model call of the report for instance.
Abandon(e) ==
  /\ pc[e] \in {"weigh", "statistics", "report"} /\ End(e, "done")
  /\ UNCHANGED <<status, rows, column, sole, held, run, runs>>

Next ==
  \/ \E w \in Workers : Begin(w) \/ Admit(w) \/ Reset(w) \/ Store(w) \/ Finish(w) \/ Fail(w)
  \/ \E e \in Editors : Load(e) \/ Weigh(e) \/ Edited(e) \/ Abandon(e)
  \/ \E s \in Sessions : Analyse(s) \/ Report(s)
  \/ Requeue

Spec == Init /\ [][Next]_vars

-----------------------------------------------------------------------------
Results == [rows : {-1} \cup 0..Runs, weights : Weights]
Outputs == [weights : Weights, snapshot : Results, report : Results]

TypeOK ==
  /\ status \in {"QUEUED", "RUNNING"} \cup Terminal
  /\ rows \in 0..Runs /\ column \in Outputs
  /\ pc \in [Sessions -> {"idle", "admit", "crawl", "store", "weigh", "statistics",
                          "report", "finish", "done"}]
  /\ sole \in [Workers -> BOOLEAN]
  /\ copy \in [Sessions -> Outputs]
  /\ held \in [Workers -> {"QUEUED", "RUNNING"} \cup Terminal]
  /\ run \in [Workers -> 0..Runs] /\ runs \in 0..Runs

=================================================================================
