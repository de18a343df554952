---------------------------- MODULE OutputPromises ----------------------------
(***************************************************************************)
(* What the pages of a task are served, from its status, its stored rows   *)
(* and its column extra_params, and what a run and an edit of the weights  *)
(* leave there when they end.                                              *)
(***************************************************************************)
EXTENDS Integers

CONSTANTS
  Workers,   \* calls of run_crawl_task for the task, which may overlap
  Editors,   \* requests that change the weights
  Default    \* the default weights

VARIABLES
  status,   \* of the task
  rows,     \* the run whose videos and topics are stored, 0 when there are none
  column,   \* extra_params: weights, snapshot, report
  pc,       \* where each worker and editor is
  sole      \* of a worker: no other run, pause or resume has written to the
            \* task since it read it

shared == <<status, rows, column, pc, sole>>

NoResult == [rows |-> -1, weights |-> Default]

Terminal == {"SUCCESS", "PARTIAL_SUCCESS", "FAILED"}

\* get_task_analysis: the snapshot of an ended task that has one, and else
\* what the tables give now.
ServedAnalysis ==
  IF status \in Terminal /\ column.snapshot # NoResult
    THEN column.snapshot ELSE [rows |-> rows, weights |-> column.weights]

\* build_report: the stored report whatever the status.
ServedReport ==
  IF column.report # NoResult THEN column.report ELSE ServedAnalysis

Agree == ServedReport = ServedAnalysis /\ ServedAnalysis.weights = column.weights

\* When a run ends, the first one or one of a task that had ended before and keeps
\* its status, the pages show the analysis and the report of the rows it has
\* stored, although an editor may have written results of older rows into the
\* column in the middle of it.  Runs of the task that overlap are excepted.
FinishedWithOwnOutputs ==
  [][\A w \in Workers : pc[w] = "finish" /\ pc'[w] = "done" /\ sole[w] =>
       Agree' /\ ServedAnalysis'.rows = rows']_shared

\* When an editor's request ends and the task has not been taken up again, the
\* pages show analysis and report computed with the weights the task then has,
\* although another editor, or runs, may have written all of them meanwhile.
EditLeavesOwnOutputs ==
  [][\A e \in Editors : pc[e] = "finish" /\ pc'[e] = "done" /\ status' \in Terminal =>
       Agree']_shared

===============================================================================
