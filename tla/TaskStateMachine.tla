-------------------------- MODULE TaskStateMachine --------------------------
(***************************************************************************)
(* The status of a crawl task and the transitions that                     *)
(* app/services/task_state_machine.py allows.  A definition here works on  *)
(* the copy of a task that one database session holds: the check in        *)
(* ensure_valid_task_status_transition sees that copy and nothing else.    *)
(***************************************************************************)

Statuses == {"PENDING", "QUEUED", "RUNNING", "PAUSED",
             "PARTIAL_SUCCESS", "SUCCESS", "FAILED", "CANCELLED"}

TerminalStatuses == {"PARTIAL_SUCCESS", "SUCCESS", "FAILED", "CANCELLED"}

AllowedTransitions ==
  [s \in Statuses |->
     CASE s = "PENDING"  -> {"QUEUED", "PAUSED", "FAILED", "CANCELLED"}
       [] s = "QUEUED"   -> {"RUNNING", "PAUSED", "FAILED", "CANCELLED"}
       [] s = "RUNNING"  -> {"PAUSED", "PARTIAL_SUCCESS", "SUCCESS",
                             "FAILED", "CANCELLED"}
       [] s = "PAUSED"   -> {"QUEUED", "FAILED", "CANCELLED"}
       [] s = "PARTIAL_SUCCESS" -> {"SUCCESS", "FAILED", "CANCELLED"}
       [] OTHER          -> {}]

\* ensure_valid_task_status_transition: staying put is always valid.
CanMove(from, to) == from = to \/ to \in AllowedTransitions[from]

ErrorMessages == {"none", "failure", "user"}

\* transition_task_status, for a move that CanMove allows: an error message
\* is kept only by FAILED, every other status clears it.
MoveTo(task, to) ==
  [task EXCEPT !.status = to,
               !.err = IF to = "FAILED" THEN "failure" ELSE "none"]
=============================================================================
