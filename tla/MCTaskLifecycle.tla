--------------------------- MODULE MCTaskLifecycle ---------------------------
(* Values for the constants of TaskLifecycle. *)
EXTENDS TaskLifecycle, TLC

CONSTANTS w1, w2, user, page

WorkerSymmetry == Permutations(Workers)

\* One user, one browser tab: the operations that dispatch and stop a task.
ControlOps == user :> {"create", "pause", "cancel", "resume"}

\* Two pages open on the same task, one of them on the trash.
TrashOps == user :> {"create", "cancel", "delete", "purge"}
            @@ page :> {"poll", "list", "restore"}

\* Nobody controls the task; a page polls its detail.
CreateAndPoll == user :> {"create"} @@ page :> {"poll"}

=============================================================================
