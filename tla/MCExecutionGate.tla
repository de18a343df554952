--------------------------- MODULE MCExecutionGate ---------------------------
(* Values for the constants of ExecutionGate. *)
EXTENDS ExecutionGate, TLC

CONSTANTS c1, c2, c3, t1, t2, t3

\* Three tasks, each dispatched once.
OneCallEach == c1 :> t1 @@ c2 :> t2 @@ c3 :> t3

\* A task that has been dispatched twice, and another one.
TwiceAndOnce == c1 :> t1 @@ c2 :> t1 @@ c3 :> t2

=============================================================================
