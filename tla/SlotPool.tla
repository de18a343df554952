------------------------------ MODULE SlotPool ------------------------------
(***************************************************************************)
(* What the global task concurrency setting promises: the worker calls     *)
(* that execute a task at one moment never outnumber the limit.            *)
(***************************************************************************)
EXTENDS Naturals, FiniteSets

CONSTANTS Callers, Limit

VARIABLE running    \* the calls that execute their task

Init == running = {}

Enter(c) ==
  /\ c \notin running /\ Cardinality(running) < Limit
  /\ running' = running \cup {c}

Leave(c) == c \in running /\ running' = running \ {c}

Next == \E c \in Callers : Enter(c) \/ Leave(c)

Spec == Init /\ [][Next]_running
=============================================================================
