-------------------------- MODULE MCDurableExecution --------------------------
(* Small instances of DurableExecution for TLC. *)
EXTENDS DurableExecution, TLC

\* Executors, tasks and payloads are interchangeable (no liveness with these).
Symmetry ==
    Permutations(Executors) \cup Permutations(Tasks) \cup Permutations(Values)
=============================================================================
