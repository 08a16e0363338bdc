---------------------------- MODULE ExactlyOnceLog ----------------------------
(***************************************************************************)
(* What durable execution promises about one workflow, with no tasks,      *)
(* crashes, cancellations or recoveries in sight: step after step is       *)
(* committed once, in order, and the only result anybody gets is the one   *)
(* the complete log determines.                                            *)
(***************************************************************************)
EXTENDS StepLog

CONSTANT Workflows

VARIABLES
    log,        \* the committed outcomes of each workflow
    results     \* the results its handles have returned or can read

Init ==
    /\ log = [w \in Workflows |-> EmptyLog]
    /\ results = [w \in Workflows |-> {}]

Commit(w, k, o) ==
    /\ log[w][k] = Nothing
    /\ \A j \in 1..(k - 1) : Passes(j, log[w][j])
    /\ log' = [log EXCEPT ![w][k] = o]
    /\ UNCHANGED results

Publish(w) ==
    /\ \A k \in Steps : Passes(k, log[w][k])
    /\ results' = [results EXCEPT ![w] = {Canon(log[w])}]
    /\ UNCHANGED log

Next ==
    \E w \in Workflows :
        \/ \E k \in Steps, o \in Outcomes : Commit(w, k, o)
        \/ Publish(w)

Spec == Init /\ [][Next]_<<log, results>>
=============================================================================
