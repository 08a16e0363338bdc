------------------------------- MODULE StepLog -------------------------------
(***************************************************************************)
(* The rows of operation_outputs that belong to one workflow: for each     *)
(* step position the outcome that was recorded there, if any.  The         *)
(* function_name column is left out: the workflow function is              *)
(* deterministic, so every execution asks for the same operation at a      *)
(* position and Error::UnexpectedStep cannot arise.                        *)
(***************************************************************************)
EXTENDS Naturals

CONSTANTS
    NSteps,         \* durable steps of the workflow function
    Tolerated,      \* the steps whose failure the function handles
    Values,         \* payloads: step results and error texts
    NoValue

ASSUME StepAssumption ==
    /\ NSteps \in Nat \ {0}
    /\ Tolerated \subseteq 1..NSteps
    /\ NoValue \notin Values

Steps == 1..NSteps

\* What a step ended with (StepOutcome), and no outcome yet.
Ok(v)    == [kind |-> "ok", val |-> v]
Fail(v)  == [kind |-> "fail", val |-> v]
Nothing  == [kind |-> "none", val |-> NoValue]

Outcomes == [kind : {"ok", "fail"}, val : Values]
Logs     == [Steps -> Outcomes \cup {Nothing}]
EmptyLog == [k \in Steps |-> Nothing]

Recorded(log) == {k \in Steps : log[k] # Nothing}

\* Mutant: the last writer wins (ON CONFLICT DO UPDATE).
record_step_result_upsert(log, k, o) == [log EXCEPT ![k] = o]

\* INSERT ... ON CONFLICT DO NOTHING: the first outcome recorded stays.
record_step_result(log, k, o) == IF log[k] = Nothing THEN [log EXCEPT ![k] = o] ELSE log

\* Equal up to the text of an error.
SameOutcome(a, b) == a.kind = b.kind /\ (a.kind = "ok" => a = b)

\* A log with the error texts taken out.
Canon(log) == [k \in Steps |-> IF log[k].kind = "fail" THEN Fail(NoValue) ELSE log[k]]

\* The function can go on after the outcome o of step k.
Passes(k, o) == o # Nothing /\ (o.kind = "fail" => k \in Tolerated)
=============================================================================
