----------------------------- MODULE MCConductor -----------------------------
EXTENDS Conductor

CONSTANTS resume, cancel

\* resume_workflows, then enqueue_existing; cancel_workflows is one statement.
SomeCalls == [r \in Requests |-> IF r = resume THEN 2 ELSE 1]
==============================================================================
