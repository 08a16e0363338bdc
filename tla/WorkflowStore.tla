---------------------------- MODULE WorkflowStore ----------------------------
(***************************************************************************)
(* One row of the table workflow_status, and the single SQL statements     *)
(* (or short transactions) the storage backends run on it.  Every operator *)
(* below maps the row the statement finds to the row it leaves, so each is *)
(* atomic; what happens BETWEEN two of them is up to the modules that use  *)
(* them.                                                                   *)
(*                                                                         *)
(* Columns kept: status, queue_name, executor_id, recovery_attempts,       *)
(* whether workflow_deadline_epoch_ms is set, and output.  Timestamps, the *)
(* error text, identity and naming columns are not read by the control     *)
(* flow modelled here.                                                     *)
(***************************************************************************)
EXTENDS Naturals

CONSTANTS
    Executors,      \* executor ids of the processes that share the database
    Queues,         \* queue names, the internal queue included
    NoExecutor,     \* executor_id = '': an enqueued row nobody owns yet
    NoQueue,        \* queue_name IS NULL
    NoOutput        \* output IS NULL

ASSUME StoreAssumption ==
    /\ NoExecutor \notin Executors
    /\ NoQueue \notin Queues

(***************************************************************************)
(* The lifecycle states of the status column, and ABSENT for no row.       *)
(***************************************************************************)
ENQUEUED  == "ENQUEUED"
DELAYED   == "DELAYED"
PENDING   == "PENDING"
SUCCESS   == "SUCCESS"
ERROR     == "ERROR"
CANCELLED == "CANCELLED"
PARKED    == "MAX_RECOVERY_ATTEMPTS_EXCEEDED"
ABSENT    == "ABSENT"

Statuses == {ENQUEUED, DELAYED, PENDING, SUCCESS, ERROR, CANCELLED, PARKED, ABSENT}

is_terminal(status) == status \in {SUCCESS, ERROR, CANCELLED, PARKED}

\* The two statuses a run records when its handler returned a result.
is_completion(status) == status \in {SUCCESS, ERROR}

RowType(Outputs) ==
    [status   : Statuses,
     queue    : Queues \cup {NoQueue},
     exec     : Executors \cup {NoExecutor},
     attempts : Nat,
     deadline : BOOLEAN,
     output   : Outputs \cup {NoOutput}]

AbsentRow ==
    [status |-> ABSENT, queue |-> NoQueue, exec |-> NoExecutor,
     attempts |-> 0, deadline |-> FALSE, output |-> NoOutput]

(***************************************************************************)
(* insert_run builds the row: a direct run is PENDING and owned from the   *)
(* start, a queued one is ENQUEUED (or DELAYED) and unowned.  A direct     *)
(* run's deadline is fixed here, a queued one's when it is claimed.        *)
(***************************************************************************)
DirectRow(e, timed) ==
    [AbsentRow EXCEPT !.status = PENDING, !.exec = e, !.deadline = timed]

QueuedRow(q, delayed) ==
    [AbsentRow EXCEPT !.status = IF delayed THEN DELAYED ELSE ENQUEUED,
                      !.queue = q]

\* INSERT ... ON CONFLICT DO NOTHING, then the canonical row is read back.
insert_workflow_status(row, new) == IF row.status = ABSENT THEN new ELSE row

\* Mutant: a completion may overwrite CANCELLED.
CompletionNeverBlocked(row, status) == FALSE

\* The UPDATE of set_workflow_status matches no row in this case.
CompletionBlocked(row, status) ==
    /\ row.status = CANCELLED
    /\ is_completion(status)

set_workflow_status(row, status, output) ==
    IF CompletionBlocked(row, status)
      THEN row
      ELSE [row EXCEPT !.status = status,
                       !.output = IF output = NoOutput THEN @ ELSE output]

\* Mutant: cancelling also reaches workflows that have completed.
cancel_any_workflow(row) ==
    IF row.status \in {CANCELLED, ABSENT}
      THEN row
      ELSE [row EXCEPT !.status = CANCELLED, !.queue = NoQueue]

cancel_workflow(row) ==
    IF row.status \in {SUCCESS, ERROR, CANCELLED, ABSENT}
      THEN row
      ELSE [row EXCEPT !.status = CANCELLED, !.queue = NoQueue]

\* resume_workflow returns TRUE iff its UPDATE matched the row.
CanResume(row) == row.status \notin {SUCCESS, ERROR, ABSENT}

resume_workflow(row) ==
    [row EXCEPT !.status = PENDING, !.attempts = 0, !.deadline = FALSE]

\* No condition on the status the row has by now.
enqueue_existing(row, q) ==
    [row EXCEPT !.status = ENQUEUED, !.queue = q, !.exec = NoExecutor]

\* Mutant: one attempt too many before the row is parked.
bump_recovery_attempts_late(row, max) ==
    [row EXCEPT !.attempts = @ + 1,
                !.status   = IF row.attempts > max THEN PARKED ELSE @]

bump_recovery_attempts(row, max) ==
    [row EXCEPT !.attempts = @ + 1,
                !.status   = IF row.attempts + 1 > max THEN PARKED ELSE @]

\* Mutant: the owner is written, the status is not.
claim_without_status(row, e, timed) ==
    [row EXCEPT !.exec = e, !.deadline = @ \/ timed]

\* The claiming UPDATE of dequeue_workflows, for one row it selected.
claim(row, e, timed) ==
    [row EXCEPT !.status = PENDING, !.exec = e, !.deadline = @ \/ timed]

transition_delayed(row) ==
    IF row.status = DELAYED THEN [row EXCEPT !.status = ENQUEUED] ELSE row
=============================================================================
