--------------------------- MODULE DurableExecution ---------------------------
(***************************************************************************)
(* The execution core of durare: how workflow rows, step checkpoints, the  *)
(* tasks that run workflow handlers, crash recovery and the management     *)
(* operations (cancel, resume) interact.                                   *)
(*                                                                         *)
(* Several executors share one database.  Between two awaits a task, a     *)
(* recovery pass or a management call owns nothing, so each database       *)
(* statement is an action of its own and everything else may happen        *)
(* between two of them.  Nothing in the code stops two tasks from running  *)
(* the same workflow at once (start on an existing id, recover() while the *)
(* workflow is alive, a stale re-enqueue): the first-writer-wins           *)
(* checkpoint is what has to keep them in agreement.                       *)
(*                                                                         *)
(* The workflow function is the deterministic one the durability guide     *)
(* asks for: it calls the steps 1..NSteps in order, propagates the failure *)
(* of a step with `?` unless the step is in Tolerated, and returns         *)
(* everything it has observed, which is the result that tells the most     *)
(* executions apart.                                                       *)
(***************************************************************************)
EXTENDS WorkflowStore, StepLog

CONSTANTS
    Workflows,              \* workflow ids
    NoWorkflow,
    MaxRetries,             \* StepOptions::max_retries
    Timed,                  \* the workflows started with a timeout
    Tasks,                  \* bound: runs that exist at the same time
    NoTask,
    MaxRecoveryAttempts,    \* EngineConfig::max_recovery_attempts
    RecoverOnLaunch,        \* EngineConfig::recover_on_launch
    Disruptions,            \* which of AllDisruptions may happen
    MaxDisruptions          \* bound: how many of them in one behaviour

AllDisruptions ==
    {"restart", "cancel", "resume", "recover", "timeout", "panic", "crash", "fault"}

ASSUME ExecutionAssumption ==
    /\ NoWorkflow \notin Workflows
    /\ NoTask \notin Tasks
    /\ Timed \subseteq Workflows
    /\ MaxRetries \in Nat
    /\ MaxRecoveryAttempts \in Nat
    /\ MaxDisruptions \in Nat
    /\ RecoverOnLaunch \in BOOLEAN
    /\ Disruptions \subseteq AllDisruptions
    \* A row's output column is NULL or a result, never both.
    /\ NoOutput \notin Logs

VARIABLES
    rows,       \* workflow_status: [Workflows -> Row]
    ckpt,       \* operation_outputs: [Workflows -> Logs]
    tasks,      \* run_to_completion futures: [Tasks -> Task]
    up,         \* the executors whose process is running
    rec,        \* the recovery pass of each executor
    resuming,   \* resumes between resume_workflow and enqueue_existing
    delivered,  \* history: the outputs handles have returned
    cancelled,  \* history: cancelled, not resumed or re-dispatched since
    budget      \* disruptions left

vars == <<rows, ckpt, tasks, up, rec, resuming, delivered, cancelled, budget>>

(***************************************************************************)
(* A task is one execution of the handler.  pc says which await it is at:  *)
(*   replay   get_step_result of step seq                                  *)
(*   guard    get_workflow_status, before fresh work                       *)
(*   body     the step's closure is running (its attempt number is try)    *)
(*   record   record_step_result of the outcome in got                     *)
(*   finish   set_workflow_status with what the handler returned (res)     *)
(*   blocked  that UPDATE matched no row: get_workflow_status follows      *)
(* local: the caller of start holds a handle on this very task; a queue    *)
(* claim and a recovery drop theirs, and are observed by polling.          *)
(* seen is what the function has observed; base is a history field, the    *)
(* steps that were already recorded when this execution began.             *)
(***************************************************************************)
Task ==
    [pc : {"idle", "replay", "guard", "body", "record", "finish", "blocked"},
     wf : Workflows \cup {NoWorkflow}, exec : Executors \cup {NoExecutor},
     deadline : BOOLEAN, local : BOOLEAN, seq : Steps, try : 0..MaxRetries, got : Outcomes \cup {Nothing},
     seen : Logs, base : SUBSET Steps,
     res : {"none", "ok", "error", "cancelled", "timeout"}]

IdleTask ==
    [pc |-> "idle", wf |-> NoWorkflow, exec |-> NoExecutor, deadline |-> FALSE,
     local |-> FALSE, seq |-> 1, try |-> 0, got |-> Nothing, seen |-> EmptyLog, base |-> {},
     res |-> "none"]

\* A row of the recovery snapshot: only these columns are used afterwards.
Snapshot == [wf : Workflows, queue : Queues \cup {NoQueue}, deadline : BOOLEAN]

NoSnapshot == [wf |-> NoWorkflow, queue |-> NoQueue, deadline |-> FALSE]

(***************************************************************************)
(* dispatch_pending_workflows of one executor: todo is the rest of the     *)
(* snapshot, cur the record in hand.                                       *)
(***************************************************************************)
Recovery ==
    [pc : {"idle", "next", "requeue", "run", "wait"}, todo : SUBSET Snapshot,
     cur : Snapshot \cup {NoSnapshot}, task : Tasks \cup {NoTask}]

IdleRecovery == [pc |-> "idle", todo |-> {}, cur |-> NoSnapshot, task |-> NoTask]

\* The values the variables take.
TypeOK ==
    /\ rows \in [Workflows -> RowType(Logs)]
    /\ ckpt \in [Workflows -> Logs]
    /\ tasks \in [Tasks -> Task]
    /\ up \subseteq Executors
    /\ rec \in [Executors -> Recovery]
    /\ resuming \subseteq Workflows
    /\ delivered \in [Workflows -> SUBSET Logs]
    /\ cancelled \subseteq Workflows
    /\ budget \in 0..MaxDisruptions

Init ==
    /\ rows = [w \in Workflows |-> AbsentRow]
    /\ ckpt = [w \in Workflows |-> EmptyLog]
    /\ tasks = [t \in Tasks |-> IdleTask]
    /\ up = Executors
    /\ rec = [e \in Executors |-> IdleRecovery]
    /\ resuming = {}
    /\ delivered = [w \in Workflows |-> {}]
    /\ cancelled = {}
    /\ budget = MaxDisruptions

\* An event the program does not bring about by itself; it costs one unit.
Disrupt(kind) ==
    /\ kind \in Disruptions
    /\ budget > 0
    /\ budget' = budget - 1

(***************************************************************************)
(* Creating and claiming work.                                             *)
(***************************************************************************)
\* The future run_to_completion builds, on its way to the first step.
NewTask(w, e, deadline, local) ==
    [IdleTask EXCEPT !.pc = "replay", !.wf = w, !.exec = e, !.deadline = deadline,
                     !.local = local, !.base = Recorded(ckpt[w])]

\* spawn_owned / spawn_detached, and the inline run of a recovery pass.
Spawn(t, w, e, deadline, local) ==
    /\ tasks[t].pc = "idle"
    /\ tasks' = [tasks EXCEPT ![t] = NewTask(w, e, deadline, local)]

\* start() with a queue: the row is created and left to the dispatchers.
StartQueued(w, q, delayed) ==
    /\ up # {}
    /\ rows[w].status = ABSENT
    /\ rows' = [rows EXCEPT ![w] = insert_workflow_status(@, QueuedRow(q, delayed))]
    /\ UNCHANGED <<ckpt, tasks, up, rec, resuming, delivered, cancelled, budget>>

(***************************************************************************)
(* start() without a queue.  A terminal row gives a polling handle and     *)
(* nothing else; any other row, a new one or one somebody is running       *)
(* already, is run by this executor.                                       *)
(***************************************************************************)
StartDirect(e, w, t) ==
    LET row == insert_workflow_status(rows[w], DirectRow(e, w \in Timed))
    IN  /\ e \in up
        /\ ~is_terminal(row.status)
        /\ rows' = [rows EXCEPT ![w] = row]
        /\ Spawn(t, w, e, row.deadline, TRUE)
        /\ IF rows[w].status = ABSENT THEN UNCHANGED budget ELSE Disrupt("restart")
        /\ UNCHANGED <<ckpt, up, rec, resuming, delivered, cancelled>>

\* A dispatcher claims an enqueued row and spawns its run.
Claim(e, w, t) ==
    LET row == claim(rows[w], e, w \in Timed)
    IN  /\ e \in up
        /\ rows[w].status = ENQUEUED
        /\ rows[w].queue # NoQueue
        /\ rows' = [rows EXCEPT ![w] = row]
        /\ Spawn(t, w, e, row.deadline, FALSE)
        /\ UNCHANGED <<ckpt, up, rec, resuming, delivered, cancelled, budget>>

\* The delay of a DELAYED row is over; any dispatcher's pass releases it.
ReleaseDelayed(w) ==
    /\ up # {}
    /\ rows[w].status = DELAYED
    /\ rows' = [rows EXCEPT ![w] = transition_delayed(@)]
    /\ UNCHANGED <<ckpt, tasks, up, rec, resuming, delivered, cancelled, budget>>

(***************************************************************************)
(* One durable step: replay_or_guard, the closure, the checkpoint.         *)
(***************************************************************************)
\* The handler future returns res: the status write comes next.
Returns(task, res) ==
    [task EXCEPT !.pc = "finish", !.res = res, !.try = 0, !.got = Nothing]

\* The call of step seq returned o to the workflow function.
Observe(task, o) ==
    LET now == [task EXCEPT !.seen[task.seq] = o, !.try = 0, !.got = Nothing]
    IN  IF ~Passes(task.seq, o)
          THEN Returns(now, "error")
        ELSE IF task.seq = NSteps
          THEN Returns(now, "ok")
          ELSE [now EXCEPT !.pc = "replay", !.seq = @ + 1]

ReplayRecorded(t) ==
    LET o == ckpt[tasks[t].wf][tasks[t].seq]
    IN  /\ tasks[t].pc = "replay"
        /\ o # Nothing
        /\ tasks' = [tasks EXCEPT ![t] = Observe(@, o)]
        /\ UNCHANGED <<rows, ckpt, up, rec, resuming, delivered, cancelled, budget>>

\* Mutant: the recorded outcome is not looked at.
ReplayIgnored(t) ==
    /\ tasks[t].pc = "replay"
    /\ tasks' = [tasks EXCEPT ![t].pc = "guard"]
    /\ UNCHANGED <<rows, ckpt, up, rec, resuming, delivered, cancelled, budget>>

ReplayMiss(t) ==
    /\ tasks[t].pc = "replay"
    /\ ckpt[tasks[t].wf][tasks[t].seq] = Nothing
    /\ tasks' = [tasks EXCEPT ![t].pc = "guard"]
    /\ UNCHANGED <<rows, ckpt, up, rec, resuming, delivered, cancelled, budget>>

\* Fresh work is refused on a CANCELLED row; otherwise the closure starts.
Guard(t) ==
    /\ tasks[t].pc = "guard"
    /\ tasks' = [tasks EXCEPT ![t] = IF rows[@.wf].status = CANCELLED
                                       THEN Returns(@, "cancelled")
                                       ELSE [@ EXCEPT !.pc = "body"]]
    /\ UNCHANGED <<rows, ckpt, up, rec, resuming, delivered, cancelled, budget>>

\* Mutant: one attempt too many.
RetryOnceMore(t) ==
    /\ tasks[t].pc = "body"
    /\ tasks[t].try <= MaxRetries
    /\ tasks' = [tasks EXCEPT ![t].try = @ + 1]
    /\ UNCHANGED <<rows, ckpt, up, rec, resuming, delivered, cancelled, budget>>

\* An attempt failed, the policy allows another one.
RetryBody(t) ==
    /\ tasks[t].pc = "body"
    /\ tasks[t].try < MaxRetries
    /\ tasks' = [tasks EXCEPT ![t].try = @ + 1]
    /\ UNCHANGED <<rows, ckpt, up, rec, resuming, delivered, cancelled, budget>>

\* The closure's last attempt ended: a value, or an error (a panic is one).
BodyEnds(t) ==
    /\ tasks[t].pc = "body"
    /\ \E o \in Outcomes :
          tasks' = [tasks EXCEPT ![t].pc = "record", ![t].got = o]
    /\ UNCHANGED <<rows, ckpt, up, rec, resuming, delivered, cancelled, budget>>

\* Mutant: the caller keeps its own outcome, whatever was recorded first.
ReportedOwn(got, canonical) == got

(***************************************************************************)
(* What the caller of checkpoint / record_failure gets when got was its    *)
(* own outcome and canonical the one on record: the canonical one, except  *)
(* that a failure keeps its own error if the recorded one failed too.      *)
(***************************************************************************)
Reported(got, canonical) ==
    IF got.kind = "fail" /\ canonical.kind = "fail" THEN got ELSE canonical

RecordStep(t) ==
    LET w   == tasks[t].wf
        k   == tasks[t].seq
        log == record_step_result(ckpt[w], k, tasks[t].got)
    IN  /\ tasks[t].pc = "record"
        /\ ckpt' = [ckpt EXCEPT ![w] = log]
        /\ tasks' = [tasks EXCEPT ![t] = Observe(@, Reported(@.got, log[k]))]
        /\ UNCHANGED <<rows, up, rec, resuming, delivered, cancelled, budget>>

(***************************************************************************)
(* The end of an execution.                                                *)
(***************************************************************************)
\* Mutant: the recovery pass is not woken when its inline run ends.
EndTaskSilently(t) ==
    /\ tasks' = [tasks EXCEPT ![t] = IdleTask]
    /\ UNCHANGED rec

\* The task is over; a recovery pass that was awaiting it goes on.
EndTask(t) ==
    /\ tasks' = [tasks EXCEPT ![t] = IdleTask]
    /\ rec' = [e \in Executors |->
                 IF rec[e].task = t
                   THEN [rec[e] EXCEPT !.pc = "next", !.cur = NoSnapshot, !.task = NoTask]
                   ELSE rec[e]]

FinalStatus(res) ==
    CASE res = "ok"    -> SUCCESS
      [] res = "error" -> ERROR
      [] OTHER         -> CANCELLED

FinalOutput(task) == IF task.res = "ok" THEN task.seen ELSE NoOutput

\* Mutant: a handle returns what was computed so far whatever the result.
DeliverAlways(task) ==
    delivered' = IF task.local
                   THEN [delivered EXCEPT ![task.wf] = @ \cup {task.seen}]
                   ELSE delivered

\* What the local handle of this run returns counts only if it is an output.
Deliver(task) ==
    delivered' = IF task.local /\ task.res = "ok"
                   THEN [delivered EXCEPT ![task.wf] = @ \cup {task.seen}]
                   ELSE delivered

Finish(t) ==
    LET w == tasks[t].wf
        s == FinalStatus(tasks[t].res)
    IN  /\ tasks[t].pc = "finish"
        /\ ~CompletionBlocked(rows[w], s)
        /\ rows' = [rows EXCEPT ![w] = set_workflow_status(@, s, FinalOutput(tasks[t]))]
        /\ Deliver(tasks[t])
        /\ EndTask(t)
        /\ UNCHANGED <<ckpt, up, resuming, cancelled, budget>>

FinishBlocked(t) ==
    /\ tasks[t].pc = "finish"
    /\ CompletionBlocked(rows[tasks[t].wf], FinalStatus(tasks[t].res))
    /\ tasks' = [tasks EXCEPT ![t].pc = "blocked"]
    /\ UNCHANGED <<rows, ckpt, up, rec, resuming, delivered, cancelled, budget>>

\* Error::Cancelled if the row still is, else the completion passes for done.
ReportBlocked(t) ==
    /\ tasks[t].pc = "blocked"
    /\ IF rows[tasks[t].wf].status = CANCELLED
         THEN UNCHANGED delivered
         ELSE Deliver(tasks[t])
    /\ EndTask(t)
    /\ UNCHANGED <<rows, ckpt, up, resuming, cancelled, budget>>

\* A polling handle sees SUCCESS and returns the stored output.
PollResult(w) ==
    /\ rows[w].status = SUCCESS
    /\ rows[w].output \notin delivered[w]
    /\ delivered' = [delivered EXCEPT ![w] = @ \cup {rows[w].output}]
    /\ UNCHANGED <<rows, ckpt, tasks, up, rec, resuming, cancelled, budget>>

\* The states in which the handler future is being polled.
InHandler(task) == task.pc \in {"replay", "guard", "body", "record"}

\* The deadline elapses: the handler future is dropped where it stands.
DeadlineElapses(t) ==
    /\ InHandler(tasks[t])
    /\ tasks[t].deadline
    /\ Disrupt("timeout")
    /\ tasks' = [tasks EXCEPT ![t] = Returns(@, "timeout")]
    /\ UNCHANGED <<rows, ckpt, up, rec, resuming, delivered, cancelled>>

\* The function panics between two steps: no status is written.
BodyPanics(t) ==
    /\ tasks[t].pc = "replay"
    /\ Disrupt("panic")
    /\ EndTask(t)
    /\ UNCHANGED <<rows, ckpt, up, resuming, delivered, cancelled>>

\* Mutant: checkpoint drops the storage error and returns the step's outcome.
StepFaultDropped(t) ==
    /\ tasks[t].pc = "record"
    /\ Disrupt("fault")
    /\ tasks' = [tasks EXCEPT ![t] = Observe(@, @.got)]
    /\ UNCHANGED <<rows, ckpt, up, rec, resuming, delivered, cancelled>>

(***************************************************************************)
(* A statement of a task fails with a storage error.  Inside a step the    *)
(* error is the step's result, so a function that tolerates the step goes  *)
(* on without a checkpoint; the INSERT may have taken effect all the same. *)
(* A failed status write ends the task.                                    *)
(***************************************************************************)
StepFault(t) ==
    LET w == tasks[t].wf
        k == tasks[t].seq
    IN  /\ tasks[t].pc \in {"replay", "guard", "record"}
        /\ Disrupt("fault")
        /\ \/ UNCHANGED ckpt
           \/ /\ tasks[t].pc = "record"
              /\ ckpt' = [ckpt EXCEPT ![w] = record_step_result(@, k, tasks[t].got)]
        /\ \E v \in Values :
              tasks' = [tasks EXCEPT ![t] = IF k \in Tolerated
                                              THEN Observe(@, Fail(v))
                                              ELSE Returns(@, "error")]
        /\ UNCHANGED <<rows, up, rec, resuming, delivered, cancelled>>

FinishFault(t) ==
    /\ tasks[t].pc \in {"finish", "blocked"}
    /\ Disrupt("fault")
    /\ EndTask(t)
    /\ UNCHANGED <<rows, ckpt, up, resuming, delivered, cancelled>>

(***************************************************************************)
(* Crash, launch and recovery.                                             *)
(***************************************************************************)
PendingSnapshot(owners) ==
    {[wf |-> w, queue |-> rows[w].queue, deadline |-> rows[w].deadline] :
        w \in {x \in Workflows : rows[x].status = PENDING /\ rows[x].exec \in owners}}

\* dispatch_pending_workflows over a snapshot; an empty one is over at once.
BeginRecovery(e, snap) ==
    rec' = [rec EXCEPT ![e] = IF snap = {} THEN IdleRecovery
                              ELSE [IdleRecovery EXCEPT !.pc = "next", !.todo = snap]]

Crash(e) ==
    /\ e \in up
    /\ Disrupt("crash")
    /\ up' = up \ {e}
    /\ tasks' = [t \in Tasks |-> IF tasks[t].exec = e THEN IdleTask ELSE tasks[t]]
    /\ rec' = [rec EXCEPT ![e] = IdleRecovery]
    /\ UNCHANGED <<rows, ckpt, resuming, delivered, cancelled>>

\* launch() recovers what this executor id owns, if it was opted into.
Launch(e) ==
    /\ e \notin up
    /\ up' = up \cup {e}
    /\ IF RecoverOnLaunch THEN BeginRecovery(e, PendingSnapshot({e})) ELSE UNCHANGED rec
    /\ UNCHANGED <<rows, ckpt, tasks, resuming, delivered, cancelled, budget>>

\* recover(): every PENDING row of this version, whoever owns it.
Recover(e) ==
    /\ e \in up
    /\ rec[e].pc = "idle"
    /\ PendingSnapshot(Executors \cup {NoExecutor}) # {}
    /\ Disrupt("recover")
    /\ BeginRecovery(e, PendingSnapshot(Executors \cup {NoExecutor}))
    /\ UNCHANGED <<rows, ckpt, tasks, up, resuming, delivered, cancelled>>

\* The next record of the snapshot: count the attempt, park it past the cap.
BumpNext(e) ==
    /\ rec[e].pc = "next"
    /\ \E r \in rec[e].todo :
         LET row == bump_recovery_attempts(rows[r.wf], MaxRecoveryAttempts)
             rest == [rec[e] EXCEPT !.todo = @ \ {r}]
         IN  /\ rows' = [rows EXCEPT ![r.wf] = row]
             /\ rec' = [rec EXCEPT ![e] =
                          IF row.attempts > MaxRecoveryAttempts
                            THEN rest
                            ELSE [rest EXCEPT !.cur = r,
                                    !.pc = IF r.queue # NoQueue THEN "requeue" ELSE "run"]]
             /\ cancelled' = IF row.status = PARKED THEN cancelled \ {r.wf} ELSE cancelled
    /\ UNCHANGED <<ckpt, tasks, up, resuming, delivered, budget>>

\* It was claimed off a queue when the snapshot was taken: back it goes.
Requeue(e) ==
    /\ rec[e].pc = "requeue"
    /\ rows' = [rows EXCEPT ![rec[e].cur.wf] = set_workflow_status(@, ENQUEUED, NoOutput)]
    /\ rec' = [rec EXCEPT ![e].pc = "next", ![e].cur = NoSnapshot]
    /\ cancelled' = cancelled \ {rec[e].cur.wf}
    /\ UNCHANGED <<ckpt, tasks, up, resuming, delivered, budget>>

\* Otherwise it is run to completion before the next record is looked at.
RunInline(e, t) ==
    /\ rec[e].pc = "run"
    /\ Spawn(t, rec[e].cur.wf, e, rec[e].cur.deadline, FALSE)
    /\ rec' = [rec EXCEPT ![e].pc = "wait", ![e].task = t]
    /\ UNCHANGED <<rows, ckpt, up, resuming, delivered, cancelled, budget>>

RecoveryEnds(e) ==
    /\ rec[e].pc = "next"
    /\ rec[e].todo = {}
    /\ rec' = [rec EXCEPT ![e] = IdleRecovery]
    /\ UNCHANGED <<rows, ckpt, tasks, up, resuming, delivered, cancelled, budget>>

\* `?` on a failed statement abandons the rest of the snapshot.
RecoveryFault(e) ==
    /\ rec[e].pc \in {"next", "requeue"}
    /\ Disrupt("fault")
    /\ rec' = [rec EXCEPT ![e] = IdleRecovery]
    /\ UNCHANGED <<rows, ckpt, tasks, up, resuming, delivered, cancelled>>

(***************************************************************************)
(* Management: any engine or client sharing the database.                  *)
(***************************************************************************)
Cancel(w) ==
    /\ cancel_workflow(rows[w]) # rows[w]
    /\ Disrupt("cancel")
    /\ rows' = [rows EXCEPT ![w] = cancel_workflow(@)]
    /\ cancelled' = cancelled \cup {w}
    /\ UNCHANGED <<ckpt, tasks, up, rec, resuming, delivered>>

\* resume_workflow_on, first statement ...
Resume(w) ==
    /\ CanResume(rows[w])
    /\ Disrupt("resume")
    /\ rows' = [rows EXCEPT ![w] = resume_workflow(@)]
    /\ resuming' = resuming \cup {w}
    /\ cancelled' = cancelled \ {w}
    /\ UNCHANGED <<ckpt, tasks, up, rec, delivered>>

\* ... and second one, whatever became of the row in the meantime.
ResumeEnqueues(w, q) ==
    /\ w \in resuming
    /\ rows' = [rows EXCEPT ![w] = enqueue_existing(@, q)]
    /\ resuming' = resuming \ {w}
    /\ cancelled' = cancelled \ {w}
    /\ UNCHANGED <<ckpt, tasks, up, rec, delivered, budget>>

\* The caller dies, or its second statement fails.
ResumeLost(w) ==
    /\ w \in resuming
    /\ Disrupt("crash")
    /\ resuming' = resuming \ {w}
    /\ UNCHANGED <<rows, ckpt, tasks, up, rec, delivered, cancelled>>

(***************************************************************************)
(* The specification.                                                      *)
(***************************************************************************)
TaskStep(t) ==
    \/ ReplayRecorded(t) \/ ReplayMiss(t) \/ Guard(t) \/ RetryBody(t) \/ BodyEnds(t)
    \/ RecordStep(t) \/ Finish(t) \/ FinishBlocked(t) \/ ReportBlocked(t)

TaskDisruption(t) ==
    \/ DeadlineElapses(t) \/ BodyPanics(t) \/ StepFault(t) \/ FinishFault(t)

RecoveryStep(e) ==
    \/ BumpNext(e) \/ Requeue(e) \/ RecoveryEnds(e) \/ \E t \in Tasks : RunInline(e, t)

Manage(w) ==
    \/ Cancel(w) \/ Resume(w) \/ ResumeLost(w) \/ \E q \in Queues : ResumeEnqueues(w, q)

Next ==
    \/ \E t \in Tasks : TaskStep(t) \/ TaskDisruption(t)
    \/ \E e \in Executors : RecoveryStep(e) \/ RecoveryFault(e) \/ Crash(e) \/ Launch(e) \/ Recover(e)
    \/ \E w \in Workflows : Manage(w) \/ PollResult(w) \/ ReleaseDelayed(w)
    \/ \E w \in Workflows, q \in Queues, delayed \in BOOLEAN : StartQueued(w, q, delayed)
    \/ \E e \in Executors, w \in Workflows, t \in Tasks : StartDirect(e, w, t) \/ Claim(e, w, t)

Spec == Init /\ [][Next]_vars

(***************************************************************************)
(* Fairness.  tokio polls every spawned task and recovery pass to its next *)
(* await, every dispatcher polls its queues and the delayed rows, and a    *)
(* process that went down is started again.  Nothing is assumed of the     *)
(* disruptions.  Claim and RunInline need a free task, which the bound     *)
(* Tasks (not the code) can take away again and again: strong fairness.    *)
(* A step whose closure never returns is outside the assumption, and so is *)
(* a caller that never makes its second statement.                         *)
(***************************************************************************)
Fairness ==
    /\ \A t \in Tasks : WF_vars(ReplayRecorded(t) \/ ReplayMiss(t) \/ Guard(t) \/ BodyEnds(t)
                                \/ RecordStep(t) \/ Finish(t) \/ FinishBlocked(t) \/ ReportBlocked(t))
    /\ \A e \in Executors :
          /\ WF_vars(BumpNext(e) \/ Requeue(e) \/ RecoveryEnds(e))
          /\ SF_vars(\E t \in Tasks : RunInline(e, t))
          /\ WF_vars(Launch(e))
    /\ \A w \in Workflows :
          /\ WF_vars(ReleaseDelayed(w))
          /\ SF_vars(\E e \in Executors, t \in Tasks : Claim(e, w, t))
          /\ WF_vars(\E q \in Queues : ResumeEnqueues(w, q))

FairSpec == Spec /\ Fairness

(***************************************************************************)
(* Properties that hold.                                                   *)
(***************************************************************************)
\* The outputs anybody has seen or can still read.
Results(w) == delivered[w] \cup ({rows[w].output} \ {NoOutput})

(***************************************************************************)
(* Whatever an execution has observed of a step is what the log holds, for *)
(* any number of executions of the workflow at once, each of them possibly *)
(* overtaken between its get_step_result and its record_step_result.       *)
(***************************************************************************)
ReplayAgreement ==
    \A t \in Tasks : tasks[t].pc # "idle" =>
        \A k \in Steps : tasks[t].seen[k] # Nothing =>
            SameOutcome(tasks[t].seen[k], ckpt[tasks[t].wf][k])

(***************************************************************************)
(* The log of a workflow has no hole, and nothing is recorded behind a     *)
(* failure the function does not handle: every step's outcome is on record *)
(* before any execution moves past it.                                     *)
(***************************************************************************)
LogSequential ==
    \A w \in Workflows : \A k \in Recorded(ckpt[w]) :
        \A j \in 1..(k - 1) : Passes(j, ckpt[w][j])

(***************************************************************************)
(* All handles of a workflow return one and the same output, and so does   *)
(* its row: the one the complete log determines, however many executions,  *)
(* resumes and recoveries produced it.                                     *)
(***************************************************************************)
OneResult ==
    \A w \in Workflows : \A o \in Results(w) :
        /\ \A k \in Steps : Passes(k, ckpt[w][k])
        /\ Canon(o) = Canon(ckpt[w])

(***************************************************************************)
(* The execution core implements the exactly-once log.                     *)
(***************************************************************************)
Promise == INSTANCE ExactlyOnceLog WITH
    log <- ckpt, results <- [w \in Workflows |-> {Canon(o) : o \in Results(w)}]

\* With all its executions, crashes and resumes, durare looks like that log.
ImplementsExactlyOnceLog == Promise!Spec

(***************************************************************************)
(* A step that was on record when an execution began is not run again by   *)
(* it: replay does not repeat side effects.                                *)
(***************************************************************************)
ReplayRunsNothing ==
    \A t \in Tasks : tasks[t].pc \in {"guard", "body", "record"} =>
        tasks[t].seq \notin tasks[t].base

(***************************************************************************)
(* A workflow recovered past the cap is not dispatched again before it is  *)
(* resumed (which resets the counter), so a crash loop comes to an end.    *)
(***************************************************************************)
CapHolds ==
    \A w \in Workflows :
        rows[w].attempts > MaxRecoveryAttempts =>
            rows[w].status \notin {ENQUEUED, DELAYED, PENDING}

(***************************************************************************)
(* Whatever a live execution, a deadline or a start does, a cancellation   *)
(* holds until a resume or a recovery pass acts on the workflow: the       *)
(* completion of the run that was under way does not get through           *)
(* (set_workflow_status: it must stay cancelled).                          *)
(***************************************************************************)
CancelledStaysCancelled ==
    \A w \in cancelled : rows[w].status = CANCELLED

\* Nobody is in the middle of something with w.
Quiet(w) ==
    /\ \A t \in Tasks : tasks[t].wf # w
    /\ w \notin resuming
    /\ \A e \in Executors : rec[e].cur.wf # w /\ \A r \in rec[e].todo : r.wf # w

(***************************************************************************)
(* A terminal workflow that no execution, resume or recovery pass begun    *)
(* earlier is still busy with is over: nothing touches its row or starts   *)
(* another execution, except a resume or cancel of one that did not        *)
(* complete (is_terminal: no further execution will occur).                *)
(***************************************************************************)
QuietIsFinal ==
    [][\A w \in Workflows :
          is_terminal(rows[w].status) /\ Quiet(w) =>
              \/ rows'[w] = rows[w] /\ Quiet(w)'
              \/ /\ ~is_completion(rows[w].status)
                 /\ w \in resuming' \/ rows'[w].status = CANCELLED]_vars

(***************************************************************************)
(* Under FairSpec, a workflow that was started comes to rest in a terminal *)
(* status: no crash strands it and recovery does not cycle.                *)
(***************************************************************************)
Settles ==
    \A w \in Workflows :
        (rows[w].status # ABSENT) ~> [](is_terminal(rows[w].status))
=============================================================================
