----------------------- MODULE DurableExecution_proofs -----------------------
(***************************************************************************)
(* Proofs about the execution core, for every number of executors,         *)
(* workflows, steps, payloads, concurrent tasks and disruptions.           *)
(***************************************************************************)
EXTENDS DurableExecution, TLAPS

\* A row that says SUCCESS has an output to return, one that does not exist has none.
Row ==
    {row \in RowType(Logs) : /\ row.status = SUCCESS => row.output # NoOutput
                             /\ row.status = ABSENT => row.output = NoOutput}

(***************************************************************************)
(* Types of the values the actions write.                                  *)
(***************************************************************************)
LEMMA LogTypes ==
    /\ EmptyLog \in Logs
    /\ Nothing \notin Outcomes
    /\ \A log \in Logs, k \in Steps, o \in Outcomes :
          /\ record_step_result(log, k, o) \in Logs
          /\ record_step_result(log, k, o)[k] \in Outcomes
  BY StepAssumption DEF EmptyLog, Logs, Nothing, Outcomes, record_step_result

LEMMA RowTypes ==
    /\ AbsentRow \in Row
    /\ \A e \in Executors, b \in BOOLEAN : DirectRow(e, b) \in Row
    /\ \A q \in Queues, b \in BOOLEAN : QueuedRow(q, b) \in Row
    /\ \A row, new \in Row : insert_workflow_status(row, new) \in Row
    /\ \A row \in Row, s \in Statuses \ {ABSENT}, o \in Logs \cup {NoOutput} :
          (s = SUCCESS => o # NoOutput) => set_workflow_status(row, s, o) \in Row
    /\ \A row \in Row :
          /\ cancel_workflow(row) \in Row
          /\ resume_workflow(row) \in Row
          /\ transition_delayed(row) \in Row
          /\ bump_recovery_attempts(row, MaxRecoveryAttempts) \in Row
    /\ \A row \in Row, q \in Queues : enqueue_existing(row, q) \in Row
    /\ \A row \in Row, e \in Executors, b \in BOOLEAN : claim(row, e, b) \in Row
<1> USE DEF Row, RowType, Statuses, ENQUEUED, DELAYED, PENDING, SUCCESS, ERROR,
            CANCELLED, PARKED, ABSENT
<1>1. AbsentRow \in Row
  BY DEF AbsentRow
<1>2. \A e \in Executors, b \in BOOLEAN : DirectRow(e, b) \in Row
  BY <1>1 DEF DirectRow
<1>3. \A q \in Queues, b \in BOOLEAN : QueuedRow(q, b) \in Row
  BY <1>1 DEF QueuedRow
<1>4. \A row, new \in Row : insert_workflow_status(row, new) \in Row
  BY DEF insert_workflow_status
<1>5. \A row \in Row, s \in Statuses \ {ABSENT}, o \in Logs \cup {NoOutput} :
          (s = SUCCESS => o # NoOutput) => set_workflow_status(row, s, o) \in Row
  <2> SUFFICES ASSUME NEW row \in Row, NEW s \in Statuses \ {ABSENT}, NEW o \in Logs \cup {NoOutput},
                      s = SUCCESS => o # NoOutput
               PROVE  set_workflow_status(row, s, o) \in Row
    OBVIOUS
  <2>1. CASE CompletionBlocked(row, s)
    BY <2>1 DEF set_workflow_status
  <2>2. CASE ~CompletionBlocked(row, s) /\ o = NoOutput
    BY <2>2 DEF set_workflow_status
  <2>3. CASE ~CompletionBlocked(row, s) /\ o # NoOutput
    BY <2>3 DEF set_workflow_status
  <2> QED
    BY <2>1, <2>2, <2>3
<1>6. \A row \in Row :
          /\ cancel_workflow(row) \in Row
          /\ resume_workflow(row) \in Row
          /\ transition_delayed(row) \in Row
          /\ bump_recovery_attempts(row, MaxRecoveryAttempts) \in Row
  <2> SUFFICES ASSUME NEW row \in Row
               PROVE  /\ cancel_workflow(row) \in Row
                      /\ resume_workflow(row) \in Row
                      /\ transition_delayed(row) \in Row
                      /\ bump_recovery_attempts(row, MaxRecoveryAttempts) \in Row
    OBVIOUS
  <2>1. cancel_workflow(row) \in Row
    BY DEF cancel_workflow
  <2>2. resume_workflow(row) \in Row
    BY DEF resume_workflow
  <2>3. transition_delayed(row) \in Row
    BY DEF transition_delayed
  <2>4. bump_recovery_attempts(row, MaxRecoveryAttempts) \in Row
    <3> DEFINE n == row.attempts + 1
               s == IF n > MaxRecoveryAttempts THEN PARKED ELSE row.status
    <3>1. /\ n \in Nat /\ s \in Statuses
          /\ (s = SUCCESS => row.status = SUCCESS) /\ (s = ABSENT => row.status = ABSENT)
      OBVIOUS
    <3>2. bump_recovery_attempts(row, MaxRecoveryAttempts) =
             [row EXCEPT !.attempts = n, !.status = s]
      BY DEF bump_recovery_attempts
    <3> HIDE DEF n, s
    <3> QED
      BY <3>1, <3>2
  <2> QED
    BY <2>1, <2>2, <2>3, <2>4
<1>7. \A row \in Row, q \in Queues : enqueue_existing(row, q) \in Row
  BY DEF enqueue_existing
<1>8. \A row \in Row, e \in Executors, b \in BOOLEAN : claim(row, e, b) \in Row
  <2> SUFFICES ASSUME NEW row \in Row, NEW e \in Executors, NEW b \in BOOLEAN
               PROVE  claim(row, e, b) \in Row
    OBVIOUS
  <2>1. PICK d \in BOOLEAN : d = (row.deadline \/ b)
    OBVIOUS
  <2>2. claim(row, e, b) = [row EXCEPT !.status = PENDING, !.exec = e, !.deadline = d]
    BY <2>1 DEF claim
  <2> QED
    BY <2>2
<1> QED
  BY <1>1, <1>2, <1>3, <1>4, <1>5, <1>6, <1>7, <1>8

LEMMA TaskTypes ==
    /\ IdleTask \in Task
    /\ IdleTask.pc = "idle"
    /\ \A task \in Task, r \in {"ok", "error", "cancelled", "timeout"} :
          /\ Returns(task, r) \in Task
          /\ Returns(task, r).pc = "finish"
          /\ Returns(task, r).wf = task.wf
    /\ \A task \in Task, o \in Outcomes :
          /\ Observe(task, o) \in Task
          /\ Observe(task, o).pc \in {"replay", "finish"}
          /\ Observe(task, o).wf = task.wf
<1>1. IdleTask \in Task /\ IdleTask.pc = "idle"
  BY StepAssumption, ExecutionAssumption, LogTypes DEF IdleTask, Task, Steps
<1>a. 0 \in 0..MaxRetries /\ Nothing \in Outcomes \cup {Nothing}
  BY ExecutionAssumption
<1>2. ASSUME NEW task \in Task, NEW r \in {"ok", "error", "cancelled", "timeout"}
      PROVE  /\ Returns(task, r) \in Task
             /\ Returns(task, r).pc = "finish"
             /\ Returns(task, r).wf = task.wf
  <2>1. Returns(task, r) \in Task
    BY <1>a DEF Returns, Task
  <2>2. Returns(task, r).pc = "finish" /\ Returns(task, r).wf = task.wf
    BY DEF Returns, Task
  <2> QED
    BY <2>1, <2>2
<1>3. ASSUME NEW task \in Task, NEW o \in Outcomes
      PROVE  /\ Observe(task, o) \in Task
             /\ Observe(task, o).pc \in {"replay", "finish"}
             /\ Observe(task, o).wf = task.wf
  <2> DEFINE now == [task EXCEPT !.seen[task.seq] = o, !.try = 0, !.got = Nothing]
             goon == [now EXCEPT !.pc = "replay", !.seq = @ + 1]
  <2>1. now \in Task /\ now.wf = task.wf /\ now.seq = task.seq
    <3>1. [task.seen EXCEPT ![task.seq] = o] \in Logs
      BY DEF Task, Logs
    <3> QED
      BY <1>a, <3>1 DEF Task
  <2>2. task.seq # NSteps => goon \in Task /\ goon.pc = "replay" /\ goon.wf = task.wf
    <3>1. task.seq # NSteps => now.seq + 1 \in Steps
      BY <2>1, StepAssumption DEF Task, Steps
    <3> QED
      BY <2>1, <3>1 DEF Task
  <2>3. Observe(task, o) = IF ~Passes(task.seq, o) THEN Returns(now, "error")
                           ELSE IF task.seq = NSteps THEN Returns(now, "ok") ELSE goon
    BY DEF Observe
  <2> HIDE DEF now, goon
  <2> QED
    BY <1>2, <2>1, <2>2, <2>3
<1> QED
  BY <1>1, <1>2, <1>3

(***************************************************************************)
(* TypeOK is not inductive: a task that has lost its workflow, or one that *)
(* records no outcome, could write anything.  These are the tasks and      *)
(* recovery passes that exist.                                             *)
(***************************************************************************)
GoodTask ==
    {task \in Task : /\ task.pc # "idle" => task.wf \in Workflows
                     /\ task.pc = "record" => task.got \in Outcomes}

GoodRecovery ==
    {r \in Recovery : r.pc \in {"requeue", "run"} => r.cur \in Snapshot}

TypeInv ==
    /\ rows \in [Workflows -> Row]
    /\ ckpt \in [Workflows -> Logs]
    /\ tasks \in [Tasks -> GoodTask]
    /\ up \subseteq Executors
    /\ rec \in [Executors -> GoodRecovery]
    /\ resuming \subseteq Workflows
    /\ delivered \in [Workflows -> SUBSET Logs]
    /\ cancelled \subseteq Workflows
    /\ budget \in 0..MaxDisruptions

LEMMA TypeInvImplies == TypeInv => TypeOK
  BY DEF TypeInv, TypeOK, GoodTask, GoodRecovery, Row

LEMMA GoodTasks ==
    /\ IdleTask \in GoodTask
    /\ \A w \in Workflows, e \in Executors, d, b \in BOOLEAN : NewTask(w, e, d, b) \in GoodTask
    /\ \A task \in GoodTask : task.pc # "idle" =>
          /\ \A r \in {"ok", "error", "cancelled", "timeout"} : Returns(task, r) \in GoodTask
          /\ \A o \in Outcomes : Observe(task, o) \in GoodTask
          /\ \A p \in {"guard", "body", "blocked"} : [task EXCEPT !.pc = p] \in GoodTask
          /\ \A o \in Outcomes : [task EXCEPT !.pc = "record", !.got = o] \in GoodTask
          /\ task.pc = "body" /\ task.try < MaxRetries => [task EXCEPT !.try = @ + 1] \in GoodTask
<1>1. IdleTask \in GoodTask
  BY TaskTypes DEF GoodTask
<1>2. ASSUME NEW w \in Workflows, NEW e \in Executors, NEW d \in BOOLEAN, NEW b \in BOOLEAN
      PROVE  NewTask(w, e, d, b) \in GoodTask
  <2>1. Recorded(ckpt[w]) \in SUBSET Steps
    BY DEF Recorded
  <2>2. NewTask(w, e, d, b) \in Task /\ NewTask(w, e, d, b).pc = "replay" /\ NewTask(w, e, d, b).wf = w
    <3>1. NewTask(w, e, d, b) \in Task
      BY <2>1, TaskTypes DEF NewTask, Task
    <3>2. NewTask(w, e, d, b).pc = "replay" /\ NewTask(w, e, d, b).wf = w
      BY DEF NewTask, IdleTask
    <3> QED
      BY <3>1, <3>2
  <2> QED
    BY <2>2 DEF GoodTask
<1>3. ASSUME NEW task \in GoodTask, task.pc # "idle"
      PROVE  /\ \A r \in {"ok", "error", "cancelled", "timeout"} : Returns(task, r) \in GoodTask
             /\ \A o \in Outcomes : Observe(task, o) \in GoodTask
  BY <1>3, TaskTypes DEF GoodTask
<1>4. ASSUME NEW task \in GoodTask, task.pc # "idle"
      PROVE  /\ \A p \in {"guard", "body", "blocked"} : [task EXCEPT !.pc = p] \in GoodTask
             /\ \A o \in Outcomes : [task EXCEPT !.pc = "record", !.got = o] \in GoodTask
  BY <1>4 DEF GoodTask, Task
<1>5. ASSUME NEW task \in GoodTask, task.pc = "body", task.try < MaxRetries
      PROVE  [task EXCEPT !.try = @ + 1] \in GoodTask
  <2>1. task.try + 1 \in 0..MaxRetries
    BY <1>5, ExecutionAssumption DEF GoodTask, Task
  <2> QED
    BY <1>5, <2>1 DEF GoodTask, Task
<1> QED
  BY <1>1, <1>2, <1>3, <1>4, <1>5

LEMMA GoodRecoveries ==
    /\ IdleRecovery \in GoodRecovery
    /\ \A snap \in SUBSET Snapshot :
          [IdleRecovery EXCEPT !.pc = "next", !.todo = snap] \in GoodRecovery
    /\ \A r \in GoodRecovery :
          /\ [r EXCEPT !.pc = "next", !.cur = NoSnapshot, !.task = NoTask] \in GoodRecovery
          /\ [r EXCEPT !.pc = "next", !.cur = NoSnapshot] \in GoodRecovery
          /\ \A t \in Tasks : [r EXCEPT !.pc = "wait", !.task = t] \in GoodRecovery
          /\ \A x \in r.todo, p \in {"requeue", "run"} :
                /\ x \in Snapshot
                /\ r.pc = "next" => [r EXCEPT !.todo = @ \ {x}] \in GoodRecovery
                /\ [[r EXCEPT !.todo = @ \ {x}] EXCEPT !.cur = x, !.pc = p] \in GoodRecovery
<1>1. IdleRecovery \in GoodRecovery
  BY DEF GoodRecovery, Recovery, IdleRecovery
<1>2. \A snap \in SUBSET Snapshot :
          [IdleRecovery EXCEPT !.pc = "next", !.todo = snap] \in GoodRecovery
  BY DEF GoodRecovery, Recovery, IdleRecovery
<1>3. ASSUME NEW r \in GoodRecovery
      PROVE  /\ [r EXCEPT !.pc = "next", !.cur = NoSnapshot, !.task = NoTask] \in GoodRecovery
             /\ [r EXCEPT !.pc = "next", !.cur = NoSnapshot] \in GoodRecovery
             /\ \A t \in Tasks : [r EXCEPT !.pc = "wait", !.task = t] \in GoodRecovery
  BY DEF GoodRecovery, Recovery
<1>4. ASSUME NEW r \in GoodRecovery, NEW x \in r.todo, NEW p \in {"requeue", "run"}
      PROVE  /\ x \in Snapshot
             /\ r.pc = "next" => [r EXCEPT !.todo = @ \ {x}] \in GoodRecovery
             /\ [[r EXCEPT !.todo = @ \ {x}] EXCEPT !.cur = x, !.pc = p] \in GoodRecovery
  <2>1. x \in Snapshot /\ r.todo \ {x} \in SUBSET Snapshot
    BY DEF GoodRecovery, Recovery
  <2>2. r.pc = "next" => [r EXCEPT !.todo = @ \ {x}] \in GoodRecovery
    BY <2>1 DEF GoodRecovery, Recovery
  <2>3. [[r EXCEPT !.todo = @ \ {x}] EXCEPT !.cur = x, !.pc = p] \in GoodRecovery
    BY <2>1 DEF GoodRecovery, Recovery
  <2> QED
    BY <2>1, <2>2, <2>3
<1> QED
  BY <1>1, <1>2, <1>3, <1>4

(***************************************************************************)
(* One step per action; under it, what the action writes.                  *)
(***************************************************************************)
LEMMA TypeStep ==
    ASSUME TypeInv, [Next]_vars
    PROVE  TypeInv'
<1> USE DEF TypeInv
<1>s. \A t \in Tasks : tasks[t] \in GoodTask /\ tasks[t] \in Task
  BY DEF GoodTask
<1>w. \A t \in Tasks : tasks[t].pc # "idle" =>
         /\ tasks[t].wf \in Workflows
         /\ rows[tasks[t].wf] \in Row
  BY DEF GoodTask
<1>d. \A kind : Disrupt(kind) => (budget \in 0..MaxDisruptions)'
  BY ExecutionAssumption DEF Disrupt
<1>e. ASSUME NEW t \in Tasks, EndTask(t)
      PROVE  (tasks \in [Tasks -> GoodTask])' /\ (rec \in [Executors -> GoodRecovery])'
  <2>1. (tasks \in [Tasks -> GoodTask])'
    BY <1>e, GoodTasks DEF EndTask
  <2>2. (rec \in [Executors -> GoodRecovery])'
    BY <1>e, GoodRecoveries DEF EndTask
  <2> QED
    BY <2>1, <2>2
<1>l. ASSUME NEW t \in Tasks, tasks[t].pc # "idle", Deliver(tasks[t])
      PROVE  (delivered \in [Workflows -> SUBSET Logs])'
  <2>1. tasks[t].seen \in Logs
    BY <1>s DEF Task
  <2> QED
    BY <1>l, <1>w, <2>1 DEF Deliver
<1>1. ASSUME NEW t \in Tasks, ReplayRecorded(t) PROVE TypeInv'
  <2>1. ckpt[tasks[t].wf][tasks[t].seq] \in Outcomes
    BY <1>1, <1>s, <1>w DEF ReplayRecorded, Logs, Task
  <2>2. (tasks \in [Tasks -> GoodTask])'
    BY <1>1, <2>1, GoodTasks DEF ReplayRecorded
  <2> QED
    BY <1>1, <2>2 DEF ReplayRecorded
<1>2. ASSUME NEW t \in Tasks, ReplayMiss(t) PROVE TypeInv'
  <2>1. (tasks \in [Tasks -> GoodTask])'
    BY <1>2, GoodTasks DEF ReplayMiss
  <2> QED
    BY <1>2, <2>1 DEF ReplayMiss
<1>3. ASSUME NEW t \in Tasks, Guard(t) PROVE TypeInv'
  <2>1. (tasks \in [Tasks -> GoodTask])'
    BY <1>3, GoodTasks DEF Guard
  <2> QED
    BY <1>3, <2>1 DEF Guard
<1>4. ASSUME NEW t \in Tasks, RetryBody(t) PROVE TypeInv'
  <2>1. (tasks \in [Tasks -> GoodTask])'
    BY <1>4, GoodTasks DEF RetryBody
  <2> QED
    BY <1>4, <2>1 DEF RetryBody
<1>5. ASSUME NEW t \in Tasks, BodyEnds(t) PROVE TypeInv'
  <2>1. (tasks \in [Tasks -> GoodTask])'
    <3>1. PICK o \in Outcomes : tasks' = [tasks EXCEPT ![t].pc = "record", ![t].got = o]
      BY <1>5 DEF BodyEnds
    <3>2. tasks' = [tasks EXCEPT ![t] = [tasks[t] EXCEPT !.pc = "record", !.got = o]]
      BY <3>1, <1>s DEF Task
    <3> QED
      BY <1>5, <3>2, GoodTasks DEF BodyEnds
  <2> QED
    BY <1>5, <2>1 DEF BodyEnds
<1>6. ASSUME NEW t \in Tasks, RecordStep(t) PROVE TypeInv'
  <2> DEFINE k   == tasks[t].seq
             log == record_step_result(ckpt[tasks[t].wf], k, tasks[t].got)
  <2>1. k \in Steps /\ tasks[t].got \in Outcomes
    BY <1>6, <1>s DEF RecordStep, GoodTask, Task
  <2>2. log \in Logs /\ log[k] \in Outcomes
    BY <1>6, <1>w, <2>1, LogTypes DEF RecordStep
  <2>3. Reported(tasks[t].got, log[k]) \in Outcomes
    BY <2>1, <2>2 DEF Reported
  <2>4. (tasks \in [Tasks -> GoodTask])'
    BY <1>6, <2>3, GoodTasks DEF RecordStep
  <2>5. (ckpt \in [Workflows -> Logs])'
    BY <1>6, <2>2 DEF RecordStep
  <2> QED
    BY <1>6, <2>4, <2>5 DEF RecordStep
<1>7. ASSUME NEW t \in Tasks, Finish(t) PROVE TypeInv'
  <2>1. FinalStatus(tasks[t].res) \in Statuses \ {ABSENT}
    BY DEF FinalStatus, Statuses, SUCCESS, ERROR, CANCELLED, ABSENT
  <2>2. /\ FinalOutput(tasks[t]) \in Logs \cup {NoOutput}
        /\ FinalStatus(tasks[t].res) = SUCCESS => FinalOutput(tasks[t]) # NoOutput
    BY <1>s, ExecutionAssumption
       DEF FinalOutput, FinalStatus, Task, SUCCESS, ERROR, CANCELLED
  <2>3. (rows \in [Workflows -> Row])'
    BY <1>7, <1>w, <2>1, <2>2, RowTypes DEF Finish
  <2> QED
    BY <1>7, <1>e, <1>l, <2>3 DEF Finish
<1>8. ASSUME NEW t \in Tasks, FinishBlocked(t) PROVE TypeInv'
  <2>1. (tasks \in [Tasks -> GoodTask])'
    BY <1>8, GoodTasks DEF FinishBlocked
  <2> QED
    BY <1>8, <2>1 DEF FinishBlocked
<1>9. ASSUME NEW t \in Tasks, ReportBlocked(t) PROVE TypeInv'
  BY <1>9, <1>e, <1>l DEF ReportBlocked
<1>10. ASSUME NEW t \in Tasks, DeadlineElapses(t) PROVE TypeInv'
  <2>1. (tasks \in [Tasks -> GoodTask])'
    BY <1>10, GoodTasks DEF DeadlineElapses, InHandler
  <2> QED
    BY <1>10, <1>d, <2>1 DEF DeadlineElapses
<1>11. ASSUME NEW t \in Tasks, BodyPanics(t) PROVE TypeInv'
  BY <1>11, <1>d, <1>e DEF BodyPanics
<1>12. ASSUME NEW t \in Tasks, StepFault(t) PROVE TypeInv'
  <2>1. (tasks \in [Tasks -> GoodTask])'
    <3>1. PICK v \in Values : tasks' = [tasks EXCEPT ![t] = IF tasks[t].seq \in Tolerated
                                                              THEN Observe(@, Fail(v))
                                                              ELSE Returns(@, "error")]
      BY <1>12 DEF StepFault
    <3>2. Fail(v) \in Outcomes
      BY DEF Fail, Outcomes
    <3> QED
      BY <1>12, <3>1, <3>2, GoodTasks DEF StepFault
  <2>2. (ckpt \in [Workflows -> Logs])'
    <3>1. tasks[t].pc = "record" =>
             record_step_result(ckpt[tasks[t].wf], tasks[t].seq, tasks[t].got) \in Logs
      BY <1>w, <1>s, LogTypes DEF GoodTask, Task
    <3> QED
      BY <1>12, <3>1 DEF StepFault
  <2> QED
    BY <1>12, <1>d, <2>1, <2>2 DEF StepFault
<1>13. ASSUME NEW t \in Tasks, FinishFault(t) PROVE TypeInv'
  BY <1>13, <1>d, <1>e DEF FinishFault
<1>14. ASSUME NEW e \in Executors, BumpNext(e) PROVE TypeInv'
  <2>1. PICK r \in rec[e].todo :
          LET row == bump_recovery_attempts(rows[r.wf], MaxRecoveryAttempts)
              rest == [rec[e] EXCEPT !.todo = @ \ {r}]
          IN  /\ rows' = [rows EXCEPT ![r.wf] = row]
              /\ rec' = [rec EXCEPT ![e] =
                           IF row.attempts > MaxRecoveryAttempts
                             THEN rest
                             ELSE [rest EXCEPT !.cur = r,
                                     !.pc = IF r.queue # NoQueue THEN "requeue" ELSE "run"]]
    BY <1>14 DEF BumpNext
  <2>2. r \in Snapshot /\ r.wf \in Workflows
    BY DEF GoodRecovery, Recovery, Snapshot
  <2>3. (rows \in [Workflows -> Row])'
    BY <2>1, <2>2, RowTypes
  <2>4. (rec \in [Executors -> GoodRecovery])'
    <3>1. rec[e].pc = "next" => [rec[e] EXCEPT !.todo = @ \ {r}] \in GoodRecovery
      BY GoodRecoveries
    <3>2. \A p \in {"requeue", "run"} :
             [[rec[e] EXCEPT !.todo = @ \ {r}] EXCEPT !.cur = r, !.pc = p] \in GoodRecovery
      BY GoodRecoveries
    <3> QED
      BY <1>14, <2>1, <3>1, <3>2 DEF BumpNext
  <2> QED
    BY <1>14, <2>3, <2>4 DEF BumpNext
<1>15. ASSUME NEW e \in Executors, Requeue(e) PROVE TypeInv'
  <2>1. rec[e].cur.wf \in Workflows
    BY <1>15 DEF Requeue, GoodRecovery, Snapshot
  <2>2. (rows \in [Workflows -> Row])'
    BY <1>15, <2>1, RowTypes DEF Requeue, Statuses, ENQUEUED, SUCCESS, ABSENT
  <2>3. (rec \in [Executors -> GoodRecovery])'
    <3>1. rec' = [rec EXCEPT ![e] = [rec[e] EXCEPT !.pc = "next", !.cur = NoSnapshot]]
      BY <1>15 DEF Requeue, GoodRecovery, Recovery
    <3> QED
      BY <3>1, GoodRecoveries
  <2> QED
    BY <1>15, <2>2, <2>3 DEF Requeue
<1>16. ASSUME NEW e \in Executors, RecoveryEnds(e) PROVE TypeInv'
  BY <1>16, GoodRecoveries DEF RecoveryEnds
<1>17. ASSUME NEW e \in Executors, NEW t \in Tasks, RunInline(e, t) PROVE TypeInv'
  <2>1. rec[e].cur.wf \in Workflows /\ rec[e].cur.deadline \in BOOLEAN
    BY <1>17 DEF RunInline, GoodRecovery, Snapshot
  <2>2. (tasks \in [Tasks -> GoodTask])'
    BY <1>17, <2>1, GoodTasks DEF RunInline, Spawn
  <2>3. (rec \in [Executors -> GoodRecovery])'
    <3>1. rec' = [rec EXCEPT ![e] = [rec[e] EXCEPT !.pc = "wait", !.task = t]]
      BY <1>17 DEF RunInline, GoodRecovery, Recovery
    <3> QED
      BY <3>1, GoodRecoveries
  <2> QED
    BY <1>17, <2>2, <2>3 DEF RunInline
<1>18. ASSUME NEW e \in Executors, RecoveryFault(e) PROVE TypeInv'
  BY <1>18, <1>d, GoodRecoveries DEF RecoveryFault
<1>19. ASSUME NEW e \in Executors, Crash(e) PROVE TypeInv'
  <2>1. (tasks \in [Tasks -> GoodTask])'
    BY <1>19, GoodTasks DEF Crash
  <2> QED
    BY <1>19, <1>d, <2>1, GoodRecoveries DEF Crash
<1>p. \A owners : PendingSnapshot(owners) \in SUBSET Snapshot
  BY DEF PendingSnapshot, Snapshot, Row, RowType
<1>20. ASSUME NEW e \in Executors, Launch(e) PROVE TypeInv'
  <2>1. (rec \in [Executors -> GoodRecovery])'
    <3>1. ASSUME BeginRecovery(e, PendingSnapshot({e}))
          PROVE  (rec \in [Executors -> GoodRecovery])'
      BY <1>p, <3>1, GoodRecoveries DEF BeginRecovery
    <3> QED
      BY <1>20, <3>1, ExecutionAssumption DEF Launch
  <2> QED
    BY <1>20, <2>1 DEF Launch
<1>21. ASSUME NEW e \in Executors, Recover(e) PROVE TypeInv'
  <2>1. (rec \in [Executors -> GoodRecovery])'
    BY <1>21, <1>p, GoodRecoveries DEF Recover, BeginRecovery
  <2> QED
    BY <1>21, <1>d, <2>1 DEF Recover
<1>22. ASSUME NEW w \in Workflows, Cancel(w) PROVE TypeInv'
  <2>1. (rows \in [Workflows -> Row])'
    BY <1>22, RowTypes DEF Cancel
  <2> QED
    BY <1>22, <1>d, <2>1 DEF Cancel
<1>23. ASSUME NEW w \in Workflows, Resume(w) PROVE TypeInv'
  <2>1. (rows \in [Workflows -> Row])'
    BY <1>23, RowTypes DEF Resume
  <2> QED
    BY <1>23, <1>d, <2>1 DEF Resume
<1>24. ASSUME NEW w \in Workflows, ResumeLost(w) PROVE TypeInv'
  BY <1>24, <1>d DEF ResumeLost
<1>25. ASSUME NEW w \in Workflows, NEW q \in Queues, ResumeEnqueues(w, q) PROVE TypeInv'
  <2>1. (rows \in [Workflows -> Row])'
    BY <1>25, RowTypes DEF ResumeEnqueues
  <2> QED
    BY <1>25, <2>1 DEF ResumeEnqueues
<1>26. ASSUME NEW w \in Workflows, PollResult(w) PROVE TypeInv'
  <2>1. rows[w].output \in Logs
    BY <1>26 DEF PollResult, Row, RowType
  <2> QED
    BY <1>26, <2>1 DEF PollResult
<1>27. ASSUME NEW w \in Workflows, ReleaseDelayed(w) PROVE TypeInv'
  <2>1. (rows \in [Workflows -> Row])'
    BY <1>27, RowTypes DEF ReleaseDelayed
  <2> QED
    BY <1>27, <2>1 DEF ReleaseDelayed
<1>28. ASSUME NEW w \in Workflows, NEW q \in Queues, NEW b \in BOOLEAN, StartQueued(w, q, b)
       PROVE  TypeInv'
  <2>1. (rows \in [Workflows -> Row])'
    BY <1>28, RowTypes DEF StartQueued
  <2> QED
    BY <1>28, <2>1 DEF StartQueued
<1>29. ASSUME NEW e \in Executors, NEW w \in Workflows, NEW t \in Tasks, StartDirect(e, w, t)
       PROVE  TypeInv'
  <2> DEFINE row == insert_workflow_status(rows[w], DirectRow(e, w \in Timed))
  <2>0. (w \in Timed) \in BOOLEAN
    OBVIOUS
  <2>1. row \in Row
    BY <2>0, RowTypes
  <2>2. (tasks \in [Tasks -> GoodTask])'
    BY <1>29, <2>1, GoodTasks DEF StartDirect, Spawn, Row, RowType
  <2> QED
    BY <1>29, <1>d, <2>1, <2>2 DEF StartDirect
<1>30. ASSUME NEW e \in Executors, NEW w \in Workflows, NEW t \in Tasks, Claim(e, w, t)
       PROVE  TypeInv'
  <2> DEFINE row == claim(rows[w], e, w \in Timed)
  <2>0. (w \in Timed) \in BOOLEAN
    OBVIOUS
  <2>1. row \in Row
    BY <2>0, RowTypes
  <2>2. (tasks \in [Tasks -> GoodTask])'
    BY <1>30, <2>1, GoodTasks DEF Claim, Spawn, Row, RowType
  <2> QED
    BY <1>30, <2>1, <2>2 DEF Claim
<1>31. CASE UNCHANGED vars
  BY <1>31 DEF vars
<1> QED
  BY <1>1, <1>2, <1>3, <1>4, <1>5, <1>6, <1>7, <1>8, <1>9, <1>10, <1>11, <1>12, <1>13, <1>14,
     <1>15, <1>16, <1>17, <1>18, <1>19, <1>20, <1>21, <1>22, <1>23, <1>24, <1>25, <1>26, <1>27,
     <1>28, <1>29, <1>30, <1>31
  DEF Next, TaskStep, TaskDisruption, RecoveryStep, Manage

LEMMA TypeInit == Init => TypeInv
<1> SUFFICES ASSUME Init PROVE TypeInv
  OBVIOUS
<1>1. rows \in [Workflows -> Row] /\ ckpt \in [Workflows -> Logs]
  BY LogTypes, RowTypes DEF Init
<1>2. tasks \in [Tasks -> GoodTask] /\ rec \in [Executors -> GoodRecovery]
  BY GoodTasks, GoodRecoveries DEF Init
<1>3. delivered \in [Workflows -> SUBSET Logs] /\ budget \in 0..MaxDisruptions
  BY ExecutionAssumption DEF Init
<1> QED
  BY <1>1, <1>2, <1>3 DEF Init, TypeInv

(***************************************************************************)
(* Every variable of the execution core keeps its type, in every           *)
(* interleaving of tasks, recoveries, crashes and management calls.        *)
(***************************************************************************)
THEOREM TypeCorrect == Spec => []TypeOK
<1>1. TypeInv /\ [Next]_vars => TypeInv'
  BY TypeStep
<1> QED
  BY <1>1, TypeInit, TypeInvImplies, PTL DEF Spec

(***************************************************************************)
(* The inductive invariant.  An execution knows log when everything it has *)
(* observed is in log, it has observed every step before its position and  *)
(* passed it, it has a result only after all of them, and it does not run  *)
(* what was recorded before it began.                                      *)
(***************************************************************************)
Knows(task, log) ==
    /\ \A k \in Steps : task.seen[k] # Nothing => SameOutcome(task.seen[k], log[k])
    /\ \A k \in Steps : k < task.seq => Passes(k, task.seen[k])
    /\ task.res = "ok" => \A k \in Steps : Passes(k, task.seen[k])
    /\ InHandler(task) => task.res = "none"
    /\ task.base \subseteq Recorded(log)
    /\ task.pc \in {"guard", "body", "record"} => task.seq \notin task.base

AllKnow == \A t \in Tasks : tasks[t].pc # "idle" => Knows(tasks[t], ckpt[tasks[t].wf])

Inv == TypeInv /\ AllKnow /\ LogSequential /\ OneResult

(***************************************************************************)
(* A storage error reaches the caller of run_to_completion: either there   *)
(* are none, or the function passes every failed step on.  A function that *)
(* swallows one goes past a step that has no checkpoint, and then none of  *)
(* this holds.                                                             *)
(***************************************************************************)
FaultsPropagate == "fault" \notin Disruptions \/ Tolerated = {}

LEMMA InvImplies == Inv => ReplayAgreement /\ LogSequential /\ OneResult /\ ReplayRunsNothing
  BY DEF Inv, AllKnow, Knows, ReplayAgreement, ReplayRunsNothing

\* Logs only grow, and what an execution knows it keeps knowing.
LogExtends(log, new) == \A k \in Steps : log[k] # Nothing => new[k] = log[k]

LEMMA RecordExtends ==
    ASSUME NEW log \in Logs, NEW k \in Steps, NEW o \in Outcomes
    PROVE  LogExtends(log, record_step_result(log, k, o))
  BY DEF LogExtends, record_step_result, Logs

LEMMA SamePasses ==
    ASSUME NEW a \in Outcomes \cup {Nothing}, NEW b \in Outcomes \cup {Nothing},
           NEW k \in Steps, SameOutcome(a, b), a # Nothing
    PROVE  /\ b # Nothing
           /\ Passes(k, a) => Passes(k, b)
  BY DEF SameOutcome, Outcomes, Nothing, Passes

LEMMA KnowsMore ==
    ASSUME NEW task \in Task, NEW log \in Logs, NEW new \in Logs,
           Knows(task, log), LogExtends(log, new)
    PROVE  Knows(task, new)
<1>1. \A k \in Steps : task.seen[k] # Nothing => SameOutcome(task.seen[k], new[k])
  <2> SUFFICES ASSUME NEW k \in Steps, task.seen[k] # Nothing
               PROVE  SameOutcome(task.seen[k], new[k])
    OBVIOUS
  <2>1. task.seen[k] \in Outcomes \cup {Nothing} /\ log[k] \in Outcomes \cup {Nothing}
    BY DEF Task, Logs
  <2>2. log[k] # Nothing
    BY <2>1, SamePasses DEF Knows
  <2> QED
    BY <2>2 DEF Knows, LogExtends
<1>2. Recorded(log) \subseteq Recorded(new)
  BY DEF Recorded, LogExtends
<1> QED
  BY <1>1, <1>2 DEF Knows

LEMMA KnowsReturns ==
    ASSUME NEW task \in Task, NEW log \in Logs, Knows(task, log),
           NEW r \in {"error", "cancelled", "timeout"}
    PROVE  Knows(Returns(task, r), log)
<1>1. /\ Returns(task, r).seen = task.seen /\ Returns(task, r).seq = task.seq
      /\ Returns(task, r).base = task.base /\ Returns(task, r).res = r
      /\ Returns(task, r).pc = "finish"
  BY DEF Returns, Task
<1> QED
  BY <1>1 DEF Knows, InHandler

LEMMA KnowsObserve ==
    ASSUME NEW task \in Task, NEW log \in Logs, Knows(task, log), InHandler(task),
           NEW o \in Outcomes, SameOutcome(o, log[task.seq])
    PROVE  Knows(Observe(task, o), log)
<1> DEFINE seen == [task.seen EXCEPT ![task.seq] = o]
           now  == [task EXCEPT !.seen[task.seq] = o, !.try = 0, !.got = Nothing]
           goon == [now EXCEPT !.pc = "replay", !.seq = @ + 1]
<1>1. /\ seen \in Logs /\ seen[task.seq] = o
      /\ \A k \in Steps : k # task.seq => seen[k] = task.seen[k]
      /\ task.seq \in Steps /\ o # Nothing
  BY LogTypes DEF Task, Logs
<1>2. \A k \in Steps : seen[k] # Nothing => SameOutcome(seen[k], log[k])
  BY <1>1 DEF Knows
<1>3. \A k \in Steps : k < task.seq => Passes(k, seen[k])
  BY <1>1 DEF Knows, Steps
<1>4. ASSUME Passes(task.seq, o), NEW k \in Steps, k < task.seq + 1
      PROVE  Passes(k, seen[k])
  <2>1. k < task.seq \/ k = task.seq
    BY <1>1, <1>4 DEF Steps
  <2> QED
    BY <1>1, <1>3, <1>4, <2>1
<1>5. /\ now.seen = seen /\ now.seq = task.seq /\ now.base = task.base /\ now.res = task.res
      /\ now.pc = task.pc
  BY DEF Task
<1>6. \A r : /\ Returns(now, r).seen = seen /\ Returns(now, r).seq = task.seq
             /\ Returns(now, r).base = task.base /\ Returns(now, r).res = r
             /\ Returns(now, r).pc = "finish"
  BY <1>5 DEF Returns, Task
<1>7. /\ goon.seen = seen /\ goon.seq = task.seq + 1 /\ goon.base = task.base
      /\ goon.res = task.res /\ goon.pc = "replay"
  BY <1>5 DEF Task
<1>8. Observe(task, o) = IF ~Passes(task.seq, o) THEN Returns(now, "error")
                         ELSE IF task.seq = NSteps THEN Returns(now, "ok") ELSE goon
  BY DEF Observe
<1> HIDE DEF seen, now, goon
<1>9. CASE ~Passes(task.seq, o)
  BY <1>2, <1>3, <1>6, <1>8, <1>9 DEF Knows, InHandler
<1>10. CASE Passes(task.seq, o) /\ task.seq = NSteps
  <2>1. \A k \in Steps : Passes(k, seen[k])
    <3>1. \A k \in Steps : k < task.seq + 1
      BY <1>10, StepAssumption DEF Steps
    <3> QED
      BY <1>4, <1>10, <3>1
  <2> QED
    BY <1>2, <1>3, <1>6, <1>8, <1>10, <2>1 DEF Knows, InHandler
<1>11. CASE Passes(task.seq, o) /\ task.seq # NSteps
  BY <1>2, <1>4, <1>7, <1>8, <1>11 DEF Knows, InHandler
<1> QED
  BY <1>9, <1>10, <1>11

LEMMA KnowsResult ==
    ASSUME NEW task \in Task, NEW log \in Logs, Knows(task, log), task.res = "ok"
    PROVE  /\ \A k \in Steps : Passes(k, log[k])
           /\ Canon(task.seen) = Canon(log)
<1>1. \A k \in Steps : /\ task.seen[k] \in Outcomes \cup {Nothing}
                       /\ log[k] \in Outcomes \cup {Nothing}
                       /\ task.seen[k] # Nothing
                       /\ SameOutcome(task.seen[k], log[k])
  BY DEF Knows, Passes, Task, Logs
<1>2. \A k \in Steps : Passes(k, log[k])
  BY <1>1, SamePasses DEF Knows
<1>3. \A k \in Steps : (IF task.seen[k].kind = "fail" THEN Fail(NoValue) ELSE task.seen[k])
                        = (IF log[k].kind = "fail" THEN Fail(NoValue) ELSE log[k])
  BY <1>1 DEF SameOutcome, Outcomes, Nothing
<1> QED
  BY <1>2, <1>3 DEF Canon

LEMMA KnowsNew ==
    ASSUME NEW w \in Workflows, NEW e \in Executors, NEW d \in BOOLEAN, NEW b \in BOOLEAN
    PROVE  Knows(NewTask(w, e, d, b), ckpt[w])
<1>1. /\ NewTask(w, e, d, b).pc = "replay" /\ NewTask(w, e, d, b).seq = 1
      /\ NewTask(w, e, d, b).seen = EmptyLog /\ NewTask(w, e, d, b).res = "none"
      /\ NewTask(w, e, d, b).base = Recorded(ckpt[w])
  BY DEF NewTask, IdleTask
<1>2. \A k \in Steps : EmptyLog[k] = Nothing /\ ~(k < 1)
  BY DEF EmptyLog, Steps
<1> QED
  BY <1>1, <1>2 DEF Knows

\* The moves of an execution within a step, and out of the handler.
LEMMA KnowsMoves ==
    ASSUME NEW task \in Task, NEW log \in Logs, Knows(task, log)
    PROVE  /\ task.pc = "replay" /\ log[task.seq] = Nothing =>
                Knows([task EXCEPT !.pc = "guard"], log)
           /\ task.pc = "guard" => Knows([task EXCEPT !.pc = "body"], log)
           /\ task.pc = "body" => Knows([task EXCEPT !.try = @ + 1], log)
           /\ task.pc = "body" => \A o : Knows([task EXCEPT !.pc = "record", !.got = o], log)
           /\ task.pc = "finish" => Knows([task EXCEPT !.pc = "blocked"], log)
<1>1. task.pc = "replay" /\ log[task.seq] = Nothing => task.seq \notin task.base
  BY DEF Knows, Recorded
<1> QED
  BY <1>1 DEF Knows, Task, InHandler

(***************************************************************************)
(* How the parts of Inv survive a step, by what the step does to them.     *)
(***************************************************************************)
LEMMA KnowStep ==
    ASSUME Inv, TypeInv',
           \A w \in Workflows : LogExtends(ckpt[w], ckpt'[w]),
           \A u \in Tasks : \/ tasks'[u] = tasks[u]
                            \/ tasks'[u].pc = "idle"
                            \/ Knows(tasks'[u], ckpt'[tasks'[u].wf])
    PROVE  AllKnow'
<1> SUFFICES ASSUME NEW u \in Tasks, tasks'[u] = tasks[u], tasks[u].pc # "idle"
             PROVE  Knows(tasks[u], ckpt'[tasks[u].wf])
  BY DEF AllKnow
<1>1. tasks[u] \in Task /\ tasks[u].wf \in Workflows
  BY DEF Inv, TypeInv, GoodTask
<1> QED
  BY <1>1, KnowsMore DEF Inv, AllKnow, TypeInv

LEMMA SameLogs == \A w \in Workflows : ckpt' = ckpt => LogExtends(ckpt[w], ckpt'[w])
  BY DEF LogExtends

LEMMA ResultStep ==
    ASSUME Inv, ckpt' = ckpt,
           \A w \in Workflows : \A o \in Results(w)' :
              \/ o \in Results(w)
              \/ (\A k \in Steps : Passes(k, ckpt[w][k])) /\ Canon(o) = Canon(ckpt[w])
    PROVE  LogSequential' /\ OneResult'
  BY DEF Inv, LogSequential, OneResult

LEMMA CommitStep ==
    ASSUME Inv, NEW w \in Workflows, NEW k \in Steps, NEW o \in Outcomes,
           \A j \in 1..(k - 1) : Passes(j, ckpt[w][j]),
           ckpt' = [ckpt EXCEPT ![w] = record_step_result(@, k, o)],
           rows' = rows, delivered' = delivered
    PROVE  /\ \A v \in Workflows : LogExtends(ckpt[v], ckpt'[v])
           /\ LogSequential' /\ OneResult'
<1>t. ckpt \in [Workflows -> Logs]
  BY DEF Inv, TypeInv
<1>1. \A v \in Workflows : LogExtends(ckpt[v], ckpt'[v])
  BY <1>t, RecordExtends DEF LogExtends
<1>2. \A v \in Workflows, j \in Steps : Passes(j, ckpt[v][j]) => Passes(j, ckpt'[v][j])
  BY <1>1 DEF LogExtends, Passes
<1>3. LogSequential'
  <2> SUFFICES ASSUME NEW v \in Workflows, NEW i \in Recorded(ckpt'[v]), NEW j \in 1..(i - 1)
               PROVE  Passes(j, ckpt'[v][j])
    BY DEF LogSequential
  <2>1. i \in Steps /\ j \in Steps
    BY StepAssumption DEF Recorded, Steps
  <2>2. CASE i \in Recorded(ckpt[v])
    BY <1>2, <2>1, <2>2 DEF Inv, LogSequential
  <2>3. CASE i \notin Recorded(ckpt[v])
    <3>1. v = w /\ i = k
      BY <1>t, <2>1, <2>3 DEF Recorded, record_step_result, Logs
    <3> QED
      BY <1>2, <2>1, <3>1
  <2> QED
    BY <2>2, <2>3
<1>4. OneResult'
  <2> SUFFICES ASSUME NEW v \in Workflows, NEW r \in Results(v)
               PROVE  /\ \A j \in Steps : Passes(j, ckpt'[v][j])
                      /\ Canon(r) = Canon(ckpt'[v])
    BY DEF OneResult, Results
  <2>1. (\A j \in Steps : Passes(j, ckpt[v][j])) /\ Canon(r) = Canon(ckpt[v])
    BY DEF Inv, OneResult
  <2>2. ckpt'[v] = ckpt[v]
    BY <1>t, <2>1 DEF record_step_result, Passes
  <2> QED
    BY <2>1, <2>2
<1> QED
  BY <1>1, <1>3, <1>4

\* Only set_workflow_status writes the output column.
LEMMA RowOutputs ==
    ASSUME NEW row \in Row
    PROVE  /\ cancel_workflow(row).output = row.output
           /\ resume_workflow(row).output = row.output
           /\ transition_delayed(row).output = row.output
           /\ \A n : bump_recovery_attempts(row, n).output = row.output
           /\ \A q : enqueue_existing(row, q).output = row.output
           /\ \A q, b : insert_workflow_status(row, QueuedRow(q, b)).output \in {row.output, NoOutput}
           /\ \A s : set_workflow_status(row, s, NoOutput).output = row.output
           /\ \A s, o : set_workflow_status(row, s, o).output \in {row.output, o}
  BY DEF Row, RowType, cancel_workflow, resume_workflow, transition_delayed,
         bump_recovery_attempts, enqueue_existing, insert_workflow_status,
         QueuedRow, AbsentRow, set_workflow_status

LEMMA QuietStep ==
    ASSUME Inv, ckpt' = ckpt, rows' = rows, delivered' = delivered
    PROVE  LogSequential' /\ OneResult'
  BY ResultStep DEF Results

LEMMA RowStep ==
    ASSUME Inv, ckpt' = ckpt, delivered' = delivered, NEW w \in Workflows, NEW row,
           rows' = [rows EXCEPT ![w] = row], row.output \in {rows[w].output, NoOutput}
    PROVE  LogSequential' /\ OneResult'
<1>1. \A v \in Workflows : rows'[v].output \in {rows[v].output, NoOutput}
  BY DEF Inv, TypeInv
<1>2. \A v \in Workflows : \A o \in Results(v)' : o \in Results(v)
  BY <1>1 DEF Results
<1> QED
  BY <1>2, ResultStep

LEMMA DeliverStep ==
    ASSUME Inv, NEW t \in Tasks, tasks[t].pc # "idle", ckpt' = ckpt,
           Deliver(tasks[t]) \/ UNCHANGED delivered,
           \A w \in Workflows :
              \/ rows'[w].output = rows[w].output
              \/ w = tasks[t].wf /\ rows'[w].output = FinalOutput(tasks[t])
    PROVE  LogSequential' /\ OneResult'
<1> DEFINE w == tasks[t].wf
<1>1. tasks[t] \in Task /\ w \in Workflows /\ ckpt[w] \in Logs
  BY DEF Inv, TypeInv, GoodTask
<1>2. tasks[t].res = "ok" => /\ \A k \in Steps : Passes(k, ckpt[w][k])
                             /\ Canon(tasks[t].seen) = Canon(ckpt[w])
  BY <1>1, KnowsResult DEF Inv, AllKnow
<1>3. ASSUME NEW v \in Workflows, NEW o \in Results(v)'
      PROVE  o \in Results(v) \/ (v = w /\ tasks[t].res = "ok" /\ o = tasks[t].seen)
  <2>1. o \in delivered'[v] =>
           o \in delivered[v] \/ (v = w /\ tasks[t].res = "ok" /\ o = tasks[t].seen)
    BY <1>1 DEF Deliver, Inv, TypeInv
  <2>2. o = rows'[v].output /\ o # NoOutput =>
           o \in Results(v) \/ (v = w /\ tasks[t].res = "ok" /\ o = tasks[t].seen)
    BY DEF Results, FinalOutput
  <2> QED
    BY <1>3, <2>1, <2>2 DEF Results
<1> QED
  BY <1>2, <1>3, ResultStep

LEMMA InvStep ==
    ASSUME Inv, [Next]_vars, FaultsPropagate
    PROVE  Inv'
<1>T. TypeInv /\ TypeInv'
  BY TypeStep DEF Inv
<1> SUFFICES AllKnow' /\ LogSequential' /\ OneResult'
  BY <1>T DEF Inv
<1>s. \A t \in Tasks : /\ tasks[t] \in Task
                       /\ tasks[t].pc # "idle" =>
                            /\ tasks[t].wf \in Workflows /\ ckpt[tasks[t].wf] \in Logs
                            /\ Knows(tasks[t], ckpt[tasks[t].wf])
  BY <1>T DEF TypeInv, GoodTask, Inv, AllKnow
<1>f. ckpt' = ckpt => \A w \in Workflows : LogExtends(ckpt[w], ckpt'[w])
  BY SameLogs
\* A task that ends, one that is spawned, and one that moves while the logs stay.
<1>e. ASSUME NEW t \in Tasks, EndTask(t), ckpt' = ckpt PROVE AllKnow'
  <2>1. \A u \in Tasks : tasks'[u] = tasks[u] \/ tasks'[u].pc = "idle"
    BY <1>e, <1>T, TaskTypes DEF EndTask, TypeInv
  <2> QED
    BY <1>T, <1>e, <1>f, <2>1, KnowStep
<1>n. ASSUME NEW t \in Tasks, NEW w \in Workflows, NEW e \in Executors,
             NEW d \in BOOLEAN, NEW b \in BOOLEAN, Spawn(t, w, e, d, b), ckpt' = ckpt
      PROVE  AllKnow'
  <2>1. NewTask(w, e, d, b).wf = w
    BY DEF NewTask, IdleTask
  <2>2. \A u \in Tasks : tasks'[u] = tasks[u] \/ Knows(tasks'[u], ckpt'[tasks'[u].wf])
    BY <1>n, <1>T, <2>1, KnowsNew DEF Spawn, TypeInv
  <2> QED
    BY <1>T, <1>n, <1>f, <2>2, KnowStep
<1>m. ASSUME NEW t \in Tasks, NEW new, tasks' = [tasks EXCEPT ![t] = new], ckpt' = ckpt,
             new.wf = tasks[t].wf, Knows(new, ckpt[tasks[t].wf])
      PROVE  AllKnow'
  <2>1. \A u \in Tasks : tasks'[u] = tasks[u] \/ Knows(tasks'[u], ckpt'[tasks'[u].wf])
    BY <1>m, <1>T DEF TypeInv
  <2> QED
    BY <1>T, <1>m, <1>f, <2>1, KnowStep
\* The part of a step that commits, shared by RecordStep and StepFault.
<1>c. ASSUME NEW t \in Tasks, tasks[t].pc = "record", rows' = rows, delivered' = delivered,
             ckpt' = [ckpt EXCEPT ![tasks[t].wf] =
                         record_step_result(@, tasks[t].seq, tasks[t].got)]
      PROVE  /\ \A v \in Workflows : LogExtends(ckpt[v], ckpt'[v])
             /\ LogSequential' /\ OneResult'
  <2> DEFINE w == tasks[t].wf
             k == tasks[t].seq
  <2>1. k \in Steps /\ w \in Workflows /\ tasks[t].got \in Outcomes /\ ckpt[w] \in Logs
    BY <1>c, <1>T DEF TypeInv, GoodTask, Task
  <2>2. ASSUME NEW j \in 1..(k - 1) PROVE Passes(j, ckpt[w][j])
    <3>1. j \in Steps /\ j < k
      BY <2>1, StepAssumption DEF Steps
    <3>2. Passes(j, tasks[t].seen[j]) /\ tasks[t].seen[j] # Nothing
      BY <1>c, <1>s, <3>1 DEF Knows, Passes
    <3>3. /\ SameOutcome(tasks[t].seen[j], ckpt[w][j])
          /\ tasks[t].seen[j] \in Outcomes \cup {Nothing}
          /\ ckpt[w][j] \in Outcomes \cup {Nothing}
      BY <1>c, <1>s, <2>1, <3>1, <3>2 DEF Knows, Task, Logs
    <3> QED
      BY <3>1, <3>2, <3>3, SamePasses
  <2> QED
    BY <1>c, <2>1, <2>2, CommitStep
<1>1. ASSUME NEW t \in Tasks, ReplayRecorded(t) PROVE AllKnow' /\ LogSequential' /\ OneResult'
  <2> DEFINE o == ckpt[tasks[t].wf][tasks[t].seq]
  <2>1. o \in Outcomes /\ SameOutcome(o, o) /\ InHandler(tasks[t])
    BY <1>1, <1>s DEF ReplayRecorded, Logs, Task, SameOutcome, InHandler
  <2>2. /\ Knows(Observe(tasks[t], o), ckpt[tasks[t].wf])
        /\ Observe(tasks[t], o).wf = tasks[t].wf
    BY <1>1, <1>s, <2>1, KnowsObserve, TaskTypes DEF ReplayRecorded
  <2> QED
    BY <1>1, <1>m, <2>2, QuietStep DEF ReplayRecorded
<1>2. ASSUME NEW t \in Tasks, ReplayMiss(t) PROVE AllKnow' /\ LogSequential' /\ OneResult'
  <2>1. tasks' = [tasks EXCEPT ![t] = [tasks[t] EXCEPT !.pc = "guard"]]
    BY <1>2, <1>s, <1>T DEF ReplayMiss, TypeInv
  <2>2. /\ Knows([tasks[t] EXCEPT !.pc = "guard"], ckpt[tasks[t].wf])
        /\ [tasks[t] EXCEPT !.pc = "guard"].wf = tasks[t].wf
    BY <1>2, <1>s, KnowsMoves DEF ReplayMiss, Task
  <2> QED
    BY <1>2, <1>m, <2>1, <2>2, QuietStep DEF ReplayMiss
<1>3. ASSUME NEW t \in Tasks, Guard(t) PROVE AllKnow' /\ LogSequential' /\ OneResult'
  <2>1. /\ Knows([tasks[t] EXCEPT !.pc = "body"], ckpt[tasks[t].wf])
        /\ [tasks[t] EXCEPT !.pc = "body"].wf = tasks[t].wf
    BY <1>3, <1>s, KnowsMoves DEF Guard, Task
  <2>2. /\ Knows(Returns(tasks[t], "cancelled"), ckpt[tasks[t].wf])
        /\ Returns(tasks[t], "cancelled").wf = tasks[t].wf
    BY <1>3, <1>s, KnowsReturns, TaskTypes DEF Guard
  <2>3. AllKnow'
    <3>1. CASE rows[tasks[t].wf].status = CANCELLED
      BY <1>3, <1>m, <2>2, <3>1 DEF Guard
    <3>2. CASE rows[tasks[t].wf].status # CANCELLED
      BY <1>3, <1>m, <2>1, <3>2 DEF Guard
    <3> QED
      BY <3>1, <3>2
  <2> QED
    BY <1>3, <2>3, QuietStep DEF Guard
<1>4. ASSUME NEW t \in Tasks, RetryBody(t) PROVE AllKnow' /\ LogSequential' /\ OneResult'
  <2>1. tasks' = [tasks EXCEPT ![t] = [tasks[t] EXCEPT !.try = @ + 1]]
    BY <1>4, <1>s, <1>T DEF RetryBody, TypeInv
  <2>2. /\ Knows([tasks[t] EXCEPT !.try = @ + 1], ckpt[tasks[t].wf])
        /\ [tasks[t] EXCEPT !.try = @ + 1].wf = tasks[t].wf
    BY <1>4, <1>s, KnowsMoves DEF RetryBody, Task
  <2> QED
    BY <1>4, <1>m, <2>1, <2>2, QuietStep DEF RetryBody
<1>5. ASSUME NEW t \in Tasks, BodyEnds(t) PROVE AllKnow' /\ LogSequential' /\ OneResult'
  <2>1. PICK o \in Outcomes : tasks' = [tasks EXCEPT ![t].pc = "record", ![t].got = o]
    BY <1>5 DEF BodyEnds
  <2>2. tasks' = [tasks EXCEPT ![t] = [tasks[t] EXCEPT !.pc = "record", !.got = o]]
    BY <2>1, <1>s DEF Task
  <2>3. /\ Knows([tasks[t] EXCEPT !.pc = "record", !.got = o], ckpt[tasks[t].wf])
        /\ [tasks[t] EXCEPT !.pc = "record", !.got = o].wf = tasks[t].wf
    BY <1>5, <1>s, KnowsMoves DEF BodyEnds, Task
  <2> QED
    BY <1>5, <1>m, <2>2, <2>3, QuietStep DEF BodyEnds
<1>6. ASSUME NEW t \in Tasks, RecordStep(t) PROVE AllKnow' /\ LogSequential' /\ OneResult'
  <2> DEFINE w   == tasks[t].wf
             k   == tasks[t].seq
             log == record_step_result(ckpt[w], k, tasks[t].got)
             o   == Reported(tasks[t].got, log[k])
  <2>1. k \in Steps /\ w \in Workflows /\ tasks[t].got \in Outcomes /\ ckpt[w] \in Logs
    BY <1>6, <1>T DEF TypeInv, GoodTask, Task, RecordStep
  <2>2. ckpt' = [ckpt EXCEPT ![w] = log] /\ ckpt'[w] = log /\ log \in Logs
    BY <1>6, <1>T, <2>1, LogTypes DEF RecordStep, TypeInv
  <2>3. /\ \A v \in Workflows : LogExtends(ckpt[v], ckpt'[v])
        /\ LogSequential' /\ OneResult'
    BY <1>6, <1>c, <2>2 DEF RecordStep
  <2>4. o \in Outcomes /\ SameOutcome(o, log[k]) /\ InHandler(tasks[t])
    <3>1. log[k] \in Outcomes
      BY <2>1, LogTypes
    <3> QED
      BY <1>6, <2>1, <3>1 DEF Reported, SameOutcome, Outcomes, InHandler, RecordStep
  <2>5. Knows(tasks[t], log)
    BY <1>6, <1>s, <2>1, <2>2, RecordExtends, KnowsMore DEF RecordStep
  <2>6. Knows(Observe(tasks[t], o), log) /\ Observe(tasks[t], o).wf = w
    BY <1>s, <2>2, <2>4, <2>5, KnowsObserve, TaskTypes
  <2>7. tasks' = [tasks EXCEPT ![t] = Observe(tasks[t], o)]
    BY <1>6 DEF RecordStep
  <2>8. \A u \in Tasks : tasks'[u] = tasks[u] \/ Knows(tasks'[u], ckpt'[tasks'[u].wf])
    <3> HIDE DEF o, log
    <3> QED
      BY <1>T, <2>2, <2>6, <2>7 DEF TypeInv
  <2> QED
    BY <1>T, <2>3, <2>8, KnowStep
<1>7. ASSUME NEW t \in Tasks, Finish(t) PROVE AllKnow' /\ LogSequential' /\ OneResult'
  <2>1. \A w \in Workflows : \/ rows'[w].output = rows[w].output
                             \/ w = tasks[t].wf /\ rows'[w].output = FinalOutput(tasks[t])
    BY <1>7, <1>T, RowOutputs DEF Finish, TypeInv
  <2>2. LogSequential' /\ OneResult'
    BY <1>7, <2>1, DeliverStep DEF Finish
  <2> QED
    BY <1>7, <1>e, <2>2 DEF Finish
<1>8. ASSUME NEW t \in Tasks, FinishBlocked(t) PROVE AllKnow' /\ LogSequential' /\ OneResult'
  <2>1. tasks' = [tasks EXCEPT ![t] = [tasks[t] EXCEPT !.pc = "blocked"]]
    BY <1>8, <1>s, <1>T DEF FinishBlocked, TypeInv
  <2>2. /\ Knows([tasks[t] EXCEPT !.pc = "blocked"], ckpt[tasks[t].wf])
        /\ [tasks[t] EXCEPT !.pc = "blocked"].wf = tasks[t].wf
    BY <1>8, <1>s, KnowsMoves DEF FinishBlocked, Task
  <2> QED
    BY <1>8, <1>m, <2>1, <2>2, QuietStep DEF FinishBlocked
<1>9. ASSUME NEW t \in Tasks, ReportBlocked(t) PROVE AllKnow' /\ LogSequential' /\ OneResult'
  <2>1. LogSequential' /\ OneResult'
    BY <1>9, DeliverStep DEF ReportBlocked
  <2> QED
    BY <1>9, <1>e, <2>1 DEF ReportBlocked
<1>10. ASSUME NEW t \in Tasks, DeadlineElapses(t) PROVE AllKnow' /\ LogSequential' /\ OneResult'
  <2>1. /\ Knows(Returns(tasks[t], "timeout"), ckpt[tasks[t].wf])
        /\ Returns(tasks[t], "timeout").wf = tasks[t].wf
    BY <1>10, <1>s, KnowsReturns, TaskTypes DEF DeadlineElapses, InHandler
  <2> QED
    BY <1>10, <1>m, <2>1, QuietStep DEF DeadlineElapses
<1>11. ASSUME NEW t \in Tasks, BodyPanics(t) PROVE AllKnow' /\ LogSequential' /\ OneResult'
  BY <1>11, <1>e, QuietStep DEF BodyPanics
<1>12. ASSUME NEW t \in Tasks, StepFault(t) PROVE AllKnow' /\ LogSequential' /\ OneResult'
  <2>1. tasks' = [tasks EXCEPT ![t] = Returns(tasks[t], "error")]
    BY <1>12 DEF StepFault, Disrupt, FaultsPropagate
  <2>2. /\ Knows(Returns(tasks[t], "error"), ckpt[tasks[t].wf])
        /\ Returns(tasks[t], "error").wf = tasks[t].wf
    BY <1>12, <1>s, KnowsReturns, TaskTypes DEF StepFault
  <2>3. CASE ckpt' = ckpt
    BY <1>12, <1>m, <2>1, <2>2, <2>3, QuietStep DEF StepFault
  <2>4. CASE tasks[t].pc = "record" /\
             ckpt' = [ckpt EXCEPT ![tasks[t].wf] =
                         record_step_result(@, tasks[t].seq, tasks[t].got)]
    <3>1. /\ \A v \in Workflows : LogExtends(ckpt[v], ckpt'[v])
          /\ LogSequential' /\ OneResult'
      BY <1>12, <1>c, <2>4 DEF StepFault
    <3>2. Returns(tasks[t], "error") \in Task /\ tasks[t].wf \in Workflows
      BY <1>s, <2>4, TaskTypes
    <3>3. Knows(Returns(tasks[t], "error"), ckpt'[tasks[t].wf])
      BY <1>T, <2>2, <3>1, <3>2, KnowsMore DEF TypeInv
    <3>4. \A u \in Tasks : tasks'[u] = tasks[u] \/ Knows(tasks'[u], ckpt'[tasks'[u].wf])
      BY <1>T, <2>1, <2>2, <3>3 DEF TypeInv
    <3> QED
      BY <1>T, <3>1, <3>4, KnowStep
  <2> QED
    BY <1>12, <2>3, <2>4 DEF StepFault
<1>13. ASSUME NEW t \in Tasks, FinishFault(t) PROVE AllKnow' /\ LogSequential' /\ OneResult'
  BY <1>13, <1>e, QuietStep DEF FinishFault
\* What neither touches the logs nor lets a task move.
<1>u. ASSUME ckpt' = ckpt, \A u \in Tasks : tasks'[u] = tasks[u] \/ tasks'[u].pc = "idle"
      PROVE  AllKnow'
  BY <1>T, <1>u, <1>f, KnowStep
<1>14. ASSUME NEW e \in Executors, BumpNext(e) PROVE AllKnow' /\ LogSequential' /\ OneResult'
  <2>1. PICK r \in rec[e].todo :
           rows' = [rows EXCEPT ![r.wf] = bump_recovery_attempts(rows[r.wf], MaxRecoveryAttempts)]
    BY <1>14 DEF BumpNext
  <2>2. r.wf \in Workflows
    BY <1>T DEF TypeInv, GoodRecovery, Recovery, Snapshot
  <2>3. LogSequential' /\ OneResult'
    BY <1>14, <1>T, <2>1, <2>2, RowOutputs, RowStep DEF BumpNext, TypeInv
  <2> QED
    BY <1>14, <1>u, <2>3 DEF BumpNext
<1>15. ASSUME NEW e \in Executors, Requeue(e) PROVE AllKnow' /\ LogSequential' /\ OneResult'
  <2>1. rec[e].cur.wf \in Workflows
    BY <1>15, <1>T DEF Requeue, TypeInv, GoodRecovery, Snapshot
  <2>2. LogSequential' /\ OneResult'
    BY <1>15, <1>T, <2>1, RowOutputs, RowStep DEF Requeue, TypeInv
  <2> QED
    BY <1>15, <1>u, <2>2 DEF Requeue
<1>16. ASSUME NEW e \in Executors, RecoveryEnds(e) \/ RecoveryFault(e) \/ Launch(e) \/ Recover(e)
       PROVE  AllKnow' /\ LogSequential' /\ OneResult'
  BY <1>16, <1>u, QuietStep DEF RecoveryEnds, RecoveryFault, Launch, Recover
<1>17. ASSUME NEW e \in Executors, NEW t \in Tasks, RunInline(e, t)
       PROVE  AllKnow' /\ LogSequential' /\ OneResult'
  <2>1. rec[e].cur.wf \in Workflows /\ rec[e].cur.deadline \in BOOLEAN
    BY <1>17, <1>T DEF RunInline, TypeInv, GoodRecovery, Snapshot
  <2> QED
    BY <1>17, <1>n, <2>1, QuietStep DEF RunInline
<1>18. ASSUME NEW e \in Executors, Crash(e) PROVE AllKnow' /\ LogSequential' /\ OneResult'
  <2>1. \A u \in Tasks : tasks'[u] = tasks[u] \/ tasks'[u].pc = "idle"
    BY <1>18, <1>T, TaskTypes DEF Crash, TypeInv
  <2> QED
    BY <1>18, <1>u, <2>1, QuietStep DEF Crash
<1>19. ASSUME NEW w \in Workflows, Cancel(w) PROVE AllKnow' /\ LogSequential' /\ OneResult'
  <2>1. LogSequential' /\ OneResult'
    BY <1>19, <1>T, RowOutputs, RowStep DEF Cancel, TypeInv
  <2> QED
    BY <1>19, <1>u, <2>1 DEF Cancel
<1>20. ASSUME NEW w \in Workflows, Resume(w) PROVE AllKnow' /\ LogSequential' /\ OneResult'
  <2>1. LogSequential' /\ OneResult'
    BY <1>20, <1>T, RowOutputs, RowStep DEF Resume, TypeInv
  <2> QED
    BY <1>20, <1>u, <2>1 DEF Resume
<1>21. ASSUME NEW w \in Workflows, ResumeLost(w) PROVE AllKnow' /\ LogSequential' /\ OneResult'
  BY <1>21, <1>u, QuietStep DEF ResumeLost
<1>22. ASSUME NEW w \in Workflows, NEW q \in Queues, ResumeEnqueues(w, q)
       PROVE  AllKnow' /\ LogSequential' /\ OneResult'
  <2>1. LogSequential' /\ OneResult'
    BY <1>22, <1>T, RowOutputs, RowStep DEF ResumeEnqueues, TypeInv
  <2> QED
    BY <1>22, <1>u, <2>1 DEF ResumeEnqueues
<1>23. ASSUME NEW w \in Workflows, PollResult(w) PROVE AllKnow' /\ LogSequential' /\ OneResult'
  <2>1. rows[w].output # NoOutput
    BY <1>23, <1>T DEF PollResult, TypeInv, Row
  <2>2. \A v \in Workflows : \A o \in Results(v)' : o \in Results(v)
    BY <1>23, <1>T, <2>1 DEF PollResult, Results, TypeInv
  <2>3. LogSequential' /\ OneResult'
    BY <1>23, <2>2, ResultStep DEF PollResult
  <2> QED
    BY <1>23, <1>u, <2>3 DEF PollResult
<1>24. ASSUME NEW w \in Workflows, ReleaseDelayed(w) PROVE AllKnow' /\ LogSequential' /\ OneResult'
  <2>1. LogSequential' /\ OneResult'
    BY <1>24, <1>T, RowOutputs, RowStep DEF ReleaseDelayed, TypeInv
  <2> QED
    BY <1>24, <1>u, <2>1 DEF ReleaseDelayed
<1>25. ASSUME NEW w \in Workflows, NEW q \in Queues, NEW b \in BOOLEAN, StartQueued(w, q, b)
       PROVE  AllKnow' /\ LogSequential' /\ OneResult'
  <2>1. LogSequential' /\ OneResult'
    BY <1>25, <1>T, RowOutputs, RowStep DEF StartQueued, TypeInv
  <2> QED
    BY <1>25, <1>u, <2>1 DEF StartQueued
<1>26. ASSUME NEW e \in Executors, NEW w \in Workflows, NEW t \in Tasks, StartDirect(e, w, t)
       PROVE  AllKnow' /\ LogSequential' /\ OneResult'
  <2> DEFINE row == insert_workflow_status(rows[w], DirectRow(e, w \in Timed))
  <2>0. (w \in Timed) \in BOOLEAN
    OBVIOUS
  <2>1. row \in Row /\ row.deadline \in BOOLEAN
    BY <1>T, <2>0, RowTypes DEF TypeInv, Row, RowType
  <2>2. LogSequential' /\ OneResult'
    <3>1. row.output \in {rows[w].output, NoOutput}
      BY <1>T DEF TypeInv, Row, RowType, insert_workflow_status, DirectRow, AbsentRow
    <3>2. rows' = [rows EXCEPT ![w] = row] /\ ckpt' = ckpt /\ delivered' = delivered
      BY <1>26 DEF StartDirect
    <3> HIDE DEF row
    <3> QED
      BY <3>1, <3>2, RowStep
  <2> QED
    BY <1>26, <1>n, <2>1, <2>2 DEF StartDirect
<1>27. ASSUME NEW e \in Executors, NEW w \in Workflows, NEW t \in Tasks, Claim(e, w, t)
       PROVE  AllKnow' /\ LogSequential' /\ OneResult'
  <2> DEFINE row == claim(rows[w], e, w \in Timed)
  <2>0. (w \in Timed) \in BOOLEAN
    OBVIOUS
  <2>1. row \in Row /\ row.deadline \in BOOLEAN
    BY <1>T, <2>0, RowTypes DEF TypeInv, Row, RowType
  <2>2. LogSequential' /\ OneResult'
    <3>1. row.output = rows[w].output
      BY <1>T DEF TypeInv, Row, RowType, claim
    <3>2. rows' = [rows EXCEPT ![w] = row] /\ ckpt' = ckpt /\ delivered' = delivered
      BY <1>27 DEF Claim
    <3> HIDE DEF row
    <3> QED
      BY <3>1, <3>2, RowStep
  <2> QED
    BY <1>27, <1>n, <2>1, <2>2 DEF Claim
<1>28. CASE UNCHANGED vars
  BY <1>28, <1>u, QuietStep DEF vars
<1> QED
  BY <1>1, <1>2, <1>3, <1>4, <1>5, <1>6, <1>7, <1>8, <1>9, <1>10, <1>11, <1>12, <1>13, <1>14,
     <1>15, <1>16, <1>17, <1>18, <1>19, <1>20, <1>21, <1>22, <1>23, <1>24, <1>25, <1>26, <1>27,
     <1>28
  DEF Next, TaskStep, TaskDisruption, RecoveryStep, Manage

LEMMA InvInit == Init => Inv
<1> SUFFICES ASSUME Init PROVE AllKnow /\ LogSequential /\ OneResult
  BY TypeInit DEF Inv
<1>1. AllKnow
  BY TaskTypes DEF Init, AllKnow
<1>2. LogSequential
  BY DEF Init, LogSequential, Recorded, EmptyLog
<1>3. OneResult
  BY DEF Init, OneResult, Results, AbsentRow
<1> QED
  BY <1>1, <1>2, <1>3

LEMMA InvHolds == ASSUME FaultsPropagate PROVE Spec => []Inv
<1>1. Inv /\ [Next]_vars => Inv'
  BY InvStep
<1> QED
  BY <1>1, InvInit, PTL DEF Spec

(***************************************************************************)
(* Concurrent executions of a workflow never disagree about a step         *)
(* (replay_or_guard, checkpoint, record_failure).                          *)
(***************************************************************************)
THEOREM Agreement == ASSUME FaultsPropagate PROVE Spec => []ReplayAgreement
  BY InvHolds, InvImplies, PTL

(***************************************************************************)
(* The log has no hole and ends at the first failure that is not handled.  *)
(***************************************************************************)
THEOREM Sequential == ASSUME FaultsPropagate PROVE Spec => []LogSequential
  BY InvHolds, InvImplies, PTL

(***************************************************************************)
(* Every handle and the row itself give the one result the log determines. *)
(***************************************************************************)
THEOREM ResultUnique == ASSUME FaultsPropagate PROVE Spec => []OneResult
  BY InvHolds, InvImplies, PTL

(***************************************************************************)
(* An execution never repeats a step that was recorded before it began.    *)
(***************************************************************************)
THEOREM NoRepeat == ASSUME FaultsPropagate PROVE Spec => []ReplayRunsNothing
  BY InvHolds, InvImplies, PTL

(***************************************************************************)
(* The statements that write a status row; the steps left out write none.  *)
(***************************************************************************)
RowWrite ==
    \/ \E t \in Tasks : Finish(t)
    \/ \E e \in Executors : BumpNext(e) \/ Requeue(e)
    \/ \E w \in Workflows : Cancel(w) \/ Resume(w) \/ ReleaseDelayed(w)
    \/ \E w \in Workflows, q \in Queues : ResumeEnqueues(w, q)
    \/ \E w \in Workflows, q \in Queues, delayed \in BOOLEAN : StartQueued(w, q, delayed)
    \/ \E e \in Executors, w \in Workflows, t \in Tasks : StartDirect(e, w, t) \/ Claim(e, w, t)

LEMMA RowWriters == ASSUME [Next]_vars, ~RowWrite PROVE UNCHANGED <<rows, cancelled>>
<1>1. CASE UNCHANGED vars
  BY <1>1 DEF vars
<1>2. ASSUME NEW t \in Tasks, TaskStep(t), ~Finish(t) PROVE UNCHANGED <<rows, cancelled>>
  BY <1>2 DEF TaskStep, ReplayRecorded, ReplayMiss, Guard, RetryBody, BodyEnds, RecordStep,
              FinishBlocked, ReportBlocked
<1>3. ASSUME NEW t \in Tasks, TaskDisruption(t) PROVE UNCHANGED <<rows, cancelled>>
  BY <1>3 DEF TaskDisruption, DeadlineElapses, BodyPanics, StepFault, FinishFault
<1>4. ASSUME NEW e \in Executors, RecoveryStep(e), ~BumpNext(e), ~Requeue(e)
      PROVE  UNCHANGED <<rows, cancelled>>
  BY <1>4 DEF RecoveryStep, RecoveryEnds, RunInline
<1>5. ASSUME NEW e \in Executors, RecoveryFault(e) \/ Crash(e) \/ Launch(e) \/ Recover(e)
      PROVE  UNCHANGED <<rows, cancelled>>
  BY <1>5 DEF RecoveryFault, Crash, Launch, Recover
<1>6. ASSUME NEW w \in Workflows, ResumeLost(w) \/ PollResult(w) PROVE UNCHANGED <<rows, cancelled>>
  BY <1>6 DEF ResumeLost, PollResult
<1> QED
  BY <1>1, <1>2, <1>3, <1>4, <1>5, <1>6 DEF RowWrite, Next, Manage

\* What a status write leaves in the row, whoever makes it.
LEMMA Written ==
    ASSUME NEW row \in Row
    PROVE  /\ \A s \in Statuses : \A o : set_workflow_status(row, s, o).status =
                                     IF CompletionBlocked(row, s) THEN row.status ELSE s
           /\ \A s \in Statuses : \A o : set_workflow_status(row, s, o).attempts = row.attempts
           /\ bump_recovery_attempts(row, MaxRecoveryAttempts).attempts = row.attempts + 1
           /\ bump_recovery_attempts(row, MaxRecoveryAttempts).status =
                 IF row.attempts + 1 > MaxRecoveryAttempts THEN PARKED ELSE row.status
           /\ cancel_workflow(row) # row => cancel_workflow(row).status = CANCELLED
           /\ transition_delayed(row).attempts = row.attempts
           /\ \A e, b : claim(row, e, b).status = PENDING /\ claim(row, e, b).attempts = row.attempts
           /\ row.status # ABSENT => \A new : insert_workflow_status(row, new) = row
<1>1. /\ \A s \in Statuses : \A o : set_workflow_status(row, s, o).status =
                                 IF CompletionBlocked(row, s) THEN row.status ELSE s
      /\ \A s \in Statuses : \A o : set_workflow_status(row, s, o).attempts = row.attempts
  <2> SUFFICES ASSUME NEW s \in Statuses, NEW o
               PROVE  /\ set_workflow_status(row, s, o).status =
                            IF CompletionBlocked(row, s) THEN row.status ELSE s
                      /\ set_workflow_status(row, s, o).attempts = row.attempts
    OBVIOUS
  <2>1. CASE CompletionBlocked(row, s)
    BY <2>1 DEF set_workflow_status
  <2>2. CASE ~CompletionBlocked(row, s)
    BY <2>2 DEF set_workflow_status, Row, RowType
  <2> QED
    BY <2>1, <2>2
<1>2. /\ bump_recovery_attempts(row, MaxRecoveryAttempts).attempts = row.attempts + 1
      /\ bump_recovery_attempts(row, MaxRecoveryAttempts).status =
            IF row.attempts + 1 > MaxRecoveryAttempts THEN PARKED ELSE row.status
  BY DEF bump_recovery_attempts, Row, RowType
<1>3. cancel_workflow(row) # row => cancel_workflow(row).status = CANCELLED
  BY DEF cancel_workflow, Row, RowType
<1>4. /\ transition_delayed(row).attempts = row.attempts
      /\ row.status # ABSENT => \A new : insert_workflow_status(row, new) = row
  BY DEF transition_delayed, insert_workflow_status, Row, RowType
<1>5. \A e, b : claim(row, e, b).status = PENDING /\ claim(row, e, b).attempts = row.attempts
  BY DEF claim, Row, RowType
<1> QED
  BY <1>1, <1>2, <1>3, <1>4, <1>5

(***************************************************************************)
(* A cancellation holds.                                                   *)
(***************************************************************************)
LEMMA CancelledKept ==
    ASSUME TypeInv, CancelledStaysCancelled, NEW w \in Workflows, NEW row,
           rows' = [rows EXCEPT ![w] = row], cancelled' \subseteq cancelled \cup {w},
           w \in cancelled' => row.status = CANCELLED
    PROVE  CancelledStaysCancelled'
  BY DEF TypeInv, CancelledStaysCancelled

LEMMA CancelledStep ==
    ASSUME TypeInv, CancelledStaysCancelled, [Next]_vars
    PROVE  CancelledStaysCancelled'
<1>r. \A w \in Workflows : rows[w] \in Row
  BY DEF TypeInv
<1>s. \A w \in Workflows : w \in cancelled => rows[w].status = CANCELLED
  BY DEF CancelledStaysCancelled
<1>k. /\ CANCELLED \in Statuses /\ SUCCESS \in Statuses /\ ERROR \in Statuses
      /\ CANCELLED \notin {ENQUEUED, DELAYED, PENDING, PARKED, ABSENT}
  BY DEF Statuses, ENQUEUED, DELAYED, PENDING, SUCCESS, ERROR, CANCELLED, PARKED, ABSENT
<1>1. CASE ~RowWrite
  BY <1>1, RowWriters DEF CancelledStaysCancelled
<1>2. ASSUME NEW t \in Tasks, Finish(t) PROVE CancelledStaysCancelled'
  <2>1. PICK w \in Workflows : w = tasks[t].wf
    BY <1>2 DEF Finish, TypeInv, GoodTask
  <2>2. PICK s \in {SUCCESS, ERROR, CANCELLED} : s = FinalStatus(tasks[t].res)
    BY DEF FinalStatus
  <2>3. /\ rows' = [rows EXCEPT ![w] = set_workflow_status(rows[w], s, FinalOutput(tasks[t]))]
        /\ ~CompletionBlocked(rows[w], s) /\ cancelled' = cancelled
    BY <1>2, <2>1, <2>2 DEF Finish
  <2>4. set_workflow_status(rows[w], s, FinalOutput(tasks[t])).status = s
    BY <1>r, <1>k, <2>3, Written
  <2>5. w \in cancelled => s = CANCELLED
    BY <1>s, <2>3 DEF CompletionBlocked, is_completion
  <2> QED
    BY <2>3, <2>4, <2>5, CancelledKept
<1>3. ASSUME NEW e \in Executors, BumpNext(e) PROVE CancelledStaysCancelled'
  <2>1. PICK r \in rec[e].todo :
           LET row == bump_recovery_attempts(rows[r.wf], MaxRecoveryAttempts)
           IN  /\ rows' = [rows EXCEPT ![r.wf] = row]
               /\ cancelled' = IF row.status = PARKED THEN cancelled \ {r.wf} ELSE cancelled
    BY <1>3 DEF BumpNext
  <2>2. PICK w \in Workflows : w = r.wf
    BY DEF TypeInv, GoodRecovery, Recovery, Snapshot
  <2> DEFINE row == bump_recovery_attempts(rows[w], MaxRecoveryAttempts)
  <2>3. /\ rows' = [rows EXCEPT ![w] = row]
        /\ cancelled' = IF row.status = PARKED THEN cancelled \ {w} ELSE cancelled
    BY <2>1, <2>2
  <2>4. row.status \in {PARKED, rows[w].status}
    BY <1>r, Written
  <2> HIDE DEF row
  <2> QED
    BY <1>s, <2>3, <2>4, CancelledKept
<1>4. ASSUME NEW e \in Executors, Requeue(e) PROVE CancelledStaysCancelled'
  <2>1. PICK w \in Workflows : w = rec[e].cur.wf
    BY <1>4 DEF Requeue, TypeInv, GoodRecovery, Snapshot
  <2>2. /\ rows' = [rows EXCEPT ![w] = set_workflow_status(rows[w], ENQUEUED, NoOutput)]
        /\ cancelled' = cancelled \ {w}
    BY <1>4, <2>1 DEF Requeue
  <2> QED
    BY <2>2, CancelledKept
<1>5. ASSUME NEW w \in Workflows, Cancel(w) PROVE CancelledStaysCancelled'
  <2>1. cancel_workflow(rows[w]).status = CANCELLED
    BY <1>5, <1>r, Written DEF Cancel
  <2> QED
    BY <1>5, <2>1, CancelledKept DEF Cancel
<1>6. ASSUME NEW w \in Workflows, Resume(w) \/ \E q \in Queues : ResumeEnqueues(w, q)
      PROVE  CancelledStaysCancelled'
  BY <1>6, CancelledKept DEF Resume, ResumeEnqueues
<1>7. ASSUME NEW w \in Workflows,
             ReleaseDelayed(w) \/ \E q \in Queues, delayed \in BOOLEAN : StartQueued(w, q, delayed)
      PROVE  CancelledStaysCancelled'
  <2>1. w \notin cancelled
    BY <1>7, <1>s, <1>k DEF ReleaseDelayed, StartQueued
  <2> QED
    BY <1>7, <2>1, CancelledKept DEF ReleaseDelayed, StartQueued
<1>8. ASSUME NEW e \in Executors, NEW w \in Workflows, NEW t \in Tasks,
             StartDirect(e, w, t) \/ Claim(e, w, t)
      PROVE  CancelledStaysCancelled'
  <2>1. StartDirect(e, w, t) => w \notin cancelled
    <3> SUFFICES ASSUME StartDirect(e, w, t), w \in cancelled PROVE FALSE
      OBVIOUS
    <3>1. insert_workflow_status(rows[w], DirectRow(e, w \in Timed)).status = CANCELLED
      BY <1>r, <1>s, <1>k, Written
    <3> QED
      BY <3>1 DEF StartDirect, is_terminal
  <2>2. Claim(e, w, t) => w \notin cancelled
    BY <1>s, <1>k DEF Claim
  <2>3. cancelled' = cancelled /\ \E row : rows' = [rows EXCEPT ![w] = row]
    BY <1>8 DEF StartDirect, Claim
  <2> QED
    BY <1>8, <2>1, <2>2, <2>3, CancelledKept
<1> QED
  BY <1>1, <1>2, <1>3, <1>4, <1>5, <1>6, <1>7, <1>8 DEF RowWrite

(***************************************************************************)
(* Once cancelled, a workflow stays so until a resume or a recovery pass   *)
(* acts on it, whatever executions of it are under way and whatever fails. *)
(***************************************************************************)
THEOREM Cancellation == Spec => []CancelledStaysCancelled
<1>1. Init => CancelledStaysCancelled
  BY DEF Init, CancelledStaysCancelled
<1>2. TypeInv /\ [Next]_vars => TypeInv'
  BY TypeStep
<1>3. TypeInv /\ CancelledStaysCancelled /\ [Next]_vars => CancelledStaysCancelled'
  BY CancelledStep
<1> QED
  BY <1>1, <1>2, <1>3, TypeInit, PTL DEF Spec

(***************************************************************************)
(* A terminal workflow nobody is busy with is left alone.                  *)
(***************************************************************************)
\* No task is given w, and no recovery pass takes it up.
LEMMA QuietKept ==
    ASSUME NEW w \in Workflows, Quiet(w), w \notin resuming',
           \A t \in Tasks : tasks'[t].wf # w,
           \A e \in Executors : rec'[e].cur.wf # w /\ \A r \in rec'[e].todo : r.wf # w
    PROVE  Quiet(w)'
  BY DEF Quiet

LEMMA NobodyHas ==
    ASSUME NEW w \in Workflows
    PROVE  /\ IdleTask.wf # w /\ NoSnapshot.wf # w
           /\ IdleRecovery.cur.wf # w /\ IdleRecovery.todo = {}
  BY ExecutionAssumption DEF IdleTask, NoSnapshot, IdleRecovery

LEMMA QuietEnd ==
    ASSUME TypeInv, NEW w \in Workflows, Quiet(w), NEW t \in Tasks, EndTask(t)
    PROVE  /\ \A u \in Tasks : tasks'[u].wf # w
           /\ \A e \in Executors : rec'[e].cur.wf # w /\ \A r \in rec'[e].todo : r.wf # w
<1>1. \A u \in Tasks : tasks'[u] = tasks[u] \/ tasks'[u] = IdleTask
  BY DEF EndTask, TypeInv
<1>2. \A e \in Executors :
         \/ rec'[e] = rec[e]
         \/ rec'[e].cur = NoSnapshot /\ rec'[e].todo = rec[e].todo
  BY DEF EndTask, TypeInv, GoodRecovery, Recovery
<1> QED
  BY <1>1, <1>2, NobodyHas DEF Quiet

\* A step of a task that goes on keeps the task's workflow.
LEMMA SameWorkflow ==
    ASSUME TypeInv, NEW t \in Tasks, NEW new, tasks[t].pc # "idle",
           tasks' = [tasks EXCEPT ![t] = new], new.wf = tasks[t].wf
    PROVE  \A u \in Tasks : tasks'[u].wf = tasks[u].wf
  BY DEF TypeInv

LEMMA TaskKeepsWorkflow ==
    ASSUME TypeInv, NEW t \in Tasks,
           TaskStep(t) \/ TaskDisruption(t), ~EndTask(t)
    PROVE  /\ \A u \in Tasks : tasks'[u].wf = tasks[u].wf
           /\ UNCHANGED <<rows, rec, resuming>>
<1>t. tasks[t] \in GoodTask /\ tasks[t] \in Task
  BY DEF TypeInv, GoodTask
<1>r. \A r \in {"ok", "error", "cancelled", "timeout"} : Returns(tasks[t], r).wf = tasks[t].wf
  BY <1>t, TaskTypes
<1>o. \A o \in Outcomes : Observe(tasks[t], o).wf = tasks[t].wf
  BY <1>t, TaskTypes
<1>1. CASE ReplayRecorded(t)
  <2>1. ckpt[tasks[t].wf][tasks[t].seq] \in Outcomes
    BY <1>1, <1>t DEF ReplayRecorded, TypeInv, GoodTask, Task, Logs
  <2> QED
    BY <1>1, <1>o, <2>1, SameWorkflow DEF ReplayRecorded
<1>2. CASE ReplayMiss(t) \/ RetryBody(t) \/ FinishBlocked(t) \/ BodyEnds(t)
  BY <1>2, <1>t DEF ReplayMiss, RetryBody, FinishBlocked, BodyEnds, TypeInv, Task
<1>3. CASE Guard(t)
  <2>1. [tasks[t] EXCEPT !.pc = "body"].wf = tasks[t].wf
    BY <1>t DEF Task
  <2> QED
    BY <1>3, <1>r, <2>1, SameWorkflow DEF Guard
<1>4. CASE RecordStep(t)
  <2> DEFINE log == record_step_result(ckpt[tasks[t].wf], tasks[t].seq, tasks[t].got)
  <2>1. /\ ckpt[tasks[t].wf] \in Logs /\ tasks[t].seq \in Steps /\ tasks[t].got \in Outcomes
    BY <1>4, <1>t DEF RecordStep, TypeInv, GoodTask, Task
  <2>2. log[tasks[t].seq] \in Outcomes
    BY <2>1, LogTypes
  <2> HIDE DEF log
  <2>3. Reported(tasks[t].got, log[tasks[t].seq]) \in Outcomes
    BY <2>1, <2>2 DEF Reported
  <2>4. tasks' = [tasks EXCEPT ![t] = Observe(tasks[t], Reported(tasks[t].got, log[tasks[t].seq]))]
        /\ UNCHANGED <<rows, rec, resuming>> /\ tasks[t].pc = "record"
    BY <1>4 DEF RecordStep, log
  <2> QED
    BY <1>o, <2>3, <2>4, SameWorkflow
<1>5. CASE DeadlineElapses(t)
  BY <1>5, <1>r, SameWorkflow DEF DeadlineElapses, InHandler
<1>6. CASE StepFault(t)
  <2>1. PICK v \in Values :
           tasks' = [tasks EXCEPT ![t] = IF tasks[t].seq \in Tolerated
                                           THEN Observe(tasks[t], Fail(v))
                                           ELSE Returns(tasks[t], "error")]
    BY <1>6 DEF StepFault
  <2>2. Fail(v) \in Outcomes
    BY DEF Fail, Outcomes
  <2>3. tasks[t].pc # "idle" /\ UNCHANGED <<rows, rec, resuming>>
    BY <1>6 DEF StepFault
  <2> QED
    BY <1>r, <1>o, <2>1, <2>2, <2>3, SameWorkflow
<1>7. CASE Finish(t) \/ ReportBlocked(t) \/ BodyPanics(t) \/ FinishFault(t)
  BY <1>7 DEF Finish, ReportBlocked, BodyPanics, FinishFault
<1> QED
  BY <1>1, <1>2, <1>3, <1>4, <1>5, <1>6, <1>7 DEF TaskStep, TaskDisruption

\* What QuietIsFinal says of one step and one workflow.
LeftAlone(w) ==
    \/ rows'[w] = rows[w] /\ Quiet(w)'
    \/ /\ ~is_completion(rows[w].status)
       /\ w \in resuming' \/ rows'[w].status = CANCELLED

LEMMA QuietStays ==
    ASSUME TypeInv, [Next]_vars, NEW w \in Workflows, is_terminal(rows[w].status), Quiet(w)
    PROVE  LeftAlone(w)
<1>q. /\ \A t \in Tasks : tasks[t].wf # w
      /\ w \notin resuming
      /\ \A e \in Executors : rec[e].cur.wf # w /\ \A r \in rec[e].todo : r.wf # w
  BY DEF Quiet
<1>r. rows[w] \in Row /\ rows \in [Workflows -> Row]
  BY DEF TypeInv
<1>s. rows[w].status \notin {ENQUEUED, DELAYED, PENDING, ABSENT}
  BY DEF is_terminal, ENQUEUED, DELAYED, PENDING, SUCCESS, ERROR, CANCELLED, PARKED, ABSENT
<1>u. UNCHANGED <<rows, tasks, rec, resuming>> => LeftAlone(w)
  BY DEF LeftAlone, Quiet
<1>v. ASSUME NEW x \in Workflows, x # w, NEW row, rows' = [rows EXCEPT ![x] = row] PROVE rows'[w] = rows[w]
  BY <1>r, <1>v
<1>1. CASE UNCHANGED vars
  BY <1>1, <1>u DEF vars
<1>2. ASSUME NEW t \in Tasks, TaskStep(t) \/ TaskDisruption(t) PROVE LeftAlone(w)
  <2>1. CASE ~EndTask(t)
    BY <1>2, <1>q, <2>1, QuietKept, TaskKeepsWorkflow DEF LeftAlone
  <2>2. CASE EndTask(t)
    <3>1. /\ \A u \in Tasks : tasks'[u].wf # w
          /\ \A e \in Executors : rec'[e].cur.wf # w /\ \A r \in rec'[e].todo : r.wf # w
      BY <2>2, QuietEnd
    <3>2. resuming' = resuming
      BY <1>2 DEF TaskStep, TaskDisruption, ReplayRecorded, ReplayMiss, Guard, RetryBody, BodyEnds,
                  RecordStep, Finish, FinishBlocked, ReportBlocked, DeadlineElapses, BodyPanics,
                  StepFault, FinishFault
    <3>3. rows'[w] = rows[w]
      <4>1. CASE Finish(t)
        <5>1. tasks[t].wf \in Workflows /\ tasks[t].wf # w
          BY <1>q, <4>1 DEF Finish, TypeInv, GoodTask
        <5> QED
          BY <1>r, <4>1, <5>1 DEF Finish
      <4>2. CASE ~Finish(t)
        BY <1>2, <4>2 DEF TaskStep, TaskDisruption, ReplayRecorded, ReplayMiss, Guard, RetryBody,
                          BodyEnds, RecordStep, FinishBlocked, ReportBlocked, DeadlineElapses,
                          BodyPanics, StepFault, FinishFault
      <4> QED
        BY <4>1, <4>2
    <3>4. Quiet(w)'
      BY <1>q, <3>1, <3>2, QuietKept
    <3> QED
      BY <3>3, <3>4 DEF LeftAlone
  <2> QED
    BY <2>1, <2>2
<1>3. ASSUME NEW e \in Executors, BumpNext(e) PROVE LeftAlone(w)
  <2>1. PICK r \in rec[e].todo :
           LET row == bump_recovery_attempts(rows[r.wf], MaxRecoveryAttempts)
               rest == [rec[e] EXCEPT !.todo = rec[e].todo \ {r}]
           IN  /\ rows' = [rows EXCEPT ![r.wf] = row]
               /\ rec' = [rec EXCEPT ![e] =
                          IF row.attempts > MaxRecoveryAttempts
                            THEN rest
                            ELSE [rest EXCEPT !.cur = r,
                                    !.pc = IF r.queue # NoQueue THEN "requeue" ELSE "run"]]
    BY <1>3 DEF BumpNext
  <2>2. r.wf \in Workflows /\ r.wf # w
    BY <1>q DEF TypeInv, GoodRecovery, Recovery, Snapshot
  <2>3. rows'[w] = rows[w]
    BY <1>r, <2>1, <2>2
  <2>4. rec'[e].todo \subseteq rec[e].todo /\ rec'[e].cur \in {rec[e].cur, r}
    <3>1. rec[e] \in Recovery
      BY DEF TypeInv, GoodRecovery
    <3> QED
      BY <2>1, <3>1 DEF TypeInv, Recovery
  <2>5. \A x \in Executors : x # e => rec'[x] = rec[x]
    BY <2>1 DEF TypeInv
  <2>6. UNCHANGED <<tasks, resuming>>
    BY <1>3 DEF BumpNext
  <2> QED
    BY <1>q, <2>2, <2>3, <2>4, <2>5, <2>6, QuietKept DEF LeftAlone
<1>4. ASSUME NEW e \in Executors, Requeue(e) PROVE LeftAlone(w)
  <2>1. rec[e].cur.wf \in Workflows /\ rec[e].cur.wf # w
    BY <1>4, <1>q DEF Requeue, TypeInv, GoodRecovery, Snapshot
  <2>2. rows'[w] = rows[w] /\ UNCHANGED <<tasks, resuming>>
    BY <1>4, <1>r, <2>1 DEF Requeue
  <2>3. \A x \in Executors : rec'[x] = rec[x] \/ (rec'[x].cur = NoSnapshot /\ rec'[x].todo = rec[x].todo)
    BY <1>4 DEF Requeue, TypeInv, GoodRecovery, Recovery
  <2> QED
    BY <1>q, <2>2, <2>3, NobodyHas, QuietKept DEF LeftAlone
<1>5. ASSUME NEW e \in Executors, RecoveryEnds(e) \/ RecoveryFault(e) PROVE LeftAlone(w)
  <2>1. /\ UNCHANGED <<rows, tasks, resuming>>
        /\ \A x \in Executors : rec'[x] = rec[x] \/ rec'[x] = IdleRecovery
    BY <1>5 DEF RecoveryEnds, RecoveryFault, TypeInv
  <2> QED
    BY <1>q, <2>1, NobodyHas, QuietKept DEF LeftAlone
<1>6. ASSUME NEW e \in Executors, NEW t \in Tasks, RunInline(e, t) PROVE LeftAlone(w)
  <2>1. rec[e].cur.wf # w /\ NewTask(rec[e].cur.wf, e, rec[e].cur.deadline, FALSE).wf = rec[e].cur.wf
    BY <1>q DEF NewTask, IdleTask
  <2>2. \A u \in Tasks : tasks'[u].wf # w
    BY <1>6, <1>q, <2>1 DEF RunInline, Spawn, TypeInv
  <2>3. \A x \in Executors : rec'[x].cur = rec[x].cur /\ rec'[x].todo = rec[x].todo
    BY <1>6 DEF RunInline, TypeInv, GoodRecovery, Recovery
  <2> QED
    BY <1>6, <1>q, <2>2, <2>3, QuietKept DEF RunInline, LeftAlone
<1>7. ASSUME NEW e \in Executors, Crash(e) PROVE LeftAlone(w)
  <2>1. \A u \in Tasks : tasks'[u] = tasks[u] \/ tasks'[u] = IdleTask
    BY <1>7 DEF Crash, TypeInv
  <2>2. \A x \in Executors : rec'[x] = rec[x] \/ rec'[x] = IdleRecovery
    BY <1>7 DEF Crash, TypeInv
  <2> QED
    BY <1>7, <1>q, <2>1, <2>2, NobodyHas, QuietKept DEF Crash, LeftAlone
<1>8. ASSUME NEW e \in Executors, Launch(e) \/ Recover(e) PROVE LeftAlone(w)
  <2>1. ASSUME NEW owners, NEW r \in PendingSnapshot(owners) PROVE r.wf # w
    BY <1>s, <2>1 DEF PendingSnapshot
  <2>2. UNCHANGED <<rows, tasks, resuming>>
        /\ (rec' = rec \/ \E owners : BeginRecovery(e, PendingSnapshot(owners)))
    BY <1>8 DEF Launch, Recover
  <2>3. ASSUME NEW owners, BeginRecovery(e, PendingSnapshot(owners))
        PROVE  \A x \in Executors : rec'[x].cur.wf # w /\ \A r \in rec'[x].todo : r.wf # w
    <3> DEFINE snap == PendingSnapshot(owners)
    <3>1. /\ [IdleRecovery EXCEPT !.pc = "next", !.todo = snap].cur = IdleRecovery.cur
          /\ [IdleRecovery EXCEPT !.pc = "next", !.todo = snap].todo = snap
      BY DEF IdleRecovery
    <3>2. rec' = [rec EXCEPT ![e] = IF snap = {} THEN IdleRecovery
                                     ELSE [IdleRecovery EXCEPT !.pc = "next", !.todo = snap]]
      BY <2>3 DEF BeginRecovery
    <3>3. \A r \in snap : r.wf # w
      BY <2>1
    <3> HIDE DEF snap
    <3>4. \A x \in Executors : \/ rec'[x] = rec[x] \/ rec'[x] = IdleRecovery
                               \/ rec'[x].cur = IdleRecovery.cur /\ rec'[x].todo = snap
      BY <3>1, <3>2 DEF TypeInv
    <3> QED
      BY <1>q, <3>3, <3>4, NobodyHas
  <2> QED
    BY <1>q, <1>u, <2>2, <2>3, QuietKept DEF LeftAlone
<1>9. ASSUME NEW x \in Workflows, Cancel(x) PROVE LeftAlone(w)
  <2>1. CASE x = w
    <3>1. rows'[w].status = CANCELLED
      BY <1>9, <1>r, <2>1, Written DEF Cancel
    <3>2. ~is_completion(rows[w].status)
      BY <1>9, <2>1 DEF Cancel, cancel_workflow, is_completion
    <3> QED
      BY <3>1, <3>2 DEF LeftAlone
  <2>2. CASE x # w
    BY <1>9, <1>q, <1>v, <2>2, QuietKept DEF Cancel, LeftAlone
  <2> QED
    BY <2>1, <2>2
<1>10. ASSUME NEW x \in Workflows, Resume(x) PROVE LeftAlone(w)
  <2>1. CASE x = w
    BY <1>10, <2>1 DEF Resume, CanResume, is_completion, LeftAlone
  <2>2. CASE x # w
    BY <1>10, <1>q, <1>v, <2>2, QuietKept DEF Resume, LeftAlone
  <2> QED
    BY <2>1, <2>2
<1>11. ASSUME NEW x \in Workflows, ResumeLost(x) \/ PollResult(x) PROVE LeftAlone(w)
  BY <1>11, <1>q, QuietKept DEF ResumeLost, PollResult, LeftAlone
<1>12. ASSUME NEW x \in Workflows, NEW q \in Queues, ResumeEnqueues(x, q) PROVE LeftAlone(w)
  BY <1>12, <1>q, <1>v, QuietKept DEF ResumeEnqueues, LeftAlone
<1>13. ASSUME NEW x \in Workflows, ReleaseDelayed(x) PROVE LeftAlone(w)
  BY <1>13, <1>q, <1>s, <1>v, QuietKept DEF ReleaseDelayed, LeftAlone
<1>14. ASSUME NEW x \in Workflows, NEW q \in Queues, NEW b \in BOOLEAN, StartQueued(x, q, b)
       PROVE  LeftAlone(w)
  BY <1>14, <1>q, <1>s, <1>v, QuietKept DEF StartQueued, LeftAlone
<1>15. ASSUME NEW e \in Executors, NEW x \in Workflows, NEW t \in Tasks,
              StartDirect(e, x, t) \/ Claim(e, x, t)
       PROVE  LeftAlone(w)
  <2>1. x # w
    <3>1. Claim(e, x, t) => x # w
      BY <1>s DEF Claim
    <3>2. insert_workflow_status(rows[w], DirectRow(e, w \in Timed)) = rows[w]
      BY <1>r, <1>s, Written
    <3>3. StartDirect(e, x, t) => x # w
      BY <3>2 DEF StartDirect
    <3> QED
      BY <1>15, <3>1, <3>3
  <2>2. \A d, b : NewTask(x, e, d, b).wf = x
    BY DEF NewTask, IdleTask
  <2>3. \A u \in Tasks : tasks'[u].wf # w
    <3>1. \E d, b : tasks' = [tasks EXCEPT ![t] = NewTask(x, e, d, b)]
      BY <1>15 DEF StartDirect, Claim, Spawn
    <3>2. PICK d, b : tasks' = [tasks EXCEPT ![t] = NewTask(x, e, d, b)]
      BY <3>1
    <3> QED
      BY <1>q, <2>1, <2>2, <3>2 DEF TypeInv
  <2>4. rows'[w] = rows[w] /\ UNCHANGED <<rec, resuming>>
    BY <1>15, <1>v, <2>1 DEF StartDirect, Claim
  <2> QED
    BY <1>q, <2>3, <2>4, QuietKept DEF LeftAlone
<1> QED
  BY <1>1, <1>2, <1>3, <1>4, <1>5, <1>6, <1>7, <1>8, <1>9, <1>10, <1>11, <1>12, <1>13, <1>14, <1>15
  DEF Next, RecoveryStep, Manage

(***************************************************************************)
(* Nothing touches a terminal workflow nobody is busy with, or starts      *)
(* another execution of it, but a resume or cancel of one that did not     *)
(* complete (is_terminal; insert_run; PENDING rows are what is recovered). *)
(***************************************************************************)
THEOREM Finality == Spec => QuietIsFinal
<1>1. TypeInv /\ [Next]_vars => TypeInv'
  BY TypeStep
<1>2. TypeInv /\ [Next]_vars =>
         [\A w \in Workflows :
             is_terminal(rows[w].status) /\ Quiet(w) =>
                 \/ rows'[w] = rows[w] /\ Quiet(w)'
                 \/ /\ ~is_completion(rows[w].status)
                    /\ w \in resuming' \/ rows'[w].status = CANCELLED]_vars
  BY QuietStays DEF LeftAlone
<1> QED
  BY <1>1, <1>2, TypeInit, PTL DEF Spec, QuietIsFinal

(***************************************************************************)
(* The refinement.  A step publishes in the row or the handles of at most  *)
(* one workflow and takes no output back, or it commits one outcome, or    *)
(* the abstract log does not see it at all.                                *)
(***************************************************************************)
Publishes(w) ==
    /\ ckpt' = ckpt
    /\ \A v \in Workflows \ {w} : rows'[v].output = rows[v].output /\ delivered'[v] = delivered[v]
    /\ rows[w].output # NoOutput => rows'[w].output # NoOutput
    /\ delivered[w] \subseteq delivered'[w]

Commits(t) ==
    /\ tasks[t].pc = "record"
    /\ ckpt' = [ckpt EXCEPT ![tasks[t].wf] = record_step_result(@, tasks[t].seq, tasks[t].got)]
    /\ UNCHANGED <<rows, delivered>>

Unseen == UNCHANGED <<rows, ckpt, delivered>>

LEMMA RowPublishes ==
    ASSUME TypeInv, NEW w \in Workflows, NEW row,
           rows' = [rows EXCEPT ![w] = row], UNCHANGED <<ckpt, delivered>>,
           rows[w].output # NoOutput => row.output # NoOutput
    PROVE  Publishes(w)
  BY DEF Publishes, TypeInv

LEMMA StepShape ==
    ASSUME TypeInv, [Next]_vars
    PROVE  Unseen \/ (\E w \in Workflows : Publishes(w)) \/ (\E t \in Tasks : Commits(t))
<1> DEFINE Goal == Unseen \/ (\E w \in Workflows : Publishes(w)) \/ (\E t \in Tasks : Commits(t))
<1>r. \A w \in Workflows : rows[w] \in Row
  BY DEF TypeInv
<1>d. ASSUME NEW t \in Tasks, tasks[t].pc # "idle", Deliver(tasks[t]) \/ UNCHANGED delivered
      PROVE  /\ tasks[t].wf \in Workflows
             /\ \A v \in Workflows : delivered[v] \subseteq delivered'[v]
             /\ \A v \in Workflows \ {tasks[t].wf} : delivered'[v] = delivered[v]
  BY <1>d DEF Deliver, TypeInv, GoodTask
<1>1. CASE UNCHANGED vars
  BY <1>1 DEF vars, Unseen
<1>2. ASSUME NEW t \in Tasks, TaskStep(t) PROVE Goal
  <2>1. CASE RecordStep(t)
    BY <2>1 DEF RecordStep, Commits
  <2>2. CASE Finish(t)
    <3>1. PICK w \in Workflows : w = tasks[t].wf
      BY <2>2 DEF Finish, TypeInv, GoodTask
    <3>2. /\ rows' = [rows EXCEPT ![w] = set_workflow_status(rows[w], FinalStatus(tasks[t].res),
                                                             FinalOutput(tasks[t]))]
          /\ ckpt' = ckpt
      BY <2>2, <3>1 DEF Finish
    <3>3. set_workflow_status(rows[w], FinalStatus(tasks[t].res), FinalOutput(tasks[t])).output
             \in {rows[w].output, FinalOutput(tasks[t])}
      BY <1>r, RowOutputs
    <3>4. FinalOutput(tasks[t]) = NoOutput =>
             set_workflow_status(rows[w], FinalStatus(tasks[t].res), FinalOutput(tasks[t])).output
                = rows[w].output
      BY <1>r, RowOutputs
    <3>5. rows'[w] = set_workflow_status(rows[w], FinalStatus(tasks[t].res), FinalOutput(tasks[t]))
          /\ \A v \in Workflows \ {w} : rows'[v] = rows[v]
      BY <3>2 DEF TypeInv
    <3>6. Publishes(w)
      BY <1>d, <2>2, <3>1, <3>2, <3>3, <3>4, <3>5 DEF Publishes, Finish
    <3> QED
      BY <3>6
  <2>3. CASE ReportBlocked(t)
    <3>1. Publishes(tasks[t].wf) /\ tasks[t].wf \in Workflows
      BY <1>d, <2>3 DEF Publishes, ReportBlocked
    <3> QED
      BY <3>1
  <2> QED
    BY <1>2, <2>1, <2>2, <2>3
    DEF TaskStep, Unseen, ReplayRecorded, ReplayMiss, Guard, RetryBody, BodyEnds, FinishBlocked
<1>3. ASSUME NEW t \in Tasks, TaskDisruption(t) PROVE Goal
  BY <1>3 DEF TaskDisruption, DeadlineElapses, BodyPanics, StepFault, FinishFault, Unseen, Commits
<1>4. ASSUME NEW e \in Executors, BumpNext(e) PROVE Goal
  <2>1. PICK r \in rec[e].todo :
           rows' = [rows EXCEPT ![r.wf] = bump_recovery_attempts(rows[r.wf], MaxRecoveryAttempts)]
    BY <1>4 DEF BumpNext
  <2>2. r.wf \in Workflows
    BY DEF TypeInv, GoodRecovery, Recovery, Snapshot
  <2>3. bump_recovery_attempts(rows[r.wf], MaxRecoveryAttempts).output = rows[r.wf].output
    BY <1>r, <2>2, RowOutputs
  <2>4. Publishes(r.wf)
    BY <1>4, <2>1, <2>2, <2>3, RowPublishes DEF BumpNext
  <2> QED
    BY <2>2, <2>4
<1>5. ASSUME NEW e \in Executors, Requeue(e) PROVE Goal
  <2>1. rec[e].cur.wf \in Workflows
    BY <1>5 DEF Requeue, TypeInv, GoodRecovery, Snapshot
  <2>2. Publishes(rec[e].cur.wf)
    BY <1>5, <1>r, <2>1, RowOutputs, RowPublishes DEF Requeue
  <2> QED
    BY <2>1, <2>2
<1>6. ASSUME NEW e \in Executors,
             \/ RecoveryEnds(e) \/ \E t \in Tasks : RunInline(e, t)
             \/ RecoveryFault(e) \/ Crash(e) \/ Launch(e) \/ Recover(e)
      PROVE  Goal
  BY <1>6 DEF RecoveryEnds, RunInline, RecoveryFault, Crash, Launch, Recover, Unseen
<1>7. ASSUME NEW w \in Workflows, Manage(w) PROVE Goal
  <2>1. CASE Cancel(w)
    BY <1>r, <2>1, RowOutputs, RowPublishes DEF Cancel
  <2>2. CASE Resume(w)
    BY <1>r, <2>2, RowOutputs, RowPublishes DEF Resume
  <2>3. CASE ResumeLost(w)
    BY <2>3 DEF ResumeLost, Unseen
  <2>4. ASSUME NEW q \in Queues, ResumeEnqueues(w, q) PROVE Goal
    BY <1>r, <2>4, RowOutputs, RowPublishes DEF ResumeEnqueues
  <2> QED
    BY <1>7, <2>1, <2>2, <2>3, <2>4 DEF Manage
<1>8. ASSUME NEW w \in Workflows, PollResult(w) PROVE Goal
  <2>1. Publishes(w)
    BY <1>8 DEF PollResult, Publishes, TypeInv
  <2> QED
    BY <2>1
<1>9. ASSUME NEW w \in Workflows, ReleaseDelayed(w) PROVE Goal
  BY <1>9, <1>r, RowOutputs, RowPublishes DEF ReleaseDelayed
<1>10. ASSUME NEW w \in Workflows, NEW q \in Queues, NEW b \in BOOLEAN, StartQueued(w, q, b)
       PROVE  Goal
  <2>1. rows[w].output = NoOutput
    BY <1>10, <1>r DEF StartQueued, Row
  <2> QED
    BY <1>10, <2>1, RowPublishes DEF StartQueued
<1>11. ASSUME NEW e \in Executors, NEW w \in Workflows, NEW t \in Tasks, StartDirect(e, w, t)
       PROVE  Goal
  <2>1. CASE rows[w].status = ABSENT
    <3>1. rows[w].output = NoOutput
      BY <2>1, <1>r DEF Row
    <3> QED
      BY <1>11, <3>1, RowPublishes DEF StartDirect
  <2>2. CASE rows[w].status # ABSENT
    <3>1. insert_workflow_status(rows[w], DirectRow(e, w \in Timed)) = rows[w]
      BY <2>2, <1>r, Written
    <3> QED
      BY <1>11, <3>1, RowPublishes DEF StartDirect
  <2> QED
    BY <2>1, <2>2
<1>12. ASSUME NEW e \in Executors, NEW w \in Workflows, NEW t \in Tasks, Claim(e, w, t)
       PROVE  Goal
  <2>1. claim(rows[w], e, w \in Timed).output = rows[w].output
    BY <1>r DEF claim, Row, RowType
  <2> QED
    BY <1>12, <2>1, RowPublishes DEF Claim
<1> QED
  BY <1>1, <1>2, <1>3, <1>4, <1>5, <1>6, <1>7, <1>8, <1>9, <1>10, <1>11, <1>12
  DEF Next, RecoveryStep

\* What the abstract specification sees of the handles and the row.
Published(w) == {Canon(o) : o \in Results(w)}

LEMMA PublishedIs ==
    ASSUME OneResult, NEW w \in Workflows
    PROVE  /\ Results(w) = {} => Published(w) = {}
           /\ Results(w) # {} => /\ Published(w) = {Canon(ckpt[w])}
                                 /\ \A k \in Steps : Passes(k, ckpt[w][k])
  BY DEF Published, OneResult

\* The abstract specification speaks of the same steps, outcomes and logs.
LEMMA SameTerms ==
    /\ Promise!Steps = Steps /\ Promise!Outcomes = Outcomes
    /\ Promise!Nothing = Nothing /\ Promise!EmptyLog = EmptyLog
    /\ \A k, o : Promise!Passes(k, o) <=> Passes(k, o)
    /\ \A log : Promise!Canon(log) = Canon(log)
<1>1. Promise!Steps = Steps /\ Promise!Outcomes = Outcomes /\ Promise!Nothing = Nothing
  BY DEF Promise!Steps, Steps, Promise!Outcomes, Outcomes, Promise!Nothing, Nothing
<1>2. Promise!EmptyLog = EmptyLog /\ \A k, o : Promise!Passes(k, o) <=> Passes(k, o)
  BY <1>1 DEF Promise!EmptyLog, EmptyLog, Promise!Passes, Passes
<1>3. \A log : Promise!Canon(log) = Canon(log)
  BY <1>1 DEF Promise!Canon, Canon, Promise!Fail, Fail
<1> QED
  BY <1>1, <1>2, <1>3

\* An output becomes visible: the workflow is published, or was already.
LEMMA PublishStep ==
    ASSUME Inv, Inv', NEW w \in Workflows, Publishes(w)
    PROVE  [Promise!Next]_<<ckpt, [v \in Workflows |-> Published(v)]>>
<1>1. \A v \in Workflows \ {w} : Published(v)' = Published(v)
  BY DEF Publishes, Published, Results
<1>2. Results(w) # {} => Results(w)' # {}
  BY DEF Publishes, Results
<1>3. /\ Results(w)' = {} => Published(w)' = {}
      /\ Results(w)' # {} => /\ Published(w)' = {Canon(ckpt[w])}
                             /\ \A k \in Steps : Passes(k, ckpt[w][k])
  BY PublishedIs DEF Inv, OneResult, Published, Publishes
<1>4. CASE Results(w)' = {}
  <2>1. Published(w) = {}
    BY <1>2, <1>4, PublishedIs DEF Inv
  <2>2. [v \in Workflows |-> Published(v)'] = [v \in Workflows |-> Published(v)]
    BY <1>1, <1>3, <1>4, <2>1
  <2> QED
    BY <2>2 DEF Publishes
<1>5. CASE Results(w)' # {}
  <2>1. [v \in Workflows |-> Published(v)'] =
           [[v \in Workflows |-> Published(v)] EXCEPT ![w] = {Canon(ckpt[w])}]
    BY <1>1, <1>3, <1>5
  <2>2. Promise!Publish(w)
    BY <1>3, <1>5, <2>1, SameTerms DEF Publishes, Promise!Publish, Published
  <2> QED
    BY <2>2 DEF Promise!Next
<1> QED
  BY <1>4, <1>5

\* A checkpoint is inserted: the abstract log commits, unless one was there.
LEMMA CommitRefines ==
    ASSUME Inv, NEW t \in Tasks, Commits(t)
    PROVE  [Promise!Next]_<<ckpt, [v \in Workflows |-> Published(v)]>>
<1>1. PICK w \in Workflows, k \in Steps, o \in Outcomes :
         w = tasks[t].wf /\ k = tasks[t].seq /\ o = tasks[t].got
  BY DEF Commits, Inv, TypeInv, GoodTask, Task
<1>2. /\ tasks[t] \in Task /\ ckpt \in [Workflows -> Logs] /\ ckpt[w] \in Logs
      /\ Knows(tasks[t], ckpt[w])
  BY <1>1 DEF Commits, Inv, TypeInv, GoodTask, AllKnow
<1>3. ckpt' = [ckpt EXCEPT ![w] = record_step_result(ckpt[w], k, o)]
  BY <1>1 DEF Commits
<1>4. [v \in Workflows |-> Published(v)'] = [v \in Workflows |-> Published(v)]
  BY DEF Commits, Published, Results
<1>5. CASE ckpt[w][k] # Nothing
  <2>1. ckpt' = ckpt
    BY <1>2, <1>3, <1>5 DEF record_step_result
  <2> QED
    BY <1>4, <2>1
<1>6. CASE ckpt[w][k] = Nothing
  <2>1. ASSUME NEW j \in 1..(k - 1) PROVE Passes(j, ckpt[w][j])
    <3>1. j \in Steps /\ j < k
      BY StepAssumption DEF Steps
    <3>2. Passes(j, tasks[t].seen[j]) /\ tasks[t].seen[j] # Nothing
      BY <1>1, <1>2, <3>1 DEF Knows, Passes
    <3>3. /\ SameOutcome(tasks[t].seen[j], ckpt[w][j])
          /\ tasks[t].seen[j] \in Outcomes \cup {Nothing}
          /\ ckpt[w][j] \in Outcomes \cup {Nothing}
      BY <1>2, <3>1, <3>2 DEF Knows, Task, Logs
    <3> QED
      BY <3>1, <3>2, <3>3, SamePasses
  <2>2. ckpt' = [ckpt EXCEPT ![w] = [ckpt[w] EXCEPT ![k] = o]]
    BY <1>3, <1>6 DEF record_step_result
  <2>3. ckpt' = [ckpt EXCEPT ![w][k] = o]
    BY <1>2, <2>2
  <2>4. Promise!Commit(w, k, o)
    BY <1>4, <1>6, <2>1, <2>3, SameTerms DEF Promise!Commit, Published
  <2> QED
    BY <2>4, SameTerms DEF Promise!Next
<1> QED
  BY <1>5, <1>6

LEMMA RefinementStep ==
    ASSUME Inv, Inv', [Next]_vars
    PROVE  [Promise!Next]_<<ckpt, [v \in Workflows |-> Published(v)]>>
<1>1. CASE Unseen
  BY <1>1 DEF Unseen, Published, Results
<1> QED
  BY <1>1, StepShape, PublishStep, CommitRefines DEF Inv

LEMMA RefinementInit == Init => Promise!Init
<1> SUFFICES ASSUME Init PROVE Promise!Init
  OBVIOUS
<1>1. \A w \in Workflows : Results(w) = {}
  BY DEF Init, Results, AbsentRow
<1>2. [w \in Workflows |-> {Canon(o) : o \in Results(w)}] = [w \in Workflows |-> {}]
  BY <1>1
<1> QED
  BY <1>2, SameTerms DEF Init, Promise!Init

(***************************************************************************)
(* The execution core implements the exactly-once log: seen through the    *)
(* checkpoints and the outputs, all its executions, crashes, cancels,      *)
(* resumes and recoveries commit each step once, in order, and publish     *)
(* nothing but the result of the complete log.                             *)
(***************************************************************************)
THEOREM Refinement == ASSUME FaultsPropagate PROVE Spec => ImplementsExactlyOnceLog
<1>1. Inv /\ Inv' /\ [Next]_vars =>
         [Promise!Next]_<<ckpt, [w \in Workflows |-> {Canon(o) : o \in Results(w)}]>>
  BY RefinementStep DEF Published
<1> QED
  BY <1>1, InvHolds, RefinementInit, PTL DEF Spec, ImplementsExactlyOnceLog, Promise!Spec

(***************************************************************************)
(* The recovery cap.  A pass counts an attempt in one statement and        *)
(* re-enqueues in the next, so the cap rests on no other pass parking the  *)
(* workflow in between: either passes only come from launch(), which       *)
(* recovers what its own executor id owns, or there is one executor.  And  *)
(* the second statement of a resume re-enqueues whatever it finds.         *)
(***************************************************************************)
SoleRecoverer ==
    /\ "resume" \notin Disruptions
    /\ "recover" \notin Disruptions \/ \A e, f \in Executors : e = f

\* The records pass p may still bump, or has bumped and will re-enqueue.
InHand(p, r) == r \in p.todo \/ (p.pc = "requeue" /\ r = p.cur)

\* A pass that has counted an attempt and goes on is within the cap.
WithinCap ==
    \A e \in Executors :
        rec[e].pc = "requeue" => rows[rec[e].cur.wf].attempts <= MaxRecoveryAttempts

\* What a launch has in hand is its own and not yet queued again.
HandOwned ==
    "recover" \notin Disruptions =>
        \A e \in Executors, r \in Snapshot : InHand(rec[e], r) =>
            rows[r.wf].exec = e /\ rows[r.wf].status \notin {ABSENT, DELAYED, ENQUEUED}

\* A pass comes to each workflow once.
HandOnce ==
    \A e \in Executors, r \in Snapshot :
        r \in rec[e].todo =>
            /\ rec[e].pc = "requeue" => r.wf # rec[e].cur.wf
            /\ \A s \in Snapshot : s \in rec[e].todo /\ s.wf = r.wf => s = r

CapInv == CapHolds /\ resuming = {} /\ WithinCap /\ HandOwned /\ HandOnce

\* The pass of e has no more in hand than before.
Shrinks(e) ==
    /\ rec'[e].todo \subseteq rec[e].todo
    /\ rec'[e].pc = "requeue" => rec[e].pc = "requeue" /\ rec'[e].cur = rec[e].cur

\* The row is as it was, or the workflow has ended.
Calm(w) ==
    /\ rows'[w].exec = rows[w].exec
    /\ rows'[w].attempts = rows[w].attempts
    /\ rows'[w].status \in {rows[w].status, SUCCESS, ERROR, CANCELLED}

LEMMA StatusNames ==
    /\ {SUCCESS, ERROR, CANCELLED, PARKED} \cap {ENQUEUED, DELAYED, PENDING, ABSENT} = {}
    /\ PENDING \notin {ABSENT, DELAYED, ENQUEUED} /\ ABSENT \notin {ENQUEUED, DELAYED, PENDING}
    /\ {SUCCESS, ERROR, CANCELLED, PARKED, ENQUEUED, DELAYED, PENDING, ABSENT} = Statuses
  BY DEF SUCCESS, ERROR, CANCELLED, PARKED, ENQUEUED, DELAYED, PENDING, ABSENT, Statuses

LEMMA HandOnceKept == ASSUME HandOnce, \A e \in Executors : Shrinks(e) PROVE HandOnce'
  BY DEF HandOnce, Shrinks

LEMMA CapCalm ==
    ASSUME TypeInv, CapInv, resuming' = resuming,
           \A e \in Executors : Shrinks(e), \A w \in Workflows : Calm(w)
    PROVE  CapInv'
<1>1. CapHolds'
  BY StatusNames DEF CapInv, CapHolds, Calm
<1>2. WithinCap'
  <2> SUFFICES ASSUME NEW e \in Executors, rec'[e].pc = "requeue"
               PROVE  rows'[rec'[e].cur.wf].attempts <= MaxRecoveryAttempts
    BY DEF WithinCap
  <2>1. rec[e].pc = "requeue" /\ rec'[e].cur = rec[e].cur
    BY DEF Shrinks
  <2>2. rec[e].cur.wf \in Workflows
    BY <2>1 DEF TypeInv, GoodRecovery, Snapshot
  <2> QED
    BY <2>1, <2>2 DEF CapInv, WithinCap, Calm
<1>3. HandOwned'
  <2> SUFFICES ASSUME "recover" \notin Disruptions, NEW e \in Executors, NEW r \in Snapshot,
                      InHand(rec'[e], r)
               PROVE  /\ rows'[r.wf].exec = e
                      /\ rows'[r.wf].status \notin {ABSENT, DELAYED, ENQUEUED}
    BY DEF HandOwned
  <2>1. InHand(rec[e], r) /\ r.wf \in Workflows
    BY DEF Shrinks, InHand, Snapshot
  <2>2. rows[r.wf].exec = e /\ rows[r.wf].status \notin {ABSENT, DELAYED, ENQUEUED}
    BY <2>1 DEF CapInv, HandOwned
  <2> QED
    BY <2>1, <2>2, StatusNames DEF Calm
<1> QED
  BY <1>1, <1>2, <1>3, HandOnceKept DEF CapInv

\* A row that is created, released or claimed is in nobody's hand.
LEMMA CapFresh ==
    ASSUME TypeInv, CapInv, NEW w \in Workflows, NEW row,
           rows' = [rows EXCEPT ![w] = row], UNCHANGED <<rec, resuming>>,
           rows[w].status \in {ABSENT, DELAYED, ENQUEUED}, row.attempts <= MaxRecoveryAttempts,
           row.attempts \in Nat
    PROVE  CapInv'
<1>0. rows'[w] = row /\ \A v \in Workflows : v # w => rows'[v] = rows[v]
  BY DEF TypeInv
<1>1. CapHolds'
  BY <1>0, ExecutionAssumption DEF CapInv, CapHolds
<1>2. WithinCap'
  <2> SUFFICES ASSUME NEW e \in Executors, rec[e].pc = "requeue"
               PROVE  rows'[rec[e].cur.wf].attempts <= MaxRecoveryAttempts
    BY DEF WithinCap
  <2>1. rec[e].cur.wf \in Workflows
    BY DEF TypeInv, GoodRecovery, Snapshot
  <2> QED
    BY <1>0, <2>1 DEF CapInv, WithinCap
<1>3. HandOwned'
  BY <1>0 DEF CapInv, HandOwned, Snapshot
<1>4. HandOnce'
  BY DEF CapInv, HandOnce
<1> QED
  BY <1>1, <1>2, <1>3, <1>4 DEF CapInv

\* A pass begins: each workflow once, and only what it owns if it is a launch.
LEMMA CapBegin ==
    ASSUME TypeInv, CapInv, NEW e \in Executors, NEW owners, UNCHANGED <<rows, resuming>>,
           BeginRecovery(e, PendingSnapshot(owners)),
           "recover" \in Disruptions \/ owners = {e}
    PROVE  CapInv'
<1> DEFINE S == PendingSnapshot(owners)
<1>1. PICK new : /\ rec' = [rec EXCEPT ![e] = new] /\ new.todo \subseteq S /\ new.pc # "requeue"
  <2>1. IdleRecovery.todo = {} /\ IdleRecovery.pc # "requeue"
    BY DEF IdleRecovery
  <2>2. LET n == [IdleRecovery EXCEPT !.pc = "next", !.todo = S]
        IN  n.todo = S /\ n.pc # "requeue"
    BY DEF IdleRecovery
  <2> QED
    BY <2>1, <2>2 DEF BeginRecovery
<1>2. rec'[e] = new /\ \A f \in Executors : f # e => rec'[f] = rec[f]
  BY <1>1 DEF TypeInv
<1>3. \A r \in S : /\ r.wf \in Workflows /\ rows[r.wf].status = PENDING /\ rows[r.wf].exec \in owners
                   /\ r = [wf |-> r.wf, queue |-> rows[r.wf].queue, deadline |-> rows[r.wf].deadline]
  BY DEF PendingSnapshot
<1> HIDE DEF S
<1>4. CapHolds'
  BY DEF CapInv, CapHolds
<1>5. WithinCap'
  BY <1>1, <1>2 DEF CapInv, WithinCap
<1>6. HandOwned'
  <2> SUFFICES ASSUME "recover" \notin Disruptions, NEW f \in Executors, NEW r \in Snapshot,
                      InHand(rec'[f], r)
               PROVE  /\ rows[r.wf].exec = f
                      /\ rows[r.wf].status \notin {ABSENT, DELAYED, ENQUEUED}
    BY DEF HandOwned
  <2>1. CASE f # e
    BY <1>2, <2>1 DEF CapInv, HandOwned
  <2>2. CASE f = e
    <3>1. r \in S
      BY <1>1, <1>2, <2>2 DEF InHand
    <3> QED
      BY <1>3, <2>2, <3>1, StatusNames
  <2> QED
    BY <2>1, <2>2
<1>7. HandOnce'
  BY <1>1, <1>2, <1>3 DEF CapInv, HandOnce
<1> QED
  BY <1>4, <1>5, <1>6, <1>7 DEF CapInv

LEMMA CapBump ==
    ASSUME TypeInv, CapInv, SoleRecoverer, NEW e \in Executors, BumpNext(e)
    PROVE  CapInv'
<1>1. PICK r \in rec[e].todo :
         LET row == bump_recovery_attempts(rows[r.wf], MaxRecoveryAttempts)
             rest == [rec[e] EXCEPT !.todo = @ \ {r}]
         IN  /\ rows' = [rows EXCEPT ![r.wf] = row]
             /\ rec' = [rec EXCEPT ![e] =
                          IF row.attempts > MaxRecoveryAttempts
                            THEN rest
                            ELSE [rest EXCEPT !.cur = r,
                                    !.pc = IF r.queue # NoQueue THEN "requeue" ELSE "run"]]
  BY DEF BumpNext
<1>2. r \in Snapshot /\ r.wf \in Workflows /\ rec[e] \in GoodRecovery /\ rec[e].pc = "next"
  BY DEF BumpNext, TypeInv, GoodRecovery, Recovery, Snapshot
<1>3. PICK w \in Workflows : w = r.wf
  BY <1>2
<1>4. PICK row : row = bump_recovery_attempts(rows[w], MaxRecoveryAttempts)
  OBVIOUS
<1>5. /\ row.attempts = rows[w].attempts + 1 /\ row.exec = rows[w].exec
      /\ row.status = IF row.attempts > MaxRecoveryAttempts THEN PARKED ELSE rows[w].status
      /\ row.attempts \in Nat
  BY <1>4 DEF bump_recovery_attempts, TypeInv, Row, RowType
<1>6. rows'[w] = row /\ \A v \in Workflows : v # w => rows'[v] = rows[v]
  BY <1>1, <1>3, <1>4 DEF TypeInv
<1>7. /\ rec'[e].todo = rec[e].todo \ {r}
      /\ rec'[e].pc = "requeue" => rec'[e].cur = r /\ ~(row.attempts > MaxRecoveryAttempts)
      /\ \A f \in Executors : f # e => rec'[f] = rec[f]
  <2>1. LET rest == [rec[e] EXCEPT !.todo = @ \ {r}]
        IN  rest.todo = rec[e].todo \ {r} /\ rest.pc = "next"
    BY <1>2 DEF GoodRecovery, Recovery
  <2>2. \A p : LET go == [[rec[e] EXCEPT !.todo = @ \ {r}] EXCEPT !.cur = r, !.pc = p]
               IN  go.todo = rec[e].todo \ {r} /\ go.cur = r
    BY <1>2 DEF GoodRecovery, Recovery
  <2>3. CASE row.attempts > MaxRecoveryAttempts
    BY <1>1, <1>3, <1>4, <2>1, <2>3 DEF TypeInv
  <2>4. CASE ~(row.attempts > MaxRecoveryAttempts)
    BY <1>1, <1>3, <1>4, <2>2, <2>4 DEF TypeInv
  <2> QED
    BY <2>3, <2>4
\* Nobody else has this workflow between the two statements.
<1>8. ASSUME NEW f \in Executors, f # e, rec[f].pc = "requeue" PROVE rec[f].cur.wf # w
  <2>1. "recover" \notin Disruptions
    BY <1>8 DEF SoleRecoverer
  <2>2. rows[w].exec = e
    BY <1>2, <1>3, <2>1 DEF CapInv, HandOwned, InHand
  <2>3. rec[f].cur \in Snapshot
    BY <1>8 DEF TypeInv, GoodRecovery
  <2>4. rows[rec[f].cur.wf].exec = f
    BY <1>8, <2>1, <2>3 DEF CapInv, HandOwned, InHand
  <2> QED
    BY <1>8, <2>2, <2>4
<1>9. CapHolds'
  BY <1>5, <1>6, StatusNames DEF CapInv, CapHolds
<1>10. WithinCap'
  <2> SUFFICES ASSUME NEW f \in Executors, rec'[f].pc = "requeue"
               PROVE  rows'[rec'[f].cur.wf].attempts <= MaxRecoveryAttempts
    BY DEF WithinCap
  <2>1. CASE f = e
    BY <1>3, <1>5, <1>6, <1>7, <2>1, ExecutionAssumption
  <2>2. CASE f # e
    <3>1. rec[f].cur.wf # w /\ rec[f].cur.wf \in Workflows
      BY <1>7, <1>8, <2>2 DEF TypeInv, GoodRecovery, Snapshot
    <3> QED
      BY <1>6, <1>7, <2>2, <3>1 DEF CapInv, WithinCap
  <2> QED
    BY <2>1, <2>2
<1>11. HandOwned'
  <2> SUFFICES ASSUME "recover" \notin Disruptions, NEW f \in Executors, NEW s \in Snapshot,
                      InHand(rec'[f], s)
               PROVE  /\ rows'[s.wf].exec = f
                      /\ rows'[s.wf].status \notin {ABSENT, DELAYED, ENQUEUED}
    BY DEF HandOwned
  <2>1. InHand(rec[f], s) /\ s.wf \in Workflows
    BY <1>7 DEF InHand, Snapshot
  <2>2. rows[s.wf].exec = f /\ rows[s.wf].status \notin {ABSENT, DELAYED, ENQUEUED}
    BY <2>1 DEF CapInv, HandOwned
  <2> QED
    BY <1>5, <1>6, <2>1, <2>2, StatusNames
<1>12. HandOnce'
  BY <1>2, <1>7 DEF CapInv, HandOnce
<1> QED
  BY <1>9, <1>10, <1>11, <1>12 DEF CapInv, BumpNext

LEMMA CapRequeue ==
    ASSUME TypeInv, CapInv, SoleRecoverer, NEW e \in Executors, Requeue(e)
    PROVE  CapInv'
<1>1. PICK w \in Workflows : w = rec[e].cur.wf
  BY DEF Requeue, TypeInv, GoodRecovery, Snapshot
<1>2. PICK row : row = set_workflow_status(rows[w], ENQUEUED, NoOutput)
  OBVIOUS
<1>3. row.attempts = rows[w].attempts /\ row.status = ENQUEUED
  <2>1. ~CompletionBlocked(rows[w], ENQUEUED) /\ ENQUEUED \in Statuses
    BY StatusNames DEF CompletionBlocked, is_completion
  <2>2. rows[w] \in Row
    BY DEF TypeInv
  <2> QED
    BY <1>2, <2>1, <2>2, Written
<1>4. rows'[w] = row /\ \A v \in Workflows : v # w => rows'[v] = rows[v]
  BY <1>1, <1>2 DEF TypeInv, Requeue
<1>5. /\ rec'[e].todo = rec[e].todo /\ rec'[e].pc = "next"
      /\ \A f \in Executors : f # e => rec'[f] = rec[f]
  BY DEF Requeue, TypeInv, GoodRecovery, Recovery
<1>6. rec[e].pc = "requeue" /\ rec[e].cur \in Snapshot /\ resuming' = resuming
  BY DEF Requeue, TypeInv, GoodRecovery
<1>7. rows[w].attempts <= MaxRecoveryAttempts
  BY <1>1, <1>6 DEF CapInv, WithinCap
<1>8. \A f \in Executors : Shrinks(f)
  BY <1>5 DEF Shrinks
<1>9. CapHolds'
  <2>1. rows[w].attempts \in Nat
    BY DEF TypeInv, Row, RowType
  <2> QED
    BY <1>3, <1>4, <1>7, <2>1, ExecutionAssumption DEF CapInv, CapHolds
<1>10. WithinCap'
  <2> SUFFICES ASSUME NEW f \in Executors, rec'[f].pc = "requeue"
               PROVE  rows'[rec'[f].cur.wf].attempts <= MaxRecoveryAttempts
    BY DEF WithinCap
  <2>1. f # e /\ rec'[f] = rec[f] /\ rec[f].cur.wf \in Workflows
    BY <1>5 DEF TypeInv, GoodRecovery, Snapshot
  <2> QED
    BY <1>3, <1>4, <2>1 DEF CapInv, WithinCap
<1>11. HandOwned'
  <2> SUFFICES ASSUME "recover" \notin Disruptions, NEW f \in Executors, NEW s \in Snapshot,
                      InHand(rec'[f], s)
               PROVE  /\ rows'[s.wf].exec = f
                      /\ rows'[s.wf].status \notin {ABSENT, DELAYED, ENQUEUED}
    BY DEF HandOwned
  <2>1. InHand(rec[f], s) /\ s.wf \in Workflows
    BY <1>8 DEF Shrinks, InHand, Snapshot
  <2>2. rows[s.wf].exec = f /\ rows[s.wf].status \notin {ABSENT, DELAYED, ENQUEUED}
    BY <2>1 DEF CapInv, HandOwned
  <2>3. s.wf # w
    <3>1. CASE f # e
      <4>1. rows[w].exec = e
        BY <1>1, <1>6 DEF CapInv, HandOwned, InHand
      <4> QED
        BY <2>2, <3>1, <4>1
    <3>2. CASE f = e
      <4>1. s \in rec[e].todo
        BY <1>5, <3>2 DEF InHand
      <4> QED
        BY <1>1, <1>6, <4>1 DEF CapInv, HandOnce
    <3> QED
      BY <3>1, <3>2
  <2> QED
    BY <1>4, <2>1, <2>2, <2>3
<1> QED
  BY <1>6, <1>8, <1>9, <1>10, <1>11, HandOnceKept DEF CapInv

LEMMA CapStep ==
    ASSUME TypeInv, CapInv, SoleRecoverer, [Next]_vars
    PROVE  CapInv'
<1>r. \A w \in Workflows : rows[w] \in Row
  BY DEF TypeInv
<1>a. \A w \in Workflows : rows[w].attempts \in Nat
  BY <1>r DEF Row, RowType
<1>c. rows' = rows => \A w \in Workflows : Calm(w)
  BY DEF Calm
<1>h. rec' = rec => \A e \in Executors : Shrinks(e)
  BY DEF Shrinks
<1>e. ASSUME NEW t \in Tasks, EndTask(t) PROVE \A e \in Executors : Shrinks(e)
  <2> SUFFICES ASSUME NEW e \in Executors PROVE Shrinks(e)
    OBVIOUS
  <2>1. LET go == [rec[e] EXCEPT !.pc = "next", !.cur = NoSnapshot, !.task = NoTask]
        IN  go.todo = rec[e].todo /\ go.pc # "requeue"
    BY DEF TypeInv, GoodRecovery, Recovery
  <2> QED
    BY <1>e, <2>1 DEF EndTask, Shrinks
<1>i. IdleRecovery.todo = {} /\ IdleRecovery.pc # "requeue"
  BY DEF IdleRecovery
<1>1. CASE UNCHANGED vars
  BY <1>1, <1>c, <1>h, CapCalm DEF vars
<1>2. ASSUME NEW t \in Tasks, Finish(t) PROVE CapInv'
  <2>1. PICK w \in Workflows, s \in {SUCCESS, ERROR, CANCELLED} :
           w = tasks[t].wf /\ s = FinalStatus(tasks[t].res)
    BY <1>2 DEF Finish, TypeInv, GoodTask, FinalStatus
  <2>2. PICK row : row = set_workflow_status(rows[w], s, FinalOutput(tasks[t]))
    OBVIOUS
  <2>3. row.attempts = rows[w].attempts /\ row.status \in {rows[w].status, SUCCESS, ERROR, CANCELLED}
    BY <1>r, <2>1, <2>2, Written DEF Statuses
  <2>4. row.exec = rows[w].exec
    BY <1>r, <2>2 DEF set_workflow_status, Row, RowType
  <2>5. rows' = [rows EXCEPT ![w] = row]
    BY <1>2, <2>1, <2>2 DEF Finish
  <2>6. \A v \in Workflows : Calm(v)
    BY <2>3, <2>4, <2>5 DEF Calm, TypeInv
  <2> QED
    BY <1>2, <1>e, <2>6, CapCalm DEF Finish
<1>3. ASSUME NEW t \in Tasks, ReportBlocked(t) \/ BodyPanics(t) \/ FinishFault(t) PROVE CapInv'
  BY <1>3, <1>c, <1>e, CapCalm DEF ReportBlocked, BodyPanics, FinishFault
<1>4. ASSUME NEW t \in Tasks, TaskStep(t) \/ TaskDisruption(t), ~Finish(t), ~ReportBlocked(t),
             ~BodyPanics(t), ~FinishFault(t)
      PROVE  CapInv'
  <2>1. UNCHANGED <<rows, rec, resuming>>
    BY <1>4 DEF TaskStep, ReplayRecorded, ReplayMiss, Guard, RetryBody, BodyEnds, RecordStep,
                FinishBlocked, TaskDisruption, DeadlineElapses, StepFault
  <2> QED
    BY <2>1, <1>c, <1>h, CapCalm
<1>5. ASSUME NEW e \in Executors, RecoveryEnds(e) \/ RecoveryFault(e) \/ Crash(e) PROVE CapInv'
  <2>1. /\ rec' = [rec EXCEPT ![e] = IdleRecovery] /\ UNCHANGED <<rows, resuming>>
    BY <1>5 DEF RecoveryEnds, RecoveryFault, Crash
  <2>2. \A f \in Executors : Shrinks(f)
    BY <1>i, <2>1 DEF Shrinks, TypeInv
  <2> QED
    BY <1>c, <2>1, <2>2, CapCalm
<1>6. ASSUME NEW e \in Executors, NEW t \in Tasks, RunInline(e, t) PROVE CapInv'
  <2>1. \A f \in Executors : Shrinks(f)
    BY <1>6 DEF RunInline, Shrinks, TypeInv, GoodRecovery, Recovery
  <2> QED
    BY <1>6, <1>c, <2>1, CapCalm DEF RunInline
<1>7. ASSUME NEW e \in Executors, Launch(e) PROVE CapInv'
  <2>1. CASE RecoverOnLaunch
    BY <1>7, <2>1, CapBegin DEF Launch
  <2>2. CASE ~RecoverOnLaunch
    BY <1>7, <1>c, <1>h, <2>2, CapCalm DEF Launch
  <2> QED
    BY <2>1, <2>2
<1>8. ASSUME NEW e \in Executors, Recover(e) PROVE CapInv'
  BY <1>8, CapBegin DEF Recover, Disrupt
<1>9. ASSUME NEW w \in Workflows, Cancel(w) PROVE CapInv'
  <2>1. PICK row : row = cancel_workflow(rows[w])
    OBVIOUS
  <2>2. /\ row.attempts = rows[w].attempts /\ row.exec = rows[w].exec
        /\ row.status \in {rows[w].status, CANCELLED}
    BY <1>r, <2>1 DEF cancel_workflow, Row, RowType
  <2>3. \A v \in Workflows : Calm(v)
    BY <1>9, <2>1, <2>2 DEF Calm, TypeInv, Cancel
  <2> QED
    BY <1>9, <1>h, <2>3, CapCalm DEF Cancel
<1>10. ASSUME NEW w \in Workflows,
              Resume(w) \/ ResumeLost(w) \/ \E q \in Queues : ResumeEnqueues(w, q)
       PROVE  CapInv'
  BY <1>10 DEF Resume, ResumeLost, ResumeEnqueues, Disrupt, SoleRecoverer, CapInv
<1>11. ASSUME NEW w \in Workflows, PollResult(w) PROVE CapInv'
  BY <1>11, <1>c, <1>h, CapCalm DEF PollResult
<1>12. ASSUME NEW w \in Workflows, ReleaseDelayed(w) PROVE CapInv'
  <2>1. PICK row : row = transition_delayed(rows[w])
    OBVIOUS
  <2>2. row.attempts = rows[w].attempts
    BY <1>r, <2>1, Written
  <2>3. rows[w].attempts <= MaxRecoveryAttempts
    BY <1>12, <1>a, ExecutionAssumption DEF ReleaseDelayed, CapInv, CapHolds
  <2> QED
    BY <1>12, <1>a, <2>1, <2>2, <2>3, CapFresh DEF ReleaseDelayed
<1>13. ASSUME NEW w \in Workflows, NEW q \in Queues, NEW b \in BOOLEAN, StartQueued(w, q, b)
       PROVE  CapInv'
  <2>1. insert_workflow_status(rows[w], QueuedRow(q, b)).attempts = 0
    BY <1>13 DEF StartQueued, insert_workflow_status, QueuedRow, AbsentRow
  <2>2. 0 \in Nat /\ 0 <= MaxRecoveryAttempts
    BY ExecutionAssumption
  <2> QED
    BY <1>13, <2>1, <2>2, CapFresh DEF StartQueued
<1>14. ASSUME NEW e \in Executors, NEW w \in Workflows, NEW t \in Tasks, StartDirect(e, w, t)
       PROVE  CapInv'
  <2>1. CASE rows[w].status = ABSENT
    <3>1. insert_workflow_status(rows[w], DirectRow(e, w \in Timed)).attempts = 0
      BY <2>1 DEF insert_workflow_status, DirectRow, AbsentRow
    <3>2. 0 \in Nat /\ 0 <= MaxRecoveryAttempts
      BY ExecutionAssumption
    <3> QED
      BY <1>14, <2>1, <3>1, <3>2, CapFresh DEF StartDirect
  <2>2. CASE rows[w].status # ABSENT
    <3>1. insert_workflow_status(rows[w], DirectRow(e, w \in Timed)) = rows[w]
      BY <1>r, <2>2, Written
    <3>2. rows' = rows
      BY <1>14, <3>1 DEF StartDirect, TypeInv
    <3> QED
      BY <1>14, <1>c, <1>h, <3>2, CapCalm DEF StartDirect
  <2> QED
    BY <2>1, <2>2
<1>15. ASSUME NEW e \in Executors, NEW w \in Workflows, NEW t \in Tasks, Claim(e, w, t)
       PROVE  CapInv'
  <2>1. claim(rows[w], e, w \in Timed).attempts = rows[w].attempts
    BY <1>r, Written
  <2>2. rows[w].attempts <= MaxRecoveryAttempts
    BY <1>15, <1>a, ExecutionAssumption DEF Claim, CapInv, CapHolds
  <2> QED
    BY <1>15, <1>a, <2>1, <2>2, CapFresh DEF Claim
<1> QED
  BY <1>1, <1>2, <1>3, <1>4, <1>5, <1>6, <1>7, <1>8, <1>9, <1>10, <1>11, <1>12, <1>13, <1>14,
     <1>15, CapBump, CapRequeue
  DEF Next, RecoveryStep, Manage

(***************************************************************************)
(* A workflow recovered past the cap is not dispatched again: a crash loop *)
(* ends, with any number of executors recovering what they own at launch,  *)
(* or with one that also calls recover().                                  *)
(***************************************************************************)
THEOREM Cap == ASSUME SoleRecoverer PROVE Spec => []CapHolds
<1>1. Init => CapInv
  <2>1. ASSUME Init, NEW e \in Executors PROVE rec[e].todo = {} /\ rec[e].pc = "idle"
    BY <2>1 DEF Init, IdleRecovery
  <2>2. Init => CapHolds /\ resuming = {}
    BY StatusNames DEF Init, CapHolds, AbsentRow
  <2> QED
    BY <2>1, <2>2 DEF CapInv, WithinCap, HandOwned, HandOnce, InHand
<1>2. TypeInv /\ [Next]_vars => TypeInv'
  BY TypeStep
<1>3. TypeInv /\ CapInv /\ [Next]_vars => CapInv'
  BY CapStep
<1>4. CapInv => CapHolds
  BY DEF CapInv
<1> QED
  BY <1>1, <1>2, <1>3, <1>4, TypeInit, PTL DEF Spec
=============================================================================
