---------------------------- MODULE QueueDispatch ----------------------------
(***************************************************************************)
(* One durable queue and the dispatchers that poll it, one per executor.   *)
(* A dispatcher counts what is running, scans for claimable rows in        *)
(* priority order, claims a batch in one transaction, and spawns a run for *)
(* each row of the batch.  How far the counts and the claim of two         *)
(* dispatchers may interleave depends on the backend: the in-memory and    *)
(* SQLite providers serialise whole transactions, PostgreSQL runs them     *)
(* under snapshot isolation with row locks.                                *)
(*                                                                         *)
(* What a run does between its start and its end is DurableExecution's     *)
(* subject; here it is one action.                                         *)
(***************************************************************************)
EXTENDS WorkflowStore, FiniteSets

CONSTANTS
    Jobs,                   \* workflow ids
    Queue,                  \* the queue, the only member of Queues
    Partitions,             \* partition keys; one if the queue is not partitioned
    Priorities,             \* the priorities enqueuers use
    DedupIds, NoDedup,
    Versions, NoVersion,    \* application versions; '' for an unversioned row
    Unlimited,              \* no value for an optional limit
    MaxTasksPerIteration,
    MaxRecoveryAttempts,
    MaxTime, NoTime,        \* bound: the clock
    MaxDisruptions,         \* bound: disruptions in a behaviour
    Fleets                  \* the deployments considered, of type Fleet

AllDisruptions ==
    {"cancel", "resume", "panic", "crash", "shutdown", "recover", "version"}

Limits == (Nat \ {0}) \cup {Unlimited}

\* What an enqueuer asks for.
Orders ==
    [ver : Versions \cup {NoVersion}, delayed : BOOLEAN, prio : Priorities,
     dedup : DedupIds \cup {NoDedup}]

(***************************************************************************)
(* A deployment: the backend (serial: one transaction at a time, which     *)
(* PostgreSQL does not give), the version of each executor and the         *)
(* handlers registered there, recover_on_launch, the queue's limits (the   *)
(* period in ticks), what is enqueued, and bounds: the rows enqueued, the  *)
(* clock, and what may go wrong how often.                                 *)
(***************************************************************************)
Fleet ==
    [serial : BOOLEAN, version : [Executors -> Versions], handles : [Executors -> SUBSET Jobs],
     onLaunch : BOOLEAN, worker : Limits, global : Limits, rate : Limits, period : Nat \ {0},
     orders : SUBSET Orders, rows : Nat, ticks : 0..MaxTime,
     disruptions : SUBSET AllDisruptions, budget : 0..MaxDisruptions]

ASSUME QueueAssumption ==
    /\ Queues = {Queue}
    /\ IsFiniteSet(Jobs)
    /\ Partitions # {}
    /\ Priorities \subseteq Nat
    /\ NoDedup \notin DedupIds
    /\ NoVersion \notin Versions
    /\ Unlimited \notin Nat
    /\ MaxTasksPerIteration \in Nat \ {0}
    /\ {MaxRecoveryAttempts, MaxTime, MaxDisruptions} \subseteq Nat
    /\ NoTime \notin Nat
    /\ Fleets # {} /\ \A f \in Fleets : f \in Fleet

VARIABLES
    fleet,      \* the deployment; it does not change
    rows,       \* workflow_status: [Jobs -> Row]
    cols,       \* its queue columns: [Jobs -> Columns]
    created,    \* rows inserted so far: stands for created_at
    latest,     \* the application version registered last
    clock,
    disp,       \* the dispatcher of each executor
    running,    \* its local_running counters: [Executors -> [Partitions -> Nat]]
    runs,       \* spawned run_to_completion futures
    up,         \* executors whose process runs
    resuming,   \* resumes between their two statements
    recovering, \* the recovery pass of each executor
    starts,     \* history, if starts are limited: of each partition and time t, the claims
                \* in the rate_limit.period that ends with t
    asked,      \* history: what the enqueuer gave, and what became of the job (Asked)
    budget

vars == <<fleet, rows, cols, created, latest, clock, disp, running, runs, up, resuming,
          recovering, starts, asked, budget>>

Clock == 0..MaxTime

(***************************************************************************)
(* What the enqueuer asked for, and of the workflow since then:            *)
(*   freed      it is back after it gave its deduplication id up, by a     *)
(*              resume or because a stale recovery or a release found it   *)
(*              ended;                                                     *)
(*   doubled    it was put on the queue while a run or a batch had it;     *)
(*   panicked   its last run panicked.                                     *)
(***************************************************************************)
Asked ==
    [ver : Versions \cup {NoVersion}, dedup : DedupIds \cup {NoDedup},
     freed : BOOLEAN, doubled : BOOLEAN, panicked : BOOLEAN]

AsksNothing ==
    [ver |-> NoVersion, dedup |-> NoDedup, freed |-> FALSE, doubled |-> FALSE, panicked |-> FALSE]

\* dispatch_pending_workflows: the records of its list still to come, and the one whose
\* attempt is counted and that is not yet back on its queue (bound: a pass per executor).
Recovery == [todo : SUBSET Jobs, counted : SUBSET Jobs]

NoRecovery == [todo |-> {}, counted |-> {}]

Serial            == fleet.serial
VersionOf         == fleet.version
Handles           == fleet.handles
WorkerConcurrency == fleet.worker
GlobalConcurrency == fleet.global
RateLimit         == fleet.rate
RatePeriod        == fleet.period

\* application_version, priority, created_at, queue_partition_key,
\* started_at_epoch_ms and deduplication_id.
Columns ==
    [ver : Versions \cup {NoVersion}, prio : Priorities \cup {0}, at : Nat,
     part : Partitions, started : Clock \cup {NoTime}, dedup : DedupIds \cup {NoDedup}]

NoColumns ==
    [ver |-> NoVersion, prio |-> 0, at |-> 0, part |-> CHOOSE p \in Partitions : TRUE,
     started |-> NoTime, dedup |-> NoDedup]

(***************************************************************************)
(* A dispatcher: "tx" after the first query of its transaction fixed the   *)
(* snapshot, "locked" with the selected rows locked, "claimed" with a      *)
(* committed batch to spawn, "off" when shutdown has aborted it.           *)
(***************************************************************************)
Dispatcher ==
    [pc : {"off", "idle", "tx", "locked", "claimed"}, part : Partitions, max : Nat,
     now : Clock, batch : SUBSET Jobs,
     snap : [rows : [Jobs -> RowType({})], cols : [Jobs -> Columns], latest : Versions] \cup {<<>>}]

IdleDispatcher ==
    [pc |-> "idle", part |-> CHOOSE p \in Partitions : TRUE, max |-> 0, now |-> 0,
     batch |-> {}, snap |-> <<>>]

\* current: the run counts in the counters of the dispatcher that is there now.
Run == [id : Nat, exec : Executors, job : Jobs, part : Partitions, current : BOOLEAN]

\* The values the variables take.
TypeOK ==
    /\ fleet \in Fleets
    /\ rows \in [Jobs -> RowType({})]
    /\ cols \in [Jobs -> Columns]
    /\ created \in Nat
    /\ latest \in Versions
    /\ clock \in Clock
    /\ disp \in [Executors -> Dispatcher]
    /\ running \in [Executors -> [Partitions -> Nat]]
    /\ runs \subseteq Run
    /\ up \subseteq Executors
    /\ resuming \subseteq Jobs
    /\ starts \in [Partitions -> [Clock -> Nat]]
    /\ recovering \in [Executors -> Recovery]
    /\ asked \in [Jobs -> Asked]
    /\ budget \in 0..MaxDisruptions

Init ==
    /\ fleet \in Fleets
    /\ rows = [j \in Jobs |-> AbsentRow]
    /\ cols = [j \in Jobs |-> NoColumns]
    /\ created = 0
    /\ latest \in {VersionOf[e] : e \in Executors}
    /\ clock = 0
    /\ disp = [e \in Executors |-> IdleDispatcher]
    /\ running = [e \in Executors |-> [p \in Partitions |-> 0]]
    /\ runs = {}
    /\ up = Executors
    /\ resuming = {}
    /\ starts = [p \in Partitions |-> [t \in Clock |-> 0]]
    /\ recovering = [e \in Executors |-> NoRecovery]
    /\ asked = [j \in Jobs |-> AsksNothing]
    /\ budget = fleet.budget

Disrupt(kind) ==
    /\ kind \in fleet.disruptions
    /\ budget > 0
    /\ budget' = budget - 1

Tick ==
    /\ clock < fleet.ticks
    /\ clock' = clock + 1
    /\ UNCHANGED <<fleet, rows, cols, created, latest, disp, running, runs, up, resuming, recovering,
                   starts, asked, budget>>

(***************************************************************************)
(* Enqueuers.                                                              *)
(***************************************************************************)
\* Mutant: a claim already frees the slot.
SlotFreeOnceClaimed(d) ==
    d = NoDedup \/ \A i \in Jobs : ~(rows[i].status = ENQUEUED /\ cols[i].dedup = d)

\* The unique index on (queue_name, deduplication_id) has no such entry.
SlotFree(d) ==
    d = NoDedup \/ \A i \in Jobs : ~(rows[i].queue = Queue /\ cols[i].dedup = d)

\* start() stamps the engine's version, a client none.  A taken slot is an error.
Enqueue(j, o, p) ==
    /\ rows[j].status = ABSENT /\ created < fleet.rows
    /\ SlotFree(o.dedup)
    /\ rows' = [rows EXCEPT ![j] = insert_workflow_status(@, QueuedRow(Queue, o.delayed))]
    /\ cols' = [cols EXCEPT ![j] = [NoColumns EXCEPT !.ver = o.ver, !.prio = o.prio, !.at = created,
                                                      !.part = p, !.dedup = o.dedup]]
    /\ created' = created + 1
    /\ asked' = [asked EXCEPT ![j] = [AsksNothing EXCEPT !.ver = o.ver, !.dedup = o.dedup]]
    /\ UNCHANGED <<fleet, latest, clock, disp, running, runs, up, resuming, recovering, starts, budget>>

\* The delay is over and some dispatcher begins its iteration.
ReleaseDelayed(j) ==
    /\ \E e \in up : disp[e].pc = "idle"
    /\ rows[j].status = DELAYED
    /\ rows' = [rows EXCEPT ![j] = transition_delayed(@)]
    /\ UNCHANGED <<fleet, cols, created, latest, clock, disp, running, runs, up, resuming, recovering,
                   starts, asked, budget>>

(***************************************************************************)
(* dequeue_workflows, as operators on the state v it sees.                 *)
(***************************************************************************)
Now == [rows |-> rows, cols |-> cols, latest |-> latest]

InPartition(v, p) == {j \in Jobs : v.rows[j].queue = Queue /\ v.cols[j].part = p}

\* Minimum with an optional limit from which used has been taken.
CapBy(n, limit, used) ==
    IF limit = Unlimited THEN n
    ELSE LET left == IF used >= limit THEN 0 ELSE limit - used
         IN  IF left < n THEN left ELSE n

RecentStarts(v, p, now) ==
    {j \in InPartition(v, p) :
        /\ v.rows[j].status \notin {ENQUEUED, DELAYED}
        /\ v.cols[j].started # NoTime
        /\ v.cols[j].started + RatePeriod > now}

PendingIn(v, p) == {j \in InPartition(v, p) : v.rows[j].status = PENDING}

MaxTasks(v, e, p, max, now) ==
    CapBy(CapBy(max, RateLimit, Cardinality(RecentStarts(v, p, now))),
          GlobalConcurrency, Cardinality(PendingIn(v, p)))

\* The version gate: an exact match, or unversioned work for the latest version.
Eligible(v, e, ver) == ver = VersionOf[e] \/ (ver = NoVersion /\ v.latest = VersionOf[e])

Candidates(v, e, p) ==
    {j \in InPartition(v, p) : v.rows[j].status = ENQUEUED /\ Eligible(v, e, v.cols[j].ver)}

\* ORDER BY priority ASC, created_at ASC
Before(c, i, j) ==
    \/ c[i].prio < c[j].prio
    \/ c[i].prio = c[j].prio /\ c[i].at < c[j].at

\* Mutant: the priority is not looked at.
FirstByAge(c, S, n) == {j \in S : Cardinality({i \in S : c[i].at < c[j].at}) < n}

\* LIMIT n
First(c, S, n) == {j \in S : Cardinality({i \in S : Before(c, i, j)}) < n}

\* The UPDATE: status, owner, version and start time of the selected rows.
ClaimRows(e, p, ids, now) ==
    /\ rows' = [j \in Jobs |-> IF j \in ids THEN claim(rows[j], e, FALSE) ELSE rows[j]]
    /\ cols' = [j \in Jobs |-> IF j \in ids
                                 THEN [cols[j] EXCEPT !.ver = VersionOf[e], !.started = now]
                                 ELSE cols[j]]
    /\ starts' = IF RateLimit = Unlimited THEN starts
                 ELSE [starts EXCEPT ![p] =
                         [t \in Clock |-> IF now <= t /\ t < now + RatePeriod
                                            THEN starts[p][t] + Cardinality(ids)
                                            ELSE starts[p][t]]]

(***************************************************************************)
(* queue_dispatch_loop.                                                    *)
(***************************************************************************)
\* Mutant: the limit is reached one run late.
LocalMaxLate(e, p) ==
    IF WorkerConcurrency = Unlimited THEN MaxTasksPerIteration
    ELSE CapBy(MaxTasksPerIteration, WorkerConcurrency + 1, running[e][p])

\* What worker concurrency leaves of an iteration.
LocalMax(e, p) == CapBy(MaxTasksPerIteration, WorkerConcurrency, running[e][p])

\* A partition is polled if it has enqueued rows; a plain queue always.
Polls(e, p) ==
    /\ e \in up
    /\ disp[e].pc = "idle"
    /\ LocalMax(e, p) > 0
    /\ \E j \in InPartition(Now, p) : rows[j].status = ENQUEUED

\* The whole transaction at once; one that claims nothing changes nothing.
DequeueSerial(e, p) ==
    LET max == MaxTasks(Now, e, p, LocalMax(e, p), clock)
        ids == First(cols, Candidates(Now, e, p), max)
    IN  /\ Serial
        /\ Polls(e, p)
        /\ ids # {}
        /\ ClaimRows(e, p, ids, clock)
        /\ disp' = [disp EXCEPT ![e] = [IdleDispatcher EXCEPT !.pc = "claimed", !.part = p,
                                                               !.batch = ids]]
        /\ UNCHANGED <<fleet, created, latest, clock, running, runs, up, resuming, recovering, asked, budget>>

\* PostgreSQL: the limits need REPEATABLE READ, otherwise READ COMMITTED does.
Isolated == GlobalConcurrency # Unlimited \/ RateLimit # Unlimited

LockedByOthers(e) == UNION {disp[x].batch : x \in {y \in Executors \ {e} : disp[y].pc = "locked"}}

\* The counts, which fix the snapshot of the transaction.
TxCount(e, p) ==
    LET max == MaxTasks(Now, e, p, LocalMax(e, p), clock)
    IN  /\ ~Serial
        /\ Polls(e, p)
        /\ max > 0
        /\ disp' = [disp EXCEPT ![e] = [pc |-> "tx", part |-> p, max |-> max, now |-> clock,
                                         batch |-> {}, snap |-> Now]]
        /\ UNCHANGED <<fleet, rows, cols, created, latest, clock, running, runs, up, resuming, recovering,
                       starts, asked, budget>>

\* The rows SELECT ... FOR UPDATE settles on: SKIP LOCKED or NOWAIT.
Selected(e) ==
    LET v    == IF Isolated THEN disp[e].snap ELSE Now
        all  == Candidates(v, e, disp[e].part)
        free == IF GlobalConcurrency = Unlimited THEN all \ LockedByOthers(e) ELSE all
    IN  First(v.cols, free, disp[e].max)

\* NOWAIT met a lock, or a selected row was written since the snapshot.
LockFails(e) ==
    \E j \in Selected(e) :
        \/ j \in LockedByOthers(e)
        \/ Isolated /\ <<rows[j], cols[j]>> # <<disp[e].snap.rows[j], disp[e].snap.cols[j]>>

TxLock(e) ==
    /\ disp[e].pc = "tx"
    /\ ~LockFails(e)
    /\ disp' = [disp EXCEPT ![e] = IF Selected(e) = {} THEN IdleDispatcher
                                   ELSE [disp[e] EXCEPT !.pc = "locked", !.batch = Selected(e), !.snap = <<>>]]
    /\ UNCHANGED <<fleet, rows, cols, created, latest, clock, running, runs, up, resuming, recovering,
                   starts, asked, budget>>

\* dequeue_workflows returns an error: the dispatcher backs off.
TxFails(e) ==
    /\ disp[e].pc = "tx"
    /\ LockFails(e)
    /\ disp' = [disp EXCEPT ![e] = IdleDispatcher]
    /\ UNCHANGED <<fleet, rows, cols, created, latest, clock, running, runs, up, resuming, recovering,
                   starts, asked, budget>>

\* The UPDATE asks for the status once more.
TxCommit(e) ==
    LET ids == {j \in disp[e].batch : rows[j].status = ENQUEUED}
    IN  /\ disp[e].pc = "locked"
        /\ ClaimRows(e, disp[e].part, ids, disp[e].now)
        /\ disp' = [disp EXCEPT ![e].pc = "claimed", ![e].batch = ids]
        /\ UNCHANGED <<fleet, created, latest, clock, running, runs, up, resuming, recovering, asked, budget>>

\* What is left of the batch when j has been dealt with.
DoneWith(e, j) ==
    disp' = [disp EXCEPT ![e] = IF disp[e].batch = {j} THEN IdleDispatcher
                               ELSE [disp[e] EXCEPT !.batch = disp[e].batch \ {j}]]

NewRun(e, j, p) ==
    [id |-> CHOOSE n \in 0..Cardinality(runs) : \A r \in runs : r.id # n,
     exec |-> e, job |-> j, part |-> p, current |-> TRUE]

\* A claimed row with a handler here: count it and spawn its run.
SpawnRun(e, j) ==
    LET p == disp[e].part
    IN  /\ disp[e].pc = "claimed"
        /\ j \in disp[e].batch
        /\ j \in Handles[e]
        /\ running' = [running EXCEPT ![e][p] = @ + 1]
        /\ runs' = runs \cup {NewRun(e, j, p)}
        /\ DoneWith(e, j)
        /\ UNCHANGED <<fleet, rows, cols, created, latest, clock, up, resuming, recovering, starts, asked, budget>>

\* A write to a row waits until no dispatcher holds its lock.
Unlocked(j) == \A e \in Executors : disp[e].pc = "locked" => j \notin disp[e].batch

\* e has claimed j and not spawned its run yet.
Holds(e, j) == disp[e].pc = "claimed" /\ j \in disp[e].batch

Held(j) == (\E r \in runs : r.job = j) \/ (\E e \in Executors : Holds(e, j))

\* No handler: the status goes back to ENQUEUED, and nothing else does.
ReleaseClaim(e, j) ==
    /\ disp[e].pc = "claimed"
    /\ j \in disp[e].batch
    /\ j \notin Handles[e]
    /\ Unlocked(j)
    /\ rows' = [rows EXCEPT ![j] = set_workflow_status(@, ENQUEUED, NoOutput)]
    /\ DoneWith(e, j)
    /\ asked' = [asked EXCEPT ![j].freed = @ \/ is_terminal(rows[j].status)]
    /\ UNCHANGED <<fleet, cols, created, latest, clock, running, runs, up, resuming, recovering,
                   starts, budget>>

\* Mutant: the slot is not given back.
KeepGuard(r) == UNCHANGED running

\* RunningGuard is dropped with the run, into the counter it came from.
DropGuard(r) ==
    running' = IF r.current THEN [running EXCEPT ![r.exec][r.part] = @ - 1] ELSE running

\* set_workflow_status to a terminal status frees the deduplication slot.
RunCompletes(r) ==
    LET j == r.job
    IN  /\ r \in runs
        /\ Unlocked(j)
        /\ runs' = runs \ {r}
        /\ DropGuard(r)
        /\ rows' = [rows EXCEPT ![j] = set_workflow_status(@, SUCCESS, NoOutput)]
        /\ cols' = IF CompletionBlocked(rows[j], SUCCESS) THEN cols
                   ELSE [cols EXCEPT ![j].dedup = NoDedup]
        /\ UNCHANGED <<fleet, created, latest, clock, disp, up, resuming, recovering, starts, asked, budget>>

\* No status is written; the slot is given back all the same.
RunPanics(r) ==
    /\ r \in runs
    /\ Disrupt("panic")
    /\ runs' = runs \ {r}
    /\ DropGuard(r)
    /\ asked' = [asked EXCEPT ![r.job].panicked = TRUE]
    /\ UNCHANGED <<fleet, rows, cols, created, latest, clock, disp, up, resuming, recovering, starts>>

(***************************************************************************)
(* Management, process lifecycle and recovery.                             *)
(***************************************************************************)
\* What history keeps of a row that is put on the queue again.
PutBack(j) ==
    asked' = [asked EXCEPT ![j].freed = @ \/ is_terminal(rows[j].status),
                           ![j].doubled = @ \/ Held(j), ![j].panicked = FALSE]

Cancel(j) ==
    /\ cancel_workflow(rows[j]) # rows[j]
    /\ Unlocked(j)
    /\ Disrupt("cancel")
    /\ rows' = [rows EXCEPT ![j] = cancel_workflow(@)]
    /\ cols' = [cols EXCEPT ![j].dedup = NoDedup, ![j].started = NoTime]
    /\ UNCHANGED <<fleet, created, latest, clock, disp, running, runs, up, resuming, recovering, starts, asked>>

Resume(j) ==
    /\ CanResume(rows[j])
    /\ Unlocked(j)
    /\ Disrupt("resume")
    /\ rows' = [rows EXCEPT ![j] = resume_workflow(@)]
    /\ cols' = [cols EXCEPT ![j].dedup = NoDedup, ![j].started = NoTime]
    /\ resuming' = resuming \cup {j}
    /\ asked' = [asked EXCEPT ![j].freed = TRUE]
    /\ UNCHANGED <<fleet, created, latest, clock, disp, running, runs, up, recovering, starts>>

ResumeEnqueues(j) ==
    /\ j \in resuming
    /\ Unlocked(j)
    /\ rows' = [rows EXCEPT ![j] = enqueue_existing(@, Queue)]
    /\ cols' = [cols EXCEPT ![j].started = NoTime]
    /\ resuming' = resuming \ {j}
    /\ PutBack(j)
    /\ UNCHANGED <<fleet, created, latest, clock, disp, running, runs, up, recovering, starts, budget>>

Crash(e) ==
    /\ e \in up
    /\ Disrupt("crash")
    /\ up' = up \ {e}
    /\ disp' = [disp EXCEPT ![e] = [IdleDispatcher EXCEPT !.pc = "off"]]
    /\ runs' = {r \in runs : r.exec # e}
    /\ recovering' = [recovering EXCEPT ![e] = NoRecovery]
    /\ UNCHANGED <<fleet, rows, cols, created, latest, clock, running, resuming, starts, asked>>

(***************************************************************************)
(* shutdown aborts the dispatcher wherever it is, a batch that was claimed *)
(* and not yet spawned included, lets recovery begin no other record, and  *)
(* may time out with runs still going.                                     *)
(***************************************************************************)
Shutdown(e) ==
    /\ e \in up
    /\ disp[e].pc # "off"
    /\ Disrupt("shutdown")
    /\ disp' = [disp EXCEPT ![e] = [IdleDispatcher EXCEPT !.pc = "off"]]
    /\ recovering' = [recovering EXCEPT ![e].todo = {}]
    /\ UNCHANGED <<fleet, rows, cols, created, latest, clock, running, runs, up, resuming, starts, asked>>

(***************************************************************************)
(* list_pending_workflows for the rows of the owners given.  A record      *)
(* without a queue (its row was cancelled and is being resumed) is run in  *)
(* place and not put on one: DurableExecution's subject.                   *)
(***************************************************************************)
Listed(e, owners) ==
    {j \in Jobs : /\ rows[j].status = PENDING /\ rows[j].queue = Queue
                  /\ cols[j].ver = VersionOf[e] /\ rows[j].exec \in owners}

\* Mutant: the runs of the old loop count in the new one's counters.
LaunchSharesCounters(e) ==
    /\ disp[e].pc = "off"
    /\ up' = up \cup {e}
    /\ disp' = [disp EXCEPT ![e] = IdleDispatcher]
    /\ running' = [running EXCEPT ![e] = [p \in Partitions |-> 0]]
    /\ UNCHANGED <<fleet, rows, cols, created, latest, clock, runs, resuming, recovering, starts, asked, budget>>

(***************************************************************************)
(* launch, after a crash or a shutdown: a new loop with counters of its    *)
(* own and, if asked for, a recovery of the rows this executor owns.       *)
(* Nothing tells those of a previous life from the runs a shutdown that    *)
(* timed out has left going.                                               *)
(***************************************************************************)
Launch(e) ==
    /\ disp[e].pc = "off"
    /\ up' = up \cup {e}
    /\ disp' = [disp EXCEPT ![e] = IdleDispatcher]
    /\ running' = [running EXCEPT ![e] = [p \in Partitions |-> 0]]
    /\ runs' = {IF r.exec = e THEN [r EXCEPT !.current = FALSE] ELSE r : r \in runs}
    /\ recovering' = IF fleet.onLaunch THEN [recovering EXCEPT ![e].todo = Listed(e, {e})]
                     ELSE recovering
    /\ UNCHANGED <<fleet, rows, cols, created, latest, clock, resuming, starts, asked, budget>>

\* recover() on demand: the rows of every executor, running ones too.
Recover(e) ==
    LET all == Listed(e, Executors \cup {NoExecutor})
    IN  /\ e \in up /\ disp[e].pc # "off"
        /\ recovering[e] = NoRecovery
        /\ all # {}
        /\ Disrupt("recover")
        /\ recovering' = [recovering EXCEPT ![e].todo = all]
        /\ UNCHANGED <<fleet, rows, cols, created, latest, clock, disp, running, runs, up, resuming,
                       starts, asked>>

(***************************************************************************)
(* The next record, first statement: the attempt is counted, and a row     *)
(* past the cap parked, whatever its status has become since the list.     *)
(***************************************************************************)
RecoveryCounts(e, j) ==
    LET row == bump_recovery_attempts(rows[j], MaxRecoveryAttempts)
        parked == row.attempts > MaxRecoveryAttempts
    IN  /\ recovering[e].counted = {}
        /\ j \in recovering[e].todo
        /\ Unlocked(j)
        /\ rows' = [rows EXCEPT ![j] = row]
        /\ cols' = IF parked THEN [cols EXCEPT ![j].dedup = NoDedup] ELSE cols
        /\ recovering' = [recovering EXCEPT ![e].todo = @ \ {j},
                                             ![e].counted = IF parked THEN {} ELSE {j}]
        /\ UNCHANGED <<fleet, created, latest, clock, disp, running, runs, up, resuming, starts,
                       asked, budget>>

\* Second statement: back to the queue, again whatever the row has become.
RecoveryRequeues(e, j) ==
    /\ j \in recovering[e].counted
    /\ Unlocked(j)
    /\ rows' = [rows EXCEPT ![j] = set_workflow_status(@, ENQUEUED, NoOutput)]
    /\ PutBack(j)
    /\ recovering' = [recovering EXCEPT ![e].counted = {}]
    /\ UNCHANGED <<fleet, cols, created, latest, clock, disp, running, runs, up, resuming, starts,
                   budget>>

RecoveryStep(e) == \E j \in Jobs : RecoveryCounts(e, j) \/ RecoveryRequeues(e, j)

\* A process of another version registers it, or an operator picks it.
SetLatest(v) ==
    /\ v # latest
    /\ Disrupt("version")
    /\ latest' = v
    /\ UNCHANGED <<fleet, rows, cols, created, clock, disp, running, runs, up, resuming, recovering, starts, asked>>

(***************************************************************************)
(* The specification.                                                      *)
(***************************************************************************)
DispatcherStep(e) ==
    \/ TxLock(e) \/ TxFails(e) \/ TxCommit(e)
    \/ \E j \in Jobs : SpawnRun(e, j) \/ ReleaseClaim(e, j)

Next ==
    \/ Tick
    \/ \E j \in Jobs, o \in fleet.orders, p \in Partitions : Enqueue(j, o, p)
    \/ \E j \in Jobs : ReleaseDelayed(j) \/ Cancel(j) \/ Resume(j) \/ ResumeEnqueues(j)
    \/ \E e \in Executors, p \in Partitions : DequeueSerial(e, p) \/ TxCount(e, p)
    \/ \E e \in Executors : DispatcherStep(e) \/ Crash(e) \/ Shutdown(e) \/ Launch(e)
    \/ \E e \in Executors : Recover(e) \/ RecoveryStep(e)
    \/ \E r \in runs : RunCompletes(r) \/ RunPanics(r)
    \/ \E v \in Versions : SetLatest(v)

Spec == Init /\ [][Next]_vars

(***************************************************************************)
(* Fairness: dispatchers poll for ever and finish what they claimed, runs  *)
(* end, a process that is down is launched again, and the recovery task a  *)
(* launch spawns works its list off; nobody is assumed to call recover().  *)
(* A poll is enabled again and again (a slot frees, a claim is released)   *)
(* rather than continuously, and the jittered interval keeps two           *)
(* dispatchers from meeting every time: strong fairness.                   *)
(***************************************************************************)
Fairness ==
    /\ \A e \in Executors :
          /\ WF_vars(DispatcherStep(e))
          /\ WF_vars(Launch(e))
          /\ WF_vars(RecoveryStep(e))
          /\ \A p \in Partitions : SF_vars(DequeueSerial(e, p) \/ TxCount(e, p))
    /\ \A j \in Jobs :
          /\ WF_vars(ReleaseDelayed(j))
          /\ WF_vars(\E r \in runs : r.job = j /\ RunCompletes(r))

FairSpec == Spec /\ Fairness

(***************************************************************************)
(* Properties.                                                             *)
(***************************************************************************)
(***************************************************************************)
(* The PENDING rows of a partition never exceed global_concurrency         *)
(* (dequeue_workflows: cap claims so queue-wide PENDING never exceeds it). *)
(* Holds where transactions are serialised; PostgreSQL's snapshots let two *)
(* dispatchers act on one count.                                           *)
(***************************************************************************)
GlobalHolds ==
    Serial /\ GlobalConcurrency # Unlimited =>
        \A p \in Partitions : Cardinality(PendingIn(Now, p)) <= GlobalConcurrency

(***************************************************************************)
(* No trailing window of rate_limit.period has more than rate_limit.limit  *)
(* starts (RateLimiter), counted when they happen and not, as the code     *)
(* does, from what the rows say later.  Also a matter of serialised        *)
(* transactions.                                                           *)
(***************************************************************************)
RateHolds ==
    Serial /\ RateLimit # Unlimited =>
        \A p \in Partitions, t \in Clock : starts[p][t] <= RateLimit

(***************************************************************************)
(* The runs one launch of an executor has going in a partition stay within *)
(* worker_concurrency, although the counter is read before the claim and   *)
(* moved after it, and a resumed workflow may run beside its old run.      *)
(***************************************************************************)
WorkerHolds ==
    WorkerConcurrency # Unlimited =>
        \A e \in Executors, p \in Partitions :
            Cardinality({r \in runs : r.exec = e /\ r.part = p /\ r.current}) <= WorkerConcurrency

(***************************************************************************)
(* The three limits a queue is configured with, together.                  *)
(* (dequeue_workflows, queue_dispatch_loop)                                *)
(***************************************************************************)
LimitsHold == GlobalHolds /\ RateHolds /\ WorkerHolds

\* Every executor has the handlers, and nothing happens to a claimed row but its run: the
\* fleets where no row loses its started_at_epoch_ms or gets a second one.
Undisturbed(f) ==
    f.disruptions \subseteq {"version"} /\ \A e \in Executors : f.handles[e] = Jobs

(***************************************************************************)
(* However many executors poll, crash and are relaunched, and whatever     *)
(* recoveries and resumes put back, a workflow is in one place, one run or *)
(* one batch about to be spawned, of the executor its row names, unless it *)
(* was put back while somebody had it.  (dispatch_pending_workflows and    *)
(* enqueue_existing do not look: recover() while the workflow runs, or a   *)
(* launch after a shutdown that timed out, runs it a second time.)         *)
(***************************************************************************)
ClaimedOnce ==
    \A j \in Jobs : ~asked[j].doubled =>
        LET holders == {r \in runs : r.job = j}
            batches == {e \in Executors : Holds(e, j)}
        IN  /\ Cardinality(holders) + Cardinality(batches) <= 1
            /\ \A r \in holders : rows[j].exec = r.exec
            /\ \A e \in batches : rows[j].exec = e

\* j is claimed by this step, by the executor e.
ClaimedBy(e, j) ==
    /\ rows[j].status = ENQUEUED
    /\ rows'[j].status = PENDING
    /\ rows'[j].exec = e
    /\ j \notin resuming'

\* i could have been claimed by e instead of j and was not.
PassedOver(e, i, j) ==
    /\ i \in Candidates(Now, e, cols[j].part)
    /\ rows'[i].status = ENQUEUED

(***************************************************************************)
(* Claims respect priority and, within one, age, among the rows the        *)
(* executor's version may take, while the latest version changes.  With    *)
(* snapshots a row re-enqueued since the snapshot can be passed over.      *)
(***************************************************************************)
InOrder ==
    [][Serial => \A e \in Executors, i, j \in Jobs :
          ClaimedBy(e, j) /\ PassedOver(e, i, j) => ~Before(cols, i, j)]_vars

(***************************************************************************)
(* At most one workflow enqueued under a deduplication id, and not brought *)
(* back after it gave the id up (a resume; a stale recovery of one that    *)
(* has ended), is on the queue and not terminal: completion, parking and   *)
(* cancellation free the slot, a crash, a release or a recovery does not.  *)
(***************************************************************************)
DedupExclusive ==
    \A i, j \in Jobs :
        /\ asked[i].dedup # NoDedup
        /\ asked[i].dedup = asked[j].dedup
        /\ \A k \in {i, j} :
              ~asked[k].freed /\ ~is_terminal(rows[k].status) /\ rows[k].queue = Queue
        => i = j

\* Nobody will run j again unless an operator recovers or resumes it.
Abandoned(j) == asked[j].panicked /\ rows[j].status = PENDING /\ ~Held(j)

(***************************************************************************)
(* Under FairSpec, with recover_on_launch, every enqueued workflow comes   *)
(* to its end, or is left PENDING by a run that panicked: a process that   *)
(* dies or a dispatcher aborted between claiming and spawning loses no     *)
(* workflow, and what a panic leaves takes no worker slot from others.     *)
(***************************************************************************)
Drains ==
    \A j \in Jobs : (rows[j].status # ABSENT) ~> (is_terminal(rows[j].status) \/ Abandoned(j))
=============================================================================
