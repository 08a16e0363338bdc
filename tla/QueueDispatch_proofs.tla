------------------------ MODULE QueueDispatch_proofs ------------------------
(***************************************************************************)
(* Proofs about one queue and its dispatchers, for every number of         *)
(* executors, jobs, partitions and versions, every configuration of the    *)
(* limits and both kinds of backend.                                       *)
(***************************************************************************)
EXTENDS QueueDispatch, TLAPS, FiniteSetTheorems

(***************************************************************************)
(* The inductive invariant.                                                *)
(***************************************************************************)
Rows == RowType({})
View == [rows : [Jobs -> Rows], cols : [Jobs -> Columns], latest : Versions]

Dispatchers ==
    [pc : {"off", "idle", "tx", "locked", "claimed"}, part : Partitions, max : Nat,
     now : Clock, batch : SUBSET Jobs, snap : View \cup {<<>>}]

\* TypeOK, and finitely many runs.
Types ==
    /\ fleet \in Fleets
    /\ rows \in [Jobs -> Rows] /\ cols \in [Jobs -> Columns]
    /\ created \in Nat /\ latest \in Versions /\ clock \in Clock
    /\ disp \in [Executors -> Dispatchers]
    /\ running \in [Executors -> [Partitions -> Nat]]
    /\ runs \subseteq Run /\ IsFiniteSet(runs)
    /\ up \subseteq Executors /\ resuming \subseteq Jobs
    /\ recovering \in [Executors -> Recovery]
    /\ starts \in [Partitions -> [Clock -> Nat]]
    /\ asked \in [Jobs -> Asked]
    /\ budget \in 0..MaxDisruptions

LEMMA TypesImply == Types => TypeOK
<1>1. Dispatchers = Dispatcher
  BY DEF Dispatchers, Dispatcher, View, Rows
<1> QED
  BY <1>1 DEF Types, TypeOK, Rows

\* A serialised transaction is over at once.  A snapshot is there while it is used.
Transactions ==
    \A e \in Executors :
        /\ disp[e].pc \in {"tx", "locked"} => ~Serial
        /\ disp[e].pc = "tx" => disp[e].snap \in View

\* created_at tells the rows of a view apart: the claim's order has no ties.
NoTies(v) ==
    \A i, j \in Jobs :
        v.rows[i].status # ABSENT /\ v.rows[j].status # ABSENT /\ v.cols[i].at = v.cols[j].at
          => i = j

Ages ==
    /\ \A j \in Jobs : rows[j].status # ABSENT => cols[j].at < created
    /\ NoTies(Now)
    /\ \A e \in Executors : disp[e].pc = "tx" => NoTies(disp[e].snap)

\* Row locks exclude each other, and nobody writes a locked row.
Locks ==
    /\ \A e \in Executors : disp[e].pc = "locked" =>
          \A j \in disp[e].batch : rows[j].status = ENQUEUED /\ rows[j].queue = Queue
    /\ \A e, x \in Executors : disp[e].pc = "locked" /\ disp[x].pc = "locked" /\ e # x =>
          disp[e].batch \cap disp[x].batch = {}

\* The runs the counters of e's present loop account for in p.
Current(e, p) == {r \in runs : r.exec = e /\ r.part = p /\ r.current}

\* The counter is never behind the runs, and what was read from it before the claim still
\* leaves room for the batch.
Slots ==
    \A e \in Executors :
        /\ \A p \in Partitions : Cardinality(Current(e, p)) <= running[e][p]
        /\ WorkerConcurrency # Unlimited =>
              /\ \A p \in Partitions : running[e][p] <= WorkerConcurrency
              /\ disp[e].pc \in {"tx", "locked"} =>
                    running[e][disp[e].part] + disp[e].max <= WorkerConcurrency
              /\ disp[e].pc = "locked" => Cardinality(disp[e].batch) <= disp[e].max
              /\ disp[e].pc = "claimed" =>
                    running[e][disp[e].part] + Cardinality(disp[e].batch) <= WorkerConcurrency

\* A row somebody may yet claim.
Claimable(row) ==
    row.status \in {ABSENT, DELAYED} \/ (row.status = ENQUEUED /\ row.queue = Queue)

\* Where a job is that was not doubled: with one run, with one dispatcher, or nowhere.
Place(j) ==
    /\ Claimable(rows[j]) => (\A r \in runs : r.job # j) /\ (\A e \in Executors : ~Holds(e, j))
    /\ \A r, s \in runs : r.job = j /\ s.job = j => r = s
    /\ \A e, x \in Executors : Holds(e, j) /\ Holds(x, j) => e = x
    /\ \A e \in Executors : Holds(e, j) => (\A r \in runs : r.job # j) /\ rows[j].exec = e
    /\ \A r \in runs : r.job = j => rows[j].exec = r.exec

\* The records of a recovery pass, the one it is at included.
Records(e) == recovering[e].todo \cup recovering[e].counted

Places ==
    /\ \A j \in resuming : asked[j].freed /\ rows[j].status # ABSENT
    /\ \A e \in Executors : \A j \in Records(e) : rows[j].status # ABSENT
    /\ \A j \in Jobs : asked[j].doubled => rows[j].status # ABSENT
    /\ \A j \in Jobs : ~asked[j].doubled => Place(j)

\* The index: one row of the queue per deduplication id, and which rows keep theirs.
Index ==
    /\ \A j \in Jobs : rows[j].status = ABSENT => rows[j].queue = NoQueue /\ asked[j].dedup = NoDedup
    /\ \A j \in Jobs : asked[j].freed \/ is_terminal(rows[j].status) => cols[j].dedup = NoDedup
    /\ \A j \in Jobs :
          ~asked[j].freed /\ ~is_terminal(rows[j].status) /\ rows[j].queue = Queue
            => cols[j].dedup = asked[j].dedup
    /\ \A i, j \in Jobs :
          /\ rows[i].queue = Queue /\ rows[j].queue = Queue
          /\ cols[i].dedup = cols[j].dedup /\ cols[i].dedup # NoDedup
          => i = j

Inv == Types /\ Transactions /\ Ages /\ Locks /\ Slots /\ Places /\ Index

(***************************************************************************)
(* The constants and the deployment.                                       *)
(***************************************************************************)
LEMMA Constants ==
    /\ Queues = {Queue} /\ NoQueue # Queue /\ IsFiniteSet(Jobs)
    /\ MaxTasksPerIteration \in Nat /\ MaxTime \in Nat /\ MaxDisruptions \in Nat
    /\ Clock \subseteq Nat /\ 0 \in Clock /\ Unlimited \notin Nat /\ NoTime \notin Nat
    /\ (CHOOSE p \in Partitions : TRUE) \in Partitions
  BY QueueAssumption, StoreAssumption DEF Clock

LEMMA FleetTypes ==
    ASSUME Types
    PROVE  /\ VersionOf \in [Executors -> Versions]
           /\ WorkerConcurrency \in Nat \cup {Unlimited}
           /\ GlobalConcurrency \in Nat \cup {Unlimited}
           /\ RateLimit \in Nat \cup {Unlimited}
           /\ RatePeriod \in Nat
           /\ fleet.orders \subseteq Orders
           /\ fleet.ticks \in 0..MaxTime
           /\ fleet.budget \in 0..MaxDisruptions
<1>1. fleet \in Fleet
  BY QueueAssumption DEF Types
<1> QED
  BY <1>1 DEF Fleet, Limits, VersionOf, WorkerConcurrency, GlobalConcurrency, RateLimit, RatePeriod

LEMMA Statuses8 ==
    /\ Statuses = {"ENQUEUED", "DELAYED", "PENDING", "SUCCESS", "ERROR", "CANCELLED",
                   "MAX_RECOVERY_ATTEMPTS_EXCEEDED", "ABSENT"}
    /\ ENQUEUED = "ENQUEUED" /\ DELAYED = "DELAYED" /\ PENDING = "PENDING"
    /\ SUCCESS = "SUCCESS" /\ CANCELLED = "CANCELLED" /\ ABSENT = "ABSENT"
    /\ PARKED = "MAX_RECOVERY_ATTEMPTS_EXCEEDED"
  BY DEF Statuses, ENQUEUED, DELAYED, PENDING, SUCCESS, ERROR, CANCELLED, PARKED, ABSENT

(***************************************************************************)
(* What the statements do to a row.                                        *)
(***************************************************************************)
LEMMA NewRow ==
    ASSUME NEW delayed \in BOOLEAN
    PROVE  LET row == QueuedRow(Queue, delayed)
           IN  row \in Rows /\ row.status \in {ENQUEUED, DELAYED} /\ row.queue = Queue
  BY Constants, Statuses8 DEF QueuedRow, AbsentRow, Rows, RowType

LEMMA EmptyRow == AbsentRow \in Rows /\ AbsentRow.status = ABSENT /\ AbsentRow.queue = NoQueue
  BY Statuses8 DEF AbsentRow, Rows, RowType

LEMMA ClaimRow ==
    ASSUME NEW row \in Rows, NEW e \in Executors
    PROVE  /\ claim(row, e, FALSE) \in Rows /\ claim(row, e, FALSE).status = PENDING
           /\ claim(row, e, FALSE).exec = e /\ claim(row, e, FALSE).queue = row.queue
  BY Statuses8 DEF claim, Rows, RowType

LEMMA StatusRow ==
    ASSUME NEW row \in Rows, NEW s \in Statuses
    PROVE  LET new == set_workflow_status(row, s, NoOutput)
           IN  /\ new \in Rows /\ new.exec = row.exec /\ new.queue = row.queue
               /\ new.status = IF CompletionBlocked(row, s) THEN row.status ELSE s
<1>1. CASE CompletionBlocked(row, s)
  BY <1>1 DEF set_workflow_status
<1>2. CASE ~CompletionBlocked(row, s)
  BY <1>2 DEF set_workflow_status, Rows, RowType
<1> QED
  BY <1>1, <1>2

LEMMA CancelRow ==
    ASSUME NEW row \in Rows, cancel_workflow(row) # row
    PROVE  /\ cancel_workflow(row) \in Rows /\ cancel_workflow(row).status = CANCELLED
           /\ cancel_workflow(row).queue = NoQueue /\ cancel_workflow(row).exec = row.exec
           /\ row.status # ABSENT
  BY Statuses8 DEF cancel_workflow, Rows, RowType

LEMMA ResumeRow ==
    ASSUME NEW row \in Rows
    PROVE  /\ resume_workflow(row) \in Rows /\ resume_workflow(row).status = PENDING
           /\ resume_workflow(row).queue = row.queue /\ resume_workflow(row).exec = row.exec
  BY Statuses8 DEF resume_workflow, Rows, RowType

LEMMA EnqueueRow ==
    ASSUME NEW row \in Rows
    PROVE  /\ enqueue_existing(row, Queue) \in Rows
           /\ enqueue_existing(row, Queue).status = ENQUEUED
           /\ enqueue_existing(row, Queue).queue = Queue
  BY Constants, Statuses8 DEF enqueue_existing, Rows, RowType

LEMMA BumpRow ==
    ASSUME NEW row \in Rows
    PROVE  LET new == bump_recovery_attempts(row, MaxRecoveryAttempts)
           IN  /\ new \in Rows /\ new.queue = row.queue /\ new.exec = row.exec
               /\ new.status = IF new.attempts > MaxRecoveryAttempts THEN PARKED ELSE row.status
<1> DEFINE n == row.attempts + 1
           s == IF n > MaxRecoveryAttempts THEN PARKED ELSE row.status
<1>1. n \in Nat /\ s = (IF n > MaxRecoveryAttempts THEN PARKED ELSE row.status) /\ s \in Statuses
  BY Statuses8 DEF Rows, RowType
<1>2. bump_recovery_attempts(row, MaxRecoveryAttempts) = [row EXCEPT !.attempts = n, !.status = s]
  BY DEF bump_recovery_attempts
<1> HIDE DEF n, s
<1> QED
  BY <1>1, <1>2 DEF Rows, RowType

LEMMA ReleaseRow ==
    ASSUME NEW row \in Rows, row.status = DELAYED
    PROVE  /\ transition_delayed(row) \in Rows /\ transition_delayed(row).status = ENQUEUED
           /\ transition_delayed(row).queue = row.queue
  BY Statuses8 DEF transition_delayed, Rows, RowType

(***************************************************************************)
(* dequeue_workflows: how many rows it takes.                              *)
(***************************************************************************)
LEMMA CapByBounds ==
    ASSUME NEW n \in Nat, NEW limit \in Nat \cup {Unlimited}, NEW used \in Nat
    PROVE  LET c == CapBy(n, limit, used)
           IN  /\ c \in Nat /\ c <= n
               /\ limit # Unlimited /\ c > 0 => used + c <= limit
<1>1. CASE limit = Unlimited
  BY <1>1 DEF CapBy
<1>2. CASE limit \in Nat /\ limit # Unlimited
  BY <1>2 DEF CapBy
<1> QED
  BY <1>1, <1>2

LEMMA JobSets == \A S \in SUBSET Jobs : IsFiniteSet(S) /\ Cardinality(S) \in Nat
  BY Constants, FS_Subset, FS_CardinalityType

LEMMA MaxTasksBounds ==
    ASSUME Types, NEW v, NEW e, NEW p, NEW max \in Nat, NEW now
    PROVE  LET m == MaxTasks(v, e, p, max, now)
           IN  /\ m \in Nat /\ m <= max
               /\ GlobalConcurrency # Unlimited /\ m > 0 =>
                     Cardinality(PendingIn(v, p)) + m <= GlobalConcurrency
               /\ RateLimit # Unlimited /\ m > 0 =>
                     Cardinality(RecentStarts(v, p, now)) + m <= RateLimit
<1> DEFINE recent == Cardinality(RecentStarts(v, p, now))
           pending == Cardinality(PendingIn(v, p))
           rated == CapBy(max, RateLimit, recent)
<1>1. recent \in Nat /\ pending \in Nat
  <2>1. RecentStarts(v, p, now) \subseteq Jobs /\ PendingIn(v, p) \subseteq Jobs
    BY DEF RecentStarts, PendingIn, InPartition
  <2> QED
    BY <2>1, JobSets
<1>2. MaxTasks(v, e, p, max, now) = CapBy(rated, GlobalConcurrency, pending)
  BY DEF MaxTasks
<1> HIDE DEF recent, pending, rated
<1>3. /\ rated \in Nat /\ rated <= max
      /\ RateLimit # Unlimited /\ rated > 0 => recent + rated <= RateLimit
  BY <1>1, FleetTypes, CapByBounds DEF rated
<1> DEFINE m == CapBy(rated, GlobalConcurrency, pending)
<1>4. /\ m \in Nat /\ m <= rated
      /\ GlobalConcurrency # Unlimited /\ m > 0 => pending + m <= GlobalConcurrency
  BY <1>1, <1>3, FleetTypes, CapByBounds
<1> HIDE DEF m
<1>5. RateLimit # Unlimited /\ m > 0 => recent + m <= RateLimit
  BY <1>1, <1>3, <1>4, FleetTypes
<1> QED
  BY <1>2, <1>3, <1>4, <1>5 DEF m, pending, recent

LEMMA LocalMaxBounds ==
    ASSUME Types, NEW e \in Executors, NEW p \in Partitions
    PROVE  /\ LocalMax(e, p) \in Nat
           /\ WorkerConcurrency # Unlimited /\ LocalMax(e, p) > 0 =>
                 running[e][p] + LocalMax(e, p) <= WorkerConcurrency
<1>1. running[e][p] \in Nat
  BY DEF Types
<1> QED
  BY <1>1, Constants, FleetTypes, CapByBounds DEF LocalMax

\* The rows claimed in one iteration leave no more than the counter allows.
LEMMA IterationFits ==
    ASSUME Types, NEW e \in Executors, NEW p \in Partitions, LocalMax(e, p) > 0,
           NEW v, NEW now
    PROVE  LET m == MaxTasks(v, e, p, LocalMax(e, p), now)
           IN  /\ m \in Nat
               /\ WorkerConcurrency # Unlimited => running[e][p] + m <= WorkerConcurrency
<1>1. running[e][p] \in Nat
  BY DEF Types
<1>2. LocalMax(e, p) \in Nat
  BY LocalMaxBounds
<1> DEFINE m == MaxTasks(v, e, p, LocalMax(e, p), now)
<1>3. m \in Nat /\ m <= LocalMax(e, p)
  BY <1>2, MaxTasksBounds
<1>4. WorkerConcurrency # Unlimited =>
         WorkerConcurrency \in Nat /\ running[e][p] + LocalMax(e, p) <= WorkerConcurrency
  BY LocalMaxBounds, FleetTypes
<1> HIDE DEF m
<1> QED
  BY <1>1, <1>2, <1>3, <1>4 DEF m

LEMMA ColumnPriority == \A r \in Columns : r.prio \in Priorities \cup {0}
  BY DEF Columns

LEMMA ColumnAge == \A r \in Columns : r.at \in Nat
  BY DEF Columns

LEMMA ColumnTypes ==
    ASSUME NEW c \in [Jobs -> Columns], NEW k \in Jobs
    PROVE  c[k] \in Columns /\ c[k].prio \in Nat /\ c[k].at \in Nat
<1>1. Priorities \subseteq Nat /\ 0 \in Nat
  BY QueueAssumption
<1>2. c[k] \in Columns
  OBVIOUS
<1>3. c[k].at \in Nat
  BY <1>2, ColumnAge
<1>4. c[k].prio \in Nat
  BY <1>1, <1>2, ColumnPriority, Zenon
<1> QED
  BY <1>2, <1>3, <1>4

\* Before orders rows that created_at tells apart, so a row's place in the order is its own.
LEMMA Ranks ==
    ASSUME NEW c \in [Jobs -> Columns], NEW S \in SUBSET Jobs, NEW i \in S, NEW j \in S,
           Before(c, i, j)
    PROVE  /\ {k \in S : Before(c, k, i)} \subseteq {k \in S : Before(c, k, j)}
           /\ Cardinality({k \in S : Before(c, k, i)}) < Cardinality({k \in S : Before(c, k, j)})
<1> DEFINE P(x) == {k \in S : Before(c, k, x)}
<1>1. \A k \in S : c[k].prio \in Nat /\ c[k].at \in Nat
  BY ColumnTypes
<1>2. P(i) \subseteq P(j)
  BY <1>1 DEF Before
<1>3. i \in P(j) /\ i \notin P(i)
  BY <1>1 DEF Before
<1>4. IsFiniteSet(P(j)) /\ IsFiniteSet(P(i)) /\ Cardinality(P(i)) \in Nat /\ Cardinality(P(j)) \in Nat
  BY JobSets
<1>5. Cardinality(P(i)) <= Cardinality(P(j)) /\ Cardinality(P(i)) # Cardinality(P(j))
  BY <1>2, <1>3, <1>4, FS_Subset
<1> QED
  BY <1>2, <1>4, <1>5

\* LIMIT n returns at most n rows.
LEMMA Limited ==
    ASSUME NEW c \in [Jobs -> Columns], NEW S \in SUBSET Jobs, NEW n \in Nat,
           \A i, j \in S : c[i].at = c[j].at => i = j
    PROVE  Cardinality(First(c, S, n)) <= n
<1> DEFINE F == First(c, S, n)
           P(x) == {k \in S : Before(c, k, x)}
           rank == [x \in F |-> Cardinality(P(x))]
<1>1. F \subseteq S /\ \A x \in F : Cardinality(P(x)) < n
  BY DEF First
<1>2. \A x \in F : Cardinality(P(x)) \in Nat
  BY JobSets
<1>3. \A x, y \in F : x # y => Cardinality(P(x)) # Cardinality(P(y))
  <2> SUFFICES ASSUME NEW x \in F, NEW y \in F, x # y
               PROVE  Cardinality(P(x)) # Cardinality(P(y))
    OBVIOUS
  <2>1. /\ c[x].prio \in Nat /\ c[y].prio \in Nat /\ c[x].at \in Nat /\ c[y].at \in Nat
        /\ c[x].at # c[y].at
    BY <1>1, ColumnTypes
  <2>2. Before(c, x, y) \/ Before(c, y, x)
    BY <2>1 DEF Before
  <2>3. x \in S /\ y \in S /\ Cardinality(P(x)) \in Nat /\ Cardinality(P(y)) \in Nat
    BY <1>1, <1>2
  <2>4. CASE Before(c, x, y)
    <3>1. Cardinality(P(x)) < Cardinality(P(y))
      BY <2>3, <2>4, Ranks
    <3> QED
      BY <2>3, <3>1
  <2>5. CASE Before(c, y, x)
    <3>1. Cardinality(P(y)) < Cardinality(P(x))
      BY <2>3, <2>5, Ranks
    <3> QED
      BY <2>3, <3>1
  <2> QED
    BY <2>2, <2>4, <2>5
<1>4. CASE n = 0
  <2>1. \A x \in F : FALSE
    <3> SUFFICES ASSUME NEW x \in F PROVE FALSE
      OBVIOUS
    <3>1. Cardinality(P(x)) \in Nat /\ Cardinality(P(x)) < 0
      BY <1>1, <1>2, <1>4
    <3> QED
      BY <3>1
  <2> QED
    BY <1>4, <2>1, FS_EmptySet
<1>5. CASE n > 0
  <2>1. rank \in [F -> 0..(n - 1)]
    BY <1>1, <1>2, <1>5
  <2>2. rank \in Injection(F, 0..(n - 1))
    BY <1>3, <2>1 DEF Injection, IsInjective
  <2>3. IsFiniteSet(0..(n - 1)) /\ Cardinality(0..(n - 1)) = n
    BY <1>5, FS_Interval
  <2> HIDE DEF F, rank
  <2>4. Cardinality(F) <= n
    BY <2>2, <2>3, FS_Injection
  <2> QED
    BY <2>4 DEF F
<1> QED
  BY <1>4, <1>5

\* The id of a new run is free.
LEMMA FreshRun ==
    ASSUME Types, NEW e \in Executors, NEW j \in Jobs, NEW p \in Partitions
    PROVE  NewRun(e, j, p) \in Run /\ NewRun(e, j, p) \notin runs
<1> DEFINE N == 0..Cardinality(runs)
           owner == [n \in N |-> CHOOSE r \in runs : r.id = n]
<1>1. Cardinality(runs) \in Nat
  BY FS_CardinalityType DEF Types
<1>2. \E n \in N : \A r \in runs : r.id # n
  <2> SUFFICES ASSUME \A n \in N : \E r \in runs : r.id = n PROVE FALSE
    OBVIOUS
  <2>1. \A n \in N : owner[n] \in runs /\ owner[n].id = n
    OBVIOUS
  <2>2. owner \in [N -> runs]
    BY <2>1
  <2>3. IsFiniteSet(N) /\ Cardinality(N) = Cardinality(runs) + 1
    BY <1>1, FS_Interval
  <2>4. IsFiniteSet(runs)
    BY DEF Types
  <2> HIDE DEF N, owner
  <2>5. \E x, y \in N : x # y /\ owner[x] = owner[y]
    BY <1>1, <2>2, <2>3, <2>4, FS_PigeonHole
  <2> QED
    BY <2>1, <2>5
<1> DEFINE n == CHOOSE n \in N : \A r \in runs : r.id # n
<1>3. n \in N /\ \A r \in runs : r.id # n
  BY <1>2
<1>4. NewRun(e, j, p) = [id |-> n, exec |-> e, job |-> j, part |-> p, current |-> TRUE]
  BY DEF NewRun
<1> HIDE DEF n
<1> QED
  BY <1>1, <1>3, <1>4 DEF Run

(***************************************************************************)
(* What leaves each part of the invariant alone.                           *)
(***************************************************************************)
LEMMA TransactionsKept ==
    ASSUME Transactions, fleet' = fleet,
           \A e \in Executors :
              /\ disp'[e].pc \in {"tx", "locked"} => disp[e].pc \in {"tx", "locked"}
              /\ disp'[e].pc = "tx" => disp[e].pc = "tx" /\ disp'[e].snap = disp[e].snap
    PROVE  Transactions'
  BY DEF Transactions, Serial

LEMMA AgesKept ==
    ASSUME Ages, created' = created,
           \A j \in Jobs : /\ rows'[j].status = ABSENT <=> rows[j].status = ABSENT
                           /\ cols'[j].at = cols[j].at,
           \A e \in Executors :
              disp'[e].pc = "tx" => disp[e].pc = "tx" /\ disp'[e].snap = disp[e].snap
    PROVE  Ages'
<1>1. \A j \in Jobs : rows'[j].status # ABSENT => cols'[j].at < created'
  BY DEF Ages
<1>2. NoTies(Now)'
  BY DEF Ages, NoTies, Now
<1>3. \A e \in Executors : disp'[e].pc = "tx" => NoTies(disp'[e].snap)
  BY DEF Ages
<1>4. \A e \in Executors : (disp[e].pc = "tx" => NoTies(disp[e].snap))'
  BY <1>3 DEF NoTies
<1> QED
  BY <1>1, <1>2, <1>4 DEF Ages

LEMMA LocksKept ==
    ASSUME Locks,
           \A e \in Executors : disp'[e].pc = "locked" =>
              disp[e].pc = "locked" /\ disp'[e].batch = disp[e].batch,
           \A e \in Executors : disp'[e].pc = "locked" => disp[e].batch \subseteq Jobs,
           \A j \in Jobs :
              \/ rows'[j].status = rows[j].status /\ rows'[j].queue = rows[j].queue
              \/ \A e \in Executors : disp[e].pc = "locked" => j \notin disp[e].batch
    PROVE  Locks'
  BY DEF Locks

LEMMA SlotsKept ==
    ASSUME Slots, UNCHANGED <<fleet, running, runs>>,
           \A e \in Executors :
              disp'[e].pc \in {"tx", "locked", "claimed"} => disp'[e] = disp[e]
    PROVE  Slots'
  BY DEF Slots, Current, WorkerConcurrency

LEMMA PlaceKept ==
    ASSUME NEW j \in Jobs, Place(j), runs' \subseteq runs,
           \A e \in Executors : Holds(e, j)' => Holds(e, j),
           \/ /\ \A r \in runs' : r.job # j
              /\ \A e \in Executors : ~Holds(e, j)'
           \/ /\ rows'[j].exec = rows[j].exec
              /\ Claimable(rows'[j]) => Claimable(rows[j])
    PROVE  Place(j)'
  BY DEF Place

LEMMA PlacesKept ==
    ASSUME Types, Places, resuming' \subseteq resuming,
           \A e \in Executors : Records(e)' \subseteq Records(e),
           \A j \in Jobs : /\ rows'[j].status = ABSENT => rows[j].status = ABSENT
                           /\ asked[j].freed => asked'[j].freed
                           /\ asked'[j].doubled = asked[j].doubled,
           \A j \in Jobs : ~asked[j].doubled /\ Place(j) => Place(j)'
    PROVE  Places'
<1>1. resuming \subseteq Jobs /\ \A e \in Executors : Records(e) \subseteq Jobs
  BY DEF Types, Recovery, Records
<1>2. \A j \in resuming' : asked'[j].freed /\ rows'[j].status # ABSENT
  BY <1>1 DEF Places
<1>3. \A e \in Executors : \A j \in Records(e)' : rows'[j].status # ABSENT
  BY <1>1 DEF Places
<1> QED
  BY <1>2, <1>3 DEF Places

LEMMA IndexKept ==
    ASSUME Index,
           \A j \in Jobs :
              /\ rows'[j].status = ABSENT => rows[j].status = ABSENT /\ rows'[j].queue = rows[j].queue
              /\ cols'[j].dedup \in {cols[j].dedup, NoDedup}
              /\ rows'[j].queue = Queue /\ cols'[j].dedup # NoDedup => rows[j].queue = Queue
              /\ asked'[j].dedup = asked[j].dedup
              /\ asked[j].freed => asked'[j].freed
              /\ asked'[j].freed \/ is_terminal(rows'[j].status) =>
                    asked[j].freed \/ is_terminal(rows[j].status) \/ cols'[j].dedup = NoDedup
              /\ ~asked'[j].freed /\ ~is_terminal(rows'[j].status) /\ rows'[j].queue = Queue =>
                    /\ ~is_terminal(rows[j].status) /\ rows[j].queue = Queue
                    /\ cols'[j].dedup = cols[j].dedup
    PROVE  Index'
<1>1. \A j \in Jobs :
         rows'[j].status = ABSENT => rows'[j].queue = NoQueue /\ asked'[j].dedup = NoDedup
  BY DEF Index
<1>2. \A j \in Jobs : asked'[j].freed \/ is_terminal(rows'[j].status) => cols'[j].dedup = NoDedup
  BY DEF Index
<1>3. \A j \in Jobs :
         ~asked'[j].freed /\ ~is_terminal(rows'[j].status) /\ rows'[j].queue = Queue
           => cols'[j].dedup = asked'[j].dedup
  BY DEF Index
<1>4. \A i, j \in Jobs :
         /\ rows'[i].queue = Queue /\ rows'[j].queue = Queue
         /\ cols'[i].dedup = cols'[j].dedup /\ cols'[i].dedup # NoDedup
         => i = j
  BY DEF Index
<1> QED
  BY <1>1, <1>2, <1>3, <1>4 DEF Index, is_terminal, SUCCESS, ERROR, CANCELLED, PARKED

LEMMA InvInit == Init => Inv
<1> SUFFICES ASSUME Init PROVE Inv
  OBVIOUS
<1>1. NoColumns \in Columns /\ NoColumns.dedup = NoDedup
  BY Constants DEF NoColumns, Columns
<1>2. IdleDispatcher \in Dispatchers /\ IdleDispatcher.pc = "idle"
  BY Constants DEF IdleDispatcher, Dispatchers
<1>3. /\ \A j \in Jobs : rows[j] = AbsentRow /\ cols[j] = NoColumns
                          /\ asked[j] = AsksNothing
      /\ \A e \in Executors : recovering[e] = NoRecovery
      /\ \A e \in Executors : disp[e] = IdleDispatcher
      /\ runs = {} /\ resuming = {}
  BY DEF Init
<1>4. Types
  <2>1. fleet \in Fleet
    BY QueueAssumption DEF Init
  <2>2. latest \in Versions
    BY <2>1 DEF Init, VersionOf, Fleet
  <2>3. budget \in 0..MaxDisruptions
    BY <2>1 DEF Init, Fleet
  <2>4. IsFiniteSet({})
    BY FS_EmptySet
  <2>5. asked \in [Jobs -> Asked] /\ recovering \in [Executors -> Recovery]
    BY DEF Init, Asked, AsksNothing, Recovery, NoRecovery
  <2>6. rows \in [Jobs -> Rows] /\ cols \in [Jobs -> Columns] /\ disp \in [Executors -> Dispatchers]
    BY <1>1, <1>2, EmptyRow DEF Init
  <2>7. clock \in Clock /\ starts \in [Partitions -> [Clock -> Nat]]
    BY Constants DEF Init
  <2>8. running \in [Executors -> [Partitions -> Nat]] /\ up \subseteq Executors
    BY DEF Init
  <2> QED
    BY <2>2, <2>3, <2>4, <2>5, <2>6, <2>7, <2>8 DEF Init, Types
<1>5. Transactions /\ Locks
  BY <1>2, <1>3 DEF Transactions, Locks
<1>6. Ages
  BY <1>2, <1>3, EmptyRow DEF Ages, NoTies, Now
<1>7. Slots
  <2>1. \A e \in Executors, p \in Partitions : Current(e, p) = {} /\ running[e][p] = 0
    BY DEF Init, Current
  <2>2. WorkerConcurrency # Unlimited => WorkerConcurrency \in Nat
    BY <1>4, FleetTypes
  <2>3. Cardinality({}) = 0
    BY FS_EmptySet
  <2>4. \A e \in Executors, p \in Partitions : Cardinality(Current(e, p)) <= running[e][p]
    BY <2>1, <2>3
  <2>5. WorkerConcurrency # Unlimited =>
           \A e \in Executors, p \in Partitions : running[e][p] <= WorkerConcurrency
    BY <2>1, <2>2
  <2>6. \A e \in Executors : disp[e].pc = "idle"
    BY <1>2, <1>3
  <2> QED
    BY <2>4, <2>5, <2>6 DEF Slots
<1>8. Places
  BY <1>2, <1>3, EmptyRow DEF Places, Place, Holds, Records, AsksNothing, NoRecovery
<1>9. Index
  <2>1. ~is_terminal(ABSENT)
    BY Statuses8 DEF is_terminal, ERROR
  <2> QED
    BY <1>1, <1>3, <2>1, EmptyRow, Constants DEF Index, AsksNothing
<1> QED
  BY <1>4, <1>5, <1>6, <1>7, <1>8, <1>9 DEF Inv

(***************************************************************************)
(* The enqueuers, the clock and the registry of versions.                  *)
(***************************************************************************)
LEMMA TickInv == ASSUME Inv, Tick PROVE Inv'
<1>1. Types'
  <2>1. clock' \in Clock
    BY FleetTypes, Constants DEF Inv, Types, Tick, Clock
  <2> QED
    BY <2>1 DEF Inv, Types, Tick
<1>2. Transactions' /\ Locks' /\ Places' /\ Index'
  BY DEF Inv, Tick, Transactions, Serial, Locks, Places, Place, Holds, Records, Index
<1>3. Ages' /\ Slots'
  BY AgesKept, SlotsKept DEF Inv, Tick
<1> QED
  BY <1>1, <1>2, <1>3 DEF Inv

LEMMA BudgetKept == ASSUME Types, NEW kind, Disrupt(kind) PROVE budget' \in 0..MaxDisruptions
  BY Constants DEF Types, Disrupt

LEMMA SetLatestInv == ASSUME Inv, NEW v \in Versions, SetLatest(v) PROVE Inv'
<1>1. Types'
  <2>1. budget' \in 0..MaxDisruptions
    BY BudgetKept DEF Inv, SetLatest
  <2> QED
    BY <2>1 DEF Inv, Types, SetLatest
<1>2. Transactions' /\ Locks' /\ Places' /\ Index'
  BY DEF Inv, SetLatest, Transactions, Serial, Locks, Places, Place, Holds, Records, Index
<1>3. Ages' /\ Slots'
  BY AgesKept, SlotsKept DEF Inv, SetLatest
<1> QED
  BY <1>1, <1>2, <1>3 DEF Inv

LEMMA EnqueueInv ==
    ASSUME Inv, NEW j \in Jobs, NEW o \in fleet.orders, NEW p \in Partitions, Enqueue(j, o, p)
    PROVE  Inv'
<1> DEFINE row == QueuedRow(Queue, o.delayed)
           col == [NoColumns EXCEPT !.ver = o.ver, !.prio = o.prio, !.at = created,
                                    !.part = p, !.dedup = o.dedup]
           ask == [AsksNothing EXCEPT !.ver = o.ver, !.dedup = o.dedup]
<1>1. o \in Orders
  BY FleetTypes DEF Inv
<1>2. row \in Rows /\ row.status \in {ENQUEUED, DELAYED} /\ row.queue = Queue
  BY <1>1, NewRow DEF Orders
<1>3. ask \in Asked /\ ~ask.freed /\ ~ask.doubled /\ ask.dedup = o.dedup
  BY <1>1 DEF Orders, Asked, AsksNothing
<1>4. col \in Columns /\ col.at = created /\ col.dedup = o.dedup
  <2>1. NoColumns \in Columns
    BY Constants DEF NoColumns, Columns
  <2>2. created \in Nat
    BY DEF Inv, Types
  <2>3. o.ver \in Versions \cup {NoVersion} /\ o.dedup \in DedupIds \cup {NoDedup} /\ o.prio \in Priorities
    BY <1>1 DEF Orders
  <2> QED
    BY <2>1, <2>2, <2>3 DEF Columns
<1> HIDE DEF row, col, ask
<1>5. /\ rows[j].status = ABSENT /\ SlotFree(o.dedup)
      /\ rows' = [rows EXCEPT ![j] = row] /\ cols' = [cols EXCEPT ![j] = col]
      /\ created' = created + 1 /\ asked' = [asked EXCEPT ![j] = ask]
      /\ UNCHANGED <<fleet, latest, clock, disp, running, runs, up, resuming, recovering, starts, budget>>
  BY DEF Enqueue, insert_workflow_status, row, col, ask
<1>6. /\ rows'[j] = row /\ cols'[j] = col /\ asked'[j] = ask
      /\ \A i \in Jobs \ {j} : rows'[i] = rows[i] /\ cols'[i] = cols[i] /\ asked'[i] = asked[i]
  BY <1>5 DEF Inv, Types
<1>7. Types'
  BY <1>2, <1>3, <1>4, <1>5 DEF Inv, Types
<1>8. Transactions'
  BY <1>5, TransactionsKept DEF Inv
<1>9. Slots'
  BY <1>5, SlotsKept DEF Inv
<1>10. Locks'
  <2>1. \A e \in Executors : disp[e].pc = "locked" => j \notin disp[e].batch
    BY <1>5, Statuses8 DEF Inv, Locks
  <2>2. \A e \in Executors : disp[e].batch \subseteq Jobs
    BY DEF Inv, Types, Dispatchers
  <2> QED
    BY <1>5, <1>6, <2>1, <2>2, LocksKept DEF Inv
<1>11. Ages'
  <2>1. created \in Nat /\ \A i \in Jobs : cols[i].at \in Nat
    BY ColumnTypes DEF Inv, Types
  <2>2. \A i \in Jobs \ {j} : rows[i].status # ABSENT => cols[i].at < created
    BY DEF Inv, Ages
  <2>3. \A i \in Jobs : rows'[i].status # ABSENT => cols'[i].at < created'
    BY <1>4, <1>5, <1>6, <2>1, <2>2
  <2>4. NoTies(Now)'
    <3> SUFFICES ASSUME NEW i \in Jobs, NEW k \in Jobs,
                        rows'[i].status # ABSENT, rows'[k].status # ABSENT,
                        cols'[i].at = cols'[k].at
                 PROVE  i = k
      BY DEF NoTies, Now
    <3>1. CASE i # j /\ k # j
      BY <1>6, <3>1 DEF Inv, Ages, NoTies, Now
    <3>2. CASE i = j \/ k = j
      BY <1>4, <1>6, <2>1, <2>2, <3>2
    <3> QED
      BY <3>1, <3>2
  <2>5. \A e \in Executors : (disp[e].pc = "tx" => NoTies(disp[e].snap))'
    BY <1>5 DEF Inv, Ages, NoTies
  <2> QED
    BY <2>3, <2>4, <2>5 DEF Ages
<1>12. Places'
  <2>1. ~asked[j].doubled /\ Place(j)
    BY <1>5 DEF Inv, Places
  <2>2. /\ \A r \in runs : r.job # j
        /\ \A e \in Executors : ~Holds(e, j)
    BY <1>5, <2>1 DEF Place, Claimable
  <2>3. Place(j)'
    BY <1>5, <2>2 DEF Place, Holds
  <2>4. \A i \in Jobs \ {j} : Place(i) => Place(i)'
    BY <1>5, <1>6 DEF Place, Holds
  <2>5. j \notin resuming /\ resuming \subseteq Jobs
    BY <1>5 DEF Inv, Places, Types
  <2>6. \A e \in Executors : j \notin Records(e) /\ Records(e) \subseteq Jobs /\ Records(e)' = Records(e)
    BY <1>5 DEF Inv, Places, Types, Recovery, Records
  <2>7. \A i \in resuming' : asked'[i].freed /\ rows'[i].status # ABSENT
    BY <1>5, <1>6, <2>5 DEF Inv, Places
  <2>8. \A e \in Executors : \A i \in Records(e)' : rows'[i].status # ABSENT
    BY <1>6, <2>6 DEF Inv, Places
  <2>9. \A i \in Jobs : asked'[i].doubled => rows'[i].status # ABSENT
    BY <1>3, <1>6 DEF Inv, Places
  <2> QED
    BY <1>6, <2>3, <2>4, <2>7, <2>8, <2>9 DEF Inv, Places
<1>13. Index'
  <2>1. /\ row.status # ABSENT /\ ~is_terminal(row.status) /\ ~asked'[j].freed
        /\ cols'[j].dedup = o.dedup /\ asked'[j].dedup = o.dedup
    BY <1>2, <1>3, <1>4, <1>6, Statuses8 DEF is_terminal, ERROR
  <2>2. \A i \in Jobs : o.dedup # NoDedup => ~(rows[i].queue = Queue /\ cols[i].dedup = o.dedup)
    BY <1>5 DEF SlotFree
  <2>3. \A i, k \in Jobs :
           /\ rows'[i].queue = Queue /\ rows'[k].queue = Queue
           /\ cols'[i].dedup = cols'[k].dedup /\ cols'[i].dedup # NoDedup
           => i = k
    BY <1>6, <2>1, <2>2 DEF Inv, Index
  <2> QED
    BY <1>6, <2>1, <2>3 DEF Inv, Index, is_terminal, SUCCESS, ERROR, CANCELLED, PARKED
<1> QED
  BY <1>7, <1>8, <1>9, <1>10, <1>11, <1>12, <1>13 DEF Inv

(***************************************************************************)
(* A write to one row, by a statement that is not a claim.                 *)
(***************************************************************************)
Unplaced(j) == (\A r \in runs : r.job # j) /\ (\A e \in Executors : ~Holds(e, j))

LEMMA RowWritten ==
    ASSUME Inv, NEW j \in Jobs, NEW row \in Rows, NEW col \in Columns, NEW ask \in Asked,
           rows' = [rows EXCEPT ![j] = row], cols' = [cols EXCEPT ![j] = col],
           asked' = [asked EXCEPT ![j] = ask],
           UNCHANGED <<fleet, created, latest, clock, disp, running, runs, up, starts>>,
           budget' \in 0..MaxDisruptions, resuming' \subseteq resuming \cup {j},
           recovering' \in [Executors -> Recovery],
           \A e \in Executors : Records(e)' \subseteq Records(e),
           rows[j].status # ABSENT, row.status # ABSENT,
           col.at = cols[j].at, col.dedup \in {cols[j].dedup, NoDedup},
           \A e \in Executors : disp[e].pc = "locked" => j \notin disp[e].batch,
           ask.dedup = asked[j].dedup, asked[j].freed => ask.freed, asked[j].doubled => ask.doubled,
           j \in resuming' => ask.freed,
           ~ask.doubled =>
              \/ Unplaced(j)
              \/ row.exec = rows[j].exec /\ (Claimable(row) => Claimable(rows[j])),
           row.queue = Queue /\ col.dedup # NoDedup => rows[j].queue = Queue,
           ask.freed \/ is_terminal(row.status) =>
              asked[j].freed \/ is_terminal(rows[j].status) \/ col.dedup = NoDedup,
           ~ask.freed /\ ~is_terminal(row.status) /\ row.queue = Queue =>
              /\ ~is_terminal(rows[j].status) /\ rows[j].queue = Queue
              /\ col.dedup = cols[j].dedup
    PROVE  Inv'
<1>1. /\ rows'[j] = row /\ cols'[j] = col /\ asked'[j] = ask
      /\ \A i \in Jobs \ {j} : rows'[i] = rows[i] /\ cols'[i] = cols[i] /\ asked'[i] = asked[i]
  BY DEF Inv, Types
<1>2. Types'
  BY DEF Inv, Types
<1>3. Transactions' /\ Slots'
  BY TransactionsKept, SlotsKept DEF Inv
<1>4. Ages'
  BY <1>1, AgesKept DEF Inv
<1>5. Locks'
  <2>1. \A e \in Executors : disp[e].batch \subseteq Jobs
    BY DEF Inv, Types, Dispatchers
  <2> QED
    BY <1>1, <2>1, LocksKept DEF Inv
<1>6. Places'
  <2>1. \A e \in Executors, i \in Jobs : Holds(e, i)' <=> Holds(e, i)
    BY DEF Holds
  <2>2. ASSUME ~ask.doubled PROVE Place(j)'
    <3>1. Place(j)
      BY <2>2 DEF Inv, Places
    <3>2. CASE Unplaced(j)
      BY <2>1, <3>1, <3>2, PlaceKept DEF Unplaced
    <3>3. CASE row.exec = rows[j].exec /\ (Claimable(row) => Claimable(rows[j]))
      <4>1. Claimable(rows'[j]) => Claimable(rows[j])
        BY <1>1, <3>3
      <4> QED
        BY <1>1, <2>1, <3>1, <3>3, <4>1, PlaceKept
    <3> QED
      BY <2>2, <3>2, <3>3
  <2>3. ASSUME NEW i \in Jobs \ {j}, Place(i) PROVE Place(i)'
    BY <1>1, <2>1, <2>3, PlaceKept
  <2>4. resuming \subseteq Jobs /\ \A e \in Executors : Records(e) \subseteq Jobs
    BY DEF Inv, Types, Recovery, Records
  <2>5. \A i \in resuming' : asked'[i].freed /\ rows'[i].status # ABSENT
    BY <1>1, <2>4 DEF Inv, Places
  <2>6. \A e \in Executors : \A i \in Records(e)' : rows'[i].status # ABSENT
    BY <1>1, <2>4 DEF Inv, Places
  <2>7. \A i \in Jobs : asked'[i].doubled => rows'[i].status # ABSENT
    BY <1>1 DEF Inv, Places
  <2>8. \A i \in Jobs : ~asked'[i].doubled => Place(i)'
    BY <1>1, <2>2, <2>3 DEF Inv, Places
  <2> QED
    BY <2>5, <2>6, <2>7, <2>8 DEF Places
<1>7. Index'
  BY <1>1, IndexKept DEF Inv
<1> QED
  BY <1>2, <1>3, <1>4, <1>5, <1>6, <1>7 DEF Inv

\* What history keeps of a row that is put on the queue again.
LEMMA PutBackAsked ==
    ASSUME Types, NEW j \in Jobs, PutBack(j)
    PROVE  \E ask \in Asked :
              /\ asked' = [asked EXCEPT ![j] = ask]
              /\ ask.dedup = asked[j].dedup
              /\ ask.freed <=> asked[j].freed \/ is_terminal(rows[j].status)
              /\ ask.doubled <=> asked[j].doubled \/ ~Unplaced(j)
<1> DEFINE ask == [asked[j] EXCEPT !.freed = @ \/ is_terminal(rows[j].status),
                                   !.doubled = @ \/ Held(j), !.panicked = FALSE]
<1>1. asked[j] \in Asked
  BY DEF Types
<1>2. is_terminal(rows[j].status) \in BOOLEAN /\ Held(j) \in BOOLEAN
  BY DEF is_terminal, Held
<1>3. ask \in Asked /\ ask.dedup = asked[j].dedup
      /\ ask.freed = (asked[j].freed \/ is_terminal(rows[j].status))
      /\ ask.doubled = (asked[j].doubled \/ Held(j))
  BY <1>1, <1>2 DEF Asked
<1>4. asked' = [asked EXCEPT ![j] = ask]
  BY <1>1 DEF PutBack, Types
<1>5. Held(j) <=> ~Unplaced(j)
  BY DEF Held, Unplaced
<1> HIDE DEF ask
<1> QED
  BY <1>3, <1>4, <1>5

LEMMA ReleaseDelayedInv == ASSUME Inv, NEW j \in Jobs, ReleaseDelayed(j) PROVE Inv'
<1> DEFINE row == transition_delayed(rows[j])
<1>1. /\ rows[j].status = DELAYED /\ rows' = [rows EXCEPT ![j] = row]
      /\ UNCHANGED <<fleet, cols, created, latest, clock, disp, running, runs, up, resuming, recovering,
                     starts, asked, budget>>
  BY DEF ReleaseDelayed
<1>2. /\ rows[j] \in Rows /\ cols[j] \in Columns /\ cols' = [cols EXCEPT ![j] = cols[j]]
      /\ asked[j] \in Asked /\ asked' = [asked EXCEPT ![j] = asked[j]]
      /\ recovering' \in [Executors -> Recovery] /\ budget' \in 0..MaxDisruptions
  BY <1>1 DEF Inv, Types
<1>3. row \in Rows /\ row.status = ENQUEUED /\ row.queue = rows[j].queue
  BY <1>1, <1>2, ReleaseRow
<1>4. \A e \in Executors : disp[e].pc = "locked" => j \notin disp[e].batch
  BY <1>1, Statuses8 DEF Inv, Locks
<1>5. ~asked[j].doubled => Unplaced(j)
  BY <1>1 DEF Inv, Places, Place, Claimable, Unplaced
<1>6. j \in resuming' => asked[j].freed
  BY <1>1 DEF Inv, Places
<1>7. ~is_terminal(rows[j].status) /\ ~is_terminal(row.status)
  BY <1>1, <1>3, Statuses8 DEF is_terminal, SUCCESS, ERROR, CANCELLED, PARKED
<1>8. \A e \in Executors : Records(e)' \subseteq Records(e)
  BY <1>1 DEF Records
<1> HIDE DEF row
<1>9. rows[j].status # ABSENT /\ row.status # ABSENT /\ resuming' \subseteq resuming \cup {j}
  BY <1>1, <1>3, Statuses8
<1>10. /\ rows' = [rows EXCEPT ![j] = row]
       /\ UNCHANGED <<fleet, created, latest, clock, disp, running, runs, up, starts>>
  BY <1>1
<1> QED
  BY <1>2, <1>3, <1>4, <1>5, <1>6, <1>7, <1>8, <1>9, <1>10, RowWritten

LEMMA CancelInv == ASSUME Inv, NEW j \in Jobs, Cancel(j) PROVE Inv'
<1> DEFINE row == cancel_workflow(rows[j])
           col == [cols[j] EXCEPT !.dedup = NoDedup, !.started = NoTime]
<1>1. /\ row # rows[j] /\ Unlocked(j) /\ rows' = [rows EXCEPT ![j] = row]
      /\ UNCHANGED <<fleet, created, latest, clock, disp, running, runs, up, resuming, recovering, starts, asked>>
  BY DEF Cancel
<1>2. /\ rows[j] \in Rows /\ cols[j] \in Columns /\ recovering' \in [Executors -> Recovery]
      /\ asked[j] \in Asked /\ asked' = [asked EXCEPT ![j] = asked[j]]
  BY <1>1 DEF Inv, Types
<1>3. cols' = [cols EXCEPT ![j] = col]
  BY <1>2 DEF Cancel, Inv, Types, Columns
<1>4. col \in Columns /\ col.at = cols[j].at /\ col.dedup = NoDedup
  BY <1>2 DEF Columns
<1>5. /\ row \in Rows /\ row.status = CANCELLED /\ row.queue = NoQueue /\ row.exec = rows[j].exec
      /\ rows[j].status # ABSENT
  BY <1>1, <1>2, CancelRow
<1>6. ~Claimable(row) /\ row.queue # Queue /\ row.status # ABSENT
  BY <1>5, Statuses8, Constants DEF Claimable
<1>7. budget' \in 0..MaxDisruptions
  BY BudgetKept DEF Cancel, Inv
<1>8. j \in resuming' => asked[j].freed
  BY <1>1 DEF Inv, Places
<1>9. \A e \in Executors : Records(e)' \subseteq Records(e)
  BY <1>1 DEF Records
<1> HIDE DEF row, col
<1> QED
  BY <1>1, <1>2, <1>3, <1>4, <1>5, <1>6, <1>7, <1>8, <1>9, RowWritten DEF Unlocked

LEMMA ResumeEnqueuesInv == ASSUME Inv, NEW j \in Jobs, ResumeEnqueues(j) PROVE Inv'
<1> DEFINE row == enqueue_existing(rows[j], Queue)
           col == [cols[j] EXCEPT !.started = NoTime]
<1>1. /\ j \in resuming /\ Unlocked(j) /\ rows' = [rows EXCEPT ![j] = row]
      /\ resuming' \subseteq resuming /\ PutBack(j)
      /\ UNCHANGED <<fleet, created, latest, clock, disp, running, runs, up, recovering, starts, budget>>
  BY DEF ResumeEnqueues
<1>2. /\ rows[j] \in Rows /\ cols[j] \in Columns /\ budget' \in 0..MaxDisruptions
      /\ recovering' \in [Executors -> Recovery]
  BY <1>1 DEF Inv, Types
<1>3. cols' = [cols EXCEPT ![j] = col]
  BY <1>2 DEF ResumeEnqueues, Inv, Types, Columns
<1>4. asked[j].freed /\ rows[j].status # ABSENT /\ cols[j].dedup = NoDedup
  BY <1>1 DEF Inv, Places, Index
<1>5. col \in Columns /\ col.at = cols[j].at /\ col.dedup = NoDedup
  BY <1>2, <1>4 DEF Columns
<1>6. row \in Rows /\ row.status # ABSENT
  BY <1>2, EnqueueRow, Statuses8
<1>7. PICK ask \in Asked :
         /\ asked' = [asked EXCEPT ![j] = ask] /\ ask.dedup = asked[j].dedup
         /\ ask.freed <=> asked[j].freed \/ is_terminal(rows[j].status)
         /\ ask.doubled <=> asked[j].doubled \/ ~Unplaced(j)
  BY <1>1, PutBackAsked DEF Inv
<1>8. \A e \in Executors : Records(e)' \subseteq Records(e)
  BY <1>1 DEF Records
<1> HIDE DEF row, col
<1> QED
  BY <1>1, <1>2, <1>3, <1>4, <1>5, <1>6, <1>7, <1>8, RowWritten DEF Unlocked

\* The first statement of a resume.
LEMMA ResumeInv == ASSUME Inv, NEW j \in Jobs, Resume(j) PROVE Inv'
<1> DEFINE row == resume_workflow(rows[j])
           col == [cols[j] EXCEPT !.dedup = NoDedup, !.started = NoTime]
           ask == [asked[j] EXCEPT !.freed = TRUE]
<1>1. /\ rows[j].status # ABSENT /\ Unlocked(j) /\ rows' = [rows EXCEPT ![j] = row]
      /\ resuming' = resuming \cup {j}
      /\ UNCHANGED <<fleet, created, latest, clock, disp, running, runs, up, recovering, starts>>
  BY DEF Resume, CanResume
<1>2. /\ rows[j] \in Rows /\ cols[j] \in Columns /\ asked[j] \in Asked
      /\ recovering' \in [Executors -> Recovery]
  BY <1>1 DEF Inv, Types
<1>3. cols' = [cols EXCEPT ![j] = col]
  BY <1>2 DEF Resume, Inv, Types, Columns
<1>4. asked' = [asked EXCEPT ![j] = ask]
  BY <1>2 DEF Resume, Inv, Types, Asked
<1>5. col \in Columns /\ col.at = cols[j].at /\ col.dedup = NoDedup
  BY <1>2 DEF Columns
<1>6. ask \in Asked /\ ask.freed = TRUE /\ ask.dedup = asked[j].dedup /\ ask.doubled = asked[j].doubled
  BY <1>2 DEF Asked
<1>7. /\ row \in Rows /\ row.status = PENDING /\ row.queue = rows[j].queue /\ row.exec = rows[j].exec
  BY <1>2, ResumeRow
<1>8. ~Claimable(row) /\ row.status # ABSENT
  BY <1>7, Statuses8 DEF Claimable
<1>9. budget' \in 0..MaxDisruptions
  BY BudgetKept DEF Resume, Inv
<1>10. \A e \in Executors : Records(e)' \subseteq Records(e)
  BY <1>1 DEF Records
<1> HIDE DEF row, col, ask
<1> QED
  BY <1>1, <1>2, <1>3, <1>4, <1>5, <1>6, <1>7, <1>8, <1>9, <1>10, RowWritten DEF Unlocked

(***************************************************************************)
(* The two statements of recovery.                                         *)
(***************************************************************************)
LEMMA RecoveryCountsInv ==
    ASSUME Inv, NEW e \in Executors, NEW j \in Jobs, RecoveryCounts(e, j) PROVE Inv'
<1> DEFINE row == bump_recovery_attempts(rows[j], MaxRecoveryAttempts)
           parked == row.attempts > MaxRecoveryAttempts
           col == IF parked THEN [cols[j] EXCEPT !.dedup = NoDedup] ELSE cols[j]
<1>1. /\ j \in recovering[e].todo /\ recovering[e].counted = {} /\ Unlocked(j)
      /\ rows' = [rows EXCEPT ![j] = row]
      /\ cols' = IF parked THEN [cols EXCEPT ![j].dedup = NoDedup] ELSE cols
      /\ recovering' = [recovering EXCEPT ![e].todo = @ \ {j},
                                           ![e].counted = IF parked THEN {} ELSE {j}]
      /\ UNCHANGED <<fleet, created, latest, clock, disp, running, runs, up, resuming, starts, asked, budget>>
  BY DEF RecoveryCounts
<1>2. /\ rows[j] \in Rows /\ cols[j] \in Columns /\ budget' \in 0..MaxDisruptions
      /\ recovering \in [Executors -> Recovery]
      /\ asked[j] \in Asked /\ asked' = [asked EXCEPT ![j] = asked[j]]
  BY <1>1 DEF Inv, Types
<1>3. cols' = [cols EXCEPT ![j] = col]
  BY <1>1, <1>2 DEF Inv, Types, Columns
<1>4. /\ col \in Columns /\ col.at = cols[j].at /\ col.dedup \in {cols[j].dedup, NoDedup}
      /\ parked => col.dedup = NoDedup
      /\ ~parked => col.dedup = cols[j].dedup
  BY <1>2 DEF Columns
<1>5. /\ row \in Rows /\ row.queue = rows[j].queue /\ row.exec = rows[j].exec
      /\ row.status = IF parked THEN PARKED ELSE rows[j].status
  BY <1>2, BumpRow
<1> HIDE DEF row, parked, col
<1>6. /\ recovering' \in [Executors -> Recovery]
      /\ \A x \in Executors : Records(x)' \subseteq Records(x)
  <2> DEFINE c == IF parked THEN {} ELSE {j}
             new == [recovering[e] EXCEPT !.todo = @ \ {j}, !.counted = c]
  <2>1. c \in SUBSET {j} /\ recovering[e] \in Recovery
    BY <1>2
  <2>2. recovering' = [recovering EXCEPT ![e].todo = @ \ {j}, ![e].counted = c]
    BY <1>1
  <2> HIDE DEF c
  <2>3. recovering' = [recovering EXCEPT ![e] = new]
    BY <1>2, <2>1, <2>2 DEF Recovery
  <2>4. new \in Recovery /\ new.todo \cup new.counted \subseteq recovering[e].todo
    BY <1>1, <2>1 DEF Recovery
  <2> HIDE DEF new
  <2>5. recovering'[e] = new /\ \A x \in Executors \ {e} : recovering'[x] = recovering[x]
    BY <1>2, <2>3
  <2> QED
    BY <1>2, <2>3, <2>4, <2>5 DEF Records
<1>7. rows[j].status # ABSENT
  BY <1>1 DEF Inv, Places, Records
<1>8. /\ row.status # ABSENT /\ (Claimable(row) => Claimable(rows[j]))
      /\ parked => is_terminal(row.status)
      /\ ~parked => row.status = rows[j].status
  BY <1>5, <1>7, Statuses8 DEF Claimable, is_terminal
<1>9. (j \in resuming' => asked[j].freed) /\ resuming' \subseteq resuming \cup {j}
  BY <1>1 DEF Inv, Places
<1>10. \A x \in Executors : disp[x].pc = "locked" => j \notin disp[x].batch
  BY <1>1 DEF Unlocked
<1>11. /\ row.queue = Queue /\ col.dedup # NoDedup => rows[j].queue = Queue
       /\ asked[j].freed \/ is_terminal(row.status) =>
             asked[j].freed \/ is_terminal(rows[j].status) \/ col.dedup = NoDedup
       /\ ~asked[j].freed /\ ~is_terminal(row.status) /\ row.queue = Queue =>
             /\ ~is_terminal(rows[j].status) /\ rows[j].queue = Queue
             /\ col.dedup = cols[j].dedup
  BY <1>4, <1>5, <1>8
<1>12. UNCHANGED <<fleet, created, latest, clock, disp, running, runs, up, starts>>
  BY <1>1
<1>13. rows' = [rows EXCEPT ![j] = row] /\ row \in Rows /\ row.exec = rows[j].exec
  BY <1>1, <1>5
<1> QED
  BY <1>2, <1>3, <1>4, <1>6, <1>7, <1>8, <1>9, <1>10, <1>11, <1>12, <1>13, RowWritten

LEMMA RecoveryRequeuesInv ==
    ASSUME Inv, NEW e \in Executors, NEW j \in Jobs, RecoveryRequeues(e, j) PROVE Inv'
<1> DEFINE row == set_workflow_status(rows[j], ENQUEUED, NoOutput)
<1>1. /\ j \in recovering[e].counted /\ Unlocked(j) /\ PutBack(j)
      /\ rows' = [rows EXCEPT ![j] = row]
      /\ recovering' = [recovering EXCEPT ![e].counted = {}]
      /\ UNCHANGED <<fleet, cols, created, latest, clock, disp, running, runs, up, resuming, starts, budget>>
  BY DEF RecoveryRequeues
<1>2. /\ rows[j] \in Rows /\ cols[j] \in Columns /\ budget' \in 0..MaxDisruptions
      /\ recovering \in [Executors -> Recovery] /\ cols' = [cols EXCEPT ![j] = cols[j]]
  BY <1>1 DEF Inv, Types
<1>3. /\ row \in Rows /\ row.queue = rows[j].queue /\ row.status = ENQUEUED
  <2>1. ENQUEUED \in Statuses /\ ~CompletionBlocked(rows[j], ENQUEUED)
    BY Statuses8 DEF CompletionBlocked, is_completion, ERROR
  <2> QED
    BY <1>2, <2>1, StatusRow
<1> HIDE DEF row
<1>4. /\ recovering' \in [Executors -> Recovery]
      /\ \A x \in Executors : Records(x)' \subseteq Records(x)
  <2>1. /\ recovering'[e] = [todo |-> recovering[e].todo, counted |-> {}]
        /\ \A x \in Executors \ {e} : recovering'[x] = recovering[x]
        /\ recovering' \in [Executors -> Recovery]
    BY <1>1, <1>2 DEF Recovery
  <2> QED
    BY <2>1 DEF Records
<1>5. rows[j].status # ABSENT
  BY <1>1 DEF Inv, Places, Records
<1>6. row.status # ABSENT /\ ~is_terminal(row.status)
  BY <1>3, Statuses8 DEF is_terminal, SUCCESS, ERROR, CANCELLED, PARKED
<1>7. PICK ask \in Asked :
         /\ asked' = [asked EXCEPT ![j] = ask] /\ ask.dedup = asked[j].dedup
         /\ ask.freed <=> asked[j].freed \/ is_terminal(rows[j].status)
         /\ ask.doubled <=> asked[j].doubled \/ ~Unplaced(j)
  BY <1>1, PutBackAsked DEF Inv
<1>8. j \in resuming' => asked[j].freed
  BY <1>1 DEF Inv, Places
<1> QED
  BY <1>1, <1>2, <1>3, <1>4, <1>5, <1>6, <1>7, <1>8, RowWritten DEF Unlocked

\* A list that is taken holds rows that are there.
LEMMA ListedRows ==
    ASSUME NEW e \in Executors, NEW owners
    PROVE  Listed(e, owners) \subseteq {j \in Jobs : rows[j].status # ABSENT}
  BY Statuses8 DEF Listed

LEMMA RecoverInv == ASSUME Inv, NEW e \in Executors, Recover(e) PROVE Inv'
<1> DEFINE all == Listed(e, Executors \cup {NoExecutor})
<1>1. /\ recovering' = [recovering EXCEPT ![e].todo = all]
      /\ UNCHANGED <<fleet, rows, cols, created, latest, clock, disp, running, runs, up, resuming,
                     starts, asked>>
      /\ Disrupt("recover")
  BY DEF Recover
<1>2. all \subseteq {j \in Jobs : rows[j].status # ABSENT}
  BY ListedRows
<1> HIDE DEF all
<1>3. /\ recovering'[e] = [todo |-> all, counted |-> recovering[e].counted]
      /\ \A x \in Executors \ {e} : recovering'[x] = recovering[x]
      /\ recovering' \in [Executors -> Recovery]
  BY <1>1, <1>2 DEF Inv, Types, Recovery
<1>4. budget' \in 0..MaxDisruptions
  BY <1>1, BudgetKept DEF Inv
<1>5. Types'
  BY <1>1, <1>3, <1>4 DEF Inv, Types
<1>6. Transactions' /\ Locks' /\ Index'
  BY <1>1 DEF Inv, Transactions, Serial, Locks, Index
<1>7. Ages' /\ Slots'
  BY <1>1, AgesKept, SlotsKept DEF Inv
<1>8. Places'
  <2>1. \A i \in Jobs : Place(i) => Place(i)'
    BY <1>1 DEF Place, Holds
  <2>2. \A x \in Executors : Records(x)' \subseteq Records(x) \cup all
    BY <1>3 DEF Records
  <2>3. \A x \in Executors : \A i \in Records(x)' : rows'[i].status # ABSENT
    BY <1>1, <1>2, <2>2 DEF Inv, Places
  <2> QED
    BY <1>1, <2>1, <2>3 DEF Inv, Places
<1> QED
  BY <1>5, <1>6, <1>7, <1>8 DEF Inv

(***************************************************************************)
(* Dispatchers and processes that stop, and that start again.              *)
(***************************************************************************)
LEMMA RestingDispatcher ==
    /\ IdleDispatcher \in Dispatchers /\ IdleDispatcher.pc = "idle"
    /\ [IdleDispatcher EXCEPT !.pc = "off"] \in Dispatchers
    /\ [IdleDispatcher EXCEPT !.pc = "off"].pc = "off"
  BY Constants DEF IdleDispatcher, Dispatchers

LEMMA FewerRuns ==
    ASSUME Types, runs' \subseteq runs, NEW e, NEW p
    PROVE  /\ Current(e, p) \in SUBSET runs /\ IsFiniteSet(Current(e, p))
           /\ IsFiniteSet(runs') /\ IsFiniteSet(Current(e, p)')
           /\ Cardinality(Current(e, p)) \in Nat /\ Cardinality(Current(e, p)') \in Nat
           /\ Cardinality(Current(e, p)') <= Cardinality(Current(e, p))
<1>1. IsFiniteSet(runs) /\ Current(e, p) \subseteq runs /\ Current(e, p)' \subseteq Current(e, p)
  BY DEF Types, Current
<1>2. IsFiniteSet(Current(e, p)) /\ IsFiniteSet(runs')
  BY <1>1, FS_Subset
<1>3. IsFiniteSet(Current(e, p)') /\ Cardinality(Current(e, p)') <= Cardinality(Current(e, p))
  BY <1>1, <1>2, FS_Subset
<1> QED
  BY <1>1, <1>2, <1>3, FS_CardinalityType

LEMMA DispatcherStops ==
    ASSUME Inv, NEW e \in Executors, NEW d \in Dispatchers, d.pc \in {"idle", "off"},
           disp' = [disp EXCEPT ![e] = d], runs' \subseteq runs, up' \subseteq up,
           UNCHANGED <<fleet, rows, cols, created, latest, clock, running, resuming, starts, asked>>,
           recovering' \in [Executors -> Recovery],
           \A x \in Executors : Records(x)' \subseteq Records(x),
           budget' \in 0..MaxDisruptions
    PROVE  Inv'
<1>1. disp'[e] = d /\ \A x \in Executors \ {e} : disp'[x] = disp[x]
  BY DEF Inv, Types
<1>2. Types'
  BY FewerRuns DEF Inv, Types
<1>3. Transactions'
  BY <1>1, TransactionsKept DEF Inv
<1>4. Ages'
  BY <1>1, AgesKept DEF Inv
<1>5. Locks'
  <2>1. \A x \in Executors : disp[x].batch \subseteq Jobs
    BY DEF Inv, Types, Dispatchers
  <2> QED
    BY <1>1, <2>1, LocksKept DEF Inv
<1>6. Slots'
  <2>1. \A x \in Executors, p \in Partitions : Cardinality(Current(x, p)') <= running'[x][p]
    <3> SUFFICES ASSUME NEW x \in Executors, NEW p \in Partitions
                 PROVE  Cardinality(Current(x, p)') <= running[x][p]
      OBVIOUS
    <3>1. Cardinality(Current(x, p)) <= running[x][p] /\ running[x][p] \in Nat
      BY DEF Inv, Slots, Types
    <3> QED
      BY <3>1, FewerRuns DEF Inv
  <2>2. \A x \in Executors : disp'[x].pc \in {"tx", "locked", "claimed"} => disp'[x] = disp[x]
    BY <1>1
  <2>3. \A x \in Executors, p \in Partitions : WorkerConcurrency # Unlimited => running[x][p] <= WorkerConcurrency
    BY DEF Inv, Slots
  <2> QED
    BY <2>1, <2>2, <2>3 DEF Inv, Slots, WorkerConcurrency
<1>7. Places'
  <2>1. \A x \in Executors, i \in Jobs : Holds(x, i)' => Holds(x, i)
    BY <1>1 DEF Holds
  <2>2. ASSUME NEW i \in Jobs, Place(i) PROVE Place(i)'
    BY <2>1, <2>2, PlaceKept
  <2> QED
    BY <2>2, PlacesKept DEF Inv, Records
<1>8. Index'
  BY DEF Inv, Index
<1> QED
  BY <1>2, <1>3, <1>4, <1>5, <1>6, <1>7, <1>8 DEF Inv

LEMMA TxFailsInv == ASSUME Inv, NEW e \in Executors, TxFails(e) PROVE Inv'
<1>1. budget' \in 0..MaxDisruptions
  BY DEF TxFails, Inv, Types
<1>2. /\ recovering' \in [Executors -> Recovery]
      /\ \A x \in Executors : Records(x)' \subseteq Records(x)
  BY DEF TxFails, Inv, Types, Records
<1> QED
  BY <1>1, <1>2, RestingDispatcher, DispatcherStops DEF TxFails

LEMMA ShutdownInv == ASSUME Inv, NEW e \in Executors, Shutdown(e) PROVE Inv'
<1>1. budget' \in 0..MaxDisruptions
  BY BudgetKept DEF Shutdown, Inv
<1>2. /\ recovering' \in [Executors -> Recovery]
      /\ \A x \in Executors : Records(x)' \subseteq Records(x)
  <2>1. recovering \in [Executors -> Recovery]
    BY DEF Inv, Types
  <2>2. /\ recovering'[e] = [todo |-> {}, counted |-> recovering[e].counted]
        /\ \A x \in Executors \ {e} : recovering'[x] = recovering[x]
        /\ recovering' \in [Executors -> Recovery]
    BY <2>1 DEF Shutdown, Recovery
  <2> QED
    BY <2>2 DEF Records
<1> QED
  BY <1>1, <1>2, RestingDispatcher, DispatcherStops DEF Shutdown

LEMMA CrashInv == ASSUME Inv, NEW e \in Executors, Crash(e) PROVE Inv'
<1>1. budget' \in 0..MaxDisruptions
  BY BudgetKept DEF Crash, Inv
<1>2. up' \subseteq up /\ runs' \subseteq runs
  BY DEF Crash
<1>3. /\ recovering' \in [Executors -> Recovery]
      /\ \A x \in Executors : Records(x)' \subseteq Records(x)
  <2>1. recovering \in [Executors -> Recovery]
    BY DEF Inv, Types
  <2>2. /\ recovering'[e] = [todo |-> {}, counted |-> {}]
        /\ \A x \in Executors \ {e} : recovering'[x] = recovering[x]
        /\ recovering' \in [Executors -> Recovery]
    BY <2>1 DEF Crash, Recovery, NoRecovery
  <2> QED
    BY <2>2 DEF Records
<1> QED
  BY <1>1, <1>2, <1>3, RestingDispatcher, DispatcherStops DEF Crash

\* The runs of the old loop go on, and are no longer counted.
LEMMA LaunchInv == ASSUME Inv, NEW e \in Executors, Launch(e) PROVE Inv'
<1> DEFINE f(r) == IF r.exec = e THEN [r EXCEPT !.current = FALSE] ELSE r
<1>1. /\ disp[e].pc = "off" /\ disp' = [disp EXCEPT ![e] = IdleDispatcher]
      /\ running' = [running EXCEPT ![e] = [p \in Partitions |-> 0]]
      /\ runs' = {f(r) : r \in runs} /\ up' \subseteq Executors
      /\ UNCHANGED <<fleet, rows, cols, created, latest, clock, resuming, starts, asked, budget>>
  BY DEF Launch, Inv, Types
<1>2. \A r \in runs :
         /\ f(r) \in Run /\ f(r).job = r.job /\ f(r).exec = r.exec /\ f(r).part = r.part
         /\ f(r).current <=> r.current /\ r.exec # e
         /\ r.exec # e => f(r) = r
  BY DEF Inv, Types, Run
<1> HIDE DEF f
<1>3. disp'[e] = IdleDispatcher /\ \A x \in Executors \ {e} : disp'[x] = disp[x]
  BY <1>1 DEF Inv, Types
<1>4. IsFiniteSet(runs')
  <2> DEFINE g == [r \in runs |-> f(r)]
  <2>1. g \in Surjection(runs, runs')
    BY <1>1 DEF Surjection
  <2>2. IsFiniteSet(runs)
    BY DEF Inv, Types
  <2> QED
    BY <2>1, <2>2, FS_Surjection
<1>l. /\ recovering' \in [Executors -> Recovery]
      /\ \A x \in Executors : \A i \in Records(x)' : i \in Records(x) \/ i \in Listed(e, {e})
  <2>1. recovering \in [Executors -> Recovery] /\ Listed(e, {e}) \subseteq Jobs
    BY DEF Inv, Types, Listed
  <2>2. \/ recovering' = recovering
        \/ /\ recovering'[e] = [todo |-> Listed(e, {e}), counted |-> recovering[e].counted]
           /\ \A x \in Executors \ {e} : recovering'[x] = recovering[x]
           /\ recovering' \in [Executors -> Recovery]
    BY <2>1 DEF Launch, Recovery
  <2> QED
    BY <2>1, <2>2 DEF Records
<1>5. Types'
  BY <1>1, <1>2, <1>4, <1>l, RestingDispatcher DEF Inv, Types
<1>6. Transactions'
  BY <1>1, <1>3, RestingDispatcher, TransactionsKept DEF Inv
<1>7. Ages'
  BY <1>1, <1>3, RestingDispatcher, AgesKept DEF Inv
<1>8. Locks'
  <2>1. \A x \in Executors : disp[x].batch \subseteq Jobs
    BY DEF Inv, Types, Dispatchers
  <2> QED
    BY <1>1, <1>3, <2>1, RestingDispatcher, LocksKept DEF Inv
<1>9. Slots'
  <2>1. \A p \in Partitions : Current(e, p)' = {} /\ running'[e][p] = 0
    BY <1>1, <1>2 DEF Current, Inv, Types
  <2>2. \A x \in Executors \ {e}, p \in Partitions :
           Current(x, p)' = Current(x, p) /\ running'[x][p] = running[x][p]
    BY <1>1, <1>2 DEF Current, Inv, Types
  <2>3. Cardinality({}) = 0
    BY FS_EmptySet
  <2>4. WorkerConcurrency' = WorkerConcurrency /\ (WorkerConcurrency # Unlimited => WorkerConcurrency \in Nat)
    BY <1>1, FleetTypes DEF WorkerConcurrency, Inv
  <2>5. \A x \in Executors, p \in Partitions : Cardinality(Current(x, p)') <= running'[x][p]
    <3>1. \A p \in Partitions : Cardinality(Current(e, p)') <= running'[e][p]
      BY <2>1, <2>3
    <3>2. \A x \in Executors \ {e}, p \in Partitions : Cardinality(Current(x, p)') <= running'[x][p]
      BY <2>2 DEF Inv, Slots
    <3> QED
      BY <3>1, <3>2
  <2>6. \A x \in Executors, p \in Partitions :
           WorkerConcurrency # Unlimited => running'[x][p] <= WorkerConcurrency
    BY <2>1, <2>2, <2>4 DEF Inv, Slots
  <2>7. \A x \in Executors : disp[x] \in Dispatchers
    BY DEF Inv, Types
  <2>8. \A x \in Executors : disp[x].part \in Partitions
    BY <2>7 DEF Dispatchers
  <2> QED
    BY <1>3, <2>2, <2>4, <2>5, <2>6, <2>8, RestingDispatcher DEF Inv, Slots
<1>10. Places'
  <2>1. \A x \in Executors, i \in Jobs : Holds(x, i)' => Holds(x, i)
    BY <1>3, RestingDispatcher DEF Holds
  <2>2. \A r \in runs' : \E s \in runs : r = f(s) /\ r.job = s.job /\ r.exec = s.exec
    BY <1>1, <1>2
  <2>3. ASSUME NEW i \in Jobs, Place(i) PROVE Place(i)'
    <3>1. \A r, s \in runs' : r.job = i /\ s.job = i => r = s
      BY <2>2, <2>3 DEF Place
    <3>2. \A r \in runs' : r.job = i => rows'[i].exec = r.exec
      BY <1>1, <2>2, <2>3 DEF Place
    <3>3. (\A r \in runs : r.job # i) => \A r \in runs' : r.job # i
      BY <2>2
    <3> QED
      BY <1>1, <2>1, <2>3, <3>1, <3>2, <3>3 DEF Place
  <2>4. \A x \in Executors : \A i \in Records(x)' : rows'[i].status # ABSENT
    <3>1. Listed(e, {e}) \subseteq {i \in Jobs : rows[i].status # ABSENT}
      BY ListedRows
    <3> QED
      BY <1>1, <1>l, <3>1 DEF Inv, Places
  <2> QED
    BY <1>1, <2>3, <2>4 DEF Inv, Places
<1>11. Index'
  BY <1>1 DEF Inv, Index
<1> QED
  BY <1>5, <1>6, <1>7, <1>8, <1>9, <1>10, <1>11 DEF Inv

(***************************************************************************)
(* Runs that end.                                                          *)
(***************************************************************************)
LEMMA RunEnds ==
    ASSUME Inv, NEW r \in runs, runs' = runs \ {r}, DropGuard(r), UNCHANGED <<fleet, disp>>
    PROVE  /\ IsFiniteSet(runs') /\ running' \in [Executors -> [Partitions -> Nat]]
           /\ Slots'
<1>1. r.exec \in Executors /\ r.part \in Partitions /\ r.current \in BOOLEAN
  BY DEF Inv, Types, Run
<1>2. runs' \subseteq runs /\ Types
  BY DEF Inv
<1>3. \A x \in Executors, p \in Partitions : running[x][p] \in Nat /\ Cardinality(Current(x, p)) <= running[x][p]
  BY DEF Inv, Types, Slots
<1>4. CASE ~r.current
  <2>1. running' = running
    BY <1>4 DEF DropGuard
  <2>2. \A x \in Executors, p \in Partitions : Current(x, p)' = Current(x, p)
    BY <1>4 DEF Current
  <2> QED
    BY <1>2, <2>1, <2>2, FewerRuns DEF Inv, Types, Slots, WorkerConcurrency
<1>5. CASE r.current
  <2>1. running' = [running EXCEPT ![r.exec][r.part] = running[r.exec][r.part] - 1]
    BY <1>5 DEF DropGuard
  <2>2. r \in Current(r.exec, r.part) /\ Current(r.exec, r.part)' = Current(r.exec, r.part) \ {r}
    BY <1>5 DEF Current
  <2>3. IsFiniteSet(Current(r.exec, r.part)) /\ Cardinality(Current(r.exec, r.part)) \in Nat
    BY <1>2, FewerRuns
  <2>4. /\ Cardinality(Current(r.exec, r.part)') = Cardinality(Current(r.exec, r.part)) - 1
        /\ Cardinality(Current(r.exec, r.part)') \in Nat
    BY <1>2, <2>2, <2>3, FewerRuns, FS_RemoveElement
  <2>5. /\ running[r.exec][r.part] - 1 \in Nat
        /\ Cardinality(Current(r.exec, r.part)') <= running[r.exec][r.part] - 1
    BY <1>1, <1>3, <2>3, <2>4
  <2>6. running' \in [Executors -> [Partitions -> Nat]]
    BY <1>1, <2>1, <2>5 DEF Inv, Types
  <2>7. running'[r.exec][r.part] = running[r.exec][r.part] - 1
    BY <1>1, <2>1 DEF Inv, Types
  <2>8. \A x \in Executors, p \in Partitions : x # r.exec \/ p # r.part =>
           running'[x][p] = running[x][p] /\ Current(x, p)' = Current(x, p)
    BY <1>1, <2>1 DEF Inv, Types, Current
  <2>9. \A x \in Executors, p \in Partitions :
           /\ Cardinality(Current(x, p)') <= running'[x][p]
           /\ running'[x][p] \in Nat /\ running'[x][p] <= running[x][p]
    <3> SUFFICES ASSUME NEW x \in Executors, NEW p \in Partitions
                 PROVE  /\ Cardinality(Current(x, p)') <= running'[x][p]
                        /\ running'[x][p] \in Nat /\ running'[x][p] <= running[x][p]
      OBVIOUS
    <3>1. CASE x = r.exec /\ p = r.part
      BY <1>3, <2>5, <2>7, <3>1
    <3>2. CASE x # r.exec \/ p # r.part
      BY <1>3, <2>8, <3>2
    <3> QED
      BY <3>1, <3>2
  <2>10. \A x \in Executors : /\ disp[x].part \in Partitions /\ disp[x].max \in Nat
                               /\ Cardinality(disp[x].batch) \in Nat
    BY JobSets DEF Inv, Types, Dispatchers
  <2>11. WorkerConcurrency' = WorkerConcurrency /\ (WorkerConcurrency # Unlimited => WorkerConcurrency \in Nat)
    BY FleetTypes DEF WorkerConcurrency, Inv
  <2>12. Slots'
    <3> SUFFICES ASSUME NEW x \in Executors, WorkerConcurrency # Unlimited
                 PROVE  /\ \A p \in Partitions : running'[x][p] <= WorkerConcurrency
                        /\ disp[x].pc \in {"tx", "locked"} =>
                              running'[x][disp[x].part] + disp[x].max <= WorkerConcurrency
                        /\ disp[x].pc = "locked" => Cardinality(disp[x].batch) <= disp[x].max
                        /\ disp[x].pc = "claimed" =>
                              running'[x][disp[x].part] + Cardinality(disp[x].batch) <= WorkerConcurrency
      BY <2>9, <2>11 DEF Slots
    <3>1. /\ \A p \in Partitions : running[x][p] <= WorkerConcurrency
          /\ disp[x].pc \in {"tx", "locked"} =>
                running[x][disp[x].part] + disp[x].max <= WorkerConcurrency
          /\ disp[x].pc = "locked" => Cardinality(disp[x].batch) <= disp[x].max
          /\ disp[x].pc = "claimed" =>
                running[x][disp[x].part] + Cardinality(disp[x].batch) <= WorkerConcurrency
      BY DEF Inv, Slots
    <3> QED
      BY <1>3, <2>9, <2>10, <2>11, <3>1
  <2> QED
    BY <1>2, <2>6, <2>12, FewerRuns
<1> QED
  BY <1>1, <1>4, <1>5

LEMMA RunPanicsInv == ASSUME Inv, NEW r \in runs, RunPanics(r) PROVE Inv'
<1>1. /\ runs' = runs \ {r} /\ DropGuard(r)
      /\ UNCHANGED <<fleet, rows, cols, created, latest, clock, disp, up, resuming, recovering, starts>>
  BY DEF RunPanics
<1>2. budget' \in 0..MaxDisruptions
  BY BudgetKept DEF RunPanics, Inv
<1>a. /\ asked' \in [Jobs -> Asked]
      /\ \A i \in Jobs : /\ asked'[i].dedup = asked[i].dedup /\ asked'[i].freed = asked[i].freed
                          /\ asked'[i].doubled = asked[i].doubled
  BY DEF RunPanics, Inv, Types, Asked
<1>3. Types' /\ Slots'
  BY <1>1, <1>2, <1>a, RunEnds DEF Inv, Types
<1>4. Transactions' /\ Ages' /\ Locks'
  BY <1>1, TransactionsKept, AgesKept DEF Inv, Locks
<1>5. Places'
  <2>1. ASSUME NEW i \in Jobs, Place(i) PROVE Place(i)'
    BY <1>1, <2>1 DEF Place, Holds
  <2>2. \A e \in Executors : Records(e)' = Records(e)
    BY <1>1 DEF Records
  <2> QED
    BY <1>1, <1>a, <2>1, <2>2, PlacesKept DEF Inv
<1>6. Index'
  BY <1>1, <1>a DEF Inv, Index
<1> QED
  BY <1>3, <1>4, <1>5, <1>6 DEF Inv

LEMMA RunCompletesInv == ASSUME Inv, NEW r \in runs, RunCompletes(r) PROVE Inv'
<1> DEFINE j == r.job
           row == set_workflow_status(rows[j], SUCCESS, NoOutput)
           blocked == CompletionBlocked(rows[j], SUCCESS)
           col == IF blocked THEN cols[j] ELSE [cols[j] EXCEPT !.dedup = NoDedup]
<1>1. /\ runs' = runs \ {r} /\ DropGuard(r) /\ Unlocked(j) /\ rows' = [rows EXCEPT ![j] = row]
      /\ UNCHANGED <<fleet, created, latest, clock, disp, up, resuming, recovering, starts, asked, budget>>
  BY DEF RunCompletes
<1>2. j \in Jobs
  BY DEF Inv, Types, Run
<1>3. rows[j] \in Rows /\ cols[j] \in Columns
  BY <1>2 DEF Inv, Types
<1>4. cols' = [cols EXCEPT ![j] = col]
  BY <1>2, <1>3 DEF RunCompletes, Inv, Types, Columns
<1>5. col \in Columns /\ col.at = cols[j].at /\ (blocked => col = cols[j])
      /\ (~blocked => col.dedup = NoDedup)
  BY <1>3 DEF Columns
<1>6. SUCCESS \in Statuses
  BY Statuses8
<1>7. /\ row \in Rows /\ row.exec = rows[j].exec /\ row.queue = rows[j].queue
      /\ row.status = IF blocked THEN rows[j].status ELSE SUCCESS
  BY <1>3, <1>6, StatusRow
<1>8. rows[j].status # ABSENT
  BY <1>2 DEF Inv, Places, Place, Claimable
<1>9. row.status # ABSENT /\ is_terminal(row.status)
  BY <1>7, <1>8, Statuses8 DEF is_terminal, CompletionBlocked
<1> HIDE DEF row, col, blocked, j
<1>10. /\ rows'[j] = row /\ cols'[j] = col
       /\ \A i \in Jobs \ {j} : rows'[i] = rows[i] /\ cols'[i] = cols[i]
  BY <1>1, <1>2, <1>4 DEF Inv, Types
<1>11. IsFiniteSet(runs') /\ running' \in [Executors -> [Partitions -> Nat]] /\ Slots'
  BY <1>1, RunEnds
<1>12. Types'
  BY <1>1, <1>4, <1>5, <1>7, <1>11 DEF Inv, Types
<1>13. Transactions'
  BY <1>1, TransactionsKept DEF Inv
<1>14. Ages'
  BY <1>1, <1>5, <1>8, <1>9, <1>10, AgesKept DEF Inv
<1>15. Locks'
  <2>1. \A e \in Executors : disp[e].batch \subseteq Jobs
    BY DEF Inv, Types, Dispatchers
  <2> QED
    BY <1>1, <1>10, <2>1, LocksKept DEF Inv, Unlocked
<1>16. Places'
  <2>1. \A e \in Executors, i \in Jobs : Holds(e, i)' <=> Holds(e, i)
    BY <1>1 DEF Holds
  <2>2. ASSUME Place(j) PROVE Place(j)'
    <3>1. \A e \in Executors : ~Holds(e, j)'
      BY <1>2, <2>1, <2>2 DEF Place, j
    <3>2. \A s \in runs' : s.job # j
      BY <1>1, <2>2 DEF Place, j
    <3> QED
      BY <3>1, <3>2 DEF Place
  <2>3. ASSUME NEW i \in Jobs \ {j}, Place(i) PROVE Place(i)'
    BY <1>1, <1>10, <2>1, <2>3, PlaceKept
  <2>4. \A e \in Executors : Records(e)' = Records(e)
    BY <1>1 DEF Records
  <2> QED
    BY <1>1, <1>8, <1>9, <1>10, <2>2, <2>3, <2>4, PlacesKept DEF Inv
<1>17. Index'
  BY <1>1, <1>5, <1>7, <1>8, <1>9, <1>10, IndexKept DEF Inv
<1> QED
  BY <1>11, <1>12, <1>13, <1>14, <1>15, <1>16, <1>17 DEF Inv

(***************************************************************************)
(* A claimed batch is dealt with row by row.                               *)
(***************************************************************************)
LEMMA BatchShrinks ==
    ASSUME Types, NEW e \in Executors, NEW j \in Jobs, Holds(e, j), DoneWith(e, j)
    PROVE  /\ disp' \in [Executors -> Dispatchers]
           /\ disp'[e].pc \in {"idle", "claimed"}
           /\ disp'[e].pc = "claimed" =>
                 disp'[e].part = disp[e].part /\ disp'[e].batch = disp[e].batch \ {j}
           /\ \A x \in Executors \ {e} : disp'[x] = disp[x]
           /\ \A x \in Executors, i \in Jobs : Holds(x, i)' <=> Holds(x, i) /\ (x # e \/ i # j)
<1> DEFINE d == IF disp[e].batch = {j} THEN IdleDispatcher
                ELSE [disp[e] EXCEPT !.batch = disp[e].batch \ {j}]
<1>1. disp[e] \in Dispatchers /\ disp[e].pc = "claimed" /\ j \in disp[e].batch
  BY DEF Types, Holds
<1>2. d \in Dispatchers /\ d.pc \in {"idle", "claimed"}
  BY <1>1, RestingDispatcher DEF Dispatchers
<1>3. d.pc = "claimed" => d.part = disp[e].part /\ d.batch = disp[e].batch \ {j}
  BY <1>1, RestingDispatcher DEF Dispatchers
<1>4. \A i \in Jobs : d.pc = "claimed" /\ i \in d.batch <=> i \in disp[e].batch /\ i # j
  <2>1. CASE disp[e].batch = {j}
    BY <2>1, RestingDispatcher
  <2>2. CASE disp[e].batch # {j}
    BY <1>1, <2>2 DEF Dispatchers
  <2> QED
    BY <2>1, <2>2
<1> HIDE DEF d
<1>5. disp' = [disp EXCEPT ![e] = d]
  BY DEF DoneWith, d
<1>6. disp'[e] = d /\ \A x \in Executors \ {e} : disp'[x] = disp[x]
  BY <1>5 DEF Types
<1>7. \A x \in Executors, i \in Jobs : Holds(x, i)' <=> Holds(x, i) /\ (x # e \/ i # j)
  BY <1>1, <1>4, <1>6 DEF Holds
<1> QED
  BY <1>2, <1>3, <1>5, <1>6, <1>7 DEF Types

LEMMA ReleaseClaimInv ==
    ASSUME Inv, NEW e \in Executors, NEW j \in Jobs, ReleaseClaim(e, j) PROVE Inv'
<1> DEFINE row == set_workflow_status(rows[j], ENQUEUED, NoOutput)
<1>1. /\ Holds(e, j) /\ Unlocked(j) /\ DoneWith(e, j) /\ rows' = [rows EXCEPT ![j] = row]
      /\ UNCHANGED <<fleet, cols, created, latest, clock, running, runs, up, resuming, recovering, starts, budget>>
  BY DEF ReleaseClaim, Holds
<1>a. /\ asked' \in [Jobs -> Asked]
      /\ \A i \in Jobs : asked'[i].dedup = asked[i].dedup /\ asked'[i].doubled = asked[i].doubled
      /\ \A i \in Jobs : asked'[i].freed <=>
            asked[i].freed \/ (i = j /\ is_terminal(rows[j].status))
  <2>1. is_terminal(rows[j].status) \in BOOLEAN /\ asked \in [Jobs -> Asked]
    BY DEF is_terminal, Inv, Types
  <2>2. asked' = [asked EXCEPT ![j] = [asked[j] EXCEPT !.freed = @ \/ is_terminal(rows[j].status)]]
    BY <2>1 DEF ReleaseClaim, Asked
  <2> QED
    BY <2>1, <2>2 DEF Asked
<1>2. rows[j] \in Rows
  BY DEF Inv, Types
<1>3. ENQUEUED \in Statuses /\ ~CompletionBlocked(rows[j], ENQUEUED)
  BY Statuses8 DEF CompletionBlocked, is_completion, ERROR
<1>4. row \in Rows /\ row.queue = rows[j].queue /\ row.status = ENQUEUED /\ row.status # ABSENT
  BY <1>2, <1>3, StatusRow, Statuses8
<1>5. rows[j].status # ABSENT
  BY <1>1 DEF Inv, Places, Place, Claimable
<1> HIDE DEF row
<1>6. /\ disp' \in [Executors -> Dispatchers]
      /\ disp'[e].pc \in {"idle", "claimed"}
      /\ disp'[e].pc = "claimed" =>
            disp'[e].part = disp[e].part /\ disp'[e].batch = disp[e].batch \ {j}
      /\ \A x \in Executors \ {e} : disp'[x] = disp[x]
      /\ \A x \in Executors, i \in Jobs : Holds(x, i)' <=> Holds(x, i) /\ (x # e \/ i # j)
  BY <1>1, BatchShrinks DEF Inv
<1>7. rows'[j] = row /\ \A i \in Jobs \ {j} : rows'[i] = rows[i]
  BY <1>1 DEF Inv, Types
<1>8. Types'
  BY <1>1, <1>a, <1>4, <1>6 DEF Inv, Types
<1>9. Transactions'
  BY <1>1, <1>6, TransactionsKept DEF Inv
<1>10. Ages'
  BY <1>1, <1>4, <1>5, <1>6, <1>7, AgesKept DEF Inv
<1>11. Locks'
  <2>1. \A x \in Executors : disp[x].batch \subseteq Jobs
    BY DEF Inv, Types, Dispatchers
  <2> QED
    BY <1>1, <1>6, <1>7, <2>1, LocksKept DEF Inv, Unlocked
<1>12. Slots'
  <2>1. disp[e].batch \in SUBSET Jobs /\ disp[e].part \in Partitions
    BY DEF Inv, Types, Dispatchers
  <2>2. /\ Cardinality(disp[e].batch) \in Nat /\ Cardinality(disp[e].batch \ {j}) \in Nat
        /\ Cardinality(disp[e].batch \ {j}) <= Cardinality(disp[e].batch)
    <3>1. IsFiniteSet(disp[e].batch) /\ disp[e].batch \ {j} \subseteq disp[e].batch
      BY <2>1, JobSets
    <3>2. Cardinality(disp[e].batch \ {j}) <= Cardinality(disp[e].batch)
      BY <3>1, FS_Subset
    <3> QED
      BY <2>1, <3>2, JobSets
  <2>3. WorkerConcurrency' = WorkerConcurrency /\ (WorkerConcurrency # Unlimited => WorkerConcurrency \in Nat)
    BY <1>1, FleetTypes DEF WorkerConcurrency, Inv
  <2>4. WorkerConcurrency # Unlimited =>
           running[e][disp[e].part] + Cardinality(disp[e].batch) <= WorkerConcurrency
    BY <1>1 DEF Inv, Slots, Holds
  <2>5. running[e][disp[e].part] \in Nat
    BY <2>1 DEF Inv, Types
  <2>6. WorkerConcurrency # Unlimited /\ disp'[e].pc = "claimed" =>
           running[e][disp'[e].part] + Cardinality(disp'[e].batch) <= WorkerConcurrency
    <3>1. WorkerConcurrency # Unlimited =>
             running[e][disp[e].part] + Cardinality(disp[e].batch \ {j}) <= WorkerConcurrency
      BY <2>2, <2>3, <2>4, <2>5
    <3> QED
      BY <1>6, <3>1
  <2>7. \A x \in Executors, p \in Partitions : Current(x, p)' = Current(x, p)
    BY <1>1 DEF Current
  <2> QED
    BY <1>1, <1>6, <2>3, <2>6, <2>7 DEF Inv, Slots
<1>13. Places'
  <2>1. ASSUME Place(j) PROVE Place(j)'
    <3>1. \A r \in runs' : r.job # j
      BY <1>1, <2>1 DEF Place
    <3>2. \A x \in Executors : ~Holds(x, j)'
      BY <1>1, <1>6, <2>1 DEF Place
    <3> QED
      BY <3>1, <3>2 DEF Place
  <2>2. ASSUME NEW i \in Jobs \ {j}, Place(i) PROVE Place(i)'
    BY <1>1, <1>6, <1>7, <2>2, PlaceKept
  <2>3. \A x \in Executors : Records(x)' = Records(x)
    BY <1>1 DEF Records
  <2> QED
    BY <1>1, <1>a, <1>4, <1>7, <2>1, <2>2, <2>3, PlacesKept DEF Inv
<1>14. Index'
  <2>1. ~is_terminal(row.status)
    BY <1>4, Statuses8 DEF is_terminal, SUCCESS, ERROR, CANCELLED, PARKED
  <2> QED
    BY <1>1, <1>a, <1>4, <1>7, <2>1, IndexKept DEF Inv
<1> QED
  BY <1>8, <1>9, <1>10, <1>11, <1>12, <1>13, <1>14 DEF Inv

LEMMA SpawnRunInv ==
    ASSUME Inv, NEW e \in Executors, NEW j \in Jobs, SpawnRun(e, j) PROVE Inv'
<1>p. PICK p \in Partitions : p = disp[e].part
  BY DEF Inv, Types, Dispatchers
<1>n. PICK new \in Run : new = NewRun(e, j, p) /\ new \notin runs
  BY FreshRun DEF Inv
<1>1. /\ Holds(e, j) /\ DoneWith(e, j) /\ runs' = runs \cup {new}
      /\ running' = [running EXCEPT ![e][p] = running[e][p] + 1]
      /\ UNCHANGED <<fleet, rows, cols, created, latest, clock, up, resuming, recovering, starts, asked, budget>>
  BY <1>p, <1>n DEF SpawnRun, Holds
<1>2. p \in Partitions
  OBVIOUS
<1>3. new \in Run /\ new \notin runs
  BY <1>n
<1>4. new.exec = e /\ new.job = j /\ new.part = p /\ new.current = TRUE
  BY <1>n DEF NewRun
<1>5. /\ disp' \in [Executors -> Dispatchers]
      /\ disp'[e].pc \in {"idle", "claimed"}
      /\ disp'[e].pc = "claimed" =>
            disp'[e].part = p /\ disp'[e].batch = disp[e].batch \ {j}
      /\ \A x \in Executors \ {e} : disp'[x] = disp[x]
      /\ \A x \in Executors, i \in Jobs : Holds(x, i)' <=> Holds(x, i) /\ (x # e \/ i # j)
  BY <1>1, <1>p, BatchShrinks DEF Inv
<1>6. running[e][p] \in Nat
  BY <1>2 DEF Inv, Types
<1>7. running' \in [Executors -> [Partitions -> Nat]] /\ running'[e][p] = running[e][p] + 1
      /\ \A x \in Executors, q \in Partitions : x # e \/ q # p => running'[x][q] = running[x][q]
  BY <1>1, <1>2, <1>6 DEF Inv, Types
<1>8. IsFiniteSet(runs')
  BY <1>1, FS_AddElement DEF Inv, Types
<1>9. Types'
  BY <1>1, <1>3, <1>5, <1>7, <1>8 DEF Inv, Types
<1>10. Transactions'
  BY <1>1, <1>5, TransactionsKept DEF Inv
<1>11. Ages'
  BY <1>1, <1>5, AgesKept DEF Inv
<1>12. Locks'
  <2>1. \A x \in Executors : disp[x].batch \subseteq Jobs
    BY DEF Inv, Types, Dispatchers
  <2> QED
    BY <1>1, <1>5, <2>1, LocksKept DEF Inv
<1>13. Slots'
  <2>1. Current(e, p)' = Current(e, p) \cup {new} /\ new \notin Current(e, p)
    BY <1>1, <1>3, <1>4 DEF Current
  <2>2. \A x \in Executors, q \in Partitions : x # e \/ q # p => Current(x, q)' = Current(x, q)
    BY <1>1, <1>4 DEF Current
  <2>3. IsFiniteSet(Current(e, p)) /\ Cardinality(Current(e, p)) \in Nat
    <3>1. Current(e, p) \subseteq runs /\ IsFiniteSet(runs)
      BY DEF Current, Inv, Types
    <3> QED
      BY <3>1, FS_Subset, FS_CardinalityType
  <2>4. Cardinality(Current(e, p)') = Cardinality(Current(e, p)) + 1
    BY <2>1, <2>3, FS_AddElement
  <2>5. Cardinality(Current(e, p)) <= running[e][p]
    BY <1>2 DEF Inv, Slots
  <2>6. \A x \in Executors, q \in Partitions : Cardinality(Current(x, q)') <= running'[x][q]
    <3>1. Cardinality(Current(e, p)') <= running'[e][p]
      BY <1>6, <1>7, <2>3, <2>4, <2>5
    <3>2. \A x \in Executors, q \in Partitions :
             x # e \/ q # p => Cardinality(Current(x, q)') <= running'[x][q]
      BY <1>7, <2>2 DEF Inv, Slots
    <3> QED
      BY <3>1, <3>2
  <2>7. WorkerConcurrency' = WorkerConcurrency /\ (WorkerConcurrency # Unlimited => WorkerConcurrency \in Nat)
    BY <1>1, FleetTypes DEF WorkerConcurrency, Inv
  <2>8. disp[e].batch \in SUBSET Jobs
    BY DEF Inv, Types, Dispatchers
  <2>9. /\ Cardinality(disp[e].batch) \in Nat /\ Cardinality(disp[e].batch \ {j}) \in Nat
        /\ Cardinality(disp[e].batch \ {j}) = Cardinality(disp[e].batch) - 1
    <3>1. IsFiniteSet(disp[e].batch) /\ Cardinality(disp[e].batch) \in Nat
      BY <2>8, JobSets
    <3>2. Cardinality(disp[e].batch \ {j}) = Cardinality(disp[e].batch) - 1
      BY <1>1, <3>1, FS_RemoveElement DEF Holds
    <3>3. disp[e].batch \ {j} \in SUBSET Jobs
      BY <2>8
    <3> QED
      BY <3>1, <3>2, <3>3, JobSets
  <2>10. WorkerConcurrency # Unlimited => running[e][p] + Cardinality(disp[e].batch) <= WorkerConcurrency
    BY <1>1, <1>p DEF Inv, Slots, Holds
  <2>11. WorkerConcurrency # Unlimited =>
            /\ running'[e][p] <= WorkerConcurrency
            /\ running'[e][p] + Cardinality(disp[e].batch \ {j}) <= WorkerConcurrency
    BY <1>6, <1>7, <2>7, <2>9, <2>10
  <2>12. WorkerConcurrency # Unlimited =>
            \A x \in Executors, q \in Partitions : running'[x][q] <= WorkerConcurrency
    BY <1>7, <2>11 DEF Inv, Slots
  <2>13. \A x \in Executors \ {e}, q \in Partitions : running'[x][q] = running[x][q]
    BY <1>7
  <2>14. \A x \in Executors : disp[x].part \in Partitions
    BY DEF Inv, Types, Dispatchers
  <2> QED
    <3>1. ASSUME NEW x \in Executors \ {e}, WorkerConcurrency # Unlimited
          PROVE  /\ disp'[x].pc \in {"tx", "locked"} =>
                       running'[x][disp'[x].part] + disp'[x].max <= WorkerConcurrency
                 /\ disp'[x].pc = "locked" => Cardinality(disp'[x].batch) <= disp'[x].max
                 /\ disp'[x].pc = "claimed" =>
                       running'[x][disp'[x].part] + Cardinality(disp'[x].batch) <= WorkerConcurrency
      <4>1. disp'[x] = disp[x] /\ running'[x][disp[x].part] = running[x][disp[x].part]
        BY <1>5, <2>13, <2>14
      <4> QED
        BY <3>1, <4>1 DEF Inv, Slots
    <3>2. WorkerConcurrency # Unlimited /\ disp'[e].pc = "claimed" =>
             running'[e][disp'[e].part] + Cardinality(disp'[e].batch) <= WorkerConcurrency
      BY <1>5, <2>11
    <3> QED
      BY <1>5, <2>6, <2>7, <2>12, <3>1, <3>2 DEF Slots
<1>14. Places'
  <2>1. ASSUME Place(j) PROVE Place(j)'
    <3>1. ~Claimable(rows[j]) /\ rows[j].exec = e /\ \A r \in runs : r.job # j
      BY <1>1, <2>1 DEF Place
    <3>2. \A x \in Executors : ~Holds(x, j)'
      BY <1>1, <1>5, <2>1 DEF Place
    <3>3. \A r \in runs' : r.job = j => r = new
      BY <1>1, <3>1
    <3>4. \A r, s \in runs' : r.job = j /\ s.job = j => r = s
      BY <3>3
    <3>5. \A r \in runs' : r.job = j => rows'[j].exec = r.exec
      BY <1>1, <1>4, <3>1, <3>3
    <3>6. ~Claimable(rows[j])'
      BY <1>1, <3>1
    <3> QED
      BY <3>2, <3>4, <3>5, <3>6 DEF Place
  <2>2. ASSUME NEW i \in Jobs \ {j}, Place(i) PROVE Place(i)'
    BY <1>1, <1>4, <1>5, <2>2 DEF Place
  <2>3. \A x \in Executors : Records(x)' = Records(x)
    BY <1>1 DEF Records
  <2> QED
    BY <1>1, <2>1, <2>2, <2>3, PlacesKept DEF Inv
<1>15. Index'
  BY <1>1 DEF Inv, Index
<1> QED
  BY <1>9, <1>10, <1>11, <1>12, <1>13, <1>14, <1>15 DEF Inv

(***************************************************************************)
(* Claims.                                                                 *)
(***************************************************************************)
\* A dispatcher moves on and nothing else does; its slots are the new state's business.
LEMMA SlotsMoved ==
    ASSUME Inv, NEW e \in Executors, NEW d \in Dispatchers, disp' = [disp EXCEPT ![e] = d],
           UNCHANGED <<fleet, running, runs>>,
           WorkerConcurrency # Unlimited =>
              /\ d.pc \in {"tx", "locked"} => running[e][d.part] + d.max <= WorkerConcurrency
              /\ d.pc = "locked" => Cardinality(d.batch) <= d.max
              /\ d.pc = "claimed" => running[e][d.part] + Cardinality(d.batch) <= WorkerConcurrency
    PROVE  Slots'
<1>1. disp'[e] = d /\ \A x \in Executors \ {e} : disp'[x] = disp[x]
  BY DEF Inv, Types
<1>2. WorkerConcurrency' = WorkerConcurrency
  BY DEF WorkerConcurrency
<1>3. \A x \in Executors, p \in Partitions : Current(x, p)' = Current(x, p)
  BY DEF Current
<1> QED
  BY <1>1, <1>2, <1>3 DEF Inv, Slots

LEMMA ClaimStep ==
    ASSUME Inv, NEW e \in Executors, NEW p \in Partitions, NEW ids \in SUBSET Jobs,
           NEW now \in Clock, NEW d \in Dispatchers,
           ClaimRows(e, p, ids, now),
           \A j \in ids : rows[j].status = ENQUEUED /\ rows[j].queue = Queue,
           \A x \in Executors \ {e} : disp[x].pc = "locked" => disp[x].batch \cap ids = {},
           disp' = [disp EXCEPT ![e] = d], d.pc = "claimed", d.batch = ids,
           WorkerConcurrency # Unlimited => running[e][d.part] + Cardinality(ids) <= WorkerConcurrency,
           UNCHANGED <<fleet, created, latest, clock, running, runs, up, resuming, recovering, asked, budget>>
    PROVE  Inv'
<1>1. /\ \A j \in ids : rows'[j] = claim(rows[j], e, FALSE)
                          /\ cols'[j] = [cols[j] EXCEPT !.ver = VersionOf[e], !.started = now]
      /\ \A j \in Jobs \ ids : rows'[j] = rows[j] /\ cols'[j] = cols[j]
  BY DEF ClaimRows
<1>f. rows' = [j \in Jobs |-> rows'[j]] /\ cols' = [j \in Jobs |-> cols'[j]]
  BY DEF ClaimRows
<1>2. \A j \in Jobs : rows[j] \in Rows /\ cols[j] \in Columns
  BY DEF Inv, Types
<1>3. \A j \in ids : /\ rows'[j] \in Rows /\ rows'[j].status = PENDING
                     /\ rows'[j].exec = e /\ rows'[j].queue = Queue
  <2> SUFFICES ASSUME NEW j \in ids
               PROVE  /\ rows'[j] \in Rows /\ rows'[j].status = PENDING
                      /\ rows'[j].exec = e /\ rows'[j].queue = Queue
    OBVIOUS
  <2>1. rows'[j] = claim(rows[j], e, FALSE) /\ rows[j] \in Rows /\ rows[j].queue = Queue
    BY <1>1, <1>2
  <2>2. /\ claim(rows[j], e, FALSE) \in Rows /\ claim(rows[j], e, FALSE).status = PENDING
        /\ claim(rows[j], e, FALSE).exec = e /\ claim(rows[j], e, FALSE).queue = rows[j].queue
    BY <2>1, ClaimRow
  <2> QED
    BY <2>1, <2>2, Zenon
<1>4. VersionOf[e] \in Versions
  BY FleetTypes DEF Inv
<1>5. \A j \in ids : cols'[j] \in Columns /\ cols'[j].at = cols[j].at /\ cols'[j].dedup = cols[j].dedup
  <2> SUFFICES ASSUME NEW j \in ids
               PROVE  /\ cols'[j] \in Columns /\ cols'[j].at = cols[j].at
                      /\ cols'[j].dedup = cols[j].dedup
    OBVIOUS
  <2>1. cols'[j] = [cols[j] EXCEPT !.ver = VersionOf[e], !.started = now] /\ cols[j] \in Columns
    BY <1>1, <1>2
  <2> QED
    BY <1>4, <2>1 DEF Columns
<1>6. rows' \in [Jobs -> Rows] /\ cols' \in [Jobs -> Columns]
  <2>1. \A j \in Jobs : rows'[j] \in Rows /\ cols'[j] \in Columns
    BY <1>1, <1>2, <1>3, <1>5
  <2> QED
    BY <1>f, <2>1
<1>7. starts' \in [Partitions -> [Clock -> Nat]]
  <2> DEFINE counts == [t \in Clock |-> IF now <= t /\ t < now + RatePeriod
                                          THEN starts[p][t] + Cardinality(ids)
                                          ELSE starts[p][t]]
  <2>1. Cardinality(ids) \in Nat /\ starts \in [Partitions -> [Clock -> Nat]]
    BY JobSets DEF Inv, Types
  <2>2. counts \in [Clock -> Nat]
    BY <2>1
  <2>3. starts' = starts \/ starts' = [starts EXCEPT ![p] = counts]
    BY DEF ClaimRows
  <2> HIDE DEF counts
  <2> QED
    BY <2>1, <2>2, <2>3
<1>8. disp'[e] = d /\ \A x \in Executors \ {e} : disp'[x] = disp[x]
  BY DEF Inv, Types
<1>9. Types'
  BY <1>6, <1>7 DEF Inv, Types
<1>10. Transactions'
  BY <1>8, TransactionsKept DEF Inv
<1>11. \A j \in Jobs : /\ rows'[j].status = ABSENT <=> rows[j].status = ABSENT
                       /\ cols'[j].at = cols[j].at /\ rows'[j].queue = rows[j].queue
                       /\ cols'[j].dedup = cols[j].dedup
                       /\ is_terminal(rows'[j].status) <=> is_terminal(rows[j].status)
  BY <1>1, <1>3, <1>5, Statuses8 DEF is_terminal, ERROR
<1>12. Ages'
  BY <1>8, <1>11, AgesKept DEF Inv
<1>13. Locks'
  <2>1. \A x \in Executors \ {e} : disp[x].pc = "locked" =>
           disp[x].batch \subseteq Jobs /\ disp[x].batch \cap ids = {}
    BY DEF Inv, Types, Dispatchers
  <2>2. \A x \in Executors \ {e} : disp[x].pc = "locked" =>
           \A j \in disp[x].batch : rows'[j] = rows[j]
    BY <1>1, <2>1
  <2>3. disp'[e].pc # "locked"
    BY <1>8
  <2> QED
    BY <1>8, <2>2, <2>3 DEF Inv, Locks
<1>14. Slots'
  BY SlotsMoved
<1>15. Places'
  <2>1. \A j \in Jobs : Holds(e, j)' <=> j \in ids
    BY <1>8 DEF Holds
  <2>2. \A x \in Executors \ {e}, j \in Jobs : Holds(x, j)' <=> Holds(x, j)
    BY <1>8 DEF Holds
  <2>3. ASSUME NEW j \in ids, Place(j) PROVE Place(j)'
    <3>1. (\A r \in runs : r.job # j) /\ (\A x \in Executors : ~Holds(x, j))
      BY <2>3 DEF Place, Claimable
    <3>2. (\A r \in runs' : r.job # j) /\ (\A x \in Executors : Holds(x, j)' => x = e)
      BY <2>2, <3>1
    <3>3. rows'[j].exec = e /\ rows'[j].status = PENDING
      BY <1>3
    <3>4. ~Claimable(rows[j])'
      BY <3>3, Statuses8 DEF Claimable
    <3> QED
      BY <3>2, <3>3, <3>4 DEF Place
  <2>4. ASSUME NEW j \in Jobs \ ids, Place(j) PROVE Place(j)'
    <3>1. \A x \in Executors : Holds(x, j)' => Holds(x, j)
      BY <2>1, <2>2
    <3> QED
      BY <1>1, <2>4, <3>1, PlaceKept
  <2> QED
    BY <1>11, <2>3, <2>4, PlacesKept DEF Inv, Records
<1>16. Index'
  BY <1>11, IndexKept DEF Inv
<1> QED
  BY <1>9, <1>10, <1>12, <1>13, <1>14, <1>15, <1>16 DEF Inv

\* What First takes of the candidates of a view without ties.
LEMMA Taken ==
    ASSUME NEW v \in View, NoTies(v), NEW e, NEW p, NEW n \in Nat,
           NEW S \in SUBSET Candidates(v, e, p)
    PROVE  /\ First(v.cols, S, n) \subseteq S /\ S \subseteq Jobs
           /\ Cardinality(First(v.cols, S, n)) <= n
           /\ \A j \in First(v.cols, S, n) : v.rows[j].status = ENQUEUED /\ v.rows[j].queue = Queue
<1>1. S \subseteq Jobs /\ \A j \in S : v.rows[j].status = ENQUEUED /\ v.rows[j].queue = Queue
  BY DEF Candidates, InPartition
<1>2. First(v.cols, S, n) \subseteq S
  BY DEF First
<1>3. v.cols \in [Jobs -> Columns]
  BY DEF View
<1>4. \A i, j \in S : v.cols[i].at = v.cols[j].at => i = j
  BY <1>1, Statuses8 DEF NoTies
<1> QED
  BY <1>1, <1>2, <1>3, <1>4, Limited

LEMMA NowIsView == ASSUME Types PROVE Now \in View
  BY DEF Types, Now, View

LEMMA DequeueSerialInv ==
    ASSUME Inv, NEW e \in Executors, NEW p \in Partitions, DequeueSerial(e, p) PROVE Inv'
<1> DEFINE max == MaxTasks(Now, e, p, LocalMax(e, p), clock)
           ids == First(cols, Candidates(Now, e, p), max)
           d == [IdleDispatcher EXCEPT !.pc = "claimed", !.part = p, !.batch = ids]
<1>1. /\ Serial /\ Polls(e, p) /\ ClaimRows(e, p, ids, clock)
      /\ disp' = [disp EXCEPT ![e] = d]
      /\ UNCHANGED <<fleet, created, latest, clock, running, runs, up, resuming, recovering, asked, budget>>
  BY DEF DequeueSerial
<1>2. max \in Nat /\ (WorkerConcurrency # Unlimited => running[e][p] + max <= WorkerConcurrency)
  BY <1>1, IterationFits DEF Inv, Polls
<1> HIDE DEF max
<1>3. Now \in View /\ NoTies(Now) /\ Now.cols = cols /\ Now.rows = rows
  BY NowIsView DEF Inv, Ages, Now
<1>4. /\ ids \in SUBSET Jobs /\ Cardinality(ids) <= max
      /\ \A j \in ids : rows[j].status = ENQUEUED /\ rows[j].queue = Queue
  <2> DEFINE S == Candidates(Now, e, p)
  <2>1. S \in SUBSET Candidates(Now, e, p)
    OBVIOUS
  <2> HIDE DEF S
  <2>2. /\ First(Now.cols, S, max) \subseteq S /\ S \subseteq Jobs
        /\ Cardinality(First(Now.cols, S, max)) <= max
        /\ \A j \in First(Now.cols, S, max) :
              Now.rows[j].status = ENQUEUED /\ Now.rows[j].queue = Queue
    BY <1>2, <1>3, <2>1, Taken
  <2> QED
    BY <1>3, <2>2 DEF S
<1>5. Cardinality(ids) \in Nat /\ running[e][p] \in Nat /\ clock \in Clock
  BY <1>4, JobSets DEF Inv, Types
<1>6. d \in Dispatchers /\ d.pc = "claimed" /\ d.part = p /\ d.batch = ids
  BY <1>4, RestingDispatcher DEF Dispatchers
<1>7. WorkerConcurrency # Unlimited => running[e][p] + Cardinality(ids) <= WorkerConcurrency
  BY <1>2, <1>4, <1>5, FleetTypes DEF Inv
<1>8. \A x \in Executors : disp[x].pc # "locked"
  BY <1>1 DEF Inv, Transactions
<1> HIDE DEF ids, d
<1> QED
  BY <1>1, <1>4, <1>5, <1>6, <1>7, <1>8, ClaimStep

LEMMA TxCommitInv == ASSUME Inv, NEW e \in Executors, TxCommit(e) PROVE Inv'
<1> DEFINE ids == {j \in disp[e].batch : rows[j].status = ENQUEUED}
           d == [disp[e] EXCEPT !.pc = "claimed", !.batch = ids]
<1>1. disp[e].pc = "locked" /\ disp[e] \in Dispatchers
  BY DEF TxCommit, Inv, Types
<1>2. /\ disp[e].batch \in SUBSET Jobs /\ disp[e].part \in Partitions
      /\ disp[e].max \in Nat /\ disp[e].now \in Clock
  BY <1>1 DEF Dispatchers
<1>3. ids = disp[e].batch
  BY <1>1 DEF Inv, Locks
<1>4. disp' = [disp EXCEPT ![e] = d]
  BY <1>1 DEF TxCommit, Inv, Types, Dispatchers
<1>5. /\ ClaimRows(e, disp[e].part, ids, disp[e].now)
      /\ UNCHANGED <<fleet, created, latest, clock, running, runs, up, resuming, recovering, asked, budget>>
  BY DEF TxCommit
<1>6. d \in Dispatchers /\ d.pc = "claimed" /\ d.part = disp[e].part /\ d.batch = ids
  BY <1>1, <1>2, <1>3 DEF Dispatchers
<1>7. WorkerConcurrency # Unlimited => running[e][disp[e].part] + Cardinality(ids) <= WorkerConcurrency
  <2>1. running[e][disp[e].part] \in Nat /\ Cardinality(ids) \in Nat
    BY <1>2, <1>3, JobSets DEF Inv, Types
  <2>2. WorkerConcurrency # Unlimited =>
           /\ WorkerConcurrency \in Nat /\ Cardinality(ids) <= disp[e].max
           /\ running[e][disp[e].part] + disp[e].max <= WorkerConcurrency
    BY <1>1, <1>3, FleetTypes DEF Inv, Slots
  <2> QED
    BY <1>2, <2>1, <2>2
<1>8. \A j \in ids : rows[j].status = ENQUEUED /\ rows[j].queue = Queue
  BY <1>1 DEF Inv, Locks
<1>9. \A x \in Executors \ {e} : disp[x].pc = "locked" => disp[x].batch \cap ids = {}
  BY <1>1, <1>3 DEF Inv, Locks
<1>10. ids \in SUBSET Jobs
  BY <1>2, <1>3
<1> HIDE DEF ids, d
<1> QED
  BY <1>2, <1>4, <1>5, <1>6, <1>7, <1>8, <1>9, <1>10, ClaimStep

\* A dispatcher takes its snapshot or its locks.
LEMMA TxStep ==
    ASSUME Inv, ~Serial, NEW e \in Executors, NEW d \in Dispatchers,
           disp' = [disp EXCEPT ![e] = d], d.pc \in {"tx", "locked"},
           d.pc = "tx" => d.snap \in View /\ NoTies(d.snap),
           d.pc = "locked" => \A j \in d.batch : /\ rows[j].status = ENQUEUED /\ rows[j].queue = Queue
                                                 /\ j \notin LockedByOthers(e),
           WorkerConcurrency # Unlimited =>
              /\ running[e][d.part] + d.max <= WorkerConcurrency
              /\ d.pc = "locked" => Cardinality(d.batch) <= d.max,
           UNCHANGED <<fleet, rows, cols, created, latest, clock, running, runs, up, resuming, recovering,
                       starts, asked, budget>>
    PROVE  Inv'
<1>1. disp'[e] = d /\ \A x \in Executors \ {e} : disp'[x] = disp[x]
  BY DEF Inv, Types
<1>2. Types'
  BY DEF Inv, Types
<1>3. Transactions'
  BY <1>1 DEF Inv, Transactions, Serial
<1>4. Ages'
  <2>1. \A x \in Executors : disp'[x].pc = "tx" => NoTies(disp'[x].snap)
    BY <1>1 DEF Inv, Ages
  <2>2. \A x \in Executors : (disp[x].pc = "tx" => NoTies(disp[x].snap))'
    BY <2>1 DEF NoTies
  <2>3. NoTies(Now)'
    BY DEF Inv, Ages, NoTies, Now
  <2> QED
    BY <2>2, <2>3 DEF Inv, Ages
<1>5. Locks'
  <2>1. \A x \in Executors \ {e} : disp[x].pc = "locked" /\ d.pc = "locked" => disp[x].batch \cap d.batch = {}
    BY DEF LockedByOthers
  <2> QED
    BY <1>1, <2>1 DEF Inv, Locks
<1>6. Slots'
  BY SlotsMoved
<1>7. Places'
  <2>1. \A x \in Executors, i \in Jobs : Holds(x, i)' => Holds(x, i)
    BY <1>1 DEF Holds
  <2>2. ASSUME NEW i \in Jobs, Place(i) PROVE Place(i)'
    BY <2>1, <2>2, PlaceKept
  <2> QED
    BY <2>2, PlacesKept DEF Inv, Records
<1>8. Index'
  BY DEF Inv, Index
<1> QED
  BY <1>2, <1>3, <1>4, <1>5, <1>6, <1>7, <1>8 DEF Inv

LEMMA TxCountInv ==
    ASSUME Inv, NEW e \in Executors, NEW p \in Partitions, TxCount(e, p) PROVE Inv'
<1> DEFINE max == MaxTasks(Now, e, p, LocalMax(e, p), clock)
           d == [pc |-> "tx", part |-> p, max |-> max, now |-> clock, batch |-> {}, snap |-> Now]
<1>1. /\ ~Serial /\ Polls(e, p) /\ disp' = [disp EXCEPT ![e] = d]
      /\ UNCHANGED <<fleet, rows, cols, created, latest, clock, running, runs, up, resuming, recovering,
                     starts, asked, budget>>
  BY DEF TxCount
<1>2. max \in Nat /\ (WorkerConcurrency # Unlimited => running[e][p] + max <= WorkerConcurrency)
  BY <1>1, IterationFits DEF Inv, Polls
<1>3. Now \in View /\ NoTies(Now) /\ clock \in Clock
  BY NowIsView DEF Inv, Ages, Types
<1> HIDE DEF max
<1>4. d \in Dispatchers
  BY <1>2, <1>3 DEF Dispatchers
<1>5. d.pc = "tx" /\ d.part = p /\ d.max = max /\ d.snap = Now
  OBVIOUS
<1> HIDE DEF d
<1> QED
  BY <1>1, <1>2, <1>3, <1>4, <1>5, TxStep

LEMMA TxLockInv == ASSUME Inv, NEW e \in Executors, TxLock(e) PROVE Inv'
<1>1. /\ disp[e].pc = "tx" /\ ~LockFails(e)
      /\ UNCHANGED <<fleet, rows, cols, created, latest, clock, running, runs, up, resuming, recovering,
                     starts, asked, budget>>
  BY DEF TxLock
<1>2. CASE Selected(e) = {}
  <2>1. disp' = [disp EXCEPT ![e] = IdleDispatcher] /\ budget' \in 0..MaxDisruptions
    BY <1>1, <1>2 DEF TxLock, Inv, Types
  <2>2. /\ recovering' \in [Executors -> Recovery]
        /\ \A x \in Executors : Records(x)' \subseteq Records(x)
    BY <1>1 DEF Inv, Types, Records
  <2> QED
    BY <1>1, <2>1, <2>2, RestingDispatcher, DispatcherStops
<1>3. CASE Selected(e) # {}
  <2> DEFINE v == IF Isolated THEN disp[e].snap ELSE Now
             all == Candidates(v, e, disp[e].part)
             free == IF GlobalConcurrency = Unlimited THEN all \ LockedByOthers(e) ELSE all
             d == [disp[e] EXCEPT !.pc = "locked", !.batch = Selected(e), !.snap = <<>>]
  <2>1. disp' = [disp EXCEPT ![e] = d]
    BY <1>3 DEF TxLock
  <2>2. disp[e] \in Dispatchers
    BY DEF Inv, Types
  <2>3. disp[e].max \in Nat /\ disp[e].part \in Partitions
    BY <2>2 DEF Dispatchers
  <2>4. v \in View /\ NoTies(v)
    BY <1>1, NowIsView DEF Inv, Ages, Transactions
  <2>5. Selected(e) = First(v.cols, free, disp[e].max)
    BY DEF Selected
  <2>6. free \in SUBSET all
    OBVIOUS
  <2>7. /\ Selected(e) \subseteq Jobs /\ Cardinality(Selected(e)) <= disp[e].max
        /\ \A j \in Selected(e) : v.rows[j].status = ENQUEUED /\ v.rows[j].queue = Queue
    <3> HIDE DEF v, free
    <3>1. /\ First(v.cols, free, disp[e].max) \subseteq free /\ free \subseteq Jobs
          /\ Cardinality(First(v.cols, free, disp[e].max)) <= disp[e].max
          /\ \A j \in First(v.cols, free, disp[e].max) :
                v.rows[j].status = ENQUEUED /\ v.rows[j].queue = Queue
      BY <2>3, <2>4, <2>6, Taken
    <3> QED
      BY <2>5, <3>1
  <2>8. \A j \in Selected(e) : j \notin LockedByOthers(e) /\ rows[j] = v.rows[j]
    BY <1>1 DEF LockFails, Now
  <2>9. /\ d.pc = "locked" /\ d.part = disp[e].part /\ d.max = disp[e].max /\ d.batch = Selected(e)
        /\ d \in Dispatchers
    BY <2>2, <2>7 DEF Dispatchers
  <2>10. ~Serial /\ (WorkerConcurrency # Unlimited => running[e][disp[e].part] + disp[e].max <= WorkerConcurrency)
    BY <1>1 DEF Inv, Transactions, Slots
  <2>11. \A j \in Selected(e) : /\ rows[j].status = ENQUEUED /\ rows[j].queue = Queue
                                /\ j \notin LockedByOthers(e)
    BY <2>7, <2>8
  <2> HIDE DEF d, v
  <2> QED
    BY <1>1, <2>1, <2>7, <2>9, <2>10, <2>11, TxStep
<1> QED
  BY <1>2, <1>3

(***************************************************************************)
(* The invariant holds.                                                    *)
(***************************************************************************)
LEMMA InvStep == Inv /\ [Next]_vars => Inv'
<1> SUFFICES ASSUME Inv, [Next]_vars PROVE Inv'
  OBVIOUS
<1>1. CASE Tick
  BY <1>1, TickInv
<1>2. CASE \E j \in Jobs, o \in fleet.orders, p \in Partitions : Enqueue(j, o, p)
  BY <1>2, EnqueueInv
<1>3. CASE \E j \in Jobs : ReleaseDelayed(j) \/ Cancel(j) \/ Resume(j) \/ ResumeEnqueues(j)
  BY <1>3, ReleaseDelayedInv, CancelInv, ResumeInv, ResumeEnqueuesInv
<1>4. CASE \E e \in Executors, p \in Partitions : DequeueSerial(e, p) \/ TxCount(e, p)
  BY <1>4, DequeueSerialInv, TxCountInv
<1>5. CASE \E e \in Executors : DispatcherStep(e)
  BY <1>5, TxLockInv, TxFailsInv, TxCommitInv, SpawnRunInv, ReleaseClaimInv DEF DispatcherStep
<1>6. CASE \E e \in Executors : Crash(e) \/ Shutdown(e) \/ Launch(e)
  BY <1>6, CrashInv, ShutdownInv, LaunchInv
<1>7. CASE \E r \in runs : RunCompletes(r) \/ RunPanics(r)
  BY <1>7, RunCompletesInv, RunPanicsInv
<1>8. CASE \E e \in Executors : Recover(e) \/ RecoveryStep(e)
  BY <1>8, RecoverInv, RecoveryCountsInv, RecoveryRequeuesInv DEF RecoveryStep
<1>9. CASE \E v \in Versions : SetLatest(v)
  BY <1>9, SetLatestInv
<1>10. CASE UNCHANGED vars
  <2>1. Types' /\ Transactions' /\ Locks'
    BY <1>10 DEF vars, Inv, Types, Transactions, Serial, Locks
  <2>2. Ages' /\ Slots'
    BY <1>10, AgesKept, SlotsKept DEF vars, Inv
  <2>3. Places' /\ Index'
    BY <1>10 DEF vars, Inv, Places, Place, Holds, Records, Index
  <2> QED
    BY <2>1, <2>2, <2>3 DEF Inv
<1> QED
  BY <1>1, <1>2, <1>3, <1>4, <1>5, <1>6, <1>7, <1>8, <1>9, <1>10 DEF Next

LEMMA InvHolds == Spec => []Inv
  BY InvInit, InvStep, PTL DEF Spec

(***************************************************************************)
(* What is claimed about the queue.                                        *)
(***************************************************************************)
\* The variables keep their types: no counter of a dispatcher goes below zero.
THEOREM TypeCorrect == Spec => []TypeOK
<1>1. Inv => TypeOK
  BY TypesImply DEF Inv
<1> QED
  BY <1>1, InvHolds, PTL

(***************************************************************************)
(* Whatever the backend and however many executors poll, crash and are     *)
(* launched again, a workflow that nobody put back on the queue while it   *)
(* was held has one run or is in one batch about to be spawned, of the     *)
(* executor its row names (dequeue_workflows, queue_dispatch_loop,         *)
(* dispatch_pending_workflows).                                            *)
(***************************************************************************)
THEOREM OneHolder == Spec => []ClaimedOnce
<1>1. Inv => ClaimedOnce
  <2> SUFFICES ASSUME Inv, NEW j \in Jobs, ~asked[j].doubled
               PROVE  LET holders == {r \in runs : r.job = j}
                          batches == {e \in Executors : Holds(e, j)}
                      IN  /\ Cardinality(holders) + Cardinality(batches) <= 1
                          /\ \A r \in holders : rows[j].exec = r.exec
                          /\ \A e \in batches : rows[j].exec = e
    BY DEF ClaimedOnce
  <2> DEFINE holders == {r \in runs : r.job = j}
             batches == {e \in Executors : Holds(e, j)}
  <2>1. Place(j)
    BY DEF Inv, Places
  <2>2. /\ \A r \in holders : rows[j].exec = r.exec
        /\ \A e \in batches : rows[j].exec = e
    BY <2>1 DEF Place, Holds
  <2>3. Cardinality({}) = 0 /\ \A x : Cardinality({x}) = 1
    BY FS_EmptySet, FS_Singleton
  <2> SUFFICES Cardinality(holders) + Cardinality(batches) <= 1
    BY <2>2
  <2>4. CASE holders = {} /\ batches = {}
    <3> HIDE DEF holders, batches
    <3> QED
      BY <2>3, <2>4
  <2>5. CASE holders # {}
    <3>1. PICK r \in runs : r.job = j
      BY <2>5
    <3>2. holders = {r} /\ batches = {}
      BY <2>1, <3>1 DEF Place, Holds
    <3> HIDE DEF holders, batches
    <3>3. Cardinality(holders) = 1 /\ Cardinality(batches) = 0
      BY <2>3, <3>2, Zenon
    <3> QED
      BY <3>3
  <2>6. CASE batches # {}
    <3>1. PICK e \in Executors : Holds(e, j)
      BY <2>6 DEF Holds
    <3>2. holders = {} /\ batches = {e}
      BY <2>1, <3>1 DEF Place, Holds
    <3> HIDE DEF holders, batches
    <3>3. Cardinality(holders) = 0 /\ Cardinality(batches) = 1
      BY <2>3, <3>2, Zenon
    <3> QED
      BY <3>3
  <2> QED
    BY <2>4, <2>5, <2>6
<1> QED
  BY <1>1, InvHolds, PTL

(***************************************************************************)
(* No two workflows of the queue that are not terminal, and that were not  *)
(* brought back after they gave it up, were enqueued under one             *)
(* deduplication id (the unique index, and which statements clear the      *)
(* column).                                                                *)
(***************************************************************************)
THEOREM OnePerDedupId == Spec => []DedupExclusive
<1>1. Inv => DedupExclusive
  BY DEF Inv, Index, DedupExclusive
<1> QED
  BY <1>1, InvHolds, PTL

(***************************************************************************)
(* One launch of an executor never has more runs going in a partition than *)
(* worker_concurrency, on every backend and with every disruption: the     *)
(* slots read before the claim are still there when the batch is spawned.  *)
(***************************************************************************)
THEOREM WorkerLimit == Spec => []WorkerHolds
<1>1. Inv => WorkerHolds
  <2> SUFFICES ASSUME Inv, WorkerConcurrency # Unlimited, NEW e \in Executors, NEW p \in Partitions
               PROVE  Cardinality(Current(e, p)) <= WorkerConcurrency
    BY DEF WorkerHolds, Current
  <2>1. /\ Cardinality(Current(e, p)) <= running[e][p] /\ running[e][p] <= WorkerConcurrency
    BY DEF Inv, Slots
  <2>2. running[e][p] \in Nat /\ WorkerConcurrency \in Nat
    BY FleetTypes DEF Inv, Types
  <2>3. Cardinality(Current(e, p)) \in Nat
    <3>1. Current(e, p) \subseteq runs /\ IsFiniteSet(runs)
      BY DEF Current, Inv, Types
    <3> QED
      BY <3>1, FS_Subset, FS_CardinalityType
  <2> QED
    BY <2>1, <2>2, <2>3
<1> QED
  BY <1>1, InvHolds, PTL

(***************************************************************************)
(* Where transactions are serialised: what a row that is PENDING after a   *)
(* step was before it.                                                     *)
(***************************************************************************)
StillPending(j) ==
    /\ rows[j].status = PENDING
    /\ rows'[j].queue = rows[j].queue
    /\ cols'[j].part = cols[j].part

LEMMA OneRowWritten ==
    ASSUME Inv, NEW k \in Jobs, NEW row \in Rows, rows' = [rows EXCEPT ![k] = row],
           row.status = PENDING => row = rows[k],
           \A i \in Jobs : i # k => cols'[i] = cols[i], row = rows[k] => cols'[k] = cols[k],
           NEW j \in Jobs, rows'[j].status = PENDING
    PROVE  StillPending(j)
<1>1. rows'[k] = row /\ \A i \in Jobs : i # k => rows'[i] = rows[i]
  BY DEF Inv, Types
<1> QED
  BY <1>1 DEF StillPending

LEMMA BecomesPending ==
    ASSUME Inv, Next, Serial, NEW j \in Jobs, rows'[j].status = PENDING
    PROVE  \/ StillPending(j)
           \/ Resume(j)
           \/ \E e \in Executors, p \in Partitions : DequeueSerial(e, p)
<1>t. /\ \A k \in Jobs : rows[k] \in Rows /\ cols[k] \in Columns
      /\ rows \in [Jobs -> Rows] /\ cols \in [Jobs -> Columns]
  BY DEF Inv, Types
<1>s. ENQUEUED \in Statuses /\ SUCCESS \in Statuses
  BY Statuses8
<1>1. CASE UNCHANGED <<rows, cols>>
  BY <1>1 DEF StillPending
<1>2. ASSUME NEW k \in Jobs, NEW o \in fleet.orders, NEW p \in Partitions, Enqueue(k, o, p)
      PROVE  StillPending(j)
  <2>1. o \in Orders
    BY FleetTypes DEF Inv
  <2>2. /\ QueuedRow(Queue, o.delayed) \in Rows
        /\ QueuedRow(Queue, o.delayed).status \in {ENQUEUED, DELAYED}
    BY <2>1, NewRow DEF Orders
  <2>3. rows' = [rows EXCEPT ![k] = QueuedRow(Queue, o.delayed)] /\ rows[k].status = ABSENT
    BY <1>2 DEF Enqueue, insert_workflow_status
  <2>4. \A i \in Jobs : i # k => cols'[i] = cols[i]
    BY <1>2, <1>t DEF Enqueue
  <2>5. QueuedRow(Queue, o.delayed).status # PENDING /\ QueuedRow(Queue, o.delayed) # rows[k]
    BY <2>2, <2>3, Statuses8
  <2> QED
    BY <2>2, <2>3, <2>4, <2>5, OneRowWritten
<1>3. ASSUME NEW k \in Jobs, ReleaseDelayed(k) PROVE StillPending(j)
  <2>1. /\ rows[k].status = DELAYED /\ rows' = [rows EXCEPT ![k] = transition_delayed(rows[k])]
        /\ cols' = cols
    BY <1>3 DEF ReleaseDelayed
  <2>2. transition_delayed(rows[k]) \in Rows /\ transition_delayed(rows[k]).status = ENQUEUED
    BY <1>t, <2>1, ReleaseRow
  <2> QED
    BY <2>1, <2>2, Statuses8, OneRowWritten
<1>4. ASSUME NEW k \in Jobs, Cancel(k) PROVE StillPending(j)
  <2>1. /\ cancel_workflow(rows[k]) # rows[k] /\ rows' = [rows EXCEPT ![k] = cancel_workflow(rows[k])]
        /\ \A i \in Jobs : i # k => cols'[i] = cols[i]
    BY <1>4, <1>t DEF Cancel
  <2>2. cancel_workflow(rows[k]) \in Rows /\ cancel_workflow(rows[k]).status = CANCELLED
    BY <1>t, <2>1, CancelRow
  <2> QED
    BY <2>1, <2>2, Statuses8, OneRowWritten
<1>5. ASSUME NEW k \in Jobs, Resume(k) PROVE StillPending(j) \/ Resume(j)
  <2>1. /\ \A i \in Jobs : i # k => rows'[i] = rows[i] /\ cols'[i] = cols[i]
    BY <1>5, <1>t DEF Resume
  <2> QED
    BY <1>5, <2>1 DEF StillPending
<1>6. ASSUME NEW k \in Jobs, ResumeEnqueues(k) PROVE StillPending(j)
  <2>1. /\ rows' = [rows EXCEPT ![k] = enqueue_existing(rows[k], Queue)]
        /\ \A i \in Jobs : i # k => cols'[i] = cols[i]
    BY <1>6, <1>t DEF ResumeEnqueues
  <2>2. enqueue_existing(rows[k], Queue) \in Rows /\ enqueue_existing(rows[k], Queue).status = ENQUEUED
    BY <1>t, EnqueueRow
  <2>3. rows'[k].status # PENDING /\ \A i \in Jobs : i # k => rows'[i] = rows[i]
    BY <1>t, <2>1, <2>2, Statuses8
  <2> QED
    BY <2>1, <2>3 DEF StillPending
<1>7. ASSUME NEW e \in Executors, TxCommit(e) PROVE FALSE
  BY <1>7 DEF TxCommit, Inv, Transactions
<1>8. ASSUME NEW e \in Executors, NEW k \in Jobs, ReleaseClaim(e, k) PROVE StillPending(j)
  <2>1. rows' = [rows EXCEPT ![k] = set_workflow_status(rows[k], ENQUEUED, NoOutput)] /\ cols' = cols
    BY <1>8 DEF ReleaseClaim
  <2>2. ~CompletionBlocked(rows[k], ENQUEUED)
    BY Statuses8 DEF CompletionBlocked, is_completion, ERROR
  <2>3. /\ set_workflow_status(rows[k], ENQUEUED, NoOutput) \in Rows
        /\ set_workflow_status(rows[k], ENQUEUED, NoOutput).status = ENQUEUED
    BY <1>t, <1>s, <2>2, StatusRow
  <2> QED
    BY <2>1, <2>3, Statuses8, OneRowWritten
<1>9. ASSUME NEW r \in runs, RunCompletes(r) PROVE StillPending(j)
  <2>1. PICK k \in Jobs : k = r.job
    BY DEF Inv, Types, Run
  <2> DEFINE row == set_workflow_status(rows[k], SUCCESS, NoOutput)
  <2>2. rows' = [rows EXCEPT ![k] = row]
    BY <1>9, <2>1 DEF RunCompletes
  <2>3. /\ row \in Rows
        /\ row.status = IF CompletionBlocked(rows[k], SUCCESS) THEN rows[k].status ELSE SUCCESS
    BY <1>t, <1>s, StatusRow
  <2>4. row.status # PENDING
    BY <2>3, Statuses8 DEF CompletionBlocked
  <2>5. \A i \in Jobs : i # k => cols'[i] = cols[i]
    BY <1>9, <1>t, <2>1 DEF RunCompletes
  <2>6. rows'[k].status # PENDING /\ \A i \in Jobs : i # k => rows'[i] = rows[i]
    BY <1>t, <2>2, <2>3, <2>4
  <2> QED
    BY <2>5, <2>6 DEF StillPending
<1>10. ASSUME NEW e \in Executors, NEW k \in Jobs, RecoveryCounts(e, k) PROVE StillPending(j)
  <2> DEFINE row == bump_recovery_attempts(rows[k], MaxRecoveryAttempts)
  <2>1. /\ row \in Rows /\ row.queue = rows[k].queue
        /\ row.status = rows[k].status \/ row.status = PARKED
    BY <1>t, BumpRow
  <2>2. rows' = [rows EXCEPT ![k] = row]
    BY <1>10 DEF RecoveryCounts
  <2>3. \A i \in Jobs : cols'[i].part = cols[i].part
    BY <1>10, <1>t DEF RecoveryCounts, Columns
  <2> HIDE DEF row
  <2>4. rows'[k] = row /\ \A i \in Jobs : i # k => rows'[i] = rows[i]
    BY <1>t, <2>2
  <2> QED
    BY <2>1, <2>3, <2>4, Statuses8 DEF StillPending
<1>r. ASSUME NEW e \in Executors, NEW k \in Jobs, RecoveryRequeues(e, k) PROVE StillPending(j)
  <2>1. rows' = [rows EXCEPT ![k] = set_workflow_status(rows[k], ENQUEUED, NoOutput)] /\ cols' = cols
    BY <1>r DEF RecoveryRequeues
  <2>2. ~CompletionBlocked(rows[k], ENQUEUED)
    BY Statuses8 DEF CompletionBlocked, is_completion, ERROR
  <2>3. /\ set_workflow_status(rows[k], ENQUEUED, NoOutput) \in Rows
        /\ set_workflow_status(rows[k], ENQUEUED, NoOutput).status = ENQUEUED
    BY <1>t, <1>s, <2>2, StatusRow
  <2> QED
    BY <2>1, <2>3, Statuses8, OneRowWritten
<1>11. CASE \E e \in Executors : DispatcherStep(e)
  <2>1. PICK e \in Executors : DispatcherStep(e)
    BY <1>11
  <2>2. CASE TxLock(e) \/ TxFails(e) \/ TxCommit(e)
    BY <1>1, <1>7, <2>2 DEF TxLock, TxFails
  <2>3. ASSUME NEW k \in Jobs, SpawnRun(e, k) PROVE UNCHANGED <<rows, cols>>
    BY <2>3 DEF SpawnRun
  <2> QED
    BY <1>1, <1>8, <2>1, <2>2, <2>3 DEF DispatcherStep
<1>12. CASE \E e \in Executors : Crash(e) \/ Shutdown(e) \/ Launch(e)
  BY <1>1, <1>12 DEF Crash, Shutdown, Launch
<1>13. CASE \E r \in runs : RunPanics(r)
  BY <1>1, <1>13 DEF RunPanics
<1>14. CASE Tick \/ \E v \in Versions : SetLatest(v)
  BY <1>1, <1>14 DEF Tick, SetLatest
<1>15. CASE \E e \in Executors, p \in Partitions : TxCount(e, p)
  BY <1>1, <1>15 DEF TxCount
<1>16. CASE \E e \in Executors : Recover(e) \/ RecoveryStep(e)
  BY <1>1, <1>10, <1>r, <1>16 DEF Recover, RecoveryStep
<1> QED
  BY <1>2, <1>3, <1>4, <1>5, <1>6, <1>9, <1>11, <1>12, <1>13, <1>14, <1>15, <1>16 DEF Next

\* The rows a serialised transaction claims, and what they were.
LEMMA SerialClaim ==
    ASSUME Inv, NEW e \in Executors, NEW p \in Partitions, DequeueSerial(e, p)
    PROVE  LET max == MaxTasks(Now, e, p, LocalMax(e, p), clock)
               ids == First(cols, Candidates(Now, e, p), max)
           IN  /\ max \in Nat /\ max > 0 /\ ids \in SUBSET Jobs /\ Cardinality(ids) <= max
               /\ \A j \in ids : /\ rows[j].status = ENQUEUED /\ cols[j].part = p
                                  /\ rows'[j].status = PENDING /\ rows'[j].exec = e
                                  /\ cols'[j].part = p
               /\ \A j \in Jobs \ ids : rows'[j] = rows[j] /\ cols'[j] = cols[j]
               /\ GlobalConcurrency # Unlimited =>
                     Cardinality(PendingIn(Now, p)) + max <= GlobalConcurrency
               /\ RateLimit # Unlimited =>
                     Cardinality(RecentStarts(Now, p, clock)) + max <= RateLimit
<1> DEFINE max == MaxTasks(Now, e, p, LocalMax(e, p), clock)
           S == Candidates(Now, e, p)
           ids == First(cols, S, max)
<1>1. Polls(e, p) /\ ids # {} /\ ClaimRows(e, p, ids, clock)
  BY DEF DequeueSerial
<1>2. LocalMax(e, p) \in Nat
  BY LocalMaxBounds DEF Inv
<1>3. /\ max \in Nat
      /\ GlobalConcurrency # Unlimited /\ max > 0 => Cardinality(PendingIn(Now, p)) + max <= GlobalConcurrency
      /\ RateLimit # Unlimited /\ max > 0 => Cardinality(RecentStarts(Now, p, clock)) + max <= RateLimit
  BY <1>2, MaxTasksBounds DEF Inv
<1> HIDE DEF max
<1>4. Now \in View /\ NoTies(Now) /\ Now.cols = cols /\ Now.rows = rows
  BY NowIsView DEF Inv, Ages, Now
<1>5. /\ \A j \in S : j \in Jobs /\ rows[j].status = ENQUEUED /\ cols[j].part = p
      /\ S \in SUBSET Candidates(Now, e, p)
  BY <1>4 DEF Candidates, InPartition
<1> HIDE DEF S
<1>6. ids \subseteq S /\ Cardinality(ids) <= max
  BY <1>3, <1>4, <1>5, Taken
<1>7. ids \in SUBSET Jobs
  BY <1>5, <1>6
<1>8. max > 0
  <2>1. PICK j \in ids : TRUE
    BY <1>1
  <2>2. IsFiniteSet(ids) /\ Cardinality(ids) \in Nat
    BY <1>7, JobSets
  <2>3. Cardinality(ids) # 0
    BY <2>1, <2>2, FS_EmptySet
  <2> HIDE DEF ids
  <2> QED
    BY <1>3, <1>6, <2>2, <2>3
<1> HIDE DEF ids
<1>9. /\ \A j \in ids : rows'[j] = claim(rows[j], e, FALSE)
                          /\ cols'[j] = [cols[j] EXCEPT !.ver = VersionOf[e], !.started = clock]
      /\ \A j \in Jobs \ ids : rows'[j] = rows[j] /\ cols'[j] = cols[j]
  BY <1>1, <1>7 DEF ClaimRows
<1>10. \A j \in ids : rows'[j].status = PENDING /\ rows'[j].exec = e /\ cols'[j].part = p
  <2> SUFFICES ASSUME NEW j \in ids
               PROVE  rows'[j].status = PENDING /\ rows'[j].exec = e /\ cols'[j].part = p
    OBVIOUS
  <2>1. rows[j] \in Rows /\ cols[j] \in Columns /\ cols[j].part = p
    BY <1>5, <1>6, <1>7 DEF Inv, Types
  <2>2. claim(rows[j], e, FALSE).status = PENDING /\ claim(rows[j], e, FALSE).exec = e
    BY <2>1, ClaimRow
  <2>3. [cols[j] EXCEPT !.ver = VersionOf[e], !.started = clock].part = p
    BY <2>1 DEF Columns
  <2> QED
    BY <1>9, <2>2, <2>3, Zenon
<1> QED
  BY <1>3, <1>5, <1>6, <1>7, <1>8, <1>9, <1>10 DEF max, ids, S

(***************************************************************************)
(* Where transactions are serialised, a claim never passes over a row of   *)
(* smaller priority, or of the same priority and older, that the same      *)
(* executor could have taken (ORDER BY ... LIMIT, and the version gate).   *)
(***************************************************************************)
THEOREM ClaimOrder == Spec => InOrder
<1>1. ASSUME Inv, Next, Serial, NEW e \in Executors, NEW i \in Jobs, NEW j \in Jobs,
             ClaimedBy(e, j), PassedOver(e, i, j)
      PROVE  ~Before(cols, i, j)
  <2>1. rows[j].status = ENQUEUED /\ rows'[j].status = PENDING /\ rows'[j].exec = e /\ j \notin resuming'
    BY <1>1 DEF ClaimedBy
  <2>2. ~StillPending(j) /\ ~Resume(j)
    BY <2>1, Statuses8 DEF StillPending, Resume
  <2>3. PICK x \in Executors, p \in Partitions : DequeueSerial(x, p)
    BY <1>1, <2>1, <2>2, BecomesPending
  <2> DEFINE max == MaxTasks(Now, x, p, LocalMax(x, p), clock)
             S == Candidates(Now, x, p)
             ids == First(cols, S, max)
  <2>4. /\ max \in Nat
        /\ \A k \in ids : /\ cols[k].part = p /\ rows'[k].status = PENDING /\ rows'[k].exec = x
        /\ \A k \in Jobs \ ids : rows'[k] = rows[k]
    BY <1>1, <2>3, SerialClaim
  <2> HIDE DEF max
  <2>5. j \in ids
    BY <2>1, <2>4, Statuses8
  <2>6. x = e /\ cols[j].part = p
    BY <2>1, <2>4, <2>5
  <2>7. i \in S /\ rows'[i].status = ENQUEUED
    BY <1>1, <2>6 DEF PassedOver
  <2>8. i \notin ids
    BY <2>4, <2>7, Statuses8
  <2>9. SUFFICES ASSUME Before(cols, i, j) PROVE FALSE
    OBVIOUS
  <2> DEFINE P(k) == {l \in S : Before(cols, l, k)}
  <2>10. j \in S /\ Cardinality(P(j)) < max
    BY <2>5 DEF First
  <2>11. S \in SUBSET Jobs /\ cols \in [Jobs -> Columns]
    BY <1>1 DEF Candidates, InPartition, Inv, Types
  <2> HIDE DEF S
  <2>12. Cardinality(P(i)) < Cardinality(P(j))
    BY <2>7, <2>9, <2>10, <2>11, Ranks
  <2>13. Cardinality(P(i)) \in Nat /\ Cardinality(P(j)) \in Nat
    <3>1. P(i) \in SUBSET Jobs /\ P(j) \in SUBSET Jobs
      BY <2>11
    <3> QED
      BY <3>1, JobSets
  <2>14. Cardinality(P(i)) < max
    BY <2>4, <2>10, <2>12, <2>13
  <2> QED
    BY <2>7, <2>8, <2>14 DEF First
<1>2. ASSUME UNCHANGED vars, NEW e \in Executors, NEW j \in Jobs PROVE ~ClaimedBy(e, j)
  BY <1>2, Statuses8 DEF vars, ClaimedBy
<1>3. Inv /\ [Next]_vars =>
         [Serial => \A e \in Executors, i, j \in Jobs :
             ClaimedBy(e, j) /\ PassedOver(e, i, j) => ~Before(cols, i, j)]_vars
  BY <1>1, <1>2
<1> QED
  BY <1>3, InvHolds, PTL DEF Spec, InOrder

\* The PENDING rows of a partition, in the deployments where nobody resumes a workflow: a
\* resume makes a row PENDING without a look at the limit.
GlobalUnresumed ==
    Serial /\ "resume" \notin fleet.disruptions /\ GlobalConcurrency # Unlimited =>
        \A p \in Partitions : Cardinality(PendingIn(Now, p)) <= GlobalConcurrency

LEMMA FleetKept == [Next]_vars => fleet' = fleet
  BY DEF Next, vars, Tick, Enqueue, ReleaseDelayed, Cancel, Resume, ResumeEnqueues, DequeueSerial,
         TxCount, DispatcherStep, TxLock, TxFails, TxCommit, SpawnRun, ReleaseClaim, Crash, Shutdown,
         Launch, RunCompletes, RunPanics, Recover, RecoveryStep, RecoveryCounts, RecoveryRequeues,
         SetLatest

LEMMA GlobalStep == Inv /\ GlobalUnresumed /\ [Next]_vars => GlobalUnresumed'
<1> SUFFICES ASSUME Inv, GlobalUnresumed, [Next]_vars,
                    Serial', "resume" \notin fleet'.disruptions, GlobalConcurrency' # Unlimited,
                    NEW p \in Partitions
             PROVE  Cardinality(PendingIn(Now, p)') <= GlobalConcurrency'
  BY DEF GlobalUnresumed
<1>1. fleet' = fleet
  BY FleetKept
<1>2. /\ Serial /\ GlobalConcurrency' = GlobalConcurrency /\ GlobalConcurrency # Unlimited
      /\ GlobalConcurrency \in Nat
  BY <1>1, FleetTypes DEF Serial, GlobalConcurrency, Inv
<1>3. \A j \in Jobs : ~Resume(j)
  BY <1>1 DEF Resume, Disrupt
<1>4. Cardinality(PendingIn(Now, p)) <= GlobalConcurrency
  BY <1>1, <1>2 DEF GlobalUnresumed
<1> DEFINE before == PendingIn(Now, p)
           after == PendingIn(Now, p)'
<1>5. /\ before = {j \in Jobs : rows[j].queue = Queue /\ cols[j].part = p /\ rows[j].status = PENDING}
      /\ after = {j \in Jobs : rows'[j].queue = Queue /\ cols'[j].part = p /\ rows'[j].status = PENDING}
  BY DEF PendingIn, InPartition, Now
<1>6. IsFiniteSet(before) /\ Cardinality(before) \in Nat /\ IsFiniteSet(after) /\ Cardinality(after) \in Nat
  <2>1. before \in SUBSET Jobs /\ after \in SUBSET Jobs
    BY <1>5
  <2> QED
    BY <2>1, JobSets
<1>7. CASE after \subseteq before
  <2> HIDE DEF before, after
  <2>1. Cardinality(after) <= Cardinality(before)
    BY <1>6, <1>7, FS_Subset
  <2>2. Cardinality(before) <= GlobalConcurrency
    BY <1>4 DEF before
  <2> QED
    BY <1>2, <1>6, <2>1, <2>2 DEF after
<1>8. CASE UNCHANGED vars
  BY <1>5, <1>7, <1>8 DEF vars
<1>9. CASE Next /\ ~\E e \in Executors, q \in Partitions : DequeueSerial(e, q)
  <2>1. \A j \in after : StillPending(j)
    BY <1>2, <1>3, <1>5, <1>9, BecomesPending
  <2>2. after \subseteq before
    BY <1>5, <2>1 DEF StillPending
  <2> QED
    BY <1>7, <2>2
<1>10. ASSUME NEW e \in Executors, NEW q \in Partitions, DequeueSerial(e, q)
       PROVE  Cardinality(PendingIn(Now, p)') <= GlobalConcurrency'
  <2> DEFINE max == MaxTasks(Now, e, q, LocalMax(e, q), clock)
             ids == First(cols, Candidates(Now, e, q), max)
  <2>1. /\ max \in Nat /\ ids \in SUBSET Jobs /\ Cardinality(ids) <= max
        /\ \A j \in ids : cols'[j].part = q
        /\ \A j \in Jobs \ ids : rows'[j] = rows[j] /\ cols'[j] = cols[j]
        /\ Cardinality(PendingIn(Now, q)) + max <= GlobalConcurrency
    BY <1>2, <1>10, SerialClaim
  <2> HIDE DEF max, ids
  <2>2. CASE p # q
    <3>1. after \subseteq before
      BY <1>5, <2>1, <2>2
    <3> QED
      BY <1>7, <3>1
  <2>3. CASE p = q
    <3>1. after \subseteq before \cup ids
      BY <1>5, <2>1
    <3>2. IsFiniteSet(ids) /\ Cardinality(ids) \in Nat
      BY <2>1, JobSets
    <3> HIDE DEF before, after
    <3>3. /\ IsFiniteSet(before \cup ids)
          /\ Cardinality(before \cup ids) = Cardinality(before) + Cardinality(ids) - Cardinality(before \cap ids)
      BY <1>6, <3>2, FS_Union
    <3>4. IsFiniteSet(before \cap ids) /\ Cardinality(before \cap ids) \in Nat
      <4>1. before \cap ids \subseteq ids
        OBVIOUS
      <4> QED
        BY <3>2, <4>1, FS_Subset, FS_CardinalityType
    <3>5. Cardinality(after) <= Cardinality(before \cup ids) /\ Cardinality(before \cup ids) \in Nat
      BY <3>1, <3>3, FS_Subset, FS_CardinalityType
    <3>6. Cardinality(before) + max <= GlobalConcurrency
      BY <2>1, <2>3 DEF before
    <3>7. Cardinality(after) <= GlobalConcurrency
      BY <1>2, <1>6, <2>1, <3>2, <3>3, <3>4, <3>5, <3>6
    <3> QED
      BY <1>2, <3>7 DEF after
  <2> QED
    BY <2>2, <2>3
<1> QED
  BY <1>8, <1>9, <1>10

(***************************************************************************)
(* Where transactions are serialised and nothing is resumed, the PENDING   *)
(* rows of a partition stay within the queue's global concurrency          *)
(* (dequeue_workflows: the count and the claim are one transaction).       *)
(***************************************************************************)
THEOREM GlobalLimit == Spec => [](("resume" \notin fleet.disruptions) => GlobalHolds)
<1>1. Init => GlobalUnresumed
  <2> SUFFICES ASSUME Init, GlobalConcurrency # Unlimited, NEW p \in Partitions
               PROVE  Cardinality(PendingIn(Now, p)) <= GlobalConcurrency
    BY DEF GlobalUnresumed
  <2>1. PendingIn(Now, p) = {}
    BY EmptyRow, Statuses8 DEF Init, PendingIn, InPartition, Now
  <2>2. GlobalConcurrency \in Nat
    BY InvInit, FleetTypes DEF Inv
  <2>3. Cardinality(PendingIn(Now, p)) = 0
    BY <2>1, FS_EmptySet
  <2> QED
    BY <2>2, <2>3
<1>2. GlobalUnresumed => (("resume" \notin fleet.disruptions) => GlobalHolds)
  BY DEF GlobalUnresumed, GlobalHolds
<1> QED
  BY <1>1, <1>2, GlobalStep, InvHolds, PTL DEF Spec

(***************************************************************************)
(* The rate limit.  The code counts the starts of a period from            *)
(* started_at_epoch_ms, which a cancel or a resume clears and a second     *)
(* claim overwrites; in an undisturbed fleet no row has either.            *)
(***************************************************************************)
\* Nothing is brought back, and no dispatcher has to be launched again.
Attends ==
    /\ resuming = {}
    /\ \A e \in Executors : disp[e].pc # "off" /\ recovering[e] = NoRecovery
    /\ \A j \in Jobs : ~asked[j].doubled

Attended == Serial /\ Undisturbed(fleet) => Attends

\* The row of a workflow of partition p that started in the period that ends with t.
Counts(row, col, p, t) ==
    /\ row.queue = Queue /\ col.part = p
    /\ row.status \notin {ENQUEUED, DELAYED}
    /\ col.started # NoTime /\ col.started <= t /\ t < col.started + RatePeriod

Started(p, t) == {j \in Jobs : Counts(rows[j], cols[j], p, t)}

\* The starts are those the rows tell of, and are within the limit.
Rated ==
    Serial /\ Undisturbed(fleet) /\ RateLimit # Unlimited =>
        \A p \in Partitions, t \in Clock :
            /\ starts[p][t] <= Cardinality(Started(p, t))
            /\ Cardinality(Started(p, t)) <= RateLimit

\* What an undisturbed fleet never does.
LEMMA NeverDisturbed ==
    ASSUME Inv, Attended, Serial, Undisturbed(fleet)
    PROVE  /\ \A j \in Jobs : ~Cancel(j) /\ ~Resume(j) /\ ~ResumeEnqueues(j)
           /\ \A e \in Executors, j \in Jobs : ~ReleaseClaim(e, j)
           /\ \A e \in Executors : ~Crash(e) /\ ~Shutdown(e) /\ ~Launch(e)
           /\ \A e \in Executors : ~Recover(e) /\ ~RecoveryStep(e)
           /\ \A e \in Executors : ~TxLock(e) /\ ~TxFails(e) /\ ~TxCommit(e)
           /\ \A r \in runs : ~RunPanics(r)
<1>1. \A kind : Disrupt(kind) => kind = "version"
  BY DEF Disrupt, Undisturbed
<1>2. \A j \in Jobs : ~Cancel(j) /\ ~Resume(j) /\ ~ResumeEnqueues(j)
  BY <1>1 DEF Cancel, Resume, ResumeEnqueues, Attended, Attends
<1>3. \A e \in Executors, j \in Jobs : ~ReleaseClaim(e, j)
  BY DEF ReleaseClaim, Undisturbed, Handles
<1>4. \A e \in Executors : ~Recover(e) /\ ~RecoveryStep(e)
  <2>1. \A e \in Executors : ~Recover(e)
    BY <1>1 DEF Recover
  <2>2. \A e \in Executors : recovering[e].todo = {} /\ recovering[e].counted = {}
    <3>1. \A e \in Executors : recovering[e] = NoRecovery
      BY DEF Attended, Attends
    <3>2. NoRecovery.todo = {} /\ NoRecovery.counted = {}
      BY DEF NoRecovery
    <3> QED
      BY <3>1, <3>2
  <2>3. \A e \in Executors, j \in Jobs : ~RecoveryCounts(e, j) /\ ~RecoveryRequeues(e, j)
    BY <2>2 DEF RecoveryCounts, RecoveryRequeues
  <2> QED
    BY <2>1, <2>3 DEF RecoveryStep
<1>5. \A e \in Executors : ~Crash(e) /\ ~Shutdown(e) /\ ~Launch(e)
  BY <1>1 DEF Crash, Shutdown, Launch, Attended, Attends
<1>6. \A e \in Executors : ~TxLock(e) /\ ~TxFails(e) /\ ~TxCommit(e)
  BY DEF TxLock, TxFails, TxCommit, Inv, Transactions
<1>7. \A r \in runs : ~RunPanics(r)
  BY <1>1 DEF RunPanics
<1> QED
  BY <1>2, <1>3, <1>4, <1>5, <1>6, <1>7

\* The other steps by what they do to the rows: a claim, the first status of a row, a run's
\* end, or nothing.
LEMMA UndisturbedStep ==
    ASSUME Inv, Attended, Serial, Undisturbed(fleet), [Next]_vars
    PROVE  \/ \E e \in Executors, p \in Partitions : DequeueSerial(e, p)
           \/ \E j \in Jobs, o \in fleet.orders, p \in Partitions : Enqueue(j, o, p)
           \/ \E j \in Jobs : ReleaseDelayed(j)
           \/ \E r \in runs : RunCompletes(r)
           \/ \E e \in Executors, j \in Jobs : SpawnRun(e, j)
           \/ UNCHANGED <<fleet, rows, cols, disp, runs, resuming, recovering, starts, asked>>
<1>1. CASE UNCHANGED vars
  BY <1>1 DEF vars
<1>2. CASE Tick \/ \E v \in Versions : SetLatest(v)
  BY <1>2 DEF Tick, SetLatest
<1>3. \A e \in Executors, p \in Partitions : ~TxCount(e, p)
  BY DEF TxCount
<1>4. CASE \E e \in Executors : DispatcherStep(e)
  BY <1>4, NeverDisturbed DEF DispatcherStep
<1> QED
  BY <1>1, <1>2, <1>3, <1>4, NeverDisturbed DEF Next

LEMMA AttendedStep == Inv /\ Attended /\ [Next]_vars => Attended'
<1> SUFFICES ASSUME Inv, Attended, [Next]_vars, Serial', Undisturbed(fleet')
             PROVE  Attends'
  BY DEF Attended
<1>1. fleet' = fleet
  BY FleetKept
<1>2. Serial /\ Undisturbed(fleet)
  BY <1>1 DEF Serial, Undisturbed
<1>3. Attends
  BY <1>2 DEF Attended
<1>t. /\ \A k \in Jobs : rows[k] \in Rows /\ cols[k] \in Columns
      /\ rows \in [Jobs -> Rows] /\ cols \in [Jobs -> Columns]
      /\ asked \in [Jobs -> Asked] /\ disp \in [Executors -> Dispatchers] /\ Types
  BY DEF Inv, Types
<1>4. ASSUME NEW x \in Executors, NEW p \in Partitions, DequeueSerial(x, p) PROVE Attends'
  <2>1. UNCHANGED <<resuming, recovering, asked>> /\ \A e \in Executors : disp'[e].pc # "off"
    BY <1>3, <1>4, <1>t DEF DequeueSerial, IdleDispatcher, Attends
  <2> QED
    BY <1>3, <2>1 DEF Attends
<1>5. ASSUME NEW k \in Jobs, NEW o \in fleet.orders, NEW p \in Partitions, Enqueue(k, o, p) PROVE Attends'
  <2>1. UNCHANGED <<disp, resuming, recovering>>
    BY <1>5 DEF Enqueue
  <2>2. \A j \in Jobs : ~asked'[j].doubled
    BY <1>3, <1>5, <1>t DEF Attends, Enqueue, AsksNothing
  <2> QED
    BY <1>3, <2>1, <2>2 DEF Attends
<1>6. CASE \E k \in Jobs : ReleaseDelayed(k)
  BY <1>3, <1>6 DEF Attends, ReleaseDelayed
<1>7. CASE \E r \in runs : RunCompletes(r)
  BY <1>3, <1>7 DEF Attends, RunCompletes
<1>8. ASSUME NEW x \in Executors, NEW k \in Jobs, SpawnRun(x, k) PROVE Attends'
  <2>1. UNCHANGED <<resuming, recovering, asked>> /\ Holds(x, k) /\ DoneWith(x, k)
    BY <1>8 DEF SpawnRun, Holds
  <2>2. disp'[x].pc # "off" /\ \A e \in Executors \ {x} : disp'[e] = disp[e]
    BY <1>t, <2>1, BatchShrinks
  <2> QED
    BY <1>3, <2>1, <2>2 DEF Attends
<1>9. CASE UNCHANGED <<fleet, rows, cols, disp, runs, resuming, recovering, starts, asked>>
  BY <1>3, <1>9 DEF Attends
<1> QED
  BY <1>2, <1>4, <1>5, <1>6, <1>7, <1>8, <1>9, UndisturbedStep

\* No step but a claim changes what the rows tell of the starts.
LEMMA StartedKept ==
    ASSUME Inv, Attended, Serial, Undisturbed(fleet), [Next]_vars,
           ~\E e \in Executors, q \in Partitions : DequeueSerial(e, q),
           NEW p \in Partitions, NEW t \in Clock
    PROVE  starts' = starts /\ Started(p, t)' = Started(p, t)
<1>t. /\ \A k \in Jobs : rows[k] \in Rows /\ cols[k] \in Columns
      /\ rows \in [Jobs -> Rows] /\ cols \in [Jobs -> Columns]
  BY DEF Inv, Types
<1>f. RatePeriod' = RatePeriod
  BY FleetKept DEF RatePeriod
<1>1. ASSUME starts' = starts,
             NEW k \in Jobs, \A j \in Jobs : j # k => rows'[j] = rows[j] /\ cols'[j] = cols[j],
             Counts(rows[k], cols[k], p, t) <=> Counts(rows'[k], cols'[k], p, t)
      PROVE  starts' = starts /\ Started(p, t)' = Started(p, t)
  <2>1. \A j \in Jobs : Counts(rows[j], cols[j], p, t) <=> Counts(rows'[j], cols'[j], p, t)
    BY <1>1
  <2>2. Started(p, t)' = {j \in Jobs : Counts(rows'[j], cols'[j], p, t)}
    BY <1>f DEF Started, Counts
  <2> QED
    BY <1>1, <2>1, <2>2 DEF Started
<1>2. ASSUME NEW k \in Jobs, NEW o \in fleet.orders, NEW q \in Partitions, Enqueue(k, o, q)
      PROVE  starts' = starts /\ Started(p, t)' = Started(p, t)
  <2>1. QueuedRow(Queue, o.delayed).status \in {ENQUEUED, DELAYED}
    <3>1. o \in Orders
      BY FleetTypes DEF Inv
    <3> QED
      BY <3>1, NewRow DEF Orders
  <2>2. /\ rows' = [rows EXCEPT ![k] = QueuedRow(Queue, o.delayed)] /\ rows[k].status = ABSENT
        /\ starts' = starts /\ \A j \in Jobs : j # k => cols'[j] = cols[j]
    BY <1>2, <1>t DEF Enqueue, insert_workflow_status
  <2>3. ~Counts(rows[k], cols[k], p, t)
    BY <2>2, Constants DEF Inv, Index, Counts
  <2>4. ~Counts(rows'[k], cols'[k], p, t)
    BY <1>t, <2>1, <2>2 DEF Counts
  <2> QED
    BY <1>1, <1>t, <2>2, <2>3, <2>4
<1>3. ASSUME NEW k \in Jobs, ReleaseDelayed(k)
      PROVE  starts' = starts /\ Started(p, t)' = Started(p, t)
  <2>1. /\ rows' = [rows EXCEPT ![k] = transition_delayed(rows[k])] /\ rows[k].status = DELAYED
        /\ starts' = starts /\ cols' = cols
    BY <1>3 DEF ReleaseDelayed
  <2>2. transition_delayed(rows[k]).status = ENQUEUED
    BY <1>t, <2>1, ReleaseRow
  <2>3. ~Counts(rows[k], cols[k], p, t) /\ ~Counts(rows'[k], cols'[k], p, t)
    BY <1>t, <2>1, <2>2 DEF Counts
  <2> QED
    BY <1>1, <1>t, <2>1, <2>3
<1>4. ASSUME NEW r \in runs, RunCompletes(r)
      PROVE  starts' = starts /\ Started(p, t)' = Started(p, t)
  <2>1. PICK k \in Jobs : k = r.job
    BY DEF Inv, Types, Run
  <2> DEFINE row == set_workflow_status(rows[k], SUCCESS, NoOutput)
  <2>2. /\ rows' = [rows EXCEPT ![k] = row] /\ starts' = starts
        /\ cols' = cols \/ cols' = [cols EXCEPT ![k].dedup = NoDedup]
    BY <1>4, <2>1 DEF RunCompletes
  <2>3. row.queue = rows[k].queue /\ row.status \in {rows[k].status, SUCCESS}
    BY <1>t, StatusRow, Statuses8
  <2>4. rows[k].queue = Queue => rows[k].status \notin {ENQUEUED, DELAYED}
    BY <2>1 DEF Attended, Attends, Inv, Places, Place, Claimable
  <2>5. /\ cols'[k].part = cols[k].part /\ cols'[k].started = cols[k].started
        /\ \A j \in Jobs : j # k => cols'[j] = cols[j]
    BY <1>t, <2>2 DEF Columns
  <2>6. rows'[k] = row /\ \A j \in Jobs : j # k => rows'[j] = rows[j]
    BY <1>t, <2>2
  <2> HIDE DEF row
  <2>7. Counts(rows[k], cols[k], p, t) <=> Counts(rows'[k], cols'[k], p, t)
    BY <2>3, <2>4, <2>5, <2>6, Statuses8 DEF Counts
  <2> QED
    BY <1>1, <2>2, <2>5, <2>6, <2>7
<1>5. CASE UNCHANGED <<rows, cols, starts>>
  BY <1>5, <1>f DEF Started, Counts
<1>6. CASE \E e \in Executors, j \in Jobs : SpawnRun(e, j)
  BY <1>5, <1>6 DEF SpawnRun
<1> QED
  BY <1>2, <1>3, <1>4, <1>5, <1>6, UndisturbedStep

\* A claim adds what it takes to the periods it falls in.
LEMMA StartedClaim ==
    ASSUME Inv, NEW e \in Executors, NEW q \in Partitions, DequeueSerial(e, q),
           RateLimit # Unlimited, NEW p \in Partitions, NEW t \in Clock
    PROVE  LET ids == First(cols, Candidates(Now, e, q), MaxTasks(Now, e, q, LocalMax(e, q), clock))
           IN  /\ ids \in SUBSET Jobs /\ ids \cap Started(p, t) = {}
               /\ p = q /\ clock <= t /\ t < clock + RatePeriod =>
                     /\ starts'[p][t] = starts[p][t] + Cardinality(ids)
                     /\ Started(p, t)' = Started(p, t) \cup ids
                     /\ Cardinality(Started(p, t)) + Cardinality(ids) <= RateLimit
               /\ ~(p = q /\ clock <= t /\ t < clock + RatePeriod) =>
                     starts'[p][t] = starts[p][t] /\ Started(p, t)' = Started(p, t)
<1> DEFINE max == MaxTasks(Now, e, q, LocalMax(e, q), clock)
           ids == First(cols, Candidates(Now, e, q), max)
           hit == p = q /\ clock <= t /\ t < clock + RatePeriod
<1>1. ClaimRows(e, q, ids, clock) /\ fleet' = fleet
  BY DEF DequeueSerial
<1>2. /\ max \in Nat /\ ids \in SUBSET Jobs /\ Cardinality(ids) <= max
      /\ \A j \in ids : /\ rows[j].status = ENQUEUED /\ rows'[j].status = PENDING /\ cols'[j].part = q
      /\ \A j \in Jobs \ ids : rows'[j] = rows[j] /\ cols'[j] = cols[j]
      /\ Cardinality(RecentStarts(Now, q, clock)) + max <= RateLimit
  BY SerialClaim
<1>3. \A j \in ids : rows[j].queue = Queue
  BY DEF First, Candidates, InPartition, Now
<1> HIDE DEF max, ids
<1>4. \A j \in ids : rows'[j].queue = Queue /\ cols'[j].started = clock
  <2> SUFFICES ASSUME NEW j \in ids
               PROVE  rows'[j].queue = Queue /\ cols'[j].started = clock
    OBVIOUS
  <2>1. rows[j] \in Rows /\ cols[j] \in Columns
    BY <1>2 DEF Inv, Types
  <2>2. claim(rows[j], e, FALSE).queue = Queue
    <3>1. rows[j].queue = Queue
      BY <1>3
    <3>2. claim(rows[j], e, FALSE).queue = rows[j].queue
      BY <2>1, ClaimRow, Zenon
    <3> QED
      BY <3>1, <3>2, Zenon
  <2>3. [cols[j] EXCEPT !.ver = VersionOf[e], !.started = clock].started = clock
    BY <2>1 DEF Columns
  <2>4. /\ rows'[j] = claim(rows[j], e, FALSE)
        /\ cols'[j] = [cols[j] EXCEPT !.ver = VersionOf[e], !.started = clock]
    BY <1>1, <1>2 DEF ClaimRows
  <2> QED
    BY <2>2, <2>3, <2>4, Zenon
<1>5. /\ clock \in Nat /\ t \in Nat /\ RatePeriod \in Nat /\ RatePeriod' = RatePeriod
      /\ RateLimit \in Nat /\ NoTime \notin Nat
  BY <1>1, FleetTypes, Constants DEF Inv, Types, RatePeriod
<1>6. ids \cap Started(p, t) = {}
  BY <1>2 DEF Started, Counts
<1>7. \A j \in ids : Counts(rows'[j], cols'[j], p, t) <=> hit
  BY <1>2, <1>4, <1>5, Statuses8 DEF Counts
<1>8. Started(p, t)' = {j \in Jobs : Counts(rows'[j], cols'[j], p, t)}
  BY <1>5 DEF Started, Counts
<1>9. Started(p, t)' = IF hit THEN Started(p, t) \cup ids ELSE Started(p, t)
  <2>1. \A j \in Jobs : Counts(rows'[j], cols'[j], p, t) <=>
                           (hit /\ j \in ids) \/ Counts(rows[j], cols[j], p, t)
    BY <1>2, <1>6, <1>7 DEF Started
  <2> QED
    BY <1>2, <1>8, <2>1 DEF Started
<1>10. starts'[p][t] = IF hit THEN starts[p][t] + Cardinality(ids) ELSE starts[p][t]
  <2>1. starts \in [Partitions -> [Clock -> Nat]]
    BY DEF Inv, Types
  <2>2. starts' = [starts EXCEPT ![q] =
                     [u \in Clock |-> IF clock <= u /\ u < clock + RatePeriod
                                        THEN starts[q][u] + Cardinality(ids) ELSE starts[q][u]]]
    BY <1>1 DEF ClaimRows
  <2> QED
    BY <2>1, <2>2
<1>11. ASSUME hit PROVE Cardinality(Started(p, t)) + Cardinality(ids) <= RateLimit
  <2> DEFINE recent == RecentStarts(Now, q, clock)
  <2>1. Started(p, t) \subseteq recent
    <3> SUFFICES ASSUME NEW j \in Started(p, t) PROVE j \in recent
      OBVIOUS
    <3>1. /\ j \in Jobs /\ rows[j].queue = Queue /\ cols[j].part = q
          /\ rows[j].status \notin {ENQUEUED, DELAYED}
          /\ cols[j].started # NoTime /\ t < cols[j].started + RatePeriod
      BY <1>11 DEF Started, Counts
    <3>2. cols[j].started \in Nat
      BY <3>1, Constants DEF Inv, Types, Columns
    <3>3. cols[j].started + RatePeriod > clock
      BY <1>5, <1>11, <3>1, <3>2
    <3> QED
      BY <3>1, <3>3 DEF RecentStarts, InPartition, Now
  <2>2. recent \in SUBSET Jobs
    BY DEF RecentStarts, InPartition
  <2>3. IsFiniteSet(recent) /\ Cardinality(recent) \in Nat /\ Cardinality(recent) + max <= RateLimit
    BY <1>2, <2>2, JobSets
  <2> HIDE DEF recent
  <2>4. Cardinality(Started(p, t)) <= Cardinality(recent)
    BY <2>1, <2>3, FS_Subset
  <2>5. Cardinality(Started(p, t)) \in Nat /\ Cardinality(ids) \in Nat
    BY <1>2, <2>1, <2>2, JobSets
  <2> QED
    BY <1>2, <1>5, <2>3, <2>4, <2>5
<1> HIDE DEF hit
<1> QED
  BY <1>2, <1>6, <1>9, <1>10, <1>11 DEF hit, ids, max

LEMMA RatedStep == Inv /\ Attended /\ Rated /\ [Next]_vars => Rated'
<1> SUFFICES ASSUME Inv, Attended, Rated, [Next]_vars,
                    Serial', Undisturbed(fleet'), RateLimit' # Unlimited,
                    NEW p \in Partitions, NEW t \in Clock
             PROVE  /\ starts'[p][t] <= Cardinality(Started(p, t)')
                    /\ Cardinality(Started(p, t)') <= RateLimit'
  BY DEF Rated
<1>1. fleet' = fleet
  BY FleetKept
<1>2. /\ Serial /\ Undisturbed(fleet) /\ RateLimit' = RateLimit /\ RateLimit # Unlimited
      /\ RateLimit \in Nat
  BY <1>1, FleetTypes DEF Serial, Undisturbed, RateLimit, Inv
<1>3. starts[p][t] <= Cardinality(Started(p, t)) /\ Cardinality(Started(p, t)) <= RateLimit
  BY <1>2 DEF Rated
<1>4. CASE ~\E e \in Executors, q \in Partitions : DequeueSerial(e, q)
  BY <1>2, <1>3, <1>4, StartedKept
<1>5. ASSUME NEW e \in Executors, NEW q \in Partitions, DequeueSerial(e, q)
      PROVE  /\ starts'[p][t] <= Cardinality(Started(p, t)')
             /\ Cardinality(Started(p, t)') <= RateLimit'
  <2> DEFINE ids == First(cols, Candidates(Now, e, q), MaxTasks(Now, e, q, LocalMax(e, q), clock))
             hit == p = q /\ clock <= t /\ t < clock + RatePeriod
             old == Started(p, t)
             new == Started(p, t)'
  <2>1. /\ ids \in SUBSET Jobs /\ ids \cap old = {}
        /\ hit => /\ starts'[p][t] = starts[p][t] + Cardinality(ids)
                  /\ new = old \cup ids
                  /\ Cardinality(old) + Cardinality(ids) <= RateLimit
        /\ ~hit => starts'[p][t] = starts[p][t] /\ new = old
    BY <1>2, <1>5, StartedClaim
  <2>2. old \in SUBSET Jobs /\ starts[p][t] \in Nat
    BY DEF Started, Inv, Types
  <2>3. starts[p][t] <= Cardinality(old) /\ Cardinality(old) <= RateLimit
    BY <1>3
  <2> HIDE DEF ids, hit, old, new
  <2>4. /\ IsFiniteSet(old) /\ Cardinality(old) \in Nat
        /\ IsFiniteSet(ids) /\ Cardinality(ids) \in Nat
    BY <2>1, <2>2, JobSets
  <2>5. Cardinality(old \cup ids) = Cardinality(old) + Cardinality(ids)
    <3>1. Cardinality(old \cap ids) = 0
      BY <2>1, FS_EmptySet
    <3>2. Cardinality(old \cup ids) = Cardinality(old) + Cardinality(ids) - Cardinality(old \cap ids)
      BY <2>4, FS_Union
    <3> QED
      BY <2>4, <3>1, <3>2
  <2>6. starts'[p][t] <= Cardinality(new) /\ Cardinality(new) <= RateLimit
    <3>1. CASE hit
      <4>1. /\ starts'[p][t] = starts[p][t] + Cardinality(ids) /\ new = old \cup ids
            /\ Cardinality(old) + Cardinality(ids) <= RateLimit
        BY <2>1, <3>1
      <4>2. Cardinality(new) = Cardinality(old) + Cardinality(ids)
        BY <2>5, <4>1
      <4> QED
        BY <2>2, <2>3, <2>4, <4>1, <4>2
    <3>2. CASE ~hit
      BY <2>1, <2>3, <3>2
    <3> QED
      BY <3>1, <3>2
  <2> QED
    BY <1>2, <2>6 DEF new
<1> QED
  BY <1>4, <1>5

(***************************************************************************)
(* The three limits of a queue together: with one transaction at a time    *)
(* and in an undisturbed fleet, the PENDING rows of a partition stay       *)
(* within global_concurrency, the runs of an executor within               *)
(* worker_concurrency, and no period of rate_limit.period has more than    *)
(* rate_limit.limit starts, counted when they happen, although             *)
(* dequeue_workflows counts them from the rows.                            *)
(***************************************************************************)
THEOREM AllLimits == Spec => [](Undisturbed(fleet) => LimitsHold)
<1>1. Init => Attended /\ Rated
  <2> SUFFICES ASSUME Init PROVE Attended /\ Rated
    OBVIOUS
  <2>1. \A j \in Jobs : rows[j].status = ABSENT /\ rows[j].queue = NoQueue /\ ~asked[j].doubled
    BY EmptyRow DEF Init, AsksNothing
  <2>2. resuming = {} /\ \A e \in Executors : disp[e].pc # "off" /\ recovering[e] = NoRecovery
    BY DEF Init, IdleDispatcher
  <2>3. Attended
    BY <2>1, <2>2, Statuses8 DEF Attended, Attends
  <2>4. ASSUME RateLimit # Unlimited, NEW p \in Partitions, NEW t \in Clock
        PROVE  starts[p][t] <= Cardinality(Started(p, t)) /\ Cardinality(Started(p, t)) <= RateLimit
    <3>1. Started(p, t) = {}
      BY <2>1, Constants DEF Started, Counts
    <3>2. starts[p][t] = 0
      BY DEF Init
    <3>3. Cardinality(Started(p, t)) = 0
      BY <3>1, FS_EmptySet
    <3>4. RateLimit \in Nat
      BY <2>4, InvInit, FleetTypes DEF Inv
    <3> QED
      BY <3>2, <3>3, <3>4
  <2> QED
    BY <2>3, <2>4 DEF Rated
<1>2. Inv /\ Rated /\ Undisturbed(fleet) => RateHolds
  <2> SUFFICES ASSUME Inv, Rated, Undisturbed(fleet), Serial, RateLimit # Unlimited,
                      NEW p \in Partitions, NEW t \in Clock
               PROVE  starts[p][t] <= RateLimit
    BY DEF RateHolds
  <2>1. starts[p][t] <= Cardinality(Started(p, t)) /\ Cardinality(Started(p, t)) <= RateLimit
    BY DEF Rated
  <2>2. Started(p, t) \in SUBSET Jobs
    BY DEF Started
  <2>3. starts[p][t] \in Nat /\ Cardinality(Started(p, t)) \in Nat /\ RateLimit \in Nat
    BY <2>2, JobSets, FleetTypes DEF Inv, Types
  <2> QED
    BY <2>1, <2>3
<1>3. Undisturbed(fleet) => "resume" \notin fleet.disruptions
  BY DEF Undisturbed
<1>4. GlobalHolds /\ RateHolds /\ WorkerHolds => LimitsHold
  BY DEF LimitsHold
<1> QED
  BY <1>1, <1>2, <1>3, <1>4, AttendedStep, RatedStep, InvHolds, GlobalLimit, WorkerLimit, PTL DEF Spec
=============================================================================
