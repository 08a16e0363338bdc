------------------------------- MODULE Backends -------------------------------
(***************************************************************************)
(* The SQLite and the in-memory provider driven by the same calls, one at  *)
(* a time: can a caller tell them apart?  Every write call of the trait is *)
(* an action that performs it on both (but run_transaction_step, which the *)
(* in-memory store refuses); the reads are compared in every state.        *)
(*                                                                         *)
(* A caller is what engine.rs, context.rs and client.rs are: it records    *)
(* steps and writes streams of workflows that exist, and receives at a     *)
(* position it has not recorded.  The calls on which the two providers are *)
(* known to differ are left out by guards, each marked "differs"; what     *)
(* they differ in is listed in the README.                                 *)
(*                                                                         *)
(* The clock moves when a call creates something whose age decides an      *)
(* order, so no two such things share a millisecond.                       *)
(***************************************************************************)
EXTENDS StoreTypes, FiniteSetsExt, SequencesExt

CONSTANTS
    Focuses,    \* what the callers may do, with which data, up to which time (horizon)
    Filters,    \* ListFilters every state is listed with
    Period, Timeout,
    MaxEntries  \* bound: entries of a stream

ASSUME BoundsAssumption ==
    /\ {MaxEntries, Period, Timeout} \subseteq Nat
    /\ \A f \in Focuses :
        /\ f.horizon \in Nat /\ f.rows \subseteq Row
        /\ \A req \in f.requests : {req.max, req.rate, req.global} \subseteq Nat

VARIABLES
    focus,      \* the member of Focuses this behaviour is about
    sql, mem,   \* the two databases
    now,
    agree,      \* the last call answered the same on both
    archive,    \* the last export, by provider, and how the workflows in it read
    purged      \* the ids whose rows have been deleted

vars == <<focus, sql, mem, now, agree, archive, purged>>

S == INSTANCE SqliteStore
M == INSTANCE MemoryStore

Ids    == focus.ids
Seqs   == focus.seqs
Keys   == {"k1"}
Topics == focus.topics
Vals   == focus.vals
Steps  == focus.names

NoViews   == [id \in {} |-> {}]
NoArchive == [sql |-> {}, mem |-> {}, views |-> NoViews]

Init ==
    /\ focus \in Focuses
    /\ sql = S!EmptyDb(focus.ser) /\ mem = M!EmptyDb
    /\ now = 1
    /\ agree = TRUE
    /\ archive = NoArchive
    /\ purged = {}

(***************************************************************************)
(* A call of the trait on both providers                                   *)
(***************************************************************************)
Does(op) == op \in focus.ops

\* started_at of a direct run differs: SQL's INSERT leaves it out.
Seen(r) == [r EXCEPT !.started = NoTime]
Shown(rows) == {Seen(r) : r \in rows}

Both(a, b) ==
    /\ sql' = a.db /\ mem' = b.db
    /\ agree' = (a.ret = b.ret)
    /\ UNCHANGED <<focus, archive>>

Same == UNCHANGED <<now, purged>>

Later == now < focus.horizon /\ now' = now + 1

(***************************************************************************)
(* Workflow rows                                                           *)
(***************************************************************************)
\* insert_run fills in the times of the row it inserts.
Stamped(s) ==
    [s EXCEPT !.created = now,
              !.started = IF s.status = "PENDING" THEN now ELSE NoTime,
              !.deadline = IF s.timed /\ s.status = "PENDING" THEN now + Timeout ELSE NoTime,
              !.delay = IF s.status = "DELAYED" THEN now + 1 ELSE NoTime]

\* An existing id with a deduplication id another row holds: differs.
Insert ==
    /\ Does("insert") /\ Later
    /\ \E s \in focus.rows :
        LET a == S!insert_workflow_status(sql, Stamped(s))
            b == M!insert_workflow_status(mem, Stamped(s))
        IN /\ S!Exists(sql, s.id) => S!HoldsDedup(sql, s.queue, s.dedup) \subseteq S!Rows(sql, s.id)
           /\ sql' = a.db /\ mem' = b.db
           /\ agree' = (a.ret.how = b.ret.how /\ Shown(a.ret.rows) = Shown(b.ret.rows))
    /\ UNCHANGED <<focus, archive, purged>>

SetStatus ==
    /\ Does("set") /\ Same
    /\ \E id \in Ids, st \in focus.statuses :
        LET out == IF st = "SUCCESS" THEN 1 ELSE 0
        IN Both(S!set_workflow_status(sql, id, st, out, now), M!set_workflow_status(mem, id, st, out, now))

\* Cancelling or resuming a parked row differs: SQL does it, the in-memory store does not.
NotParked(ids) == \A r \in sql.wf : r.id \in ids => r.status # "MAX_RECOVERY_ATTEMPTS_EXCEEDED"

Cancel ==
    /\ Does("cancel") /\ Same
    /\ \E id \in Ids : NotParked({id}) /\ Both(S!cancel_workflow(sql, id, now),
                                               M!cancel_workflow(mem, id, now))

CancelAll ==
    /\ Does("cancel") /\ Same /\ NotParked(Ids)
    /\ Both(S!cancel_workflows(sql, Ids, now), M!cancel_workflows(mem, Ids, now))

Resume ==
    /\ Does("resume") /\ Same
    /\ \E id \in Ids : NotParked({id}) /\ Both(S!resume_workflow(sql, id), M!resume_workflow(mem, id))

ResumeAll ==
    /\ Does("resume") /\ Same /\ NotParked(Ids)
    /\ Both(S!resume_workflows(sql, Ids), M!resume_workflows(mem, Ids))

\* Callers re-enqueue a row on its own queue, or one whose deduplication id was cleared.
EnqueueExisting ==
    /\ Does("requeue") /\ Same
    /\ \E id \in Ids, q \in {"q1", "q2"} :
        /\ \A r \in S!Rows(sql, id) : r.queue = q \/ r.dedup = Null
        /\ Both(S!enqueue_existing(sql, id, q), M!enqueue_existing(mem, id, q))

Bump ==
    /\ Does("bump") /\ Same
    /\ \E id \in Ids :
        /\ \A r \in S!Rows(sql, id) : r.attempts <= focus.maxAttempts
        /\ Both(S!bump_recovery_attempts(sql, id, focus.maxAttempts),
                M!bump_recovery_attempts(mem, id, focus.maxAttempts))

SetDelay ==
    /\ Does("delay") /\ Same
    /\ \E id \in Ids, until \in {now, now + 2} :
        Both(S!set_workflow_delay(sql, id, until), M!set_workflow_delay(mem, id, until))

ReleaseDelayed ==
    /\ Does("delay") /\ Same
    /\ Both(S!transition_delayed_workflows(sql, now), M!transition_delayed_workflows(mem, now))

Dequeue ==
    /\ Does("dequeue") /\ Same
    /\ \E req \in focus.requests :
        Both(S!dequeue_workflows(sql, req, now), M!dequeue_workflows(mem, req, now))

Tick == Does("tick") /\ Later /\ UNCHANGED <<focus, sql, mem, agree, archive, purged>>

(***************************************************************************)
(* Step logs.  Without the foreign key the in-memory store would record    *)
(* steps of a workflow that is gone: differs.                              *)
(***************************************************************************)
RecordStep ==
    /\ Does("step") /\ Same
    /\ \E id \in Ids, k \in Seqs, n \in Steps, w \in {Out(1), Err(2)} :
        /\ S!Exists(sql, id)
        /\ Both(S!record_step_result(sql, id, k, n, w), M!record_step_result(mem, id, k, n, w))

RecordChild ==
    /\ Does("child") /\ Same
    /\ \E id, c \in Ids, k \in Seqs :
        /\ S!Exists(sql, id) /\ id # c
        /\ Both(S!record_child_workflow(sql, id, k, "s1", c), M!record_child_workflow(mem, id, k, "s1", c))

RecordPatch ==
    /\ Does("patch") /\ Same
    /\ \E id \in Ids, k \in Seqs :
        /\ S!Exists(sql, id)
        /\ Both(S!record_patch(sql, id, k, "s2"), M!record_patch(mem, id, k, "s2"))

\* Forking onto an id that exists differs: an error in SQL, overwritten in memory.
Fork ==
    /\ Does("fork") /\ Later /\ UNCHANGED purged
    /\ \E orig, new \in Ids, start \in 0..2, v \in {Null, "v2"} :
        LET p == [orig |-> orig, new |-> new, start |-> start, queue |-> "q1",
                  part |-> IF v = Null THEN Null ELSE "p1", version |-> v]
        IN /\ ~S!Exists(sql, new)
           /\ Both(S!fork_workflow(sql, p, now), M!fork_workflow(mem, p, now))

(***************************************************************************)
(* Messages, events, streams                                               *)
(***************************************************************************)
Send ==
    /\ Does("send") /\ Later /\ UNCHANGED purged
    /\ \E id \in Ids, t \in Topics, key \in Keys \cup {Null} :
        LET val == now
        IN Both(S!insert_notification(sql, id, t, val, key, now),
                M!insert_notification(mem, id, t, val, key, now))

\* At a recorded position the two answer differently: the message taken, or the record.
Consume ==
    /\ Does("send") /\ Same
    /\ \E id \in Ids, t \in Topics, k \in Seqs :
        /\ S!OpsAt(sql, id, k) = {}
        /\ Both(S!consume_notification(sql, id, t, k, "recv"), M!consume_notification(mem, id, t, k, "recv"))

SetEvent ==
    /\ Does("event") /\ Same
    /\ \E id \in Ids, k \in Keys, v \in Vals :
        /\ S!Exists(sql, id)
        /\ Both(S!upsert_event(sql, id, k, v), M!upsert_event(mem, id, k, v))

WriteStream ==
    /\ Does("stream") /\ Same
    /\ \E id \in Ids, k \in Keys, v \in Vals \cup {CLOSED} :
        /\ S!Exists(sql, id)
        /\ Cardinality(S!Entries(sql, id, k)) < MaxEntries
        /\ Both(S!write_stream(sql, id, k, v), M!write_stream(mem, id, k, v))

(***************************************************************************)
(* Deletion, garbage collection, export and import                         *)
(***************************************************************************)
Purges == /\ UNCHANGED now
          /\ purged' = purged \cup ({r.id : r \in sql.wf} \ {r.id : r \in sql'.wf})

Thresholds == {0, 1, 2, NoLimit}

\* What a client reads of a workflow, without what an export leaves out.
Restored(r) == [Seen(r) EXCEPT !.completed = NoTime, !.limited = FALSE]
View(rows, steps, events, streams) ==
    [rows |-> {Restored(r) : r \in rows}, steps |-> steps, events |-> events, streams |-> streams]
SqlView(db, id) ==
    View(S!get_workflow_status(db, id), S!get_workflow_steps(db, id), S!list_workflow_events(db, id),
         [k \in Keys |-> S!read_stream(db, id, k, 0)])
MemView(db, id) ==
    View(M!get_workflow_status(db, id), M!get_workflow_steps(db, id), M!list_workflow_events(db, id),
         [k \in Keys |-> M!read_stream(db, id, k, 0)])

\* The in-memory store deletes the children of a row that is already gone: differs.
Delete ==
    /\ Does("delete")
    /\ \E ids \in SUBSET Ids, children \in BOOLEAN :
        /\ children => \A i \in ids : S!Exists(sql, i)
        /\ Both(S!delete_workflows(sql, ids, children), M!delete_workflows(mem, ids, children))
    /\ Purges

GarbageCollect ==
    /\ Does("gc")
    /\ \E cutoff \in 0..now, threshold \in Thresholds :
        Both(S!garbage_collect(sql, cutoff, threshold), M!garbage_collect(mem, cutoff, threshold))
    /\ Purges

\* The in-memory store also exports the events a deleted workflow left behind: differs.
Export ==
    /\ Does("export") /\ Same /\ purged = {}
    /\ \E id \in Ids, children \in BOOLEAN :
        /\ S!Exists(sql, id)
        /\ archive' = [sql |-> S!export_workflow(sql, id, children),
                       mem |-> M!export_workflow(mem, id, children),
                       views |-> [i \in {x.row.id : x \in M!export_workflow(mem, id, children)} |->
                                    MemView(mem, i)]]
    /\ UNCHANGED <<focus, sql, mem, agree>>

\* The other environment an export is taken to.
OpenEmpty ==
    /\ Does("export") /\ archive # NoArchive /\ UNCHANGED now
    /\ sql' = S!EmptyDb(focus.ser) /\ mem' = M!EmptyDb
    /\ purged' = {} /\ UNCHANGED <<focus, agree, archive>>

\* An id that is taken fails on both; a deduplication id that is taken only in SQL: differs.
\* A portable SQL database forgets the format name of all but the rows: differs.
Import ==
    /\ Does("export") /\ Same /\ archive # NoArchive /\ focus.ser = DBOS_JSON
    /\ \A x \in archive.sql : S!Exists(sql, x.row.id) \/ S!HoldsDedup(sql, x.row.queue, x.row.dedup) = {}
    /\ Both(S!import_workflow(sql, archive.sql), M!import_workflow(mem, archive.mem))

(***************************************************************************)
(* Schedules, versions, queues                                             *)
(***************************************************************************)
Schedule(name, status) == [name |-> name, status |-> status, last |-> NoTime]
Names == {"n1", "n2"}

CreateSchedule ==
    /\ Does("schedule") /\ Same
    /\ \E n \in Names : Both(S!create_schedule(sql, Schedule(n, "ACTIVE")),
                             M!create_schedule(mem, Schedule(n, "ACTIVE")))

ApplySchedules ==
    /\ Does("schedule") /\ Same
    /\ \E ns \in SUBSET Names :
        LET new == {Schedule(n, "ACTIVE") : n \in ns}
        IN Both(S!apply_schedules(sql, new), M!apply_schedules(mem, new))

SetScheduleStatus ==
    /\ Does("schedule") /\ Same
    /\ \E n \in Names, st \in {"ACTIVE", "PAUSED"} :
        Both(S!set_schedule_status(sql, n, st), M!set_schedule_status(mem, n, st))

SetLastFired ==
    /\ Does("schedule") /\ Same
    /\ \E n \in Names : Both(S!set_schedule_last_fired(sql, n, now),
                             M!set_schedule_last_fired(mem, n, now))

DeleteSchedule ==
    /\ Does("schedule") /\ Same
    /\ \E n \in Names : Both(S!delete_schedule(sql, n), M!delete_schedule(mem, n))

CreateVersion ==
    /\ Does("version") /\ Later /\ UNCHANGED purged
    /\ \E v \in {"v1", "v2"} : Both(S!create_application_version(sql, v, now),
                                    M!create_application_version(mem, v, now))

SetLatest ==
    /\ Does("version") /\ Later /\ UNCHANGED purged
    /\ \E v \in {"v1", "v2"} : Both(S!set_latest_application_version(sql, v, now),
                                    M!set_latest_application_version(mem, v, now))

UpsertQueue ==
    /\ Does("queues") /\ Same
    /\ \E n \in {"q1", "q2"}, limit \in {1, 2}, overwrite \in BOOLEAN :
        LET q == [name |-> n, limit |-> limit]
        IN Both(S!upsert_queue(sql, q, overwrite), M!upsert_queue(mem, q, overwrite))

RowCall  == Insert \/ SetStatus \/ Cancel \/ CancelAll \/ Resume \/ ResumeAll \/ EnqueueExisting
              \/ Bump \/ SetDelay \/ ReleaseDelayed \/ Dequeue \/ Tick
LogCall  == RecordStep \/ RecordChild \/ RecordPatch \/ Fork
MailCall == Send \/ Consume \/ SetEvent \/ WriteStream
BulkCall == Delete \/ GarbageCollect \/ Export \/ OpenEmpty \/ Import
AdminCall == CreateSchedule \/ ApplySchedules \/ SetScheduleStatus \/ SetLastFired
               \/ DeleteSchedule \/ CreateVersion \/ SetLatest \/ UpsertQueue

Next == RowCall \/ LogCall \/ MailCall \/ BulkCall \/ AdminCall

Spec == Init /\ [][Next]_vars

(***************************************************************************)
(* Properties                                                              *)
(***************************************************************************)
\* Every write call of the trait answers the same on SQLite (sqlite.rs) and in memory
\* (memory.rs): which rows are claimed and in what order, who wins a deduplication id or a
\* position of the log, how many rows a bulk call reached.
SameReplies == agree

ByStatus == {"status", "queue"}

\* The status reads answer the same: single rows, deduplication and partition lookups,
\* listings under every filter in Filters, and the aggregates grouped by status and queue.
\* was_forked_from is stamped in SQL and derived in memory, so the two may differ once rows
\* have been deleted or exported.  Filters by a prefix of the id are left out: LIKE ignores
\* case and takes % and _ for wildcards, starts_with does not.
SameRows ==
    /\ \A id \in Ids : Shown(S!get_workflow_status(sql, id)) = Shown(M!get_workflow_status(mem, id))
    /\ S!get_deduplicated_workflow(sql, "q1", "d1") = M!get_deduplicated_workflow(mem, "q1", "d1")
    /\ S!queue_partitions(sql, "q1") = M!queue_partitions(mem, "q1")
    /\ \A f \in Filters :
         f.was = {} \/ (purged = {} /\ archive = NoArchive) =>
           LET a == S!list_workflows(sql, f)
               b == M!list_workflows(mem, f)
           IN Len(a) = Len(b) /\ \A i \in DOMAIN a : Seen(a[i]) = Seen(b[i])
    /\ S!get_workflow_aggregates(sql, ByStatus, NoFilter)
         = M!get_workflow_aggregates(mem, ByStatus, NoFilter)

\* The log reads answer the same: the recorded outcome, name and child at every position, and
\* the whole log in order.  A position that holds a patch marker or a child differs for
\* get_step_result: nothing in SQL, a null output in memory.
SameLogs ==
    \A id \in Ids :
        /\ S!get_workflow_steps(sql, id) = M!get_workflow_steps(mem, id)
        /\ \A k \in Seqs :
            /\ S!get_step_name(sql, id, k) = M!get_step_name(mem, id, k)
            /\ S!check_child_workflow(sql, id, k) = M!check_child_workflow(mem, id, k)
            /\ (\A o \in S!OpsAt(sql, id, k) : o.what.tag # "none")
                 => S!get_step_result(sql, id, k) = M!get_step_result(mem, id, k)
        /\ S!get_step_aggregates(sql) = M!get_step_aggregates(mem)

\* Messages, events and streams read the same, a stream from every offset.  The events of a
\* deleted workflow differ: the in-memory store keeps them, also for a later row of that id.
SameMail ==
    \A id \in Ids :
        /\ S!list_workflow_notifications(sql, id) = M!list_workflow_notifications(mem, id)
        /\ id \notin purged => S!list_workflow_events(sql, id) = M!list_workflow_events(mem, id)
        /\ S!list_workflow_streams(sql, id) = M!list_workflow_streams(mem, id)
        /\ \A k \in Keys, from \in 0..MaxEntries :
            /\ id \notin purged => S!get_event_value(sql, id, k) = M!get_event_value(mem, id, k)
            /\ S!read_stream(sql, id, k, from) = M!read_stream(mem, id, k, from)

\* Schedules, application versions (and which is the latest) and the queue registry.
SameRegistry ==
    /\ \A st \in {{}, {"ACTIVE"}, {"PAUSED"}} : S!list_schedules(sql, st) = M!list_schedules(mem, st)
    /\ S!list_application_versions(sql) = M!list_application_versions(mem)
    /\ S!get_latest_application_version(sql) = M!get_latest_application_version(mem)
    /\ S!list_queues(sql) = M!list_queues(mem)

\* A client cannot tell by reading which provider it talks to, after any sequence of the writes
\* above (the get_, list_ and read_ methods of StateProvider), but for the differences named at
\* the four parts.
SameReads == SameRows /\ SameLogs /\ SameMail /\ SameRegistry

ImportSql(exported, serializer) == S!import_workflow(S!EmptyDb(serializer), exported).db
ImportMem(exported) == M!import_workflow(M!EmptyDb, exported).db

\* Imported into an empty database, the workflows read as they did when they were exported.
SqlRestores(exported, serializer) ==
    \A id \in DOMAIN archive.views : SqlView(ImportSql(exported, serializer), id) = archive.views[id]
MemRestores(exported) ==
    \A id \in DOMAIN archive.views : MemView(ImportMem(exported), id) = archive.views[id]

NoFailures == \A id \in DOMAIN archive.views :
                 \A i \in DOMAIN archive.views[id].steps : archive.views[id].steps[i].what.tag # "error"

\* What survives an export and an import into an empty database (rows, step outcomes, events,
\* streams with their close marker, children).  The in-memory store restores its own exports;
\* SQLite those written as DBOS_JSON, whatever it writes itself; the in-memory store those of a
\* portable SQLite without recorded failures; and what the in-memory store exported passes
\* through SQLite unharmed, though SQLite cannot decode it.  The other pairs lose payloads: the
\* in-memory import cannot parse base64, and SQLite forgets the format name of step outcomes,
\* events and stream entries.
RoundTrip ==
    /\ MemRestores(archive.mem)
    /\ focus.ser = DBOS_JSON => \A serializer \in {DBOS_JSON, PORTABLE} :
                                   SqlRestores(archive.sql, serializer)
    /\ focus.ser = PORTABLE /\ NoFailures => MemRestores(archive.sql)
    /\ MemRestores({S!ExportOne(ImportSql(archive.mem, focus.ser), id) : id \in DOMAIN archive.views})

Newest(n) == {r \in sql.wf : Cardinality({s \in sql.wf : s.created > r.created}) < n}

\* What a collection with these bounds deletes is not in flight, and older than the cutoff or
\* behind the newest rows.
Spares(threshold, cutoff) ==
    \A r \in sql.wf \ S!garbage_collect(sql, cutoff, threshold).db.wf :
        /\ r.status \notin InFlight
        /\ r.created < cutoff \/ (threshold # NoLimit /\ r \notin Newest(threshold))

\* Garbage collection with a row threshold removes no workflow that is in flight, none of the
\* newest n and, when fewer than n exist and no cutoff is given, none at all; with a cutoff
\* nothing created at or after the later of the two bounds; a threshold of 0 is refused.
GcSpares == Does("gc") => \A threshold \in Thresholds, cutoff \in 0..now : Spares(threshold, cutoff)
=============================================================================
