----------------------------- MODULE SqliteStore -----------------------------
(***************************************************************************)
(* The calls of StateProvider as sqlite.rs implements them: each is one    *)
(* SQL statement or one transaction of a single writer, so each operator   *)
(* maps a database to the database after the call and the caller's answer. *)
(* Tables are sets of rows.  Primary keys, the unique index on (queue,     *)
(* deduplication id) and the foreign keys with ON DELETE CASCADE of        *)
(* migrations/sqlite are part of the operators that meet them.             *)
(*                                                                         *)
(* Reads answer their value, writes a record [db, ret].  was is the column *)
(* was_forked_from, as the set of ids that have it; ser is the serializer  *)
(* the provider was built with.                                            *)
(***************************************************************************)
EXTENDS StoreTypes, FiniteSetsExt, SequencesExt, Relation

CONSTANTS
    Period,     \* rate limit window
    Timeout     \* workflow timeout of the rows that have one

EmptyDb(serializer) ==
    [ser |-> serializer, wf |-> {}, was |-> {}, ops |-> {}, notes |-> {}, events |-> {}, streams |-> {},
     scheds |-> {}, vers |-> {}, queues |-> {}]

Rows(db, id) == {r \in db.wf : r.id = id}
Exists(db, id) == Rows(db, id) # {}
TheRow(db, id) == CHOOSE r \in db.wf : r.id = id

\* The text columns of what this provider writes.
Encoded(db) == Text(db.ser, db.ser)

\* A row as the caller gets it: an output that does not decode reads as none.
row_to_status(r) == [r EXCEPT !.out = IF decode(r.text) THEN @ ELSE 0, !.text = Plain]

\* UPDATE workflow_status SET ... WHERE ...
Update(db, rows, F(_)) == [db EXCEPT !.wf = (@ \ rows) \cup {F(r) : r \in rows}]

(***************************************************************************)
(* workflow_status                                                         *)
(***************************************************************************)
HoldsDedup(db, q, d) == {r \in db.wf : r.queue = q /\ r.dedup = d /\ d # Null /\ q # Null}

\* The INSERT names no started_at, so a direct run's is dropped.
insert_workflow_status(db, s) ==
    IF Exists(db, s.id)
      THEN Reply(db, Inserted("existed", {row_to_status(r) : r \in Rows(db, s.id)}))
      ELSE IF HoldsDedup(db, s.queue, s.dedup) # {}
        THEN Reply(db, Inserted("deduplicated", {}))
        ELSE LET r == [s EXCEPT !.started = NoTime, !.text = Encoded(db)]
             IN Reply([db EXCEPT !.wf = @ \cup {r}], Inserted("created", {row_to_status(r)}))

get_deduplicated_workflow(db, q, d) == {r.id : r \in HoldsDedup(db, q, d)}

get_workflow_status(db, id) == {row_to_status(r) : r \in Rows(db, id)}

\* The output is encoded by this provider; the format name of the row stays the one inserted.
set_workflow_status(db, id, status, out, now) ==
    LET hit == {r \in Rows(db, id) : ~(r.status = "CANCELLED" /\ is_completion(status))}
        Written(r) == [r EXCEPT !.status = status,
                                !.out = IF out = 0 THEN @ ELSE out,
                                !.text.by = IF out = 0 THEN @ ELSE db.ser,
                                !.completed = IF is_terminal(status) THEN now ELSE @,
                                !.dedup = IF is_terminal(status) THEN Null ELSE @]
    IN Reply(Update(db, hit, Written),
             IF is_completion(status) /\ hit = {} /\ Exists(db, id) THEN "cancelled" ELSE "ok")

CancelTargets(db, ids) ==
    {r \in db.wf : r.id \in ids /\ r.status \notin {"SUCCESS", "ERROR", "CANCELLED"}}

Cancelled(r, now) ==
    [r EXCEPT !.status = "CANCELLED", !.completed = now, !.started = NoTime, !.queue = Null,
              !.dedup = Null]

cancel_workflow(db, id, now) ==
    Reply(Update(db, CancelTargets(db, {id}), LAMBDA r : Cancelled(r, now)), "ok")

cancel_workflows(db, ids, now) ==
    Reply(Update(db, CancelTargets(db, ids), LAMBDA r : Cancelled(r, now)), "ok")

ResumeTargets(db, ids) == {r \in db.wf : r.id \in ids /\ r.status \notin {"SUCCESS", "ERROR"}}

Resumed(r) ==
    [r EXCEPT !.status = "PENDING", !.attempts = 0, !.deadline = NoTime, !.dedup = Null,
              !.started = NoTime, !.completed = NoTime]

resume_workflow(db, id) ==
    Reply(Update(db, ResumeTargets(db, {id}), Resumed), ResumeTargets(db, {id}) # {})

resume_workflows(db, ids) ==
    Reply(Update(db, ResumeTargets(db, ids), Resumed), {r.id : r \in ResumeTargets(db, ids)})

enqueue_existing(db, id, q) ==
    Reply(Update(db, Rows(db, id),
                 LAMBDA r : [r EXCEPT !.status = "ENQUEUED", !.queue = q, !.exec = "",
                                      !.started = NoTime]), "ok")

set_workflow_delay(db, id, until) ==
    LET hit == {r \in Rows(db, id) : r.status = "DELAYED"}
    IN Reply(Update(db, hit, LAMBDA r : [r EXCEPT !.delay = until]), hit # {})

transition_delayed_workflows(db, now) ==
    LET hit == {r \in db.wf : r.status = "DELAYED" /\ r.delay # NoTime /\ r.delay <= now}
    IN Reply(Update(db, hit, LAMBDA r : [r EXCEPT !.status = "ENQUEUED", !.delay = NoTime]),
             Cardinality(hit))

\* Two statements of one transaction: the counter, then the status once it is past max.
bump_recovery_attempts(db, id, max) ==
    LET Bumped(r) == [r EXCEPT !.attempts = @ + 1,
                               !.status = IF r.attempts + 1 > max
                                            THEN "MAX_RECOVERY_ATTEMPTS_EXCEEDED" ELSE @,
                               !.dedup = IF r.attempts + 1 > max THEN Null ELSE @]
    IN Reply(Update(db, Rows(db, id), Bumped),
             IF Exists(db, id) THEN TheRow(db, id).attempts + 1 ELSE 0)

(***************************************************************************)
(* Queues.  A request has queue, part (Null when not partitioned), max,    *)
(* rate and global (NoLimit when not set), exec and version.               *)
(***************************************************************************)
OfQueue(db, req) ==
    {r \in db.wf : r.queue = req.queue /\ (req.part = Null \/ r.part = req.part)}

Latest(db) == {v \in db.vers : \A u \in db.vers : u.stamp <= v.stamp}

Allowed(db, req, now) ==
    LET recent  == {r \in OfQueue(db, req) : /\ r.limited
                                             /\ r.status \notin {"ENQUEUED", "DELAYED"}
                                             /\ r.started # NoTime
                                             /\ r.started + Period > now}
        pending == {r \in OfQueue(db, req) : r.status = "PENDING"}
        Left(limit, used) == IF limit = NoLimit THEN NoLimit
                             ELSE IF limit > used THEN limit - used ELSE 0
    IN Min({req.max, Left(req.rate, Cardinality(recent)),
            Left(req.global, Cardinality(pending))})

Claimable(db, req) ==
    LET is_latest == Latest(db) = {} \/ \E v \in Latest(db) : v.name = req.version
    IN {r \in OfQueue(db, req) : /\ r.status = "ENQUEUED"
                                 /\ r.version = req.version \/ (r.version = "" /\ is_latest)}

dequeue_workflows(db, req, now) ==
    LET InOrder(r, s) == r.prio < s.prio \/ (r.prio = s.prio /\ r.created < s.created)
        order   == Ordered(Claimable(db, req), InOrder)
        claimed == SubSeq(order, 1, Min({Allowed(db, req, now), Len(order)}))
        Claim(r) == [r EXCEPT !.status = "PENDING", !.exec = req.exec, !.version = req.version,
                              !.started = now, !.limited = req.rate # NoLimit,
                              !.deadline = IF r.timed /\ @ = NoTime THEN now + Timeout ELSE @]
    IN Reply(Update(db, Range(claimed), Claim),
             [i \in DOMAIN claimed |-> row_to_status(Claim(claimed[i]))])

queue_partitions(db, q) ==
    {r.part : r \in {x \in db.wf : x.queue = q /\ x.status = "ENQUEUED" /\ x.part # Null}}

(***************************************************************************)
(* operation_outputs: [wf, seq, name, what, text], keyed by wf and seq     *)
(***************************************************************************)
OpsAt(db, id, seq) == {o \in db.ops : o.wf = id /\ o.seq = seq}

\* INSERT ... ON CONFLICT (workflow_uuid, function_id) DO NOTHING.
InsertOp(db, id, seq, name, what) ==
    IF OpsAt(db, id, seq) # {} \/ ~Exists(db, id) THEN db
    ELSE [db EXCEPT !.ops = @ \cup {[wf |-> id, seq |-> seq, name |-> name, what |-> what,
                                      text |-> Encoded(db)]}]

\* The foreign key of operation_outputs and workflow_events.
Checked(db, id, ret) == IF Exists(db, id) THEN ret ELSE "foreign key"

\* The outcome as its text decodes.
Opened(o) ==
    IF \/ o.what.tag = "output" /\ ~decode(o.text)
       \/ o.what.tag = "error" /\ ~decode_error(o.text)
      THEN [o.what EXCEPT !.val = Garbled] ELSE o.what

step_outcome_from(o) == IF o.what.tag = "none" THEN {} ELSE {Opened(o)}

get_step_result(db, id, seq) ==
    UNION {{[name |-> o.name, what |-> w] : w \in step_outcome_from(o)} : o \in OpsAt(db, id, seq)}

record_step_result(db, id, seq, name, what) ==
    LET after == InsertOp(db, id, seq, name, what)
        found == UNION {step_outcome_from(o) : o \in OpsAt(after, id, seq)}
    IN Reply(after, Checked(db, id, IF found = {} THEN NullOut ELSE CHOOSE w \in found : TRUE))

record_child_workflow(db, id, seq, name, child) ==
    Reply(InsertOp(db, id, seq, name, Child(child)), Checked(db, id, "ok"))

record_patch(db, id, seq, name) ==
    Reply(InsertOp(db, id, seq, name, Marker), Checked(db, id, "ok"))

check_child_workflow(db, id, seq) ==
    {<<o.what.child, o.name>> : o \in {x \in OpsAt(db, id, seq) : x.what.child # Null}}

get_step_name(db, id, seq) == {o.name : o \in OpsAt(db, id, seq)}

get_workflow_steps(db, id) ==
    Ordered({[seq |-> o.seq, name |-> o.name, what |-> Opened(o)] : o \in {x \in db.ops : x.wf = id}},
            LAMBDA a, b : a.seq < b.seq)

(***************************************************************************)
(* notifications, workflow_events, streams                                 *)
(***************************************************************************)
\* message_uuid: derived from the key, or fresh.
MessageUuid(dest, key, now) == IF key = Null THEN <<"fresh", dest, now>> ELSE <<key, dest, 0>>

insert_notification(db, dest, topic, val, key, now) ==
    LET n == [uuid |-> MessageUuid(dest, key, now), dest |-> dest, topic |-> topic, val |-> val,
              consumed |-> FALSE, created |-> now]
    IN IF \E m \in db.notes : m.uuid = n.uuid THEN Reply(db, "ok")
       ELSE IF ~Exists(db, dest) THEN Reply(db, "nonexistent")
       ELSE Reply([db EXCEPT !.notes = @ \cup {n}], "ok")

consume_notification(db, id, topic, seq, name) ==
    LET waiting == {n \in db.notes : n.dest = id /\ n.topic = topic /\ ~n.consumed}
        n       == CHOOSE m \in waiting : \A o \in waiting : m.created <= o.created
        taken   == [db EXCEPT !.notes = (@ \ {n}) \cup {[n EXCEPT !.consumed = TRUE]}]
    IN IF waiting = {} THEN Reply(db, {})
       ELSE Reply(InsertOp(taken, id, seq, name, Out(n.val)), {n.val})

upsert_event(db, id, key, val) ==
    IF ~Exists(db, id) THEN Reply(db, "foreign key") ELSE
    Reply([db EXCEPT !.events = {e \in @ : ~(e.wf = id /\ e.key = key)}
                                  \cup {[wf |-> id, key |-> key, val |-> val,
                                         text |-> Encoded(db)]}], "ok")

\* The value of an event or a stream entry; the close marker is stored as it is.
Decoded(e) == IF e.val = CLOSED \/ decode(e.text) THEN e.val ELSE Garbled

get_event_value(db, id, key) == {Decoded(e) : e \in {x \in db.events : x.wf = id /\ x.key = key}}

list_workflow_events(db, id) ==
    {<<e.key, Decoded(e)>> : e \in {x \in db.events : x.wf = id}}

list_workflow_notifications(db, id) ==
    LET mine == Ordered({n \in db.notes : n.dest = id}, LAMBDA a, b : a.created < b.created)
    IN [i \in DOMAIN mine |-> [topic |-> mine[i].topic, val |-> mine[i].val,
                               consumed |-> mine[i].consumed, created |-> mine[i].created]]

Entries(db, id, key) == {s \in db.streams : s.wf = id /\ s.key = key}

write_stream(db, id, key, val) ==
    LET there == Entries(db, id, key)
        off   == IF there = {} THEN 0 ELSE Max({s.off : s \in there}) + 1
    IN IF \E s \in there : s.val = CLOSED THEN Reply(db, "closed")
       ELSE IF ~Exists(db, id) THEN Reply(db, "nonexistent")
       ELSE Reply([db EXCEPT !.streams = @ \cup {[wf |-> id, key |-> key, val |-> val,
                                                  off |-> off, text |-> Encoded(db)]}], "ok")

Values(entries) ==
    LET order == Ordered(entries, LAMBDA a, b : a.off < b.off)
    IN [i \in DOMAIN order |-> Decoded(order[i])]

read_stream(db, id, key, from) ==
    LET vals == Values({s \in Entries(db, id, key) : s.off >= from})
        end  == SelectInSeq(vals, LAMBDA v : v = CLOSED)
    IN [values |-> IF end = 0 THEN vals ELSE SubSeq(vals, 1, end - 1), closed |-> end # 0]

\* group_stream_rows: every key, the sentinel left out.
list_workflow_streams(db, id) ==
    {<<k, SelectSeq(Values(Entries(db, id, k)), LAMBDA v : v # CLOSED)>> :
        k \in {s.key : s \in {x \in db.streams : x.wf = id}}}

(***************************************************************************)
(* Listing and aggregation                                                 *)
(***************************************************************************)
push_list_filters(db, f, r) ==
    LET In(set, v)    == set = {} \/ v \in set
        From(bound, t) == bound = NoTime \/ (t # NoTime /\ t >= bound)
        To(bound, t)   == bound = NoTime \/ (t # NoTime /\ t <= bound)
    IN /\ In(f.ids, r.id) /\ In(f.status, r.status) /\ In(f.queue, r.queue)
       /\ In(f.version, r.version) /\ In(f.exec, r.exec) /\ In(f.forked, r.forked)
       /\ In(f.parent, r.parent) /\ In(f.was, r.id \in db.was) /\ In(f.hasParent, r.parent # Null)
       /\ From(f.start, r.created) /\ To(f.end, r.created)
       /\ From(f.after, r.completed) /\ To(f.before, r.completed)
       /\ f.queuesOnly => r.queue # Null

\* The rows of one page, before their texts are decoded.
Page(db, f) ==
    LET order == Ordered({r \in db.wf : push_list_filters(db, f, r)},
                         LAMBDA a, b : IF f.desc THEN a.created > b.created
                                                 ELSE a.created < b.created)
    IN SubSeq(order, f.offset + 1, Min({f.offset + f.limit, Len(order)}))

list_workflows(db, f) == [i \in DOMAIN Page(db, f) |-> row_to_status(Page(db, f)[i])]

get_workflow_aggregates(db, dims, f) ==
    LET hit == {r \in db.wf : push_list_filters(db, f, r)}
        Key(r) == [d \in dims |-> r[d]]
        Group(g) == {r \in hit : Key(r) = g}
        Latencies(g) == {r.completed - r.created : r \in {x \in Group(g) : x.completed # NoTime}}
    IN {[group |-> g, count |-> Cardinality(Group(g)),
         earliest |-> Min({r.created : r \in Group(g)}),
         latency |-> IF Latencies(g) = {} THEN NoTime ELSE Max(Latencies(g))] :
            g \in {Key(r) : r \in hit}}

get_step_aggregates(db) ==
    {[name |-> n, count |-> Cardinality({o \in db.ops : o.name = n})] : n \in {o.name : o \in db.ops}}

(***************************************************************************)
(* Deletion, garbage collection, fork                                      *)
(***************************************************************************)
\* DELETE FROM workflow_status; ON DELETE CASCADE takes the rows that refer to it.
DeleteRows(db, ids) ==
    [db EXCEPT !.wf = {r \in @ : r.id \notin ids}, !.was = @ \ ids, !.ops = {o \in @ : o.wf \notin ids},
               !.notes = {n \in @ : n.dest \notin ids}, !.events = {e \in @ : e.wf \notin ids},
               !.streams = {s \in @ : s.wf \notin ids}]

\* WITH RECURSIVE targets: from the ids that exist, along parent_workflow_id.
Descendants(db, ids) ==
    LET all  == {r.id : r \in db.wf}
        down == TransitiveClosure([e \in all \X all |-> TheRow(db, e[2]).parent = e[1]], all)
    IN {d \in all : \E i \in ids \cap all : down[<<i, d>>]}

delete_workflows(db, ids, children) ==
    Reply(DeleteRows(db, ids \cup (IF children THEN Descendants(db, ids) ELSE {})), "ok")

\* Mutant: created_at <= the bound instead of <.
garbage_collect_through(db, cutoff, threshold) ==
    LET bound == resolve_gc_cutoff(Page(db, NthNewest(threshold)), cutoff, threshold)
        old   == {r.id : r \in {x \in db.wf : x.created <= bound /\ x.status \notin InFlight}}
    IN IF BadThreshold(threshold) THEN Reply(db, "error")
       ELSE Reply(DeleteRows(db, old), Cardinality(old))

\* The listing (without payloads), then the DELETE.  They are two statements: rows inserted in
\* between only move the bound further behind the newest rows.
garbage_collect(db, cutoff, threshold) ==
    LET bound == resolve_gc_cutoff(Page(db, NthNewest(threshold)), cutoff, threshold)
        old   == {r.id : r \in {x \in db.wf : x.created < bound /\ x.status \notin InFlight}}
    IN IF BadThreshold(threshold) THEN Reply(db, "error")
       ELSE Reply(DeleteRows(db, old), Cardinality(old))

fork_workflow(db, p, now) ==
    LET o == TheRow(db, p.orig)
        r == [NewRow(p.new, "ENQUEUED", "", IF p.version = Null THEN o.version ELSE p.version, now)
                EXCEPT !.forked = p.orig, !.queue = p.queue, !.part = p.part,
                       !.text = Text(db.ser, o.text.fmt)]
    IN IF ~Exists(db, p.orig) THEN Reply(db, "nonexistent")
       ELSE IF Exists(db, p.new) THEN Reply(db, "exists")
       ELSE Reply([db EXCEPT !.wf = @ \cup {r}, !.was = @ \cup {p.orig},
                             !.ops = @ \cup {[c EXCEPT !.wf = p.new] :
                                               c \in {x \in @ : x.wf = p.orig /\ x.seq < p.start}}],
                  "ok")

(***************************************************************************)
(* Export and import.  completed_at, rate_limited and the notifications    *)
(* are not exported.  The texts are exported as they are; only the row's   *)
(* format name goes with them.                                             *)
(***************************************************************************)
Unnamed(rows) == {[o EXCEPT !.text.fmt = Null] : o \in rows}

ExportOne(db, id) ==
    [row     |-> [TheRow(db, id) EXCEPT !.completed = NoTime, !.limited = FALSE],
     was     |-> id \in db.was,
     ops     |-> Unnamed({o \in db.ops : o.wf = id}),
     events  |-> Unnamed({e \in db.events : e.wf = id}),
     streams |-> Unnamed({s \in db.streams : s.wf = id})]

export_workflow(db, id, children) ==
    IF ~Exists(db, id) THEN {}
    ELSE {ExportOne(db, i) : i \in {id} \cup (IF children THEN Descendants(db, {id}) ELSE {})}

\* One transaction.  An imported fork marks its source, whether that is imported or here.
import_workflow(db, exported) ==
    LET marked == {x.row.id : x \in {y \in exported : y.was}}
                    \cup {r.id : r \in {y \in db.wf \cup {x.row : x \in exported} :
                                        \E x \in exported : x.row.forked = y.id}}
    IN IF \E x \in exported : Exists(db, x.row.id) \/ HoldsDedup(db, x.row.queue, x.row.dedup) # {}
         THEN Reply(db, "exists")
         ELSE Reply([db EXCEPT !.wf = @ \cup {x.row : x \in exported}, !.was = @ \cup marked,
                               !.ops = @ \cup UNION {x.ops : x \in exported},
                               !.events = @ \cup UNION {x.events : x \in exported},
                               !.streams = @ \cup UNION {x.streams : x \in exported}], "ok")

(***************************************************************************)
(* Schedules, application versions, queue registry                         *)
(***************************************************************************)
create_schedule(db, s) ==
    IF \E x \in db.scheds : x.name = s.name THEN Reply(db, "exists")
    ELSE Reply([db EXCEPT !.scheds = @ \cup {s}], "ok")

\* Delete and insert each name, in one transaction.
apply_schedules(db, new) ==
    Reply([db EXCEPT !.scheds = {x \in @ : \A s \in new : s.name # x.name} \cup new], "ok")

OnSchedule(db, name, column, value) ==
    LET hit == {x \in db.scheds : x.name = name}
    IN Reply([db EXCEPT !.scheds = (@ \ hit) \cup {[x EXCEPT ![column] = value] : x \in hit}],
             hit # {})

set_schedule_status(db, name, status) ==
    OnSchedule(db, name, "status", status)

set_schedule_last_fired(db, name, at) ==
    Reply(OnSchedule(db, name, "last", at).db, "ok")

delete_schedule(db, name) ==
    LET hit == {x \in db.scheds : x.name = name}
    IN Reply([db EXCEPT !.scheds = @ \ hit], hit # {})

list_schedules(db, statuses) == {x \in db.scheds : statuses = {} \/ x.status \in statuses}

create_application_version(db, name, now) ==
    IF \E v \in db.vers : v.name = name THEN Reply(db, "ok")
    ELSE Reply([db EXCEPT !.vers = @ \cup {[name |-> name, stamp |-> now]}], "ok")

set_latest_application_version(db, name, now) ==
    LET hit == {v \in db.vers : v.name = name}
    IN Reply([db EXCEPT !.vers = (@ \ hit) \cup {[v EXCEPT !.stamp = now] : v \in hit}], hit # {})

list_application_versions(db) ==
    LET order == Ordered(db.vers, LAMBDA a, b : a.stamp > b.stamp)
    IN [i \in DOMAIN order |-> order[i].name]

get_latest_application_version(db) == {v.name : v \in Latest(db)}

upsert_queue(db, q, overwrite) ==
    LET there == {x \in db.queues : x.name = q.name}
    IN IF there # {} /\ ~overwrite THEN Reply(db, "ok")
       ELSE Reply([db EXCEPT !.queues = (@ \ there) \cup {q}], "ok")

list_queues(db) == db.queues
=============================================================================
