----------------------------- MODULE MemoryStore -----------------------------
(***************************************************************************)
(* The same calls as memory.rs implements them, on maps keyed by workflow  *)
(* id behind one mutex.  Nothing enforces uniqueness or references here:   *)
(* what SqliteStore gets from the schema this code does by hand, or not.   *)
(***************************************************************************)
EXTENDS StoreTypes, FiniteSetsExt, SequencesExt

CONSTANTS
    Period,     \* rate limit window
    Timeout     \* workflow timeout of the rows that have one

NoEntries == [k \in {} |-> 0]

EmptyDb ==
    [workflows |-> NoEntries, steps |-> NoEntries, notifications |-> <<>>, events |-> NoEntries,
     streams |-> NoEntries, schedules |-> NoEntries, versions |-> NoEntries, queues |-> NoEntries]

\* HashMap::insert, entry().or_insert and retain.
Put(f, k, v) == [x \in DOMAIN f \cup {k} |-> IF x = k THEN v ELSE f[x]]
PutIfAbsent(f, k, v) == IF k \in DOMAIN f THEN f ELSE Put(f, k, v)
Keep(f, keys) == [x \in DOMAIN f \cap keys |-> f[x]]
Lookup(f, k) == IF k \in DOMAIN f THEN {f[k]} ELSE {}

Has(db, id) == id \in DOMAIN db.workflows

\* get_mut: the row is changed in place when it is there and passes the test.
Change(db, id, ok, F(_)) ==
    IF Has(db, id) /\ ok THEN [db EXCEPT !.workflows[id] = F(@)] ELSE db

(***************************************************************************)
(* workflows                                                               *)
(***************************************************************************)
insert_workflow_status(db, s) ==
    IF /\ s.queue # Null /\ s.dedup # Null
       /\ \E i \in DOMAIN db.workflows : /\ i # s.id
                                         /\ db.workflows[i].queue = s.queue
                                         /\ db.workflows[i].dedup = s.dedup
      THEN Reply(db, Inserted("deduplicated", {}))
      ELSE LET after == [db EXCEPT !.workflows = PutIfAbsent(@, s.id, s)]
           IN Reply(after, Inserted(IF Has(db, s.id) THEN "existed" ELSE "created",
                                    Lookup(after.workflows, s.id)))

get_deduplicated_workflow(db, q, d) ==
    {i \in DOMAIN db.workflows : db.workflows[i].queue = q /\ db.workflows[i].dedup = d}

get_workflow_status(db, id) == Lookup(db.workflows, id)

set_workflow_status(db, id, status, out, now) ==
    LET blocked == is_completion(status) /\ db.workflows[id].status = "CANCELLED"
        Written(r) == [r EXCEPT !.status = status,
                                !.out = IF out # 0 THEN out ELSE @,
                                !.completed = IF is_terminal(status) THEN now ELSE @,
                                !.dedup = IF is_terminal(status) THEN Null ELSE @]
    IN IF ~Has(db, id) THEN Reply(db, "ok")
       ELSE IF blocked THEN Reply(db, "cancelled")
       ELSE Reply(Change(db, id, TRUE, Written), "ok")

Cancelled(r, now) ==
    [r EXCEPT !.status = "CANCELLED", !.completed = now, !.started = NoTime, !.queue = Null,
              !.dedup = Null]

CanCancel(db, id) == Has(db, id) /\ ~is_terminal(db.workflows[id].status)

cancel_workflow(db, id, now) ==
    Reply(Change(db, id, CanCancel(db, id), LAMBDA r : Cancelled(r, now)), "ok")

cancel_workflows(db, ids, now) ==
    Reply([db EXCEPT !.workflows = [i \in DOMAIN @ |->
             IF i \in ids /\ CanCancel(db, i) THEN Cancelled(@[i], now) ELSE @[i]]], "ok")

CanResume(db, id) ==
    /\ Has(db, id)
    /\ ~is_terminal(db.workflows[id].status) \/ db.workflows[id].status = "CANCELLED"

Resumed(r) ==
    [r EXCEPT !.status = "PENDING", !.attempts = 0, !.deadline = NoTime, !.dedup = Null,
              !.started = NoTime, !.completed = NoTime]

resume_workflow(db, id) == Reply(Change(db, id, CanResume(db, id), Resumed), CanResume(db, id))

resume_workflows(db, ids) ==
    LET hit == {i \in ids : CanResume(db, i)}
    IN Reply([db EXCEPT !.workflows = [i \in DOMAIN @ |->
                IF i \in hit THEN Resumed(@[i]) ELSE @[i]]], hit)

enqueue_existing(db, id, q) ==
    Reply(Change(db, id, TRUE, LAMBDA r : [r EXCEPT !.status = "ENQUEUED", !.queue = q,
                                                    !.exec = "", !.started = NoTime]), "ok")

set_workflow_delay(db, id, until) ==
    LET hit == Has(db, id) /\ db.workflows[id].status = "DELAYED"
    IN Reply(Change(db, id, hit, LAMBDA r : [r EXCEPT !.delay = until]), hit)

transition_delayed_workflows(db, now) ==
    LET Due(r) == r.status = "DELAYED" /\ r.delay # NoTime /\ r.delay <= now
        due == {i \in DOMAIN db.workflows : Due(db.workflows[i])}
    IN Reply([db EXCEPT !.workflows = [i \in DOMAIN @ |->
                IF i \in due THEN [@[i] EXCEPT !.status = "ENQUEUED", !.delay = NoTime]
                             ELSE @[i]]], Cardinality(due))

bump_recovery_attempts(db, id, max) ==
    LET attempts == db.workflows[id].attempts + 1
        Bumped(r) == IF attempts > max
                       THEN [r EXCEPT !.attempts = attempts, !.dedup = Null,
                                      !.status = "MAX_RECOVERY_ATTEMPTS_EXCEEDED"]
                       ELSE [r EXCEPT !.attempts = attempts]
    IN Reply(Change(db, id, TRUE, Bumped), IF Has(db, id) THEN attempts ELSE 0)

(***************************************************************************)
(* dequeue_workflows: filter, sort and truncate a list of candidates       *)
(***************************************************************************)
OfQueue(db, req) ==
    {i \in DOMAIN db.workflows : /\ db.workflows[i].queue = req.queue
                                 /\ req.part = Null \/ db.workflows[i].part = req.part}

\* max_by_key over the versions map.
Latest(db) ==
    {v \in DOMAIN db.versions : \A u \in DOMAIN db.versions : db.versions[u] <= db.versions[v]}

Left(max, limit, used) ==
    IF limit = NoLimit THEN max ELSE Min({max, IF used > limit THEN 0 ELSE limit - used})

Allowed(db, req, now) ==
    LET recent  == {i \in OfQueue(db, req) : /\ db.workflows[i].limited
                                             /\ db.workflows[i].status # "ENQUEUED"
                                             /\ db.workflows[i].status # "DELAYED"
                                             /\ db.workflows[i].started # NoTime
                                             /\ db.workflows[i].started + Period > now}
        pending == {i \in OfQueue(db, req) : db.workflows[i].status = "PENDING"}
    IN Left(Left(req.max, req.rate, Cardinality(recent)), req.global, Cardinality(pending))

Claimable(db, req) ==
    LET latest == Latest(db) = {} \/ req.version \in Latest(db)
    IN {i \in OfQueue(db, req) : /\ db.workflows[i].status = "ENQUEUED"
                                 /\ \/ db.workflows[i].version = req.version
                                    \/ db.workflows[i].version = "" /\ latest}

\* Mutant: the candidates are sorted by age alone.
ByAge(db, ids) ==
    Ordered(ids, LAMBDA i, j : db.workflows[i].created < db.workflows[j].created)

ByPriority(db, ids) ==
    Ordered(ids, LAMBDA i, j :
        \/ db.workflows[i].prio < db.workflows[j].prio
        \/ /\ db.workflows[i].prio = db.workflows[j].prio
           /\ db.workflows[i].created < db.workflows[j].created)

dequeue_workflows(db, req, now) ==
    LET ids     == ByPriority(db, Claimable(db, req))
        claimed == SubSeq(ids, 1, Min({Allowed(db, req, now), Len(ids)}))
        Claim(r) == [r EXCEPT !.status = "PENDING", !.exec = req.exec, !.version = req.version,
                              !.started = now, !.limited = req.rate # NoLimit,
                              !.deadline = IF @ = NoTime /\ r.timed THEN now + Timeout ELSE @]
    IN Reply([db EXCEPT !.workflows = [i \in DOMAIN @ |->
                IF i \in Range(claimed) THEN Claim(@[i]) ELSE @[i]]],
             [k \in DOMAIN claimed |-> Claim(db.workflows[claimed[k]])])

queue_partitions(db, q) ==
    {db.workflows[i].part : i \in {j \in DOMAIN db.workflows :
        /\ db.workflows[j].queue = q /\ db.workflows[j].status = "ENQUEUED"
        /\ db.workflows[j].part # Null}}

(***************************************************************************)
(* steps, keyed by <<workflow id, seq>>                                    *)
(***************************************************************************)
StepRow(name, what) == [name |-> name, what |-> what]

InsertStep(db, id, seq, name, what) ==
    [db EXCEPT !.steps = PutIfAbsent(@, <<id, seq>>, StepRow(name, what))]

\* A row with neither output nor error reads as a null output.
step_row_outcome(what) == IF what.tag = "none" THEN NullOut ELSE what

get_step_result(db, id, seq) ==
    {[name |-> s.name, what |-> step_row_outcome(s.what)] : s \in Lookup(db.steps, <<id, seq>>)}

record_step_result(db, id, seq, name, what) ==
    LET after == InsertStep(db, id, seq, name, what)
    IN Reply(after, step_row_outcome(after.steps[<<id, seq>>].what))

record_child_workflow(db, id, seq, name, child) ==
    Reply(InsertStep(db, id, seq, name, Child(child)), "ok")

record_patch(db, id, seq, name) == Reply(InsertStep(db, id, seq, name, Marker), "ok")

check_child_workflow(db, id, seq) ==
    {<<s.what.child, s.name>> : s \in {x \in Lookup(db.steps, <<id, seq>>) : x.what.child # Null}}

get_step_name(db, id, seq) == {s.name : s \in Lookup(db.steps, <<id, seq>>)}

get_workflow_steps(db, id) ==
    LET mine == Ordered({k \in DOMAIN db.steps : k[1] = id}, LAMBDA a, b : a[2] < b[2])
    IN [i \in DOMAIN mine |-> [seq |-> mine[i][2], name |-> db.steps[mine[i]].name,
                               what |-> db.steps[mine[i]].what]]

(***************************************************************************)
(* notifications (a vector), events and streams                            *)
(***************************************************************************)
MessageUuid(dest, key, now) == IF key = Null THEN <<"fresh", dest, now>> ELSE <<key, dest, 0>>

insert_notification(db, dest, topic, val, key, now) ==
    LET uuid == MessageUuid(dest, key, now)
    IN IF ~Has(db, dest) THEN Reply(db, "nonexistent")
       ELSE IF key # Null /\ \E n \in Range(db.notifications) : n.uuid = uuid THEN Reply(db, "ok")
       ELSE Reply([db EXCEPT !.notifications =
                     Append(@, [uuid |-> uuid, dest |-> dest, topic |-> topic, val |-> val,
                                consumed |-> FALSE, created |-> now])], "ok")

Unconsumed(db, id, topic) ==
    {i \in DOMAIN db.notifications : /\ ~db.notifications[i].consumed
                                     /\ db.notifications[i].dest = id
                                     /\ db.notifications[i].topic = topic}

OldestOf(db, rows) ==
    CHOOSE i \in rows : \A j \in rows : db.notifications[i].created <= db.notifications[j].created

consume_notification(db, id, topic, seq, name) ==
    LET waiting == Unconsumed(db, id, topic)
        oldest  == OldestOf(db, waiting)
        taken   == [db EXCEPT !.notifications[oldest].consumed = TRUE]
        after   == InsertStep(taken, id, seq, name, Out(db.notifications[oldest].val))
        found   == after.steps[<<id, seq>>].what
    IN IF waiting = {} THEN Reply(db, {})
       ELSE Reply(after, {IF found.tag = "output" THEN found.val ELSE NullOut.val})

upsert_event(db, id, key, val) ==
    Reply([db EXCEPT !.events = Put(@, <<id, key>>, val)], "ok")

get_event_value(db, id, key) == Lookup(db.events, <<id, key>>)

list_workflow_events(db, id) ==
    {<<k[2], db.events[k]>> : k \in {x \in DOMAIN db.events : x[1] = id}}

list_workflow_notifications(db, id) ==
    LET mine == SortSeq(SelectSeq(db.notifications, LAMBDA n : n.dest = id),
                        LAMBDA a, b : a.created < b.created)
    IN [i \in DOMAIN mine |-> [topic |-> mine[i].topic, val |-> mine[i].val,
                               consumed |-> mine[i].consumed, created |-> mine[i].created]]

Stream(db, id, key) == IF <<id, key>> \in DOMAIN db.streams THEN db.streams[<<id, key>>] ELSE <<>>

write_stream(db, id, key, val) ==
    IF CLOSED \in Range(Stream(db, id, key)) THEN Reply(db, "closed")
    ELSE Reply([db EXCEPT !.streams = Put(@, <<id, key>>, Append(Stream(db, id, key), val))], "ok")

\* The values before the first None.
Open(entries) ==
    LET end == SelectInSeq(entries, LAMBDA v : v = CLOSED)
    IN IF end = 0 THEN entries ELSE SubSeq(entries, 1, end - 1)

read_stream(db, id, key, from) ==
    LET entries == SubSeq(Stream(db, id, key), from + 1, Len(Stream(db, id, key)))
    IN [values |-> Open(entries), closed |-> CLOSED \in Range(entries)]

list_workflow_streams(db, id) ==
    {<<k[2], Open(db.streams[k])>> : k \in {x \in DOMAIN db.streams : x[1] = id}}

(***************************************************************************)
(* Listing and aggregation                                                 *)
(***************************************************************************)
\* was_forked_from is derived: some workflow names this one in forked_from.
ForkSources(db) == {db.workflows[i].forked : i \in DOMAIN db.workflows} \ {Null}

Matches(db, f, r) ==
    LET Within(set, v) == set = {} \/ (v # Null /\ v \in set)
        Least(bound, t) == bound # NoTime => t # NoTime /\ t >= bound
        Most(bound, t)  == bound # NoTime => t # NoTime /\ t <= bound
    IN /\ Within(f.ids, r.id) /\ Within(f.status, r.status) /\ Within(f.queue, r.queue)
       /\ Within(f.version, r.version) /\ Within(f.exec, r.exec)
       /\ Within(f.forked, r.forked) /\ Within(f.parent, r.parent)
       /\ f.was # {} => (r.id \in ForkSources(db)) \in f.was
       /\ f.hasParent # {} => (r.parent # Null) \in f.hasParent
       /\ Least(f.start, r.created) /\ Most(f.end, r.created)
       /\ Least(f.after, r.completed) /\ Most(f.before, r.completed)
       /\ ~f.queuesOnly \/ r.queue # Null

\* Sort oldest first, reverse, drop the offset, truncate to the limit.
list_workflows(db, f) ==
    LET found  == {db.workflows[i] : i \in {j \in DOMAIN db.workflows :
                                              Matches(db, f, db.workflows[j])}}
        sorted == Ordered(found, LAMBDA a, b : a.created < b.created)
        turned == IF f.desc THEN Reverse(sorted) ELSE sorted
        rest   == SubSeq(turned, Min({f.offset, Len(turned)}) + 1, Len(turned))
    IN SubSeq(rest, 1, Min({f.limit, Len(rest)}))

\* One accumulator per group key, filled row by row.
get_workflow_aggregates(db, dims, f) ==
    LET Add(acc, i) ==
          LET r    == db.workflows[i]
              g    == [d \in dims |-> r[d]]
              old  == IF g \in DOMAIN acc THEN acc[g]
                      ELSE [count |-> 0, earliest |-> r.created, latency |-> NoTime]
              took == IF r.completed = NoTime THEN NoTime ELSE r.completed - r.created
          IN Put(acc, g, [count |-> old.count + 1, earliest |-> Min({old.earliest, r.created}),
                          latency |-> Max({old.latency, took})])
        found == {i \in DOMAIN db.workflows : Matches(db, f, db.workflows[i])}
        accs  == FoldSet(LAMBDA i, acc : Add(acc, i), NoEntries, found)
    IN {[group |-> g, count |-> accs[g].count, earliest |-> accs[g].earliest,
         latency |-> accs[g].latency] : g \in DOMAIN accs}

get_step_aggregates(db) ==
    LET Add(acc, k) == Put(acc, db.steps[k].name,
                           IF db.steps[k].name \in DOMAIN acc THEN acc[db.steps[k].name] + 1 ELSE 1)
        accs == FoldSet(LAMBDA k, acc : Add(acc, k), NoEntries, DOMAIN db.steps)
    IN {[name |-> n, count |-> accs[n]] : n \in DOMAIN accs}

(***************************************************************************)
(* Deletion, garbage collection, fork                                      *)
(***************************************************************************)
\* Breadth first along parent_workflow_id, from the ids that were asked for.
Targets(db, ids) ==
    LET grown[n \in Nat] ==
          IF n = 0 THEN ids
          ELSE grown[n - 1] \cup {i \in DOMAIN db.workflows :
                                    db.workflows[i].parent \in grown[n - 1]}
    IN grown[Cardinality(DOMAIN db.workflows)]

\* The rows, steps, streams and messages go; the events stay.
Erase(db, ids) ==
    [db EXCEPT !.workflows = Keep(@, DOMAIN @ \ ids),
               !.steps = Keep(@, {k \in DOMAIN @ : k[1] \notin ids}),
               !.streams = Keep(@, {k \in DOMAIN @ : k[1] \notin ids}),
               !.notifications = SelectSeq(@, LAMBDA n : n.dest \notin ids)]

delete_workflows(db, ids, children) ==
    Reply(Erase(db, IF children THEN Targets(db, ids) ELSE ids), "ok")

\* The default of the trait: list the terminal rows up to cutoff - 1, delete those.
garbage_collect(db, cutoff, threshold) ==
    LET bound   == resolve_gc_cutoff(list_workflows(db, NthNewest(threshold)), cutoff, threshold)
        upto    == [NoFilter EXCEPT !.status = {"SUCCESS", "ERROR", "CANCELLED",
                                                "MAX_RECOVERY_ATTEMPTS_EXCEEDED"},
                                    !.end = bound - 1]
        victims == IF bound <= 1 THEN {} ELSE {r.id : r \in Range(list_workflows(db, upto))}
    IN IF BadThreshold(threshold) THEN Reply(db, "error")
       ELSE Reply(delete_workflows(db, victims, FALSE).db, Cardinality(victims))

\* Mutant: the step the fork restarts from is copied too.
CopiedStepsThrough(db, p) ==
    {k[2] : k \in {x \in DOMAIN db.steps : x[1] = p.orig /\ x[2] <= p.start}}

CopiedSteps(db, p) == {k[2] : k \in {x \in DOMAIN db.steps : x[1] = p.orig /\ x[2] < p.start}}

fork_workflow(db, p, now) ==
    LET o == db.workflows[p.orig]
        r == [NewRow(p.new, "ENQUEUED", "", IF p.version = Null THEN o.version ELSE p.version, now)
                EXCEPT !.forked = p.orig, !.queue = p.queue, !.part = p.part]
        copied == CopiedSteps(db, p)
    IN IF ~Has(db, p.orig) THEN Reply(db, "nonexistent")
       ELSE Reply([db EXCEPT !.workflows = Put(@, p.new, r),
                             !.steps = [k \in DOMAIN @ \cup {<<p.new, n>> : n \in copied} |->
                                          IF k[1] = p.new /\ k[2] \in copied
                                            THEN @[<<p.orig, k[2]>>] ELSE @[k]]], "ok")

(***************************************************************************)
(* Export and import                                                       *)
(***************************************************************************)
\* status_to_map, step_to_map, event_to_map, stream_to_map: every payload as plain JSON.
ExportOne(db, id) ==
    [row     |-> [db.workflows[id] EXCEPT !.completed = NoTime, !.limited = FALSE],
     was     |-> id \in ForkSources(db),
     ops     |-> {[wf |-> id, seq |-> k[2], name |-> db.steps[k].name, what |-> db.steps[k].what,
                   text |-> Plain] : k \in {x \in DOMAIN db.steps : x[1] = id}},
     events  |-> {[wf |-> id, key |-> k[2], val |-> db.events[k], text |-> Plain] :
                    k \in {x \in DOMAIN db.events : x[1] = id}},
     streams |-> UNION {{[wf |-> id, key |-> k[2], val |-> db.streams[k][n], off |-> n - 1,
                          text |-> Plain] : n \in DOMAIN db.streams[k]} :
                    k \in {x \in DOMAIN db.streams : x[1] = id}}]

export_workflow(db, id, children) ==
    IF ~Has(db, id) THEN {}
    ELSE {ExportOne(db, i) : i \in IF children THEN Targets(db, {id}) ELSE {id}}

\* Mutant: the entries are put back from the last offset down.
ReassembleBackwards(rows) ==
    [n \in 1..Cardinality(rows) |-> (CHOOSE s \in rows : s.off = Cardinality(rows) - n).val]

\* The buffer of a stream from its offset-indexed rows; a gap would read as the sentinel.
Reassemble(rows) ==
    [n \in 1..(Max({s.off : s \in rows}) + 1) |->
        IF \E s \in rows : s.off = n - 1 THEN (CHOOSE s \in rows : s.off = n - 1).val ELSE CLOSED]

\* What import makes of a text: an output that is not plain JSON is dropped, an event becomes
\* null, a stream entry the close marker; an error keeps the text it came with.
ParsedOutcome(o) ==
    IF o.what.tag = "output" /\ ~from_str(o.text) THEN Marker
    ELSE IF o.what.tag = "error" /\ o.text.by = PORTABLE THEN Err(Garbled)
    ELSE o.what
ParsedEvent(e) == IF from_str(e.text) THEN e.val ELSE NullOut.val
ParsedEntry(s) == IF from_str(s.text) THEN s.val ELSE CLOSED

\* map_to_status
map_to_status(r) == [r EXCEPT !.out = IF from_str(r.text) THEN @ ELSE 0, !.text = Plain]

import_workflow(db, exported) ==
    LET One(d, x) ==
          LET id   == x.row.id
              keys == {s.key : s \in x.streams}
              At(k) == CHOOSE o \in x.ops : o.seq = k[2]
              Ev(k) == CHOOSE e \in x.events : e.key = k[2]
              ops  == {<<id, o.seq>> : o \in x.ops}
              evs  == {<<id, e.key>> : e \in x.events}
              strs == {<<id, k>> : k \in keys}
              Entries(k) == {[s EXCEPT !.val = ParsedEntry(s)] : s \in {y \in x.streams : y.key = k}}
          IN [d EXCEPT !.workflows = Put(@, id, map_to_status(x.row)),
                       !.steps = [k \in ops |-> StepRow(At(k).name, ParsedOutcome(At(k)))] @@ @,
                       !.events = [k \in evs |-> ParsedEvent(Ev(k))] @@ @,
                       !.streams = [k \in strs |-> Reassemble(Entries(k[2]))] @@ @]
    IN IF \E x \in exported : Has(db, x.row.id) THEN Reply(db, "exists")
       ELSE Reply(FoldSet(LAMBDA x, d : One(d, x), db, exported), "ok")

(***************************************************************************)
(* Schedules, application versions, queue registry                         *)
(***************************************************************************)
create_schedule(db, s) ==
    IF s.name \in DOMAIN db.schedules THEN Reply(db, "exists")
    ELSE Reply([db EXCEPT !.schedules = Put(@, s.name, s)], "ok")

apply_schedules(db, new) ==
    Reply([db EXCEPT !.schedules = FoldSet(LAMBDA s, f : Put(f, s.name, s), @, new)], "ok")

set_schedule_status(db, name, status) ==
    IF name \in DOMAIN db.schedules
      THEN Reply([db EXCEPT !.schedules[name].status = status], TRUE)
      ELSE Reply(db, FALSE)

set_schedule_last_fired(db, name, at) ==
    IF name \in DOMAIN db.schedules
      THEN Reply([db EXCEPT !.schedules[name].last = at], "ok")
      ELSE Reply(db, "ok")

delete_schedule(db, name) ==
    Reply([db EXCEPT !.schedules = Keep(@, DOMAIN @ \ {name})], name \in DOMAIN db.schedules)

list_schedules(db, statuses) ==
    {s \in Range(db.schedules) : statuses = {} \/ s.status \in statuses}

create_application_version(db, name, now) ==
    Reply([db EXCEPT !.versions = PutIfAbsent(@, name, now)], "ok")

set_latest_application_version(db, name, now) ==
    IF name \in DOMAIN db.versions
      THEN Reply([db EXCEPT !.versions[name] = now], TRUE)
      ELSE Reply(db, FALSE)

list_application_versions(db) ==
    Ordered(DOMAIN db.versions, LAMBDA a, b : db.versions[a] > db.versions[b])

get_latest_application_version(db) == Latest(db)

upsert_queue(db, q, overwrite) ==
    IF overwrite \/ q.name \notin DOMAIN db.queues
      THEN Reply([db EXCEPT !.queues = Put(@, q.name, q)], "ok")
      ELSE Reply(db, "ok")

list_queues(db) == Range(db.queues)
=============================================================================
