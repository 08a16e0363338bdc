----------------------------- MODULE MCBackends -----------------------------
(***************************************************************************)
(* What the callers of Backends may do, one focus per group of calls that  *)
(* share state; every behaviour picks one.                                 *)
(***************************************************************************)
EXTENDS Backends

Base == [ops |-> {}, ids |-> {}, seqs |-> {}, rows |-> {}, requests |-> {}, statuses |-> {},
         topics |-> {"t1"}, vals |-> {1}, names |-> {"s1"}, maxAttempts |-> 1, horizon |-> 4,
         ser |-> DBOS_JSON]

Direct(id)    == NewRow(id, "PENDING", "e1", "v1", 0)
Queued(id)    == [NewRow(id, "ENQUEUED", "", "v1", 0) EXCEPT !.queue = "q1"]
ChildOf(p, id) == [Direct(id) EXCEPT !.parent = p]

Request == [queue |-> "q1", part |-> Null, max |-> 2, rate |-> NoLimit, global |-> NoLimit,
            exec |-> "e2", version |-> "v1"]

\* One row's life: direct, queued with a deduplication id, or delayed.
RowFocus ==
    [Base EXCEPT
       !.ops = {"insert", "set", "cancel", "resume", "requeue", "bump", "delay"},
       !.ids = {"a", "b"}, !.horizon = 3, !.statuses = {"SUCCESS"}, !.maxAttempts = 0,
       !.rows = {Direct("a"), [Queued("a") EXCEPT !.dedup = "d1"],
                 [Queued("b") EXCEPT !.dedup = "d1", !.status = "DELAYED", !.timed = TRUE]}]

\* Three rows of one queue, told apart by priority, partition and version.
QueueFocus ==
    [Base EXCEPT
       !.ops = {"insert", "dequeue", "set", "tick"}, !.statuses = {"SUCCESS"},
       !.ids = {"a", "b", "c"}, !.horizon = 5,
       !.rows = {[Queued("a") EXCEPT !.prio = 2, !.part = "p1"],
                 [Queued("b") EXCEPT !.prio = 1, !.version = "", !.timed = TRUE],
                 [Queued("c") EXCEPT !.prio = 1, !.part = "p1"]},
       !.requests = {Request, [Request EXCEPT !.part = "p1", !.global = 1],
                     [Request EXCEPT !.max = 1, !.rate = 1]}]

\* Who may claim a row without a version, while the latest version moves.
VersionFocus ==
    [Base EXCEPT
       !.ops = {"insert", "dequeue", "cancel", "resume", "requeue", "version"},
       !.ids = {"a"}, !.horizon = 5,
       !.rows = {[Queued("a") EXCEPT !.version = ""]},
       !.requests = {Request, [Request EXCEPT !.version = "v2", !.exec = "e1"]}]

\* Outcomes, children and patches that compete for a position, and forks of their logs.
LogFocus ==
    [Base EXCEPT !.ops = {"insert", "step", "child", "patch", "fork"}, !.ids = {"a", "b"},
                 !.seqs = {0, 1}, !.names = {"s1", "s2"}, !.rows = {Direct("a")}]

MailFocus ==
    [Base EXCEPT !.ops = {"insert", "send", "event"}, !.ids = {"a", "b"}, !.seqs = {0, 1},
                 !.topics = {"t1", "t2"}, !.horizon = 6, !.rows = {Direct("a")}]

StreamFocus ==
    [Base EXCEPT !.ops = {"insert", "stream", "delete"}, !.ids = {"a", "b"},
                 !.vals = {1, 2}, !.rows = {Direct("a"), Direct("b")}]

\* A tree of workflows, and workflows with steps, messages and events.
TreeFocus ==
    [Base EXCEPT !.ops = {"insert", "set", "delete", "gc"}, !.statuses = {"SUCCESS"},
                 !.ids = {"a", "b", "c"}, !.horizon = 5,
                 !.rows = {Direct("a"), ChildOf("a", "b"), ChildOf("b", "c")}]

PurgeFocus ==
    [Base EXCEPT !.ops = {"insert", "step", "send", "event", "set", "delete", "gc"},
                 !.ids = {"a", "b"}, !.seqs = {0}, !.statuses = {"SUCCESS"},
                 !.rows = {Direct("a"), ChildOf("a", "b")}]

\* Everything an export carries, and exports of several workflows.
ArchiveFocus ==
    [Base EXCEPT !.ops = {"insert", "set", "step", "event", "stream", "export"},
                 !.ids = {"a"}, !.statuses = {"SUCCESS"}, !.seqs = {0}, !.horizon = 3, !.rows = {Direct("a")}]

PortableFocus == [ArchiveFocus EXCEPT !.ser = PORTABLE]

FamilyFocus ==
    [Base EXCEPT !.ops = {"insert", "step", "fork", "export"}, !.ids = {"a", "b"}, !.seqs = {0},
                 !.rows = {Direct("a"), ChildOf("a", "b")}]

ScheduleFocus == [Base EXCEPT !.ops = {"schedule", "tick"}]
RegistryFocus == [Base EXCEPT !.ops = {"version", "queues"}]

AllFocuses == {RowFocus, QueueFocus, VersionFocus, LogFocus, MailFocus, StreamFocus, TreeFocus,
               PurgeFocus, ArchiveFocus, PortableFocus, FamilyFocus, ScheduleFocus, RegistryFocus}

SomeFilters ==
    {NoFilter,
     [NoFilter EXCEPT !.desc = TRUE, !.limit = 1, !.offset = 1],
     [NoFilter EXCEPT !.limit = 2, !.offset = 3],
     [NoFilter EXCEPT !.ids = {"b", "c"}, !.hasParent = {TRUE}],
     [NoFilter EXCEPT !.parent = {"a"}, !.desc = TRUE],
     [NoFilter EXCEPT !.status = {"PENDING", "ENQUEUED"}, !.queuesOnly = TRUE],
     [NoFilter EXCEPT !.queue = {"q1"}, !.exec = {"e2", ""}],
     [NoFilter EXCEPT !.version = {"v2"}, !.forked = {"a"}],
     [NoFilter EXCEPT !.start = 2, !.end = 3],
     [NoFilter EXCEPT !.after = 2, !.before = 3],
     [NoFilter EXCEPT !.was = {TRUE}],
     [NoFilter EXCEPT !.was = {FALSE}, !.hasParent = {FALSE}]}
=============================================================================
