-------------------------- MODULE DurableOperations --------------------------
(***************************************************************************)
(* The durable operations of DurableContext other than ordinary steps:     *)
(* send and recv, set_event and get_event, streams, durable sleep and      *)
(* durable values, select, transactional steps, child workflows and        *)
(* patches.  Each is a small protocol of several database statements, and  *)
(* the process may die between any two of them.  After a restart recovery  *)
(* runs every PENDING workflow again; a parent that had not linked its     *)
(* child spawns it a second time, so two executions of one workflow may    *)
(* overlap without anybody having asked for it.                            *)
(*                                                                         *)
(* What the workflow functions do is data: a scenario holds, for every     *)
(* workflow, the list of operations its function performs, in each version *)
(* of the code, and the initial state picks the scenario.                  *)
(***************************************************************************)
EXTENDS OperationTables

CONSTANTS
    Scenarios,      \* what is run: see ScenariosAssumption
    Names,          \* function names of operations
    Tasks,          \* bound: executions that exist at the same time
    NoId, NoTask,
    Backstop,       \* LISTEN_NOTIFY_BACKSTOP / NOTIFICATION_POLL_INTERVAL, in ticks
    MaxTxRetries    \* TransactionOptions::max_retries

ASSUME OperationsAssumption ==
    /\ {"none", "sleep"} \subseteq Names
    /\ NoId \notin Ids
    /\ NoTask \notin Tasks
    /\ Backstop \in Nat \ {0}
    /\ MaxTxRetries \in Nat

(***************************************************************************)
(* One operation of a workflow function.  name is its function_name; val   *)
(* the payload; to the destination, target or child; wait a timeout or a   *)
(* duration; next the operation that follows (0: return) and old the one   *)
(* that follows when patch() answers false.                                *)
(***************************************************************************)
Op(op, name, val, to, topic, wait, next, old) ==
    [op |-> op, name |-> name, val |-> val, to |-> to, topic |-> topic, wait |-> wait,
     next |-> next, old |-> old]

(***************************************************************************)
(* A scenario: code[v][w] is the function of w in version v of the code,   *)
(* roots are started by clients, posts are sent by clients, faults bounds  *)
(* each kind of fault, and reader says how (if at all) a client reads the  *)
(* stream of readFrom.                                                     *)
(***************************************************************************)
FaultKinds == {"crash", "deploy", "restart", "cancel", "listener", "conflict", "lost", "body"}

PatchOps == {"patch", "deprecate"}
OpKinds  == {"send", "recv", "setEvent", "getEvent", "writeStream", "closeStream", "sleep",
             "value", "select", "tx", "child", "await"} \cup PatchOps

Operation ==
    [op : OpKinds, name : Names, val : Nat, to : Ids, topic : Topics, wait : Nat, next : Nat,
     old : Nat]

\* The step positions an operation uses: recv and get_event take a second one for the deadline.
SlotsOf(op) == IF op.op \in {"recv", "getEvent"} THEN 2 ELSE 1

\* A function goes from operation to operation and never runs out of step positions.
Fits(f) ==
    \E at \in [DOMAIN f -> Slots] : \A i \in DOMAIN f :
        /\ at[i] + SlotsOf(f[i]) <= MaxSlots
        /\ \A j \in {f[i].next, f[i].old} \ {0} :
              j \in DOMAIN f /\ at[i] + SlotsOf(f[i]) <= at[j]

\* The names DBOS.sleep, DBOS.patch-... are reserved; the sentinel is no payload of a write.
Reserved(s) ==
    \A v \in DOMAIN s.code, w \in Ids : \A i \in DOMAIN s.code[v][w] :
        LET o == s.code[v][w][i]
        IN /\ o.name # "none"
           /\ \A kind \in {"sleep", "tx", "writeStream"} : o.op = kind <=> o.name = kind
           /\ o.op = "writeStream" => o.val # CLOSED
           /\ o.op \notin PatchOps =>
                \A u \in DOMAIN s.code, x \in Ids : \A j \in DOMAIN s.code[u][x] :
                    s.code[u][x][j].op \in PatchOps => s.code[u][x][j].name # o.name

\* Nobody else uses the topic of a client that sends under an idempotency key.
KeyedApart(s) ==
    \A p \in s.posts : p.key # NoKey =>
        /\ \A q \in s.posts : q.to = p.to /\ q.topic = p.topic => q = p
        /\ \A v \in DOMAIN s.code, w \in Ids : \A i \in DOMAIN s.code[v][w] :
             LET o == s.code[v][w][i]
             IN ~(o.op = "send" /\ o.to = p.to /\ o.topic = p.topic)

ASSUME ScenariosAssumption ==
    \A s \in Scenarios :
        /\ 1 \in DOMAIN s.code /\ DOMAIN s.code \subseteq Nat
        /\ \A v \in DOMAIN s.code :
             s.code[v] \in [Ids -> Seq(Operation)] /\ \A w \in Ids : Fits(s.code[v][w])
        /\ s.roots \subseteq Ids
        /\ s.posts \subseteq [to : Ids, topic : Topics, key : Keys \cup {NoKey}]
        /\ s.faults \in [FaultKinds -> Nat]
        /\ s.reader \in {"none", "drain", "values"} /\ s.readFrom \in Ids
        /\ Reserved(s) /\ KeyedApart(s)

VARIABLES
    sc,         \* the scenario
    version,    \* version of the code the process runs
    rows,       \* status of each workflow
    out,        \* operation_outputs: [Ids -> [Slots -> Entry]]
    notes,      \* notifications
    events,     \* workflow_events
    streams,    \* streams
    effects,    \* application table: commits of each transaction body, answers of them lost
    tasks,      \* executions
    created,    \* workflow ids in the order of created_at
    recover,    \* the recovery pass: its snapshot and the run it is waiting for
    hub,        \* listening: is LISTEN connected; signals: NOTIFYs under way
    reader,     \* a client reading a stream
    posted,     \* how often each client message was sent
    now,        \* the clock
    faults      \* faults left, of each kind

tables == <<rows, created, out, notes, events, streams, effects>>
vars == <<sc, version, tables, tasks, recover, hub, reader, posted, now, faults>>

IsTerminal(w) == rows[w] \in {"SUCCESS", "ERROR", "CANCELLED"}

(***************************************************************************)
(* An execution.  pc names the statement that comes next:                  *)
(*   replay     the lookup of the operation's checkpoint                   *)
(*   guard      the cancellation check in front of fresh work              *)
(*   act        the operation's own first statement                        *)
(*   append     INSERT INTO streams, after the check for the sentinel      *)
(*   claim      UPDATE notifications and the checkpoint, after the SELECT  *)
(*   deadline   lookup of the durable deadline       fix  recording it     *)
(*   subscribe  about to wait    wait  in await_change    sleeping         *)
(*   expire     recording a timeout                                        *)
(*   body       inside a transaction    retry  after a conflict            *)
(*   giveup     recording a transaction's failure                          *)
(*   spawn      creating the child      link   recording it                *)
(*   mark       recording a patch       record recording the outcome got   *)
(*   finish     set_workflow_status with res                               *)
(* seen holds what the function was given at each position.                *)
(***************************************************************************)
Pcs == {"idle", "replay", "guard", "act", "append", "claim", "deadline", "fix", "subscribe",
        "wait", "sleeping", "expire", "body", "retry", "giveup", "spawn", "link", "mark",
        "record", "finish"}

OutcomeType == [tag : Tags, val : Nat]
EffectType  == [done : Nat, lost : Nat]

Task ==
    [pc : Pcs, wf : Ids \cup {NoId}, version : Nat, ip : Nat, seq : Nat, pick : Nat,
     deadline : OutcomeType, until : Nat, try : Nat, got : OutcomeType,
     seen : [Slots -> OutcomeType],
     res : {"none", "SUCCESS", "ERROR", "CANCELLED", "UNEXPECTED"}]

IdleTask ==
    [pc |-> "idle", wf |-> NoId, version |-> 1, ip |-> 1, seq |-> 0, pick |-> 0,
     deadline |-> NoOutcome, until |-> 0, try |-> 0, got |-> NoOutcome,
     seen |-> [k \in Slots |-> NoOutcome], res |-> "none"]

NoRecovery == [todo |-> {}, task |-> NoTask]

\* The values the variables take.
TypeOK ==
    /\ sc \in Scenarios
    /\ version \in DOMAIN sc.code
    /\ rows \in [Ids -> {"ABSENT", "PENDING", "SUCCESS", "ERROR", "CANCELLED"}]
    /\ out \in [Ids -> [Slots -> [name : Names, tag : Tags, val : Nat]]]
    /\ notes \in Seq(Notification)
    /\ events \in [Ids -> Nat]
    /\ streams \in [Ids -> Seq(StreamEntry)]
    /\ effects \in [Ids -> [Slots -> EffectType]]
    /\ tasks \in [Tasks -> Task]
    /\ created \in Seq(Ids)
    /\ recover \in [todo : SUBSET Ids, task : Tasks \cup {NoTask}]
    /\ hub \in [listening : BOOLEAN, signals : SUBSET Ids]
    /\ reader \in [pc : {"off", "read", "status", "done", "error"}, values : Seq(StreamEntry),
                   final : BOOLEAN]
    /\ posted \in [sc.posts -> Nat]
    /\ now \in Nat
    /\ faults \in [FaultKinds -> Nat]

Init ==
    /\ sc \in Scenarios
    /\ version = 1
    /\ rows = [w \in Ids |-> "ABSENT"]
    /\ out = [w \in Ids |-> [k \in Slots |-> Unrecorded]]
    /\ notes = <<>>
    /\ events = [w \in Ids |-> 0]
    /\ streams = [w \in Ids |-> <<>>]
    /\ effects = [w \in Ids |-> [k \in Slots |-> [done |-> 0, lost |-> 0]]]
    /\ tasks = [t \in Tasks |-> IdleTask]
    /\ created = <<>>
    /\ recover = NoRecovery
    /\ hub = [listening |-> TRUE, signals |-> {}]
    /\ reader = [pc |-> IF sc.reader = "none" THEN "off" ELSE "read", values |-> <<>>,
                 final |-> FALSE]
    /\ posted = [p \in sc.posts |-> 0]
    /\ now = 0
    /\ faults = sc.faults

Fault(kind) ==
    /\ faults[kind] > 0
    /\ faults' = [faults EXCEPT ![kind] = @ - 1]

(***************************************************************************)
(* Executions come and go.                                                 *)
(***************************************************************************)
NewTask(w) == [IdleTask EXCEPT !.pc = IF sc.code[version][w] = <<>> THEN "finish" ELSE "replay",
                               !.res = IF sc.code[version][w] = <<>> THEN "SUCCESS" ELSE "none",
                               !.wf = w, !.version = version]

\* Tasks are interchangeable: the next one to be used.
IsFree(t) == t = CHOOSE u \in Tasks : tasks[u].pc = "idle"

Spawn(t, w) ==
    /\ tasks[t].pc = "idle"
    /\ IsFree(t)
    /\ tasks' = [tasks EXCEPT ![t] = NewTask(w)]

\* A client starts a workflow.
Start(t, w) ==
    /\ w \in sc.roots
    /\ rows[w] = "ABSENT"
    /\ Spawn(t, w)
    /\ rows' = [rows EXCEPT ![w] = "PENDING"]
    /\ created' = Append(created, w)
    /\ UNCHANGED <<sc, version, out, notes, events, streams, effects, recover, hub, reader,
                   posted, now, faults>>

\* start on an id that exists and is not terminal runs it once more.
Restart(t, w) ==
    /\ rows[w] = "PENDING"
    /\ Fault("restart")
    /\ Spawn(t, w)
    /\ UNCHANGED <<sc, version, tables, recover, hub, reader, posted, now>>

\* list_pending_workflows of the new process: the PENDING rows, taken up oldest first.
PendingRows == {w \in Ids : rows[w] = "PENDING"}

ProcessDies ==
    /\ \E t \in Tasks : tasks[t].pc # "idle"
    /\ tasks' = [t \in Tasks |-> IdleTask]
    /\ recover' = [todo |-> PendingRows, task |-> NoTask]
    /\ hub' = [listening |-> TRUE, signals |-> {}]
    /\ UNCHANGED <<sc, tables, reader, posted, now>>

Crash ==
    /\ Fault("crash")
    /\ ProcessDies
    /\ UNCHANGED version

\* A restart with the next version of the code.
Deploy ==
    /\ version + 1 \in DOMAIN sc.code
    /\ Fault("deploy")
    /\ ProcessDies
    /\ version' = version + 1

(***************************************************************************)
(* dispatch_pending_workflows: one record after the other, each run to its *)
(* end before the next one is looked at.                                   *)
(***************************************************************************)
CreatedBefore(w, u) == \E i, j \in DOMAIN created : i < j /\ created[i] = w /\ created[j] = u

Recover(t) ==
    /\ recover.task = NoTask
    /\ \E w \in recover.todo :
        /\ \A u \in recover.todo \ {w} : CreatedBefore(w, u)
        /\ recover' = [todo |-> recover.todo \ {w}, task |-> t]
        /\ Spawn(t, w)
    /\ UNCHANGED <<sc, version, tables, hub, reader, posted, now, faults>>

Cancel(w) ==
    /\ rows[w] = "PENDING"
    /\ Fault("cancel")
    /\ rows' = [rows EXCEPT ![w] = "CANCELLED"]
    /\ UNCHANGED <<sc, version, created, out, notes, events, streams, effects, tasks, recover,
                   hub, reader, posted, now>>

(***************************************************************************)
(* The frame of a task's step.  Run(t, pc) is the guard every step has;    *)
(* the tables, the clock and the rest change as the step says.             *)
(***************************************************************************)
CurOp(t) == sc.code[tasks[t].version][tasks[t].wf][tasks[t].ip]
Log(t)   == out[tasks[t].wf]
At(t)    == Log(t)[tasks[t].seq]

Run(t, pc) == tasks[t].pc = pc
Goto(t, pc) == tasks' = [tasks EXCEPT ![t].pc = pc]

\* The handler returns: an operation's error is propagated with `?`.
Return(t, res) == tasks' = [tasks EXCEPT ![t].pc = "finish", ![t].res = res]

\* The operation returned o, having used n step positions; go on at ip.
Continued(a, o, n, ip) ==
    [IdleTask EXCEPT !.pc = IF ip = 0 THEN "finish" ELSE "replay",
                     !.res = IF ip = 0 THEN "SUCCESS" ELSE "none",
                     !.wf = a.wf, !.version = a.version, !.ip = ip, !.seq = a.seq + n,
                     !.seen = IF n = 0 THEN a.seen ELSE [a.seen EXCEPT ![a.seq] = o]]

ContinueAt(t, o, n, ip) == tasks' = [tasks EXCEPT ![t] = Continued(tasks[t], o, n, ip)]

Continue(t, o) == ContinueAt(t, o, SlotsOf(CurOp(t)), CurOp(t).next)

Record(t, o) == [out EXCEPT ![tasks[t].wf] =
                   record_operation(@, tasks[t].seq, CurOp(t).name, o)]

outside == <<sc, version, created, recover, reader, posted, now>>

(***************************************************************************)
(* Replay and guard.                                                       *)
(***************************************************************************)
HasOwnLookup == {"child", "patch", "deprecate", "await"}
Unguarded    == {"sleep", "value", "tx"}

\* A marker row has no outcome: get_step_result finds nothing there.
Stored(entry) == IsRecorded(entry) /\ entry.tag # "marker"

ReplayHit(t) ==
    /\ Run(t, "replay")
    /\ CurOp(t).op \notin HasOwnLookup
    /\ Stored(At(t))
    /\ LET expected == At(t).name = CurOp(t).name
           failed   == At(t).tag = "fail"
       IN CASE ~expected -> Return(t, "UNEXPECTED")
            [] expected /\ failed -> Return(t, "ERROR")
            [] expected /\ ~failed /\ CurOp(t).op = "sleep" ->
                 tasks' = [tasks EXCEPT ![t].pc = "sleeping", ![t].deadline = OutcomeOf(At(t))]
            [] OTHER -> Continue(t, OutcomeOf(At(t)))
    /\ UNCHANGED <<outside, rows, out, notes, events, streams, effects, hub, faults>>

ReplayMiss(t) ==
    /\ Run(t, "replay")
    /\ CurOp(t).op \notin HasOwnLookup
    /\ ~Stored(At(t))
    /\ Goto(t, CASE CurOp(t).op = "sleep" -> "fix"
                 [] CurOp(t).op = "tx" -> "body"
                 [] CurOp(t).op = "value" -> "act"
                 [] OTHER -> "guard")
    /\ UNCHANGED <<outside, rows, out, notes, events, streams, effects, hub, faults>>

Guard(t) ==
    /\ Run(t, "guard")
    /\ IF rows[tasks[t].wf] = "CANCELLED" THEN Return(t, "CANCELLED") ELSE Goto(t, "act")
    /\ UNCHANGED <<outside, rows, out, notes, events, streams, effects, hub, faults>>

(***************************************************************************)
(* What the closures and bodies compute is arbitrary.  An ordinary step    *)
(* and select run behind the guard; now, uuid and random do not.           *)
(***************************************************************************)
Produce(t) ==
    /\ Run(t, "act")
    /\ CurOp(t).op \in {"select", "value"}
    /\ \E v \in 1..2 :
         tasks' = [tasks EXCEPT ![t].pc = "record", ![t].got = Outcome("val", v)]
    /\ UNCHANGED <<outside, rows, out, notes, events, streams, effects, hub, faults>>

\* Mutant: the execution keeps the value it computed.
RecordOutcomeOwn(t) ==
    /\ Run(t, "record")
    /\ out' = Record(t, tasks[t].got)
    /\ Continue(t, tasks[t].got)
    /\ UNCHANGED <<outside, rows, notes, events, streams, effects, hub, faults>>

\* record_step_result: the first outcome stays, and is what the caller gets.
RecordOutcome(t) ==
    /\ Run(t, "record")
    /\ out' = Record(t, tasks[t].got)
    /\ IF CurOp(t).op = "getEvent" /\ OutcomeOf(out'[tasks[t].wf][tasks[t].seq]) = Null
         THEN Return(t, "ERROR")    \* outcome_value cannot decode null as the event's type
         ELSE Continue(t, OutcomeOf(out'[tasks[t].wf][tasks[t].seq]))
    /\ UNCHANGED <<outside, rows, notes, events, streams, effects, hub, faults>>

(***************************************************************************)
(* Sending and publishing.  The insert's trigger NOTIFYs the listener;     *)
(* while nobody listens the notification is lost.                          *)
(***************************************************************************)
Signal(w) == hub' = IF hub.listening THEN [hub EXCEPT !.signals = @ \cup {w}] ELSE hub

Send(t) ==
    /\ Run(t, "act")
    /\ CurOp(t).op = "send"
    /\ IF rows[CurOp(t).to] = "ABSENT"
         THEN Return(t, "ERROR") /\ UNCHANGED <<notes, hub>>
         ELSE /\ notes' = insert_notification(notes, CurOp(t).to, CurOp(t).topic, NoKey, now)
              /\ Signal(CurOp(t).to)
              /\ tasks' = [tasks EXCEPT ![t].pc = "record", ![t].got = Null]
    /\ UNCHANGED <<outside, rows, out, events, streams, effects, faults>>

SetEvent(t) ==
    /\ Run(t, "act")
    /\ CurOp(t).op = "setEvent"
    /\ events' = upsert_event(events, tasks[t].wf, CurOp(t).val)
    /\ Signal(tasks[t].wf)
    /\ tasks' = [tasks EXCEPT ![t].pc = "record", ![t].got = Null]
    /\ UNCHANGED <<outside, rows, out, notes, streams, effects, faults>>

\* send of the engine and of Client; a producer with a key may send again.
Post(p) ==
    /\ rows[p.to] # "ABSENT"
    /\ posted[p] < IF p.key = NoKey THEN 1 ELSE 2
    /\ posted' = [posted EXCEPT ![p] = @ + 1]
    /\ notes' = insert_notification(notes, p.to, p.topic, p.key, now)
    /\ IF notes' = notes THEN UNCHANGED hub ELSE Signal(p.to)
    /\ UNCHANGED <<sc, version, rows, created, out, events, streams, effects, tasks, recover,
                   reader, now, faults>>

(***************************************************************************)
(* Waiting.  The deadline is a checkpoint of its own, at the position      *)
(* after the operation's.                                                  *)
(***************************************************************************)
\* The database was looked at in vain: is it time to give up?
CheckClock(t, deadline) ==
    tasks' = [tasks EXCEPT ![t].pc = IF now >= deadline.val THEN "expire" ELSE "subscribe",
                           ![t].deadline = deadline]

Miss(t) == IF tasks[t].deadline = NoOutcome THEN Goto(t, "deadline")
                                            ELSE CheckClock(t, tasks[t].deadline)

DeadlineSlot(t) == IF CurOp(t).op = "sleep" THEN tasks[t].seq ELSE tasks[t].seq + 1

DeadlineKnown(t) ==
    /\ Run(t, "deadline")
    /\ LET entry == Log(t)[DeadlineSlot(t)]
       IN CASE ~Stored(entry) -> Goto(t, "fix")
            [] Stored(entry) /\ entry.name # "sleep" -> Return(t, "UNEXPECTED")
            [] OTHER -> CheckClock(t, OutcomeOf(entry))
    /\ UNCHANGED <<outside, rows, out, notes, events, streams, effects, hub, faults>>

\* durable_wake_at records now + duration and goes by what is recorded; anything else
\* than an instant (a patch marker took the position) cannot be decoded.
FixDeadline(t) ==
    /\ Run(t, "fix")
    /\ LET k == DeadlineSlot(t)
           log == record_operation(Log(t), k, "sleep", Outcome("time", now + CurOp(t).wait))
       IN /\ out' = [out EXCEPT ![tasks[t].wf] = log]
          /\ CASE log[k].tag # "time" -> Return(t, "ERROR")
               [] log[k].tag = "time" /\ CurOp(t).op = "sleep" ->
                    tasks' = [tasks EXCEPT ![t].pc = "sleeping", ![t].deadline = OutcomeOf(log[k])]
               [] OTHER -> CheckClock(t, OutcomeOf(log[k]))
    /\ UNCHANGED <<outside, rows, notes, events, streams, effects, hub, faults>>

Sleep(t) ==
    /\ Run(t, "sleeping")
    /\ now >= tasks[t].deadline.val
    /\ Continue(t, tasks[t].deadline)
    /\ UNCHANGED <<outside, rows, out, notes, events, streams, effects, hub, faults>>

\* await_change: wait for a NOTIFY, for at most the rest of the time or the backstop.
Subscribe(t) ==
    /\ Run(t, "subscribe")
    /\ LET rest == tasks[t].deadline.val
           backstop == now + Backstop
       IN tasks' = [tasks EXCEPT ![t].pc = "wait",
                                 ![t].until = IF rest < backstop THEN rest ELSE backstop]
    /\ UNCHANGED <<outside, rows, out, notes, events, streams, effects, hub, faults>>

\* Mutant: only a notification ends the wait.
WakeUpNever(t) == FALSE /\ UNCHANGED vars

WakeUp(t) ==
    /\ Run(t, "wait")
    /\ now >= tasks[t].until
    /\ Goto(t, "act")
    /\ UNCHANGED <<outside, rows, out, notes, events, streams, effects, hub, faults>>

\* The payload a waiter subscribed to: its own mailbox, or the target's events.
Payload(t) == IF CurOp(t).op = "recv" THEN tasks[t].wf ELSE CurOp(t).to

Woken(S) == tasks' = [t \in Tasks |-> IF Run(t, "wait") /\ Payload(t) \in S
                                        THEN [tasks[t] EXCEPT !.pc = "act"] ELSE tasks[t]]

Notify(w) ==
    /\ w \in hub.signals
    /\ hub' = [hub EXCEPT !.signals = @ \ {w}]
    /\ Woken({w})
    /\ UNCHANGED <<outside, rows, out, notes, events, streams, effects, faults>>

\* run_listener loses its connection, and with it the notifications under way;
\* once it is back every waiter looks at the database again.
ListenerLost ==
    /\ hub.listening
    /\ Fault("listener")
    /\ hub' = [listening |-> FALSE, signals |-> {}]
    /\ UNCHANGED <<outside, rows, out, notes, events, streams, effects, tasks>>

ListenerBack ==
    /\ ~hub.listening
    /\ hub' = [hub EXCEPT !.listening = TRUE]
    /\ Woken(Ids)
    /\ UNCHANGED <<outside, rows, out, notes, events, streams, effects, faults>>

\* Time matters only to those who wait for it.
Tick ==
    /\ \E w \in Ids, k \in Slots :
         /\ ~IsTerminal(w) \/ \E t \in Tasks : tasks[t].wf = w
         /\ out[w][k].tag = "time" /\ out[w][k].val > now
    /\ now' = now + 1
    /\ UNCHANGED <<sc, version, tables, tasks, recover, hub, reader, posted, faults>>

(***************************************************************************)
(* recv.  The SELECT of consume_notification works on a snapshot; its      *)
(* UPDATE and the checkpoint commit together, later.                       *)
(***************************************************************************)
RecvSelect(t) ==
    /\ Run(t, "act")
    /\ CurOp(t).op = "recv"
    /\ LET found == OldestEntry(notes, tasks[t].wf, CurOp(t).topic)
       IN \/ \E i \in found : tasks' = [tasks EXCEPT ![t].pc = "claim", ![t].pick = i]
          \/ found = {} /\ Miss(t)
    /\ UNCHANGED <<outside, rows, out, notes, events, streams, effects, hub, faults>>

\* Mutant: the message is marked in a transaction of its own, before the checkpoint.
RecvCommitApart(t) ==
    /\ Run(t, "claim")
    /\ notes' = MarkConsumed(notes, tasks[t].pick)
    /\ tasks' = [tasks EXCEPT ![t].pc = "record", ![t].got = Outcome("msg", tasks[t].pick)]
    /\ UNCHANGED <<outside, rows, out, events, streams, effects, hub, faults>>

\* The caller gets the message it claimed, whatever the position holds.
RecvCommit(t) ==
    /\ Run(t, "claim")
    /\ notes' = MarkConsumed(notes, tasks[t].pick)
    /\ out' = Record(t, Outcome("msg", tasks[t].pick))
    /\ Continue(t, Outcome("msg", tasks[t].pick))
    /\ UNCHANGED <<outside, rows, events, streams, effects, hub, faults>>

GetEvent(t) ==
    /\ Run(t, "act")
    /\ CurOp(t).op = "getEvent"
    /\ LET value == get_event_value(events, CurOp(t).to)
       IN IF value = NoOutcome
            THEN Miss(t)
            ELSE tasks' = [tasks EXCEPT ![t].pc = "record", ![t].got = value]
    /\ UNCHANGED <<outside, rows, out, notes, events, streams, effects, hub, faults>>

\* The timeout is recorded; the caller gets None, whatever the position holds.
Expire(t) ==
    /\ Run(t, "expire")
    /\ out' = Record(t, Null)
    /\ Continue(t, Null)
    /\ UNCHANGED <<outside, rows, notes, events, streams, effects, hub, faults>>

(***************************************************************************)
(* write_stream and close_stream.                                          *)
(***************************************************************************)
StreamValue(op) == IF op.op = "closeStream" THEN CLOSED ELSE op.val

StreamCheck(t) ==
    /\ Run(t, "act")
    /\ CurOp(t).op \in {"writeStream", "closeStream"}
    /\ IF IsClosed(streams[tasks[t].wf])
         THEN Return(t, "ERROR")
         ELSE tasks' = [tasks EXCEPT ![t].pc = "append", ![t].pick = Len(streams[tasks[t].wf])]
    /\ UNCHANGED <<outside, rows, out, notes, events, streams, effects, hub, faults>>

\* Mutant: the checkpoint is written before the entry is.
StreamAppendLate(t) ==
    /\ Run(t, "append")
    /\ IF IsRecorded(At(t))
         THEN /\ streams' = [streams EXCEPT ![tasks[t].wf] =
                               AppendEntry(@, StreamValue(CurOp(t)), tasks[t].seq)]
              /\ Continue(t, Null) /\ UNCHANGED out
         ELSE out' = Record(t, Null) /\ UNCHANGED <<streams, tasks>>
    /\ UNCHANGED <<outside, rows, notes, events, effects, hub, faults>>

\* An append of another execution that committed since the check may have taken
\* the offset this one computed: the primary key then rejects the row.
StreamAppend(t) ==
    /\ Run(t, "append")
    /\ \/ /\ streams' = [streams EXCEPT ![tasks[t].wf] =
                           AppendEntry(@, StreamValue(CurOp(t)), tasks[t].seq)]
          /\ tasks' = [tasks EXCEPT ![t].pc = "record", ![t].got = Null]
       \/ /\ Len(streams[tasks[t].wf]) > tasks[t].pick
          /\ Return(t, "ERROR")
          /\ UNCHANGED streams
    /\ UNCHANGED <<outside, rows, out, notes, events, effects, hub, faults>>

(***************************************************************************)
(* transaction: run_transaction_step.  The body's writes and the           *)
(* checkpoint commit together; the body returns how often it has run.      *)
(***************************************************************************)
Effect(t, lost) ==
    [effects EXCEPT ![tasks[t].wf][tasks[t].seq] =
        [done |-> @.done + 1, lost |-> @.lost + lost]]

\* The value the body computes: how often it has run.
BodyValue(t) == Outcome("val", effects[tasks[t].wf][tasks[t].seq].done + 1)

\* Mutant: the checkpoint is written after the body's transaction.
TxCommitApart(t) ==
    /\ Run(t, "body")
    /\ effects' = Effect(t, 0)
    /\ tasks' = [tasks EXCEPT ![t].pc = "record", ![t].got = BodyValue(t)]
    /\ UNCHANGED <<outside, rows, out, notes, events, streams, hub, faults>>

\* ON CONFLICT DO NOTHING: the body's writes commit even if the position is taken.
TxCommit(t) ==
    /\ Run(t, "body")
    /\ effects' = Effect(t, 0)
    /\ out' = Record(t, BodyValue(t))
    /\ Continue(t, BodyValue(t))
    /\ UNCHANGED <<outside, rows, notes, events, streams, hub, faults>>

\* The commit takes effect and its answer is lost.  A connection error is retryable:
\* the body runs again, and the checkpoint is not looked up a second time.
TxCommitLost(t) ==
    /\ Run(t, "body")
    /\ Fault("lost")
    /\ effects' = Effect(t, 1)
    /\ out' = Record(t, BodyValue(t))
    /\ Goto(t, "retry")
    /\ UNCHANGED <<outside, rows, notes, events, streams, hub>>

\* A serialization conflict, or a transient error before the commit: nothing is kept.
TxConflict(t) ==
    /\ Run(t, "body")
    /\ Fault("conflict")
    /\ Goto(t, "retry")
    /\ UNCHANGED <<outside, rows, out, notes, events, streams, effects, hub>>

conflict_retry_wait(t) ==
    /\ Run(t, "retry")
    /\ IF rows[tasks[t].wf] = "CANCELLED" THEN Return(t, "CANCELLED") ELSE Goto(t, "body")
    /\ UNCHANGED <<outside, rows, out, notes, events, streams, effects, hub, faults>>

\* The body returns an error: rolled back, retried while the policy allows.
TxBodyFails(t) ==
    /\ Run(t, "body")
    /\ Fault("body")
    /\ IF tasks[t].try < MaxTxRetries
         THEN tasks' = [tasks EXCEPT ![t].try = @ + 1]
         ELSE Goto(t, "giveup")
    /\ UNCHANGED <<outside, rows, out, notes, events, streams, effects, hub>>

TxGiveUp(t) ==
    /\ Run(t, "giveup")
    /\ out' = Record(t, Failed)
    /\ tasks' = [tasks EXCEPT ![t].pc = "finish", ![t].res = "ERROR",
                              ![t].seen[tasks[t].seq] = Failed]
    /\ UNCHANGED <<outside, rows, notes, events, streams, effects, hub, faults>>

(***************************************************************************)
(* Child workflows: looked up, created and spawned, then linked.           *)
(***************************************************************************)
ChildLookup(t) ==
    /\ Run(t, "replay")
    /\ CurOp(t).op = "child"
    /\ LET child == check_child_workflow(Log(t), tasks[t].seq)
       IN IF child = NoOutcome
            THEN Goto(t, "spawn")
            ELSE IF At(t).name = CurOp(t).name
                   THEN Continue(t, child)
                   ELSE Return(t, "UNEXPECTED")
    /\ UNCHANGED <<outside, rows, out, notes, events, streams, effects, hub, faults>>

\* insert_run keeps an existing row; the child is run unless the row is terminal.
spawn_child(t, c) ==
    /\ Run(t, "spawn")
    /\ LET child == CurOp(t).to
           fresh == rows[child] = "ABSENT"
       IN /\ rows' = IF fresh THEN [rows EXCEPT ![child] = "PENDING"] ELSE rows
          /\ created' = IF fresh THEN Append(created, child) ELSE created
          /\ IF IsTerminal(child)
               THEN c = t /\ Goto(t, "link")
               ELSE /\ tasks[c].pc = "idle"
                    /\ IsFree(c)
                    /\ tasks' = [tasks EXCEPT ![t].pc = "link", ![c] = NewTask(child)]
    /\ UNCHANGED <<sc, version, out, notes, events, streams, effects, recover, hub, reader,
                   posted, now, faults>>

Link(t) ==
    /\ Run(t, "link")
    /\ out' = [out EXCEPT ![tasks[t].wf] =
                 record_child_workflow(@, tasks[t].seq, CurOp(t).name, 0)]
    /\ Continue(t, Outcome("child", 0))
    /\ UNCHANGED <<outside, rows, notes, events, streams, effects, hub, faults>>

\* WorkflowHandle::result polls the child's row until it is terminal.
AwaitChild(t) ==
    /\ Run(t, "replay")
    /\ CurOp(t).op = "await"
    /\ IsTerminal(CurOp(t).to)
    /\ IF rows[CurOp(t).to] = "SUCCESS"
         THEN ContinueAt(t, NoOutcome, 0, CurOp(t).next)
         ELSE Return(t, "ERROR")
    /\ UNCHANGED <<outside, rows, out, notes, events, streams, effects, hub, faults>>

(***************************************************************************)
(* patch and deprecate_patch.                                              *)
(***************************************************************************)
\* Mutant: the old path uses up a position as well.
PatchLookupConsumes(t) ==
    /\ Run(t, "replay")
    /\ CurOp(t).op = "patch"
    /\ LET name == get_step_name(Log(t), tasks[t].seq)
       IN CASE ~IsRecorded(At(t)) -> Goto(t, "mark")
            [] IsRecorded(At(t)) /\ name = CurOp(t).name -> ContinueAt(t, Marker, 1, CurOp(t).next)
            [] OTHER -> ContinueAt(t, NoOutcome, 1, CurOp(t).old)
    /\ UNCHANGED <<outside, rows, out, notes, events, streams, effects, hub, faults>>

PatchLookup(t) ==
    /\ Run(t, "replay")
    /\ CurOp(t).op = "patch"
    /\ LET name == get_step_name(Log(t), tasks[t].seq)
       IN CASE ~IsRecorded(At(t)) -> Goto(t, "mark")
            [] IsRecorded(At(t)) /\ name = CurOp(t).name -> ContinueAt(t, Marker, 1, CurOp(t).next)
            [] OTHER -> ContinueAt(t, NoOutcome, 0, CurOp(t).old)
    /\ UNCHANGED <<outside, rows, out, notes, events, streams, effects, hub, faults>>

PatchMark(t) ==
    /\ Run(t, "mark")
    /\ out' = [out EXCEPT ![tasks[t].wf] = record_patch(@, tasks[t].seq, CurOp(t).name)]
    /\ ContinueAt(t, Marker, 1, CurOp(t).next)
    /\ UNCHANGED <<outside, rows, notes, events, streams, effects, hub, faults>>

deprecate_patch(t) ==
    /\ Run(t, "replay")
    /\ CurOp(t).op = "deprecate"
    /\ IF get_step_name(Log(t), tasks[t].seq) = CurOp(t).name
         THEN ContinueAt(t, Marker, 1, CurOp(t).next)
         ELSE ContinueAt(t, NoOutcome, 0, CurOp(t).next)
    /\ UNCHANGED <<outside, rows, out, notes, events, streams, effects, hub, faults>>

\* set_workflow_status leaves a cancelled row alone.
Finish(t) ==
    /\ Run(t, "finish")
    /\ LET w == tasks[t].wf
           status == IF tasks[t].res = "UNEXPECTED" THEN "ERROR" ELSE tasks[t].res
       IN rows' = IF rows[w] = "CANCELLED" THEN rows ELSE [rows EXCEPT ![w] = status]
    /\ tasks' = [tasks EXCEPT ![t] = IdleTask]
    /\ recover' = IF recover.task = t THEN [recover EXCEPT !.task = NoTask] ELSE recover
    /\ UNCHANGED <<sc, version, created, out, notes, events, streams, effects, hub, reader,
                   posted, now, faults>>

(***************************************************************************)
(* A client reads a stream: drain_stream_from, and stream_values, which    *)
(* asks for the producer's status only after an empty read.                *)
(***************************************************************************)
ReadEntries ==
    /\ reader.pc = "read"
    /\ LET r == read_stream(streams[sc.readFrom], Len(reader.values))
           more == sc.reader = "values" /\ r.values # <<>>
       IN reader' = [reader EXCEPT !.values = @ \o r.values,
                                   !.pc = CASE more -> "read"
                                            [] ~more /\ (r.closed \/ reader.final) -> "done"
                                            [] OTHER -> "status"]
    /\ UNCHANGED <<sc, version, tables, tasks, recover, hub, posted, now, faults>>

ReadStatus ==
    /\ reader.pc = "status"
    /\ reader' = [reader EXCEPT !.pc = IF rows[sc.readFrom] = "ABSENT" THEN "error" ELSE "read",
                                !.final = rows[sc.readFrom] # "PENDING"]
    /\ UNCHANGED <<sc, version, tables, tasks, recover, hub, posted, now, faults>>

(***************************************************************************)
(* The system.                                                             *)
(***************************************************************************)
TaskStep(t) ==
    \/ ReplayHit(t) \/ ReplayMiss(t) \/ Guard(t) \/ Produce(t) \/ RecordOutcome(t)
    \/ Send(t) \/ SetEvent(t) \/ RecvSelect(t) \/ RecvCommit(t) \/ GetEvent(t) \/ Expire(t)
    \/ DeadlineKnown(t) \/ FixDeadline(t) \/ Sleep(t) \/ Subscribe(t) \/ WakeUp(t)
    \/ StreamCheck(t) \/ StreamAppend(t)
    \/ TxCommit(t) \/ conflict_retry_wait(t) \/ TxGiveUp(t)
    \/ ChildLookup(t) \/ (\E c \in Tasks : spawn_child(t, c)) \/ Link(t) \/ AwaitChild(t)
    \/ PatchLookup(t) \/ PatchMark(t) \/ deprecate_patch(t)
    \/ Finish(t)

\* What happens to the system, and need not happen.
Environment ==
    \/ \E t \in Tasks, w \in Ids : Start(t, w) \/ Restart(t, w)
    \/ Crash \/ Deploy \/ ListenerLost
    \/ \E w \in Ids : Cancel(w)
    \/ \E p \in sc.posts : Post(p)
    \/ \E t \in Tasks : TxConflict(t) \/ TxCommitLost(t) \/ TxBodyFails(t)

Listener == ListenerBack \/ \E w \in Ids : Notify(w)

ReaderStep == ReadEntries \/ ReadStatus

\* Nothing is left to do: a quiet end, not a deadlock.
Quiet ==
    /\ \A t \in Tasks : tasks[t].pc = "idle"
    /\ recover.todo = {}
    /\ \A w \in sc.roots : rows[w] # "ABSENT"
    /\ UNCHANGED vars

Next ==
    \/ \E t \in Tasks : TaskStep(t) \/ Recover(t)
    \/ Environment
    \/ Listener
    \/ ReaderStep
    \/ Tick
    \/ Quiet

(***************************************************************************)
(* Fairness: the runtime keeps polling its tasks and the recovery pass,    *)
(* time passes, a lost listener reconnects, and a reader keeps reading.    *)
(***************************************************************************)
Fairness ==
    /\ \A t \in Tasks : WF_vars(TaskStep(t))
    /\ WF_vars(\E t \in Tasks : Recover(t))
    /\ WF_vars(Tick)
    /\ WF_vars(Listener)
    /\ WF_vars(ReaderStep)

Spec == Init /\ [][Next]_vars /\ Fairness

(***************************************************************************)
(* Correctness.                                                            *)
(***************************************************************************)
Busy(t) == tasks[t].pc # "idle"

(***************************************************************************)
(* What a function was given by an operation is what the log holds at that *)
(* position: a later execution, which will be given the log's outcome,     *)
(* takes the same branches.  There are two exceptions.  A transaction one  *)
(* of whose commits lost its answer may be given what a later run of its   *)
(* body came to; and of two executions a client has set going, each is     *)
(* given the message it claimed itself, or the timeout it met, in recv.    *)
(* (replay_or_guard, record_step_result, consume_notification,             *)
(* durable_wake_at, run_transaction_step)                                  *)
(***************************************************************************)
Restarted == faults["restart"] < sc.faults["restart"]

ObservedIsRecorded ==
    \A t \in Tasks, k \in Slots :
        Busy(t) /\ tasks[t].seen[k] # NoOutcome =>
            \/ tasks[t].seen[k] = OutcomeOf(Log(t)[k])
            \/ effects[tasks[t].wf][k].lost > 0
            \/ Restarted /\ Log(t)[k].name = "recv"

(***************************************************************************)
(* recv consumes exactly once: no message is the outcome of two positions, *)
(* none is the outcome of a position without having been consumed, and one *)
(* that was consumed is the outcome of a position, unless a client has set *)
(* going a second execution, whose checkpoint may be the one to be         *)
(* ignored.  (consume_notification)                                        *)
(***************************************************************************)
Receipts(i) == {wk \in Ids \X Slots : OutcomeOf(out[wk[1]][wk[2]]) = Outcome("msg", i)}

ConsumedOnce ==
    \A i \in DOMAIN notes :
        /\ Cardinality(Receipts(i)) <= IF notes[i].consumed THEN 1 ELSE 0
        /\ notes[i].consumed => Receipts(i) # {} \/ Restarted

(***************************************************************************)
(* A mailbox is first-in first-out: of two messages to one mailbox the one *)
(* sent earlier (by the clock) is received first.  (consume_notification)  *)
(***************************************************************************)
MailboxInOrder ==
    \A i, j \in DOMAIN notes :
        /\ notes[i].dest = notes[j].dest
        /\ notes[i].topic = notes[j].topic
        /\ notes[i].created < notes[j].created
        /\ notes[j].consumed
        => notes[i].consumed

(***************************************************************************)
(* A message sent under an idempotency key is received at most once,       *)
(* however often the producer retries and whenever the receiver consumes.  *)
(* (In a scenario with a keyed post nobody else uses its topic.)           *)
(* (insert_notification)                                                   *)
(***************************************************************************)
KeyedOnce ==
    \A p \in sc.posts : p.key # NoKey =>
        Cardinality({i \in DOMAIN notes : notes[i].dest = p.to /\ notes[i].topic = p.topic}) <= 1

(***************************************************************************)
(* Delivery to a mailbox: every message to one position, the keyed ones    *)
(* once however often they are sent, and in order.  (recv, send)           *)
(***************************************************************************)
Delivery == ConsumedOnce /\ MailboxInOrder /\ KeyedOnce

(***************************************************************************)
(* A transaction's body has taken effect exactly when its success is       *)
(* recorded, and then once, or at most once more for every commit whose    *)
(* answer was lost.  (run_transaction_step)                                *)
(***************************************************************************)
EffectsOnce ==
    \A w \in Ids, k \in Slots :
        IF out[w][k].name = "tx" /\ out[w][k].tag = "val"
          THEN effects[w][k].done \in 1..(1 + effects[w][k].lost)
          ELSE effects[w][k].done = 0

(***************************************************************************)
(* What a write's checkpoint promises is in the stream, in front of the    *)
(* sentinel, where readers find it.  (write_stream, close_stream)          *)
(***************************************************************************)
WritesVisible ==
    \A w \in Ids, k \in Slots :
        out[w][k].name = "writeStream" =>
            \E i \in DOMAIN Visible(streams[w]) : Visible(streams[w])[i].slot = k

(***************************************************************************)
(* A reader that was told the stream is complete has everything its        *)
(* producer ever wrote.  (drain_stream_from, stream_values)                *)
(***************************************************************************)
ReaderComplete == reader.pc = "done" => reader.values = Visible(streams[sc.readFrom])

(***************************************************************************)
(* From the writer's checkpoint to the end of a reader's sequence nothing  *)
(* of a stream is lost.  (write_stream, close_stream, stream_values)       *)
(***************************************************************************)
StreamComplete == WritesVisible /\ ReaderComplete

(***************************************************************************)
(* Where no operation can fail of itself, no crash, restart, upgrade of    *)
(* the code, lost notification or overlap makes a workflow fail: replay    *)
(* finds at every position the operation it expects.                       *)
(***************************************************************************)
CrashIsInvisible == sc.clean => \A w \in Ids : rows[w] # "ERROR"

(***************************************************************************)
(* Every workflow that was started ends: no wait outlives its deadline,    *)
(* no message or notification is needed for that, and recovery reaches     *)
(* every workflow.  (recv, get_event, sleep, dispatch_pending_workflows)   *)
(***************************************************************************)
Finishes == \A w \in Ids : rows[w] = "PENDING" ~> IsTerminal(w)

(***************************************************************************)
(* What can be said of a scenario beforehand.  In a Solo one executions of *)
(* a workflow cannot overlap: no client starts a workflow twice and no     *)
(* workflow starts another; crashes and upgrades are allowed.              *)
(***************************************************************************)
Solo(s) ==
    /\ s.faults["restart"] = 0
    /\ \A v \in DOMAIN s.code, w \in Ids : \A i \in DOMAIN s.code[v][w] :
          s.code[v][w][i].op # "child"

Uncancelled(s) == s.faults["cancel"] = 0

(***************************************************************************)
(* In a Straight one functions keep to a layout of the step positions:     *)
(* every version runs the same functions, which use no patches, and an     *)
(* operation of a function comes at one position only, with the deadline   *)
(* of a wait at the next one.                                              *)
(***************************************************************************)
Uses(op) == IF op.op = "await" THEN 0 ELSE SlotsOf(op)

Lays(f, at) ==
    /\ 1 \in DOMAIN f => at[1] = 0
    /\ \A i \in DOMAIN f :
         /\ f[i].op \notin PatchOps
         /\ f[i].next # 0 => at[f[i].next] = at[i] + Uses(f[i])
         /\ \A j \in DOMAIN f :
              /\ f[i].op # "await" /\ f[j].op # "await"
              /\ at[i] <= at[j] /\ at[j] < at[i] + Uses(f[i])
              => i = j

Straight(s) ==
    /\ \A v \in DOMAIN s.code : s.code[v] = s.code[1]
    /\ \A w \in Ids :
          \E at \in [DOMAIN s.code[1][w] -> 0..MaxSlots] : Lays(s.code[1][w], at)

(***************************************************************************)
(* In an Unfailing one no operation can fail of itself: transaction bodies *)
(* return no error, and no function sends to a workflow that may not exist *)
(* or closes a stream that it may have closed already.                     *)
(***************************************************************************)
Safe == {"recv", "getEvent", "setEvent", "sleep", "value", "select", "tx", "writeStream"}

Unfailing(s) ==
    /\ s.faults["body"] = 0
    /\ \A v \in DOMAIN s.code, w \in Ids : \A i \in DOMAIN s.code[v][w] :
          s.code[v][w][i].op \in Safe
=============================================================================
