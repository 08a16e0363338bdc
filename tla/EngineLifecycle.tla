--------------------------- MODULE EngineLifecycle ---------------------------
(***************************************************************************)
(* Engine processes that share a database: launch, deactivate, shutdown,   *)
(* crash and relaunch, and the cron schedules they fire meanwhile.  A      *)
(* reconciler installs a firing loop for every ACTIVE schedule; a loop     *)
(* persists the row of a tick, runs it if its own insert created the row,  *)
(* and stamps last_fired_at; a backfill does the same for missed ticks.    *)
(* Dispatchers and the reconciler are aborted by deactivate and shutdown,  *)
(* firing loops are not: they watch a stop flag and the shutdown token.    *)
(*                                                                         *)
(* There is one schedule name, and a tick stands for the workflow row      *)
(* sched-{name}-{time}.  Time: now = k says that the clock is strictly     *)
(* between second k and second k + 1; cron instants are whole seconds.     *)
(***************************************************************************)
EXTENDS Integers, Sequences, SequencesExt, FiniteSetsExt

CONSTANTS
    Engines,    \* processes, each with an executor id of its own
    NoEngine,
    Scenarios,  \* what is run: the initial state picks one
    MaxLoops,   \* bound: firing loops alive in one process
    MaxIds,     \* bound: schedule ids ever minted
    Instants    \* all cron instants of all scenarios

ASSUME LifecycleAssumption ==
    /\ NoEngine \notin Engines
    /\ MaxLoops \in Nat \ {0}

NoTick == 0
NoId == 0
MacroId == 1        \* schedule_id of the #[workflow(schedule)] schedule
Slots == 1 .. MaxLoops
FaultKinds == {"crash", "shutdown", "deactivate", "outage"}
Calls == {"create", "apply", "pause", "resume", "delete", "backfill", "client"}

(***************************************************************************)
(* A scenario: the engines used and the version each runs, the cron        *)
(* instants, whether the code declares a macro schedule, whether ticks are *)
(* routed to a queue, whether missed ticks are backfilled, the pairs of    *)
(* ticks of which the first awaits the result of the second, whether       *)
(* recover_on_launch is set, whether a process is launched again after its *)
(* shutdown returned, whether two processes launch at the same time, the   *)
(* calls an operator makes, in order, and the faults.                      *)
(***************************************************************************)
ASSUME ScenarioAssumption ==
    \A s \in Scenarios :
        /\ s.engines \subseteq Engines
        /\ s.version \in [Engines -> Nat \ {0}]
        /\ s.cron \subseteq Nat \ {NoTick}
        /\ s.horizon \in Nat
        /\ {s.macro, s.queued, s.backfill, s.recover, s.relaunch, s.overlap} \subseteq BOOLEAN
        /\ s.waits \subseteq s.cron \X s.cron
        /\ s.calls \in Seq(Calls)
        /\ s.faults \in [FaultKinds -> Nat]

VARIABLES
    sc,         \* the scenario
    now,        \* the clock
    proc,       \* per process: pc, deactivated, dispatching, update_existing, the claim at hand,
                \* and whether its last shutdown saw every tracked task end
    registry,   \* application_versions, oldest first, and the version that wrote the queue row
    sched,      \* the workflow_schedules row
    ticks,      \* workflow_status rows of the ticks
    born,       \* ticks in the order of created_at
    recon,      \* per process: the reconciler
    loops,      \* per process: its firing loops
    fills,      \* per process: the backfills of the reconciler and of an operator
    recovery,   \* per process: the recovery task of launch
    runs,       \* per process: tracked runs of each tick
    launched,   \* history: how often a tick was started by launch_scheduled_tick
    orphans,    \* history: ticks that a provider error left PENDING with nobody to run them
    doubled,    \* history: ticks a launch recovered while its own process still had them
    calls,      \* operator calls made
    faults      \* faults left, of each kind

rows == <<ticks, born>>
history == <<launched, orphans, doubled>>
process == <<proc, recon, loops, fills, recovery, runs>>
vars == <<sc, now, process, registry, sched, rows, history, calls, faults>>

Launching == {"version", "latest", "queues", "snapshot"}
Filler == {"reconciler", "operator"}

NoProc  == [pc |-> "down", deactivated |-> FALSE, dispatching |-> FALSE, update |-> FALSE,
            claim |-> NoTick, drained |-> FALSE]
NoRecon == [pc |-> "off", id |-> NoId, slot |-> 0, target |-> NoId]
NoLoop  == [pc |-> "off", id |-> NoId, next |-> NoTick, created |-> FALSE, stop |-> FALSE,
            cancelled |-> FALSE]
NoFill  == [pc |-> "off", todo |-> {}, cur |-> NoTick, created |-> FALSE]
NoRecovery == [todo |-> {}, cur |-> NoTick, cancelled |-> FALSE]
NoRow   == [status |-> "NONE", owner |-> NoEngine, queued |-> FALSE]

\* The values the variables take.
TypeOK ==
    /\ sc \in Scenarios
    /\ now \in 0 .. sc.horizon
    /\ proc \in [Engines -> [pc : Launching \cup {"down", "up", "draining", "stopped"},
                             deactivated : BOOLEAN, dispatching : BOOLEAN, update : BOOLEAN,
                             claim : sc.cron \cup {NoTick}, drained : BOOLEAN]]
    /\ registry \in [versions : Seq(Nat), config : Nat]
    /\ sched \in [id : Nat, status : {"ABSENT", "ACTIVE", "PAUSED"}, last : sc.cron \cup {NoTick}]
    /\ ticks \in [sc.cron -> [status : {"NONE", "ENQUEUED", "PENDING", "SUCCESS"},
                              owner : Engines \cup {NoEngine}, queued : BOOLEAN]]
    /\ born \in Seq(sc.cron)
    /\ recon \in [Engines -> [pc : {"off", "idle", "fill", "install"}, id : Nat,
                              slot : Slots \cup {0}, target : Nat]]
    /\ loops \in [Engines -> [Slots -> [pc : {"off", "top", "sleep", "launch", "stamp"}, id : Nat,
                                        next : sc.cron \cup {NoTick}, created : BOOLEAN,
                                        stop : BOOLEAN, cancelled : BOOLEAN]]]
    /\ fills \in [Engines -> [Filler -> [pc : {"off", "persist", "launch"},
                                         todo : SUBSET sc.cron, cur : sc.cron \cup {NoTick},
                                         created : BOOLEAN]]]
    /\ recovery \in [Engines -> [todo : SUBSET sc.cron, cur : sc.cron \cup {NoTick},
                                 cancelled : BOOLEAN]]
    /\ runs \in [Engines -> [sc.cron -> Nat]]
    /\ launched \in [sc.cron -> Nat]
    /\ orphans \subseteq sc.cron /\ doubled \subseteq sc.cron
    /\ calls \in 0 .. Len(sc.calls)
    /\ faults \in [FaultKinds -> Nat]

Init ==
    /\ sc \in Scenarios
    /\ now = 0
    /\ proc = [e \in Engines |-> NoProc]
    /\ registry = [versions |-> <<>>, config |-> 0]
    /\ sched = [id |-> MacroId, status |-> "ABSENT", last |-> NoTick]
    /\ ticks = [t \in sc.cron |-> NoRow]
    /\ born = <<>>
    /\ recon = [e \in Engines |-> NoRecon]
    /\ loops = [e \in Engines |-> [k \in Slots |-> NoLoop]]
    /\ fills = [e \in Engines |-> [w \in Filler |-> NoFill]]
    /\ recovery = [e \in Engines |-> NoRecovery]
    /\ runs = [e \in Engines |-> [t \in sc.cron |-> 0]]
    /\ launched = [t \in sc.cron |-> 0]
    /\ orphans = {} /\ doubled = {}
    /\ calls = 0
    /\ faults = sc.faults

Spend(kind) == faults[kind] > 0 /\ faults' = [faults EXCEPT ![kind] = @ - 1]

Goto(e, from, to) == proc[e].pc = from /\ proc' = [proc EXCEPT ![e].pc = to]

-----------------------------------------------------------------------------
(* Cron arithmetic.                                                          *)

\* The first cron instant after the present moment, or NoTick.
next_cron_instant ==
    LET later == {c \in sc.cron : c > now} IN IF later = {} THEN NoTick ELSE Min(later)

\* The cron instants after second a and before the present moment.
cron_ticks_between(a) == {c \in sc.cron : a < c /\ c <= now}

-----------------------------------------------------------------------------
(* A tick's row, and the run of it.                                          *)

\* The idempotent insert of a tick's row by engine e (or by a client).
persist_scheduled_tick(e, t, queued) ==
    IF ticks[t].status # "NONE"
    THEN UNCHANGED rows
    ELSE /\ ticks' = [ticks EXCEPT ![t] =
                        [status |-> IF queued THEN "ENQUEUED" ELSE "PENDING",
                         owner |-> IF queued THEN NoEngine ELSE e,
                         queued |-> queued]]
         /\ born' = Append(born, t)

\* A plausible slip: a tick that was completed counts as a new one.
IsFirstOrDone(t) == ticks[t].status \in {"NONE", "SUCCESS"}

\* Of the ticks in S, t has the oldest row: ORDER BY created_at.
IsOldest(t, S) ==
    \E i \in DOMAIN born : born[i] = t /\ t \in S /\ \A j \in 1 .. i - 1 : born[j] \notin S

\* Did the insert create the row?
IsFirst(t) == ticks[t].status = "NONE"

\* Start the run of a direct tick whose row this executor's insert created.
launch_scheduled_tick(e, t, created) ==
    IF created /\ ~sc.queued
    THEN /\ runs' = [runs EXCEPT ![e][t] = @ + 1]
         /\ launched' = [launched EXCEPT ![t] = @ + 1]
    ELSE UNCHANGED <<runs, launched>>

\* The insert fails: before it took effect, or between the INSERT and the SELECT.
\* In the second case the row is there, and its creator does not know.
PersistFails(e, t) ==
    /\ Spend("outage")
    /\ \/ UNCHANGED <<rows, orphans>>
       \/ /\ IsFirst(t)
          /\ persist_scheduled_tick(e, t, sc.queued)
          /\ orphans' = IF sc.queued THEN orphans ELSE orphans \cup {t}

\* A run returns once the workflow it awaits, if there is one, has a result.
Ready(t) == \A w \in sc.waits : w[1] = t => ticks[w[2]].status \in {"NONE", "SUCCESS"}

RunEnds(e, t) ==
    /\ runs[e][t] > 0
    /\ Ready(t)
    /\ runs' = [runs EXCEPT ![e][t] = @ - 1]
    /\ ticks' = [ticks EXCEPT ![t].status = "SUCCESS"]
    /\ UNCHANGED <<sc, now, proc, registry, sched, born, recon, loops, fills, recovery, history,
                   calls, faults>>

\* The runs of t alive in process e, that of its recovery task included.
Alive(e, t) == runs[e][t] + (IF recovery[e].cur = t THEN 1 ELSE 0)

\* No tracked task is left.
Idle(e) ==
    /\ \A t \in sc.cron : runs[e][t] = 0
    /\ recovery[e].todo = {} /\ recovery[e].cur = NoTick

\* A loop, or a backfill, of process e created the row of t and is about to start it.
LoopOwes(e, k, t) == loops[e][k].pc = "launch" /\ loops[e][k].next = t /\ loops[e][k].created = TRUE
FillOwes(e, w, t) == fills[e][w].pc = "launch" /\ fills[e][w].cur = t /\ fills[e][w].created = TRUE

Token(e, t) ==
    /\ sc.queued = FALSE
    /\ (\E k \in Slots : LoopOwes(e, k, t)) \/ (\E w \in Filler : FillOwes(e, w, t))

\* Process e runs t, or is about to.
Has(e, t) ==
    \/ runs[e][t] > 0
    \/ recovery[e].cur = t
    \/ t \in recovery[e].todo
    \/ proc[e].claim = t
    \/ Token(e, t)

-----------------------------------------------------------------------------
(* launch: one statement per step.                                           *)

\* By a new process, or once more after shutdown returned: also if it timed out
\* and runs are still alive.
LaunchBegins(e) ==
    /\ ~proc[e].deactivated
    /\ \/ proc[e].pc = "down" /\ e \in sc.engines
       \/ proc[e].pc = "stopped" /\ sc.relaunch
    /\ sc.overlap \/ \A d \in Engines : proc[d].pc \notin Launching
    /\ proc' = [proc EXCEPT ![e].pc = "version", ![e].drained = FALSE]
    /\ UNCHANGED <<sc, now, recon, loops, fills, recovery, runs, registry, sched, rows, history,
                   calls, faults>>

\* INSERT ... ON CONFLICT DO NOTHING; a failure is only logged.
create_application_version(e) ==
    /\ Goto(e, "version", "latest")
    /\ \/ /\ registry' = IF Contains(registry.versions, sc.version[e]) THEN registry
                         ELSE [registry EXCEPT !.versions = Append(@, sc.version[e])]
          /\ UNCHANGED faults
       \/ Spend("outage") /\ UNCHANGED registry
    /\ UNCHANGED <<sc, now, recon, loops, fills, recovery, runs, sched, rows, history, calls>>

\* A plausible slip: the oldest registered version is taken for the latest.
OldestIsLatest(e) ==
    /\ proc[e].pc = "latest"
    /\ proc' = [proc EXCEPT ![e].pc = "queues",
                            ![e].update = \/ registry.versions = <<>>
                                          \/ Head(registry.versions) = sc.version[e]]
    /\ UNCHANGED <<sc, now, recon, loops, fills, recovery, runs, registry, sched, rows, history,
                   calls, faults>>

\* May this process overwrite the queue rows?  Not if the lookup fails.
get_latest_application_version(e) ==
    /\ proc[e].pc = "latest"
    /\ \/ /\ proc' = [proc EXCEPT ![e].pc = "queues",
                                  ![e].update = \/ registry.versions = <<>>
                                                \/ Last(registry.versions) = sc.version[e]]
          /\ UNCHANGED faults
       \/ Spend("outage") /\ proc' = [proc EXCEPT ![e].pc = "queues", ![e].update = FALSE]
    /\ UNCHANGED <<sc, now, recon, loops, fills, recovery, runs, registry, sched, rows, history,
                   calls>>

upsert_queue(e) ==
    /\ Goto(e, "queues", "snapshot")
    /\ registry' = IF registry.config = 0 \/ proc[e].update
                   THEN [registry EXCEPT !.config = sc.version[e]] ELSE registry
    /\ UNCHANGED <<sc, now, recon, loops, fills, recovery, runs, sched, rows, history, calls,
                   faults>>

\* The snapshot S is listed, then every background task starts.  A recovery task
\* of an earlier launch was cancelled: the run it is on is all it has left to do.
Spawn(e, S) ==
    /\ proc[e].pc = "snapshot"
    /\ proc' = [proc EXCEPT ![e].pc = "up", ![e].dispatching = TRUE]
    /\ recon' = [recon EXCEPT ![e] = [NoRecon EXCEPT !.pc = "idle"]]
    /\ recovery' = [recovery EXCEPT ![e] = [NoRecovery EXCEPT !.todo = S]]
    /\ runs' = [runs EXCEPT ![e] = [t \in sc.cron |-> Alive(e, t)]]
    /\ orphans' = orphans \ S
    /\ doubled' = doubled \cup {t \in S : Has(e, t)}
    /\ UNCHANGED <<sc, now, loops, fills, registry, sched, rows, launched, calls, faults>>

\* A plausible slip: the snapshot holds the PENDING rows of every executor.
SnapshotOfAll(e) ==
    Spawn(e, {t \in sc.cron : sc.recover /\ ticks[t].status = "PENDING"})

\* What this executor left PENDING is recovered if recover_on_launch is set.
SpawnTasks(e) ==
    Spawn(e, {t \in sc.cron : /\ sc.recover
                              /\ ticks[t].status = "PENDING" /\ ticks[t].owner = e})

\* The listing fails, and launch with it: nothing was started.
LaunchFails(e) ==
    /\ sc.recover
    /\ Goto(e, "snapshot", "stopped")
    /\ Spend("outage")
    /\ UNCHANGED <<sc, now, recon, loops, fills, recovery, runs, registry, sched, rows, history,
                   calls>>

Launch(e) ==
    \/ LaunchBegins(e) \/ create_application_version(e) \/ get_latest_application_version(e)
    \/ upsert_queue(e) \/ SpawnTasks(e) \/ LaunchFails(e)

-----------------------------------------------------------------------------
(* deactivate, shutdown, crash.                                              *)

\* A plausible slip: a dispatcher that is told to stop starts what it has claimed.
StoppedLater(p) == [p EXCEPT !.dispatching = FALSE]

\* Aborting the dispatchers and the reconciler drops what they were in the
\* middle of: a claimed row that was not spawned, a backfill.
Aborted(p) == [p EXCEPT !.dispatching = FALSE, !.claim = NoTick]

AbortReconciler(e) ==
    /\ recon' = [recon EXCEPT ![e] = NoRecon]
    /\ fills' = [fills EXCEPT ![e]["reconciler"] = NoFill]

deactivate(e) ==
    /\ ~proc[e].deactivated
    /\ proc[e].pc \in Launching \cup {"up"}
    /\ Spend("deactivate")
    /\ proc' = [proc EXCEPT ![e] = [Aborted(proc[e]) EXCEPT !.deactivated = TRUE]]
    /\ AbortReconciler(e)
    /\ UNCHANGED <<sc, now, loops, recovery, runs, registry, sched, rows, history, calls>>

\* The shutdown token is cancelled and the tasks are aborted.
Stopping(e) ==
    /\ proc[e].pc = "up"
    /\ proc' = [proc EXCEPT ![e] = [Aborted(proc[e]) EXCEPT !.pc = "draining"]]
    /\ AbortReconciler(e)
    /\ loops' = [loops EXCEPT ![e] =
                    [k \in Slots |-> [loops[e][k] EXCEPT !.cancelled = loops[e][k].pc # "off"]]]
    /\ recovery' = [recovery EXCEPT ![e].cancelled = TRUE]
    /\ UNCHANGED <<sc, now, runs, registry, sched, rows, history, calls>>

\* Called by the application; a deactivated process is stopped in the end.
Retire(e) == Stopping(e) /\ proc[e].deactivated /\ UNCHANGED faults

shutdown(e) == Retire(e) \/ (Stopping(e) /\ Spend("shutdown"))

\* shutdown returns: the tracked tasks are done, or the timeout has passed.
DrainEnds(e) ==
    /\ proc[e].pc = "draining"
    /\ proc' = [proc EXCEPT ![e].pc = "stopped", ![e].drained = Idle(e)]
    /\ UNCHANGED <<sc, now, recon, loops, fills, recovery, runs, registry, sched, rows, history,
                   calls, faults>>

Die(e) ==
    /\ proc' = [proc EXCEPT ![e] = NoProc]
    /\ recon' = [recon EXCEPT ![e] = NoRecon]
    /\ loops' = [loops EXCEPT ![e] = [k \in Slots |-> NoLoop]]
    /\ fills' = [fills EXCEPT ![e] = [w \in Filler |-> NoFill]]
    /\ recovery' = [recovery EXCEPT ![e] = NoRecovery]
    /\ runs' = [runs EXCEPT ![e] = [t \in sc.cron |-> 0]]
    /\ UNCHANGED <<sc, now, registry, sched, rows, history, calls>>

Exit(e) == proc[e].pc = "stopped" /\ Die(e) /\ UNCHANGED faults

Crash(e) == proc[e].pc # "down" /\ Spend("crash") /\ Die(e)

-----------------------------------------------------------------------------
(* The recovery task of launch.                                              *)

\* A plausible slip: queued rows are left to the dispatcher as they are.
RecoverLeavesQueued(e) ==
    /\ recovery[e].cur = NoTick
    /\ ~recovery[e].cancelled
    /\ \E t \in sc.cron :
        /\ IsOldest(t, recovery[e].todo)
        /\ recovery' = [recovery EXCEPT ![e].todo = @ \ {t},
                                        ![e].cur = IF ticks[t].queued THEN NoTick ELSE t]
    /\ UNCHANGED <<sc, now, proc, recon, loops, fills, runs, registry, sched, rows, history,
                   calls, faults>>

\* Take the next record of the snapshot: queued rows go back to their queue,
\* the others run inline.
RecoverNext(e) ==
    /\ recovery[e].cur = NoTick
    /\ ~recovery[e].cancelled
    /\ \E t \in sc.cron :
        /\ IsOldest(t, recovery[e].todo)
        /\ recovery' = [recovery EXCEPT ![e].todo = @ \ {t},
                                        ![e].cur = IF ticks[t].queued THEN NoTick ELSE t]
        /\ ticks' = IF ticks[t].queued THEN [ticks EXCEPT ![t].status = "ENQUEUED"] ELSE ticks
    /\ UNCHANGED <<sc, now, proc, recon, loops, fills, runs, registry, sched, born, history,
                   calls, faults>>

\* A statement of the loop fails, and the loop ends.  The record it was at may
\* have gone back to its queue; the others stay PENDING until the next launch.
RecoverFails(e) ==
    /\ recovery[e].cur = NoTick
    /\ ~recovery[e].cancelled
    /\ Spend("outage")
    /\ \E t \in sc.cron :
        /\ IsOldest(t, recovery[e].todo)
        /\ \/ UNCHANGED ticks /\ orphans' = orphans \cup recovery[e].todo
           \/ /\ ticks[t].queued
              /\ ticks' = [ticks EXCEPT ![t].status = "ENQUEUED"]
              /\ orphans' = orphans \cup (recovery[e].todo \ {t})
    /\ recovery' = [recovery EXCEPT ![e].todo = {}]
    /\ UNCHANGED <<sc, now, proc, recon, loops, fills, runs, registry, sched, born, launched,
                   doubled, calls>>

RecoverRunEnds(e) ==
    /\ recovery[e].cur # NoTick
    /\ Ready(recovery[e].cur)
    /\ ticks' = [ticks EXCEPT ![recovery[e].cur].status = "SUCCESS"]
    /\ recovery' = [recovery EXCEPT ![e].cur = NoTick]
    /\ UNCHANGED <<sc, now, proc, recon, loops, fills, runs, registry, sched, born, history,
                   calls, faults>>

\* Shutdown was observed: the rest of the snapshot stays PENDING.
RecoverBreaks(e) ==
    /\ recovery[e].cancelled /\ recovery[e].cur = NoTick
    /\ recovery[e].todo # {}
    /\ recovery' = [recovery EXCEPT ![e].todo = {}]
    /\ UNCHANGED <<sc, now, proc, recon, loops, fills, runs, registry, sched, rows, history,
                   calls, faults>>

-----------------------------------------------------------------------------
(* Queued ticks: a dispatcher claims the oldest, then starts its run.        *)

Claim(e) ==
    /\ proc[e].dispatching /\ proc[e].claim = NoTick
    /\ \E t \in sc.cron :
        /\ IsOldest(t, {u \in sc.cron : ticks[u].status = "ENQUEUED"})
        /\ ticks' = [ticks EXCEPT ![t].status = "PENDING", ![t].owner = e]
        /\ proc' = [proc EXCEPT ![e].claim = t]
    /\ UNCHANGED <<sc, now, recon, loops, fills, recovery, runs, registry, sched, born, history,
                   calls, faults>>

StartClaimed(e) ==
    /\ proc[e].claim # NoTick
    /\ runs' = [runs EXCEPT ![e][proc[e].claim] = @ + 1]
    /\ proc' = [proc EXCEPT ![e].claim = NoTick]
    /\ UNCHANGED <<sc, now, recon, loops, fills, recovery, registry, sched, rows, history, calls,
                   faults>>

-----------------------------------------------------------------------------
(* Backfill: missed ticks, oldest first, persisted and started one by one.   *)

StartFill(instants) == [NoFill EXCEPT !.pc = "persist", !.todo = instants]

\* The backfill returns.  A failed one ends early; the reconciler goes on to
\* install its loop all the same.
FillOver(e, w) ==
    /\ fills' = [fills EXCEPT ![e][w] = NoFill]
    /\ recon' = IF w = "reconciler" THEN [recon EXCEPT ![e].pc = "install"] ELSE recon

FillPersists(e, w) ==
    /\ fills[e][w].pc = "persist" /\ fills[e][w].todo # {}
    /\ LET t == Min(fills[e][w].todo) IN
       \/ /\ persist_scheduled_tick(e, t, sc.queued)
          /\ fills' = [fills EXCEPT ![e][w] = [pc |-> "launch", todo |-> fills[e][w].todo \ {t},
                                               cur |-> t, created |-> IsFirst(t)]]
          /\ UNCHANGED <<recon, orphans, faults>>
       \/ PersistFails(e, t) /\ FillOver(e, w)
    /\ UNCHANGED <<sc, now, proc, loops, recovery, runs, registry, sched, launched, doubled, calls>>

FillLaunches(e, w) ==
    /\ fills[e][w].pc = "launch"
    /\ launch_scheduled_tick(e, fills[e][w].cur, fills[e][w].created)
    /\ fills' = [fills EXCEPT ![e][w] = [@ EXCEPT !.pc = "persist", !.cur = NoTick,
                                                  !.created = FALSE]]
    /\ UNCHANGED <<sc, now, proc, recon, loops, recovery, registry, sched, rows, orphans, doubled, calls, faults>>

FillEnds(e, w) ==
    /\ fills[e][w].pc = "persist" /\ fills[e][w].todo = {}
    /\ FillOver(e, w)
    /\ UNCHANGED <<sc, now, proc, loops, recovery, runs, registry, sched, rows, history, calls,
                   faults>>

-----------------------------------------------------------------------------
(* schedule_reconciler.                                                      *)

\* The schedule to be fired: the ACTIVE row, or else the macro schedule.
Desired == IF sched.status = "ACTIVE" THEN sched.id ELSE IF sc.macro THEN MacroId ELSE NoId

\* A plausible slip: the loop of a schedule that is gone keeps running.
ReconcileKeepsLoops(e) ==
    /\ recon[e].pc = "idle"
    /\ Desired # NoId /\ recon[e].id # Desired
    /\ recon' = [recon EXCEPT ![e] = [NoRecon EXCEPT !.pc = "install", !.target = Desired]]
    /\ UNCHANGED <<sc, now, proc, loops, fills, recovery, runs, registry, sched, rows, history,
                   calls, faults>>

\* One pass: retire the loop if its schedule is gone or was recreated, then
\* prepare to install the desired one, catching up missed ticks first.
Reconcile(e) ==
    /\ recon[e].pc = "idle"
    /\ recon[e].id # Desired
    /\ loops' = IF recon[e].id = NoId THEN loops
                ELSE [loops EXCEPT ![e][recon[e].slot].stop = loops[e][recon[e].slot].pc # "off"]
    /\ LET catchUp == /\ sched.status = "ACTIVE" /\ sc.backfill
                      /\ sched.last # NoTick /\ sched.last + 1 <= now
           pc == IF Desired = NoId THEN "idle" ELSE IF catchUp THEN "fill" ELSE "install"
       IN /\ recon' = [recon EXCEPT ![e] = [NoRecon EXCEPT !.pc = pc, !.target = Desired]]
          /\ fills' = IF pc # "fill" THEN fills
                      ELSE [fills EXCEPT ![e]["reconciler"] =
                                StartFill(cron_ticks_between(sched.last + 1))]
    /\ UNCHANGED <<sc, now, proc, recovery, runs, registry, sched, rows, history, calls, faults>>

\* A firing loop is spawned for the schedule as it was listed.
Install(e) ==
    /\ recon[e].pc = "install"
    /\ \E k \in Slots :
        /\ loops[e][k].pc = "off"
        /\ \A j \in 1 .. k - 1 : loops[e][j].pc # "off"
        /\ loops' = [loops EXCEPT ![e][k] = [NoLoop EXCEPT !.pc = "top", !.id = recon[e].target]]
        /\ recon' = [recon EXCEPT ![e] = [pc |-> "idle", id |-> recon[e].target, slot |-> k,
                                          target |-> NoId]]
    /\ UNCHANGED <<sc, now, proc, fills, recovery, runs, registry, sched, rows, history, calls,
                   faults>>

-----------------------------------------------------------------------------
(* schedule_fire_loop.                                                       *)

LoopMoves(e, k, pc) == loops' = [loops EXCEPT ![e][k].pc = pc]

\* The top of the loop: leave, or find the next instant and sleep.
LoopTop(e, k) ==
    /\ loops[e][k].pc = "top"
    /\ loops' = [loops EXCEPT ![e][k] =
            IF @.stop \/ @.cancelled \/ next_cron_instant = NoTick THEN NoLoop
            ELSE [@ EXCEPT !.pc = "sleep", !.next = next_cron_instant]]
    /\ UNCHANGED <<sc, now, proc, recon, fills, recovery, runs, registry, sched, rows, history,
                   calls, faults>>

\* sleep_until_or_stop answers false.
LoopStops(e, k) ==
    /\ loops[e][k].pc = "sleep"
    /\ loops[e][k].stop \/ loops[e][k].cancelled
    /\ loops' = [loops EXCEPT ![e][k] = NoLoop]
    /\ UNCHANGED <<sc, now, proc, recon, fills, recovery, runs, registry, sched, rows, history,
                   calls, faults>>

\* The instant has come: the tick is persisted.  The stop flag is read first,
\* but the deadline is looked at before the token.
LoopFires(e, k) ==
    /\ loops[e][k].pc = "sleep"
    /\ ~loops[e][k].stop
    /\ loops[e][k].next <= now
    /\ LET t == loops[e][k].next IN
       \/ /\ persist_scheduled_tick(e, t, sc.queued)
          /\ loops' = [loops EXCEPT ![e][k].pc = "launch", ![e][k].created = IsFirst(t)]
          /\ UNCHANGED <<orphans, faults>>
       \/ PersistFails(e, t) /\ LoopMoves(e, k, "stamp")
    /\ UNCHANGED <<sc, now, proc, recon, fills, recovery, runs, registry, sched, launched, doubled,
                   calls>>

LoopLaunches(e, k) ==
    /\ loops[e][k].pc = "launch"
    /\ launch_scheduled_tick(e, loops[e][k].next, loops[e][k].created)
    /\ LoopMoves(e, k, "stamp")
    /\ UNCHANGED <<sc, now, proc, recon, fills, recovery, registry, sched, rows, orphans, doubled, calls, faults>>

\* last_fired_at of whatever schedule has the name now.
set_schedule_last_fired(e, k) ==
    /\ loops[e][k].pc = "stamp"
    /\ loops' = [loops EXCEPT ![e][k] = [@ EXCEPT !.pc = "top", !.next = NoTick, !.created = FALSE]]
    /\ sched' = IF sched.status = "ABSENT" THEN sched ELSE [sched EXCEPT !.last = loops[e][k].next]
    /\ UNCHANGED <<sc, now, proc, recon, fills, recovery, runs, registry, rows, history, calls,
                   faults>>

-----------------------------------------------------------------------------
(* What operators do, in the order of the scenario.                          *)

\* create_schedule, and apply_schedules when it replaces a row: a new id.
Create == sched' = [id |-> sched.id + 1, status |-> "ACTIVE", last |-> NoTick]

create_schedule == sched.status = "ABSENT" /\ Create /\ UNCHANGED <<rows, fills>>
apply_schedules == Create /\ UNCHANGED <<rows, fills>>

set_schedule_status(status) ==
    /\ sched' = IF sched.status = "ABSENT" THEN sched ELSE [sched EXCEPT !.status = status]
    /\ UNCHANGED <<rows, fills>>

delete_schedule ==
    /\ sched' = [sched EXCEPT !.status = "ABSENT", !.last = NoTick]
    /\ UNCHANGED <<rows, fills>>

\* DurableEngine::backfill_schedule, called on engine e for all that is past.
backfill_schedule(e) ==
    /\ proc[e].pc = "up" /\ sched.status # "ABSENT" /\ fills[e]["operator"].pc = "off"
    /\ fills' = [fills EXCEPT ![e]["operator"] = StartFill(cron_ticks_between(0))]
    /\ UNCHANGED <<sched, rows>>

\* DurableClient::backfill_schedule of one tick: always on a queue.
ClientBackfills(t) ==
    /\ sched.status # "ABSENT" /\ t <= now
    /\ persist_scheduled_tick(NoEngine, t, TRUE)
    /\ UNCHANGED <<sched, fills>>

Operator ==
    /\ calls < Len(sc.calls)
    /\ calls' = calls + 1
    /\ LET call == sc.calls[calls + 1] IN
       \/ call = "create" /\ create_schedule
       \/ call = "apply" /\ apply_schedules
       \/ call = "pause" /\ set_schedule_status("PAUSED")
       \/ call = "resume" /\ set_schedule_status("ACTIVE")
       \/ call = "delete" /\ delete_schedule
       \/ call = "backfill" /\ \E e \in Engines : backfill_schedule(e)
       \/ call = "client" /\ \E t \in sc.cron : ClientBackfills(t)
    /\ UNCHANGED <<sc, now, proc, recon, loops, recovery, runs, registry, history, faults>>

Tick ==
    /\ now < sc.horizon
    /\ now' = now + 1
    /\ UNCHANGED <<sc, process, registry, sched, rows, history, calls, faults>>

-----------------------------------------------------------------------------
Loop(e, k) ==
    \/ LoopTop(e, k) \/ LoopStops(e, k) \/ LoopFires(e, k) \/ LoopLaunches(e, k)
    \/ set_schedule_last_fired(e, k)

Fill(e, w) == FillPersists(e, w) \/ FillLaunches(e, w) \/ FillEnds(e, w)

Recover(e) == RecoverNext(e) \/ RecoverFails(e) \/ RecoverRunEnds(e) \/ RecoverBreaks(e)

Dispatch(e) == Claim(e) \/ StartClaimed(e)

Reconciler(e) == Reconcile(e) \/ Install(e)

\* The end of the time that is looked at.
Quiet == now = sc.horizon /\ UNCHANGED vars

Next ==
    \/ \E e \in Engines :
        \/ Launch(e) \/ deactivate(e) \/ shutdown(e) \/ DrainEnds(e) \/ Exit(e) \/ Crash(e)
        \/ Recover(e) \/ Dispatch(e) \/ Reconciler(e)
        \/ \E k \in Slots : Loop(e, k)
        \/ \E w \in Filler : Fill(e, w)
        \/ \E t \in sc.cron : RunEnds(e, t)
    \/ Operator \/ Tick \/ Quiet

(***************************************************************************)
(* A process that went down is started again, one that was deactivated is  *)
(* shut down in the end, tasks are scheduled, and time passes.             *)
(***************************************************************************)
Fairness ==
    /\ \A e \in Engines :
        /\ WF_vars(Launch(e)) /\ WF_vars(Retire(e))
        /\ WF_vars(DrainEnds(e)) /\ WF_vars(Exit(e))
        /\ WF_vars(Recover(e)) /\ WF_vars(Dispatch(e)) /\ WF_vars(Reconciler(e))
        /\ \A k \in Slots : WF_vars(Loop(e, k))
        /\ \A w \in Filler : WF_vars(Fill(e, w))
        /\ WF_vars(\E t \in sc.cron : RunEnds(e, t))
    /\ WF_vars(Tick)

Spec == Init /\ [][Next]_vars /\ Fairness

-----------------------------------------------------------------------------
(* A tick is started at most once by all the firing loops and backfills of   *)
(* all processes together, whatever crashes, restarts, pauses, replacements  *)
(* and repeated backfills there are.                                         *)
TickOnce == \A t \in sc.cron : launched[t] <= 1

(* No two runs of one tick are alive at the same time, in one process or in  *)
(* two, unless a launch recovered the tick while its own process, whose      *)
(* shutdown had timed out, was still running it or about to: launch does not *)
(* look for that.                                                            *)
NoOverlap ==
    \A t \in sc.cron \ doubled, e \in Engines :
        /\ Alive(e, t) <= 1
        /\ Alive(e, t) = 1 => \A d \in Engines \ {e} : Alive(d, t) = 0

(* When processes launch one after the other, a running executor of the      *)
(* newest registered version finds its own configuration in the queue row,   *)
(* however often executors of older versions are restarted.                  *)
NewestConfigKept ==
    (~sc.overlap /\ sc.faults["outage"] = 0 /\ \A e \in Engines : proc[e].pc \notin Launching)
        => \A e \in Engines :
            proc[e].pc = "up" /\ sc.version[e] = Last(registry.versions)
                => registry.config = sc.version[e]

\* No task has the PENDING row of t, and none is going to get it: recovery at
\* launch is off, or its process has not been launched again since an error.
Stranded(t) ==
    /\ ticks[t].status = "PENDING"
    /\ IF sc.recover THEN t \in orphans ELSE \A e \in Engines : ~Has(e, t)

(* A tick whose row exists is completed in the end.  With recover_on_launch, *)
(* what a crash, an abort in the middle of a claim or a drain that timed out *)
(* left behind is picked up by the next launch; a row that a provider error  *)
(* left waits for that launch, and without recovery for an operator.         *)
TicksComplete ==
    \A t \in Instants :
        []<>(t \in sc.cron => ticks[t].status \in {"NONE", "SUCCESS"} \/ Stranded(t))

(* A schedule that stays paused or deleted has no firing loop in the end,    *)
(* nor does a schedule that was replaced.                                    *)
PauseSticks ==
    \A i \in 2 .. MaxIds :
        <>[](sched.status # "ACTIVE" \/ sched.id # i)
            => <>[](\A e \in Engines, k \in Slots : loops[e][k].pc # "off" => loops[e][k].id # i)

(* When shutdown returned because every tracked task had ended, nothing of   *)
(* the queues and of recovery comes to life in that process before the next  *)
(* launch: what a dispatcher had claimed stays unstarted, the rest of the    *)
(* recovery stays PENDING.  Only a direct tick may still be started, by a    *)
(* firing loop or a backfill that was past its look at the shutdown token.   *)
DrainIsFinal ==
    \A e \in Engines : proc[e].pc = "stopped" /\ proc[e].drained =>
        /\ recovery[e].todo = {} /\ recovery[e].cur = NoTick /\ proc[e].claim = NoTick
        /\ \A t \in sc.cron : runs[e][t] > 0 => ~ticks[t].queued
=============================================================================
