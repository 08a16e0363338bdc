-------------------------- MODULE MCEngineLifecycle --------------------------
(***************************************************************************)
(* Small fleets and histories for the engine's life cycle and schedules.   *)
(***************************************************************************)
EXTENDS EngineLifecycle, TLC

NoFaults == [k \in FaultKinds |-> 0]

Base ==
    [engines |-> {"e"}, version |-> [e \in Engines |-> 1], cron |-> {1, 3, 5}, horizon |-> 3,
     macro |-> FALSE, queued |-> FALSE, backfill |-> TRUE, waits |-> {}, recover |-> TRUE,
     relaunch |-> FALSE, overlap |-> FALSE, calls |-> <<"create">>, faults |-> NoFaults]

\* One process crashes or loses its database for a moment; missed ticks are caught up.
Outages ==
    [Base EXCEPT !.horizon = 4, !.faults = "crash" :> 1 @@ "outage" :> 1 @@ NoFaults]

\* Two processes fire the same schedule.
Fleet ==
    [Base EXCEPT !.engines = Engines, !.faults = "crash" :> 1 @@ NoFaults]

\* The schedule is managed while it fires, above a macro schedule of the same name.
Managed ==
    [Base EXCEPT !.macro = TRUE, !.backfill = FALSE,
                 !.calls = <<"create", "pause", "resume", "apply", "delete">>]

\* Operators and clients backfill what the loops fire as well.
Backfilled ==
    [Base EXCEPT !.calls = <<"create", "backfill", "client">>,
                 !.faults = "crash" :> 1 @@ NoFaults]

\* Queued ticks, of which the later awaits the earlier; the process is deactivated or stopped.
Queued ==
    [Base EXCEPT !.queued = TRUE, !.waits = {<<3, 1>>},
                 !.faults = "shutdown" :> 1 @@ "deactivate" :> 1 @@ NoFaults]

\* Direct ticks, and a shutdown.
Stopped ==
    [Base EXCEPT !.waits = {<<3, 1>>}, !.faults = "shutdown" :> 1 @@ "crash" :> 1 @@ NoFaults]

\* A process with queued ticks is launched again after its shutdown, drained or not.
Relaunched ==
    [Base EXCEPT !.queued = TRUE, !.relaunch = TRUE,
                 !.faults = "shutdown" :> 1 @@ "outage" :> 1 @@ NoFaults]

\* The same with direct ticks.
RelaunchedDirect ==
    [Base EXCEPT !.relaunch = TRUE, !.faults = "shutdown" :> 2 @@ NoFaults]

\* recover_on_launch is off, as it is by default.
Unrecovered ==
    [Base EXCEPT !.recover = FALSE, !.relaunch = TRUE,
                 !.faults = "shutdown" :> 1 @@ "crash" :> 1 @@ NoFaults]

\* Two versions of the application are deployed, one process at a time.
Rolling ==
    [Base EXCEPT !.engines = Engines, !.version = ("e" :> 1 @@ "f" :> 2), !.cron = {},
                 !.horizon = 0, !.calls = <<>>, !.faults = "crash" :> 2 @@ NoFaults]

\* They are deployed together: which one is the latest may change between two statements of the
\* other's launch.
Racing == [Rolling EXCEPT !.overlap = TRUE]

All == {Outages, Fleet, Managed, Backfilled, Queued, Stopped, Relaunched, RelaunchedDirect, Unrecovered, Rolling, Racing}
=============================================================================
