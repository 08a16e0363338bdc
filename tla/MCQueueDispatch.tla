--------------------------- MODULE MCQueueDispatch ---------------------------
EXTENDS QueueDispatch, TLC

CONSTANTS e1, e2, v1, v2, d1

\* One version everywhere, or a rolling deployment: e2 runs the newer version.
OneVersion(v) == [e \in Executors |-> v]
TwoVersions == [e \in Executors |-> IF e = e2 THEN v2 ELSE v1]

\* Every executor has the handlers, or only e2.
AllHandlers == [e \in Executors |-> Jobs]
OnlyNew == [e \in Executors |-> IF e = e2 THEN Jobs ELSE {}]

\* A serialised backend with all the limits of the queue, priorities, and enqueuers of both
\* versions or of none while the latest version changes.
Rolling ==
    [serial |-> TRUE, version |-> TwoVersions, handles |-> AllHandlers,
     onLaunch |-> TRUE, worker |-> Unlimited, global |-> 2, rate |-> 2, period |-> 2,
     orders |-> [ver : {v1, v2, NoVersion}, delayed : {FALSE}, prio : {1, 2}, dedup : {NoDedup}], rows |-> 3,
     ticks |-> 2, disruptions |-> {"version"}, budget |-> 1]

\* One version, a deduplication id, and what can go wrong.  A row that is resumed or
\* recovered while it runs takes most of the states: fewer rows where that can happen, and
\* a serialised backend where a shutdown times out.
Disrupted(serial, v, n, kinds) ==
    [serial |-> serial, version |-> OneVersion(v), handles |-> AllHandlers,
     onLaunch |-> TRUE, worker |-> 1, global |-> 2, rate |-> Unlimited, period |-> 1,
     orders |-> [ver : {v}, delayed : {FALSE}, prio : {1}, dedup : {NoDedup, d1}], rows |-> n,
     ticks |-> 0, disruptions |-> kinds, budget |-> 2]

\* A partitioned queue, delays, one executor without the handlers, and recovery on launch.
Partitioned(kinds, n) ==
    [serial |-> TRUE, version |-> OneVersion(v1), handles |-> OnlyNew,
     onLaunch |-> TRUE, worker |-> 1, global |-> 1, rate |-> Unlimited, period |-> 1,
     orders |-> [ver : {v1}, delayed : BOOLEAN, prio : {1}, dedup : {NoDedup}], rows |-> 2,
     ticks |-> 0, disruptions |-> kinds, budget |-> n]

\* Without a global limit: a row left PENDING by a panic would count for ever.
Panicking == [Partitioned({"panic", "crash"}, 2) EXCEPT !.global = Unlimited]

DispatchFleets ==
    {Rolling}
    \cup {Disrupted(FALSE, v, 3, {"cancel", "panic", "crash"}) : v \in Versions}
    \cup {Disrupted(FALSE, v, 2, {"cancel", "resume", "panic", "crash", "recover"}) : v \in Versions}
    \cup {Disrupted(TRUE, v, 2, {"cancel", "crash", "shutdown", "recover"}) : v \in Versions}
DrainFleets == {Partitioned({"crash", "shutdown"}, 1), Partitioned({"crash"}, 2), Panicking}

\* The condition under which the limits are proved to hold together is met by the fleet that
\* has all three kinds of question in it, and not by those where rows are taken back.
ASSUME CoveredFleets == Undisturbed(Rolling) /\ ~Undisturbed(Panicking)

\* The executors are exchanged together with the versions, which maps Rolling to itself and
\* the Disrupted fleets of one version to those of the other.
Swap == [x \in {e1, e2, v1, v2} |->
            CASE x = e1 -> e2 [] x = e2 -> e1 [] x = v1 -> v2 [] x = v2 -> v1]
FleetSymmetry == Permutations(Jobs) \cup {Swap}
==============================================================================
