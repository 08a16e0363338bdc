------------------------- MODULE MCDurableOperations -------------------------
(***************************************************************************)
(* Small workflow functions that put the durable operations to work.       *)
(***************************************************************************)
EXTENDS DurableOperations, TLC

O(op, next)         == Op(op, op, 0, "q", "a", 0, next, 0)
SendTo(w, tp, next) == Op("send", "send", 0, w, tp, 0, next, 0)
Recv(tp, d, next)   == Op("recv", "recv", 0, "p", tp, d, next, 0)
SetE(v, next)       == Op("setEvent", "setEvent", v, "q", "a", 0, next, 0)
GetE(w, d, next)    == Op("getEvent", "getEvent", 0, w, "a", d, next, 0)
Write(v, next)      == Op("writeStream", "writeStream", v, "p", "a", 0, next, 0)
Nap(d, next)        == Op("sleep", "sleep", 0, "p", "a", d, next, 0)
Step(name, next)    == Op("select", name, 0, "p", "a", 0, next, 0)
Patch(new, old)     == Op("patch", "patch-x", 0, "p", "a", 0, new, old)
Deprecate(next)     == Op("deprecate", "patch-x", 0, "p", "a", 0, next, 0)

FunctionNames == OpKinds \cup {"none", "s", "old", "new", "last", "patch-x"}

NoFaults == [k \in FaultKinds |-> 0]
Program(p, q) == [w \in Ids |-> IF w = "p" THEN p ELSE q]

Base ==
    [code |-> <<Program(<<>>, <<>>)>>, roots |-> {"p", "q"}, posts |-> {}, faults |-> NoFaults,
     reader |-> "none", readFrom |-> "p", clean |-> FALSE]

Mail ==
    [Base EXCEPT !.code = <<Program(<<Recv("a", 1, 2), Recv("b", 1, 3), Recv("a", 1, 0)>>,
                                    <<SendTo("p", "a", 2), SendTo("p", "a", 3),
                                      SendTo("p", "b", 0)>>)>>,
                 !.faults = "crash" :> 1 @@ NoFaults]

KeyedMail ==
    [Base EXCEPT !.code = <<Program(<<Recv("a", 1, 2), Recv("a", 2, 0)>>, <<>>)>>,
                 !.roots = {"p"},
                 !.posts = {[to |-> "p", topic |-> "a", key |-> "k"]},
                 !.faults = "crash" :> 1 @@ "listener" :> 1 @@ NoFaults,
                 !.clean = TRUE]

\* Two executions of one workflow receive from one mailbox.
SharedMail ==
    [Base EXCEPT !.code = <<Program(<<Recv("a", 1, 2), Recv("a", 0, 0)>>, <<>>)>>,
                 !.roots = {"p"},
                 !.posts = {[to |-> "p", topic |-> "a", key |-> NoKey]},
                 !.faults = "restart" :> 1 @@ NoFaults]

Events ==
    [Base EXCEPT !.code = <<Program(<<GetE("q", 1, 2), Nap(1, 3), GetE("q", 2, 0)>>,
                                    <<SetE(1, 2), SetE(2, 0)>>)>>,
                 !.faults = "crash" :> 1 @@ "listener" :> 1 @@ NoFaults,
                 !.clean = TRUE]

Stream(how) ==
    [Base EXCEPT !.code = <<Program(<<Write(1, 2), Write(2, 3), O("closeStream", 0)>>, <<>>)>>,
                 !.roots = {"p"}, !.reader = how, !.clean = TRUE]

OpenStream(how) ==
    [Base EXCEPT !.code = <<Program(<<Write(1, 2), Write(2, 0)>>, <<>>)>>,
                 !.roots = {"p"}, !.reader = how,
                 !.faults = "crash" :> 2 @@ NoFaults, !.clean = TRUE]

SharedStream ==
    [Stream("none") EXCEPT !.faults = "crash" :> 1 @@ "restart" :> 1 @@ NoFaults, !.clean = FALSE]

Transfer ==
    [Base EXCEPT !.code = <<Program(<<O("tx", 2), O("value", 3), O("tx", 0)>>, <<>>)>>,
                 !.roots = {"p"},
                 !.faults = "crash" :> 2 @@ "conflict" :> 1 @@ "lost" :> 1 @@ "body" :> 2
                            @@ "cancel" :> 1 @@ NoFaults]

\* The parent does not wait for its child: recovery may run the child twice.
Detached ==
    [Base EXCEPT !.code = <<Program(<<O("child", 2), O("value", 0)>>,
                                    <<Step("s", 2), SetE(1, 3), Nap(1, 4), Write(1, 0)>>)>>,
                 !.roots = {"p"}, !.faults = "crash" :> 1 @@ NoFaults]

Parent ==
    [Base EXCEPT !.code = <<Program(<<O("child", 2), O("await", 3), O("value", 0)>>,
                                    <<Step("s", 0)>>)>>,
                 !.roots = {"p"}, !.faults = "restart" :> 1 @@ "cancel" :> 1 @@ NoFaults]

Before  == <<Step("old", 2), Step("last", 0)>>
During  == <<Patch(2, 3), Step("new", 4), Step("old", 4), Step("last", 0)>>
After   == <<Deprecate(2), Step("new", 3), Step("last", 0)>>

Upgrade(v, w) ==
    [Base EXCEPT !.code = <<Program(v, <<>>), Program(w, <<>>)>>, !.roots = {"p"},
                 !.faults = "crash" :> 1 @@ "deploy" :> 1 @@ NoFaults, !.clean = TRUE]

Values2 ==
    [Base EXCEPT !.code = <<Program(<<Nap(2, 2), Step("s", 3), O("value", 0)>>, <<>>)>>,
                 !.roots = {"p"},
                 !.faults = "crash" :> 1 @@ "restart" :> 1 @@ NoFaults, !.clean = TRUE]

All ==
    {Mail, KeyedMail, SharedMail, Events, Stream("drain"), Stream("values"), OpenStream("drain"),
     OpenStream("values"), SharedStream, Transfer, Detached, Parent, Upgrade(Before, During),
     Upgrade(During, After), Values2}

\* Scenarios among these that the theorems of DurableOperations_proofs are about.
ASSUME CoveredScenarios ==
    LET streamed == {Stream("drain"), Stream("values"), OpenStream("drain"), OpenStream("values")}
    IN /\ \A s \in {Mail, KeyedMail, Events, Transfer} \cup streamed : Solo(s) /\ Straight(s)
       /\ \A s \in streamed : Uncancelled(s)
       /\ \A s \in {KeyedMail, Events, OpenStream("drain"), OpenStream("values")} : Unfailing(s)
       /\ \A v \in {Before, During} : \A w \in {During, After} : ~Straight(Upgrade(v, w))

\* Two executions of one workflow run a transaction.
TransferTwice ==
    {[Base EXCEPT !.code = <<Program(<<O("child", 2), O("value", 0)>>, <<O("tx", 0)>>)>>,
                  !.roots = {"p"}, !.faults = "crash" :> 1 @@ NoFaults]}

\* A parent waits for its child, and the process crashes.
WaitingParent == {[Parent EXCEPT !.faults = "crash" :> 1 @@ NoFaults]}
=============================================================================
