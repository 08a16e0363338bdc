------------------------------ MODULE Debouncer ------------------------------
(***************************************************************************)
(* Debouncing, for one key.  A producer's call either wins the key's       *)
(* deduplication slot on the internal queue and so starts a collector, or  *)
(* finds the collector that holds it, sends it the input and waits for an  *)
(* acknowledgement.  The collector receives inputs until its target time,  *)
(* then starts the target once, with the last input it took.               *)
(*                                                                         *)
(* Each durable operation of the collector is one action: what a crash     *)
(* does inside one is DurableOperations' subject, and here it only makes   *)
(* the collector late.  Times are kept as differences to now.  A target is *)
(* named by the producer whose call made up its id, a collector likewise.  *)
(***************************************************************************)
EXTENDS Naturals, Sequences, FiniteSets, FiniteSetsExt, SequencesExt

CONSTANTS
    Producers,      \* each calls debounce once, with an input of its own
    NoProducer,
    Delays,         \* the delays they may ask for
    Timeouts,       \* the timeouts a debouncer may be built with; 0 is no cap
    AckTimeout,     \* how long a producer waits for an acknowledgement
    MaxStalls       \* bound: ticks that pass while a collector has work to do

ASSUME DebouncerAssumption ==
    /\ NoProducer \notin Producers
    /\ Delays \subseteq Nat \ {0} /\ \E d \in Delays : \A e \in Delays : d >= e
    /\ Timeouts \subseteq Nat /\ \E t \in Timeouts : \A u \in Timeouts : t >= u
    /\ AckTimeout \in Nat \ {0} /\ MaxStalls \in Nat

VARIABLES
    prod,       \* the producers' calls
    coll,       \* the collectors, by the producer that enqueued them
    started,    \* the input a target was started with, by target
    stalls

vars == <<prod, coll, started, stalls>>

Longest == Max(Delays)
Oldest  == Max(Timeouts) + 1    \* where the age of a collector stops counting

\* A DebounceMessage; n tells a producer's messages apart.
Message(p, n, delay) == [from |-> p, n |-> n, delay |-> delay]

NoMessage == Message(NoProducer, 0, 0)

NoCollector ==
    [pc |-> "none", first |-> NoMessage, timeout |-> 0, current |-> NoMessage,
     taken |-> {},      \* history: the producers whose inputs it took
     mail |-> <<>>, acks |-> <<>>,   \* the events set, in order
     age |-> 0,         \* now - start
     since |-> 0,       \* now - the loop's time
     left |-> 0,        \* target_ms - now, 0 once it has passed
     remaining |-> 0,   \* target_ms - the loop's time
     wait |-> 0, fixed |-> FALSE]   \* recv's deadline - now, once it is fixed

Call == [pc |-> "enqueue", existing |-> NoProducer, sent |-> 0, wait |-> 0, target |-> NoProducer]

CollectorPcs ==
    {"none", "queued", "start", "loop", "recv", "missed", "asleep", "ack", "run", "finish", "done"}

\* The values the variables take.
TypeOK ==
    /\ \A p \in Producers :
        /\ prod[p].pc \in {"enqueue", "lookup", "send", "ack", "returned"}
        /\ prod[p].wait \in 0..AckTimeout
        /\ {prod[p].existing, prod[p].target} \subseteq Producers \cup {NoProducer}
        /\ coll[p].pc \in CollectorPcs
        /\ {coll[p].left, coll[p].remaining, coll[p].wait} \subseteq 0..Longest
        /\ coll[p].age \in 0..Oldest
        /\ coll[p].taken \subseteq Producers
    /\ started \in [Producers -> Producers \cup {NoProducer}]
    /\ stalls \in 0..MaxStalls

Init ==
    /\ prod = [p \in Producers |-> Call]
    /\ coll = [p \in Producers |-> NoCollector]
    /\ started = [p \in Producers |-> NoProducer]
    /\ stalls = 0

Minus(a, b) == IF a > b THEN a - b ELSE 0

(***************************************************************************)
(* run_debounce                                                            *)
(***************************************************************************)
\* The row that holds the deduplication id: until its status is terminal.
Active == {c \in Producers : coll[c].pc \notin {"none", "done"}}

EnqueueCollector(p, delay, timeout) ==
    /\ prod[p].pc = "enqueue"
    /\ Active = {}
    /\ coll' = [coll EXCEPT ![p] = [NoCollector EXCEPT !.pc = "queued", !.timeout = timeout,
                                                       !.first = Message(p, 0, delay)]]
    /\ prod' = [prod EXCEPT ![p] = [Call EXCEPT !.pc = "returned", !.target = p]]
    /\ UNCHANGED <<started, stalls>>

Deduplicated(p) ==
    /\ prod[p].pc = "enqueue"
    /\ Active # {}
    /\ prod' = [prod EXCEPT ![p].pc = "lookup"]
    /\ UNCHANGED <<coll, started, stalls>>

\* get_deduplicated_workflow: nobody when it finished in between.
Lookup(p) ==
    /\ prod[p].pc = "lookup"
    /\ \/ /\ Active = {}
          /\ prod' = [prod EXCEPT ![p].pc = "enqueue"]
       \/ \E c \in Active : prod' = [prod EXCEPT ![p] = [@ EXCEPT !.pc = "send", !.existing = c]]
    /\ UNCHANGED <<coll, started, stalls>>

\* Sending to a collector that is done is no error: its row is there, but nobody receives.
SendDebounce(p, delay) ==
    LET msg == Message(p, prod[p].sent + 1, delay)
    IN /\ prod[p].pc = "send"
       /\ prod' = [prod EXCEPT ![p] = [@ EXCEPT !.pc = "ack", !.sent = prod[p].sent + 1,
                                                !.wait = AckTimeout]]
       /\ coll' = [coll EXCEPT ![prod[p].existing].mail =
                     IF prod[p].existing \in Active THEN Append(@, msg) ELSE @]
       /\ UNCHANGED <<started, stalls>>

\* Mutant: the call returns once the input is sent.
Unacknowledged(p) ==
    /\ prod[p].pc = "ack"
    /\ prod' = [prod EXCEPT ![p] = [Call EXCEPT !.pc = "returned", !.target = prod[p].existing]]
    /\ UNCHANGED <<coll, started, stalls>>

Acknowledged(p) ==
    /\ prod[p].pc = "ack"
    /\ <<p, prod[p].sent>> \in Range(coll[prod[p].existing].acks)
    /\ prod' = [prod EXCEPT ![p] = [Call EXCEPT !.pc = "returned", !.target = prod[p].existing]]
    /\ UNCHANGED <<coll, started, stalls>>

\* Mutant: a call that is not acknowledged is given up.
AckTimedOutEnds(p) ==
    /\ prod[p].pc = "ack"
    /\ prod[p].wait = 0
    /\ UNCHANGED vars

\* Mutant: the wait for the acknowledgement has no time.
AckTimedOutAtOnce(p) ==
    /\ prod[p].pc = "ack"
    /\ <<p, prod[p].sent>> \notin Range(coll[prod[p].existing].acks)
    /\ prod' = [prod EXCEPT ![p] = [@ EXCEPT !.pc = "enqueue", !.existing = NoProducer]]
    /\ UNCHANGED <<coll, started, stalls>>

AckTimedOut(p) ==
    /\ prod[p].pc = "ack"
    /\ prod[p].wait = 0
    /\ <<p, prod[p].sent>> \notin Range(coll[prod[p].existing].acks)
    /\ prod' = [prod EXCEPT ![p] = [@ EXCEPT !.pc = "enqueue", !.existing = NoProducer]]
    /\ UNCHANGED <<coll, started, stalls>>

ProducerStep(p) ==
    \/ \E delay \in Delays, timeout \in Timeouts : EnqueueCollector(p, delay, timeout)
    \/ Deduplicated(p) \/ Lookup(p)
    \/ \E delay \in Delays : SendDebounce(p, delay)
    \/ Acknowledged(p) \/ AckTimedOut(p)

(***************************************************************************)
(* internal_debouncer                                                      *)
(***************************************************************************)
Steps(c, from, to) ==
    /\ coll[c].pc = from
    /\ coll' = [coll EXCEPT ![c] = to]
    /\ UNCHANGED <<prod, stalls>>

\* Mutant: the cap is taken from the call, not from the collector's start.
CappedAnew(c, delay, ago) ==
    LET left == Minus(delay, ago)
    IN IF coll[c].timeout > 0 THEN Min({left, coll[c].timeout}) ELSE left

\* cap(time + delay) - now, where now is ago later than time.
Capped(c, delay, ago) ==
    LET left == Minus(delay, ago)
    IN IF coll[c].timeout > 0 THEN Min({left, Minus(coll[c].timeout, coll[c].age)}) ELSE left

Dispatch(c) == Steps(c, "queued", [coll[c] EXCEPT !.pc = "start"]) /\ UNCHANGED started

\* DBOS.debounce.startTime
StartTime(c) ==
    /\ Steps(c, "start", [coll[c] EXCEPT !.pc = "loop", !.current = coll[c].first,
                                         !.taken = {coll[c].first.from}, !.age = 0,
                                         !.left = Capped(c, coll[c].first.delay, 0)])
    /\ UNCHANGED started

\* DBOS.debounce.loopTime
LoopTime(c) ==
    /\ Steps(c, "loop", [coll[c] EXCEPT !.pc = IF coll[c].left = 0 THEN "run" ELSE "recv",
                                        !.since = 0, !.remaining = coll[c].left,
                                        !.fixed = FALSE, !.wait = 0])
    /\ UNCHANGED started

RecvTake(c) ==
    LET msg == Head(coll[c].mail)
    IN /\ coll[c].mail # <<>>
       /\ Steps(c, "recv", [coll[c] EXCEPT !.pc = "ack", !.mail = Tail(@), !.current = msg,
                                           !.taken = @ \cup {msg.from},
                                           !.left = Capped(c, msg.delay, coll[c].since)])
       /\ UNCHANGED started

\* The first miss fixes recv's deadline.
RecvMiss(c) ==
    /\ coll[c].mail = <<>>
    /\ Steps(c, "recv", [coll[c] EXCEPT !.pc = "missed", !.fixed = TRUE,
                                        !.wait = IF coll[c].fixed THEN @ ELSE coll[c].remaining])
    /\ UNCHANGED started

\* A message that arrives now stays in the mailbox.
RecvTimeout(c) ==
    /\ coll[c].wait = 0
    /\ Steps(c, "missed", [coll[c] EXCEPT !.pc = "run"])
    /\ UNCHANGED started

AwaitChange(c) ==
    /\ coll[c].wait > 0
    /\ Steps(c, "missed", [coll[c] EXCEPT !.pc = "asleep"])
    /\ UNCHANGED started

Wake(c) ==
    /\ coll[c].mail # <<>> \/ coll[c].wait = 0
    /\ Steps(c, "asleep", [coll[c] EXCEPT !.pc = "recv"])
    /\ UNCHANGED started

SetAck(c) ==
    /\ Steps(c, "ack", [coll[c] EXCEPT !.pc = "loop",
                                       !.acks = Append(@, <<coll[c].current.from, coll[c].current.n>>)])
    /\ UNCHANGED started

\* Mutant: the target is started with the input the collector was started with.
StartTargetFirst(c) ==
    /\ Steps(c, "run", [coll[c] EXCEPT !.pc = "finish"])
    /\ started' = [started EXCEPT ![c] = coll[c].first.from]

StartTarget(c) ==
    /\ Steps(c, "run", [coll[c] EXCEPT !.pc = "finish"])
    /\ started' = [started EXCEPT ![c] = coll[c].current.from]

\* run_to_completion writes SUCCESS, which frees the deduplication id.
Complete(c) ==
    /\ Steps(c, "finish", [NoCollector EXCEPT !.pc = "done", !.first = coll[c].first,
                                              !.timeout = coll[c].timeout, !.taken = coll[c].taken,
                                              !.current = coll[c].current, !.acks = coll[c].acks])
    /\ UNCHANGED started

CollectorStep(c) ==
    \/ Dispatch(c) \/ StartTime(c) \/ LoopTime(c)
    \/ RecvTake(c) \/ RecvMiss(c) \/ RecvTimeout(c) \/ AwaitChange(c) \/ Wake(c)
    \/ SetAck(c) \/ StartTarget(c) \/ Complete(c)

(***************************************************************************)
(* Time                                                                    *)
(***************************************************************************)
Busy ==
    \E c \in Active : ~(coll[c].pc = "asleep" /\ coll[c].mail = <<>> /\ coll[c].wait > 0)

Waiting == \E p \in Producers : prod[p].wait > 0 \/ coll[p].pc = "asleep"

Aged(c) ==
    [c EXCEPT !.age = IF c.pc \in {"none", "queued", "start"} THEN 0 ELSE Min({@ + 1, Oldest}),
              !.since = IF c.pc \in {"recv", "missed", "asleep"} THEN Min({@ + 1, Longest}) ELSE 0,
              !.left = Minus(@, 1), !.wait = Minus(@, 1)]

\* A collector that has work to do does it at once, but for MaxStalls times: a slow poll, a
\* crash and the recovery after it.
Tick ==
    /\ Waiting \/ Busy
    /\ IF Busy THEN stalls < MaxStalls /\ stalls' = stalls + 1 ELSE UNCHANGED stalls
    /\ coll' = [c \in Producers |-> IF c \in Active THEN Aged(coll[c]) ELSE coll[c]]
    /\ prod' = [p \in Producers |-> [prod[p] EXCEPT !.wait = Minus(@, 1)]]
    /\ UNCHANGED started

Returned == {p \in Producers : prod[p].pc = "returned"}

Finished == Returned = Producers /\ Active = {} /\ UNCHANGED vars

Next == (\E p \in Producers : ProducerStep(p) \/ CollectorStep(p)) \/ Tick \/ Finished

Spec == Init /\ [][Next]_vars

(***************************************************************************)
(* Fairness: every call is polled, a launched engine runs the collector,   *)
(* and time passes.                                                        *)
(***************************************************************************)
FairSpec ==
    /\ Spec
    /\ \A p \in Producers : WF_vars(ProducerStep(p)) /\ WF_vars(CollectorStep(p))
    /\ WF_vars(Tick)

(***************************************************************************)
(* Properties                                                              *)
(***************************************************************************)
\* No accepted input is lost: a call returns the id of a target whose collector has taken, or
\* was started with, that call's input, however the collector's last recv, its completion and
\* the acknowledgement interleave (run_debounce retries what was not acknowledged).
AcceptedIsTaken ==
    \A p \in Returned :
        LET c == coll[prod[p].target]
        IN p \in c.taken \/ p = c.first.from

\* The collectors that have taken, or were started with, a producer's input.
Holders(p) == {c \in Producers : p \in coll[c].taken \/ p = coll[c].first.from}

\* A call's input ends up in one collector, so in one target at most, however often the call is
\* refused, misses the collector and starts over: the retry after a missing acknowledgement
\* repeats an input only when the collector that took it was late, once for each time it was.
InputTakenOnce == \A p \in Producers : Cardinality(Holders(p)) <= 1 + stalls

\* A target runs with the input that was acknowledged last, or with the first one when none
\* was pushed back: no caller is told its input was taken and then sees an older one run.
RunsLatest ==
    \A c \in Producers : started[c] # NoProducer =>
        started[c] = IF coll[c].acks = <<>> THEN coll[c].first.from ELSE Last(coll[c].acks)[1]

\* A collector that is never late starts its target at most timeout after it started, however
\* often it is pushed back.
CapHolds ==
    \A c \in Active :
        stalls = 0 /\ coll[c].timeout > 0 /\ coll[c].pc \notin {"queued", "start"}
          => coll[c].age <= coll[c].timeout

\* Every call returns, and every target a call was given is started.
EveryCallRuns ==
    \A p \in Producers : <>(prod[p].pc = "returned" /\ started[prod[p].target] # NoProducer)
==============================================================================
