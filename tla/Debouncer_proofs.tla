-------------------------- MODULE Debouncer_proofs --------------------------
(***************************************************************************)
(* Proofs about debouncing one key, for every number of producers, all     *)
(* delays and timeouts, and any number of stalls.                          *)
(***************************************************************************)
EXTENDS Debouncer, TLAPS, FiniteSetTheorems

(***************************************************************************)
(* Times                                                                   *)
(***************************************************************************)
LEMMA Bounds ==
    /\ Longest \in Nat /\ \A d \in Delays : d \in 0..Longest
    /\ Oldest \in Nat /\ \A t \in Timeouts : t \in Nat
    /\ AckTimeout \in Nat /\ MaxStalls \in Nat
<1>1. Longest \in Delays /\ \A d \in Delays : Longest >= d
  BY DebouncerAssumption DEF Longest, Max
<1>2. Max(Timeouts) \in Timeouts
  BY DebouncerAssumption DEF Max
<1>3. Longest \in Nat /\ \A d \in Delays : d \in 0..Longest
  BY <1>1, DebouncerAssumption
<1>4. Oldest \in Nat
  <2>1. Max(Timeouts) \in Nat
    BY <1>2, DebouncerAssumption
  <2> QED
    BY <2>1 DEF Oldest
<1> QED
  BY <1>3, <1>4, DebouncerAssumption

LEMMA MinOfTwo == \A a, b \in Nat : LET m == Min({a, b}) IN m \in {a, b} /\ m <= a /\ m <= b
<1> SUFFICES ASSUME NEW a \in Nat, NEW b \in Nat
             PROVE  LET m == Min({a, b}) IN m \in {a, b} /\ m <= a /\ m <= b
  OBVIOUS
<1>1. \E x \in {a, b} : \A y \in {a, b} : x =< y
  <2>1. CASE a =< b
    BY <2>1
  <2>2. CASE b =< a
    BY <2>2
  <2> QED
    BY <2>1, <2>2
<1> QED
  BY <1>1 DEF Min

LEMMA MinusBounds ==
    \A a, b \in Nat : Minus(a, b) \in Nat /\ Minus(a, b) <= a /\ (a >= b => Minus(a, b) = a - b)
  BY DEF Minus

(***************************************************************************)
(* The inductive invariant                                                 *)
(***************************************************************************)
Maybe == Producers \cup {NoProducer}
Messages == [from : Maybe, n : Nat, delay : 0..Longest]
Mails == [from : Producers, n : Nat, delay : 0..Longest]
Acks == Producers \X Nat

Collectors ==
    [pc : CollectorPcs, first : Messages, timeout : Nat, current : Messages,
     taken : SUBSET Producers, mail : Seq(Mails), acks : Seq(Acks),
     age : 0..Oldest, since : 0..Longest, left : 0..Longest, remaining : 0..Longest,
     wait : 0..Longest, fixed : BOOLEAN]

CallStates ==
    [pc : {"enqueue", "lookup", "send", "ack", "returned"}, existing : Maybe, sent : Nat,
     wait : 0..AckTimeout, target : Maybe]

Types ==
    /\ prod \in [Producers -> CallStates]
    /\ coll \in [Producers -> Collectors]
    /\ started \in [Producers -> Maybe]
    /\ stalls \in 0..MaxStalls

\* A collector before its start time is recorded.
Fresh == {"none", "queued", "start"}

\* What RunsLatest expects a collector to run with.
LatestInput(r) == IF r.acks = <<>> THEN r.first.from ELSE Last(r.acks)[1]

\* What a collector r, of producer c, has done so far, given the input its target runs with.
\* Between taking an input and acknowledging it, the current input is ahead of the acks.
Consistent(r, c, input) ==
    /\ r.pc # "none" => r.first.from = c
    /\ r.pc \in Fresh => r.taken = {} /\ r.acks = <<>> /\ r.age = 0
    /\ r.pc \notin Fresh => r.current.from \in r.taken
    /\ \A i \in DOMAIN r.acks : r.acks[i][1] \in r.taken
    /\ r.pc \notin Fresh \cup {"ack"} => r.current.from = LatestInput(r)
    /\ input # NoProducer => r.pc \in {"finish", "done"} /\ input = r.current.from

\* What a producer's call relies on: the collector it talks to, or was told of, exists.
Served(p) ==
    LET call == prod[p]
    IN /\ call.pc \in {"send", "ack"} =>
            call.existing \in Producers /\ coll[call.existing].pc # "none"
       /\ call.pc # "returned" => coll[p].pc = "none"
       /\ call.pc = "returned" =>
            /\ call.target \in Producers /\ coll[call.target].pc # "none"
            /\ p \in coll[call.target].taken \/ p = coll[call.target].first.from

\* A collector that was never late still has its target time ahead of it and within the cap,
\* and recv's deadline is not after the target time.
InTime(r) ==
    /\ r.timeout > 0 => r.age + r.left <= r.timeout
    /\ r.pc = "recv" /\ ~r.fixed => r.remaining = r.left
    /\ r.pc = "recv" /\ r.fixed => r.wait <= r.left
    /\ r.pc \in {"missed", "asleep"} => r.fixed /\ r.wait <= r.left

Punctual ==
    stalls = 0 => \A c \in Producers : coll[c].pc \notin Fresh \cup {"done"} => InTime(coll[c])

Alone == \A b, c \in Active : b = c

Inv ==
    /\ Types /\ Alone /\ Punctual
    /\ \A c \in Producers : Consistent(coll[c], c, started[c])
    /\ \A p \in Producers : Served(p)

LEMMA NoCollectorType == NoCollector \in Collectors
<1>1. NoMessage \in Messages
  BY Bounds DEF NoMessage, Message, Messages, Maybe
<1> QED
  BY <1>1, Bounds DEF NoCollector, Collectors, CollectorPcs

LEMMA InvInit == Init => Inv
<1> SUFFICES ASSUME Init PROVE Inv
  OBVIOUS
<1>2. NoCollector \in Collectors
  BY NoCollectorType
<1>3. Types
  BY <1>2, Bounds DEF Init, Types, Call, CallStates, Maybe
<1>4. Alone /\ Punctual
  BY DEF Init, Alone, Active, NoCollector, Punctual, Fresh
<1>5. \A c \in Producers : Consistent(coll[c], c, started[c])
  BY DEF Init, Consistent, NoCollector, Fresh
<1>6. \A p \in Producers : Served(p)
  BY DEF Init, Served, Call, NoCollector
<1> QED
  BY <1>3, <1>4, <1>5, <1>6 DEF Inv

(***************************************************************************)
(* A step of one collector                                                 *)
(***************************************************************************)
\* What may change in the collectors without disturbing a producer's call.
LEMMA CallsKept ==
    ASSUME Types, \A p \in Producers : Served(p), prod' = prod,
           \A c \in Producers :
              /\ coll[c].pc = "none" <=> coll'[c].pc = "none"
              /\ coll'[c].first = coll[c].first /\ coll[c].taken \subseteq coll'[c].taken
    PROVE  \A p \in Producers : Served(p)'
  BY DEF Types, Served

LEMMA CollectorMoves ==
    ASSUME Inv, NEW c \in Producers, NEW new \in Collectors,
           coll' = [coll EXCEPT ![c] = new], UNCHANGED <<prod, stalls>>,
           started' \in [Producers -> Maybe],
           \A d \in Producers \ {c} : started'[d] = started[d],
           c \in Active, new.pc # "none", new.first = coll[c].first,
           coll[c].taken \subseteq new.taken,
           Consistent(new, c, started'[c]),
           stalls = 0 /\ new.pc \notin Fresh \cup {"done"} => InTime(new)
    PROVE  Inv'
<1>1. Types'
  BY DEF Inv, Types
<1>2. coll'[c] = new /\ \A d \in Producers \ {c} : coll'[d] = coll[d]
  BY DEF Inv, Types
<1>3. Alone'
  <2>1. Active' \subseteq Active
    BY <1>2 DEF Active
  <2> QED
    BY <2>1 DEF Inv, Alone
<1>4. Punctual'
  BY <1>2 DEF Inv, Punctual
<1>5. \A d \in Producers : Consistent(coll[d], d, started[d])'
  BY <1>2 DEF Inv
<1>6. \A p \in Producers : Served(p)'
  BY <1>2, CallsKept DEF Inv, Active
<1> QED
  BY <1>1, <1>3, <1>4, <1>5, <1>6 DEF Inv

LEMMA CappedBounds ==
    ASSUME Inv, NEW c \in Producers, NEW delay \in 0..Longest, NEW ago \in 0..Longest
    PROVE  /\ Capped(c, delay, ago) \in 0..Longest
           /\ coll[c].timeout > 0 /\ coll[c].age <= coll[c].timeout
                => coll[c].age + Capped(c, delay, ago) <= coll[c].timeout
<1> DEFINE left == Minus(delay, ago)
           room == Minus(coll[c].timeout, coll[c].age)
<1>1. coll[c].timeout \in Nat /\ coll[c].age \in Nat
  BY Bounds DEF Inv, Types, Collectors
<1>2. left \in 0..Longest
  BY Bounds, MinusBounds
<1>3. room \in Nat /\ (coll[c].age <= coll[c].timeout => room = coll[c].timeout - coll[c].age)
  BY <1>1, MinusBounds
<1>4. Capped(c, delay, ago) = IF coll[c].timeout > 0 THEN Min({left, room}) ELSE left
  BY DEF Capped
<1>5. left \in Nat
  BY <1>2, Bounds
<1> HIDE DEF left, room
<1>6. Min({left, room}) \in Nat /\ Min({left, room}) <= left /\ Min({left, room}) <= room
  BY <1>3, <1>5, MinOfTwo
<1> QED
  BY <1>1, <1>2, <1>3, <1>4, <1>5, <1>6, Bounds

LEMMA CollectorStepInv == ASSUME Inv, NEW c \in Producers, CollectorStep(c) PROVE Inv'
<1> DEFINE r == coll[c]
<1>0. /\ r \in Collectors /\ started \in [Producers -> Maybe]
      /\ Consistent(r, c, started[c])
      /\ stalls = 0 /\ r.pc \notin Fresh \cup {"done"} => InTime(r)
  BY DEF Inv, Types, Punctual
<1>1. CASE Dispatch(c)
  <2> DEFINE new == [r EXCEPT !.pc = "start"]
  <2>1. /\ r.pc = "queued" /\ coll' = [coll EXCEPT ![c] = new] /\ UNCHANGED <<prod, stalls>>
        /\ started' = started
    BY <1>1 DEF Dispatch, Steps
  <2>2. c \in Active
    BY <2>1 DEF Active
  <2>7. new \in Collectors
    BY <1>0, <2>1 DEF Collectors, CollectorPcs
  <2>8. Consistent(new, c, started'[c])
    BY <1>0, <2>1 DEF Consistent, Fresh, LatestInput, Collectors
  <2>9. stalls = 0 /\ new.pc \notin Fresh \cup {"done"} => InTime(new)
    BY <1>0, <2>1 DEF InTime, Fresh, Collectors
  <2>10. new.pc # "none" /\ new.first = r.first /\ r.taken \subseteq new.taken
    BY <1>0, <2>1 DEF Collectors, Consistent, Fresh
  <2>11. started' \in [Producers -> Maybe] /\ \A d \in Producers \ {c} : started'[d] = started[d]
    BY <1>0, <2>1 DEF Collectors, Messages
  <2> HIDE DEF new
  <2> QED
    BY <2>1, <2>2, <2>7, <2>8, <2>9, <2>10, <2>11, CollectorMoves
<1>2. CASE StartTime(c)
  <2> DEFINE new == [r EXCEPT !.pc = "loop", !.current = r.first, !.taken = {r.first.from}, !.age = 0,
                            !.left = Capped(c, r.first.delay, 0)]
  <2>1. /\ r.pc = "start" /\ coll' = [coll EXCEPT ![c] = new] /\ UNCHANGED <<prod, stalls>>
        /\ started' = started
    BY <1>2 DEF StartTime, Steps
  <2>2. c \in Active
    BY <2>1 DEF Active
  <2>3. /\ r.first \in Messages /\ r.first.from = c /\ r.age = 0
        /\ 0 \in 0..Longest /\ r.first.delay \in 0..Longest
    BY <1>0, <2>1, Bounds DEF Collectors, Consistent, Fresh, Messages
  <2>4. /\ Capped(c, r.first.delay, 0) \in 0..Longest
        /\ r.timeout > 0 => Capped(c, r.first.delay, 0) <= r.timeout
    <3> DEFINE d == r.first.delay
    <3> HIDE DEF d
    <3>1. d \in 0..Longest /\ r.age = 0 /\ r.timeout \in Nat
      BY <1>0, <2>3 DEF d, Collectors
    <3>2. Capped(c, d, 0) \in 0..Longest
      BY <2>3, <3>1, CappedBounds
    <3>3. r.timeout > 0 => r.age + Capped(c, d, 0) <= r.timeout
      <4>1. r.age <= r.timeout
        BY <3>1
      <4> QED
        BY <2>3, <3>1, <4>1, CappedBounds
    <3> QED
      BY <3>1, <3>2, <3>3, Bounds DEF d
  <2>7. new \in Collectors
    BY <1>0, <2>1, <2>3, <2>4, Bounds DEF Collectors, CollectorPcs
  <2>8. Consistent(new, c, started'[c])
    BY <1>0, <2>1, <2>3, <2>4 DEF Consistent, Fresh, LatestInput, Collectors
  <2>9. stalls = 0 /\ new.pc \notin Fresh \cup {"done"} => InTime(new)
    BY <1>0, <2>1, <2>3, <2>4, Bounds DEF InTime, Fresh, Collectors
  <2>10. new.pc # "none" /\ new.first = r.first /\ r.taken \subseteq new.taken
    BY <1>0, <2>1, <2>3, <2>4 DEF Collectors, Consistent, Fresh
  <2>11. started' \in [Producers -> Maybe] /\ \A d \in Producers \ {c} : started'[d] = started[d]
    BY <1>0, <2>1 DEF Collectors, Messages
  <2> HIDE DEF new
  <2> QED
    BY <2>1, <2>2, <2>7, <2>8, <2>9, <2>10, <2>11, CollectorMoves
<1>3. CASE LoopTime(c)
  <2> DEFINE new == [r EXCEPT !.pc = IF r.left = 0 THEN "run" ELSE "recv", !.since = 0,
                            !.remaining = r.left, !.fixed = FALSE, !.wait = 0]
  <2>1. /\ r.pc = "loop" /\ coll' = [coll EXCEPT ![c] = new] /\ UNCHANGED <<prod, stalls>>
        /\ started' = started
    BY <1>3 DEF LoopTime, Steps
  <2>2. c \in Active
    BY <2>1 DEF Active
  <2>7. new \in Collectors
    <3> DEFINE next == IF r.left = 0 THEN "run" ELSE "recv"
    <3>1. next \in CollectorPcs
      BY DEF CollectorPcs
    <3>2. 0 \in 0..Longest
      BY Bounds
    <3> HIDE DEF next
    <3>3. [r EXCEPT !.pc = next, !.since = 0, !.remaining = r.left,
                    !.fixed = FALSE, !.wait = 0] \in Collectors
      BY <1>0, <3>1, <3>2 DEF Collectors
    <3> QED
      BY <3>3 DEF next
  <2>8. Consistent(new, c, started'[c])
    BY <1>0, <2>1 DEF Consistent, Fresh, LatestInput, Collectors
  <2>9. stalls = 0 /\ new.pc \notin Fresh \cup {"done"} => InTime(new)
    BY <1>0, <2>1, Bounds DEF InTime, Fresh, Collectors
  <2>10. new.pc # "none" /\ new.first = r.first /\ r.taken \subseteq new.taken
    BY <1>0, <2>1 DEF Collectors, Consistent, Fresh
  <2>11. started' \in [Producers -> Maybe] /\ \A d \in Producers \ {c} : started'[d] = started[d]
    BY <1>0, <2>1 DEF Collectors, Messages
  <2> HIDE DEF new
  <2> QED
    BY <2>1, <2>2, <2>7, <2>8, <2>9, <2>10, <2>11, CollectorMoves
<1>4. CASE RecvTake(c)
  <2> DEFINE new == [r EXCEPT !.pc = "ack", !.mail = Tail(r.mail), !.current = Head(r.mail),
                            !.taken = r.taken \cup {Head(r.mail).from},
                            !.left = Capped(c, Head(r.mail).delay, r.since)]
  <2>1. /\ r.pc = "recv" /\ coll' = [coll EXCEPT ![c] = new] /\ UNCHANGED <<prod, stalls>>
        /\ started' = started
    BY <1>4 DEF RecvTake, Steps
  <2>2. c \in Active
    BY <2>1 DEF Active
  <2>3. r.mail # <<>>
    BY <1>4 DEF RecvTake
  <2>4. /\ Tail(r.mail) \in Seq(Mails) /\ Head(r.mail) \in Messages
        /\ Head(r.mail).delay \in 0..Longest /\ Head(r.mail).from \in Producers
    <3>1. r.mail \in Seq(Mails)
      BY <1>0 DEF Collectors
    <3>2. Head(r.mail) \in Mails /\ Tail(r.mail) \in Seq(Mails)
      BY <2>3, <3>1
    <3> QED
      BY <3>2 DEF Mails, Messages, Maybe
  <2>5. /\ Capped(c, Head(r.mail).delay, r.since) \in 0..Longest
        /\ r.timeout > 0 /\ r.age <= r.timeout
             => r.age + Capped(c, Head(r.mail).delay, r.since) <= r.timeout
    BY <1>0, <2>4, CappedBounds DEF Collectors
  <2>7. new \in Collectors
    BY <1>0, <2>1, <2>4, <2>5, Bounds DEF Collectors, CollectorPcs
  <2>8. Consistent(new, c, started'[c])
    BY <1>0, <2>1, <2>4, <2>5 DEF Consistent, Fresh, LatestInput, Collectors
  <2>9. stalls = 0 /\ new.pc \notin Fresh \cup {"done"} => InTime(new)
    BY <1>0, <2>1, <2>4, <2>5, Bounds DEF InTime, Fresh, Collectors
  <2>10. new.pc # "none" /\ new.first = r.first /\ r.taken \subseteq new.taken
    BY <1>0, <2>1, <2>4, <2>5 DEF Collectors, Consistent, Fresh
  <2>11. started' \in [Producers -> Maybe] /\ \A d \in Producers \ {c} : started'[d] = started[d]
    BY <1>0, <2>1 DEF Collectors, Messages
  <2> HIDE DEF new
  <2> QED
    BY <2>1, <2>2, <2>7, <2>8, <2>9, <2>10, <2>11, CollectorMoves
<1>5. CASE RecvMiss(c)
  <2> DEFINE new == [r EXCEPT !.pc = "missed", !.fixed = TRUE,
                            !.wait = IF r.fixed THEN r.wait ELSE r.remaining]
  <2>1. /\ r.pc = "recv" /\ coll' = [coll EXCEPT ![c] = new] /\ UNCHANGED <<prod, stalls>>
        /\ started' = started
    BY <1>5 DEF RecvMiss, Steps
  <2>2. c \in Active
    BY <2>1 DEF Active
  <2>7. new \in Collectors
    BY <1>0, <2>1, Bounds DEF Collectors, CollectorPcs
  <2>8. Consistent(new, c, started'[c])
    BY <1>0, <2>1 DEF Consistent, Fresh, LatestInput, Collectors
  <2>9. stalls = 0 /\ new.pc \notin Fresh \cup {"done"} => InTime(new)
    BY <1>0, <2>1, Bounds DEF InTime, Fresh, Collectors
  <2>10. new.pc # "none" /\ new.first = r.first /\ r.taken \subseteq new.taken
    BY <1>0, <2>1 DEF Collectors, Consistent, Fresh
  <2>11. started' \in [Producers -> Maybe] /\ \A d \in Producers \ {c} : started'[d] = started[d]
    BY <1>0, <2>1 DEF Collectors, Messages
  <2> HIDE DEF new
  <2> QED
    BY <2>1, <2>2, <2>7, <2>8, <2>9, <2>10, <2>11, CollectorMoves
<1>6. CASE RecvTimeout(c)
  <2> DEFINE new == [r EXCEPT !.pc = "run"]
  <2>1. /\ r.pc = "missed" /\ coll' = [coll EXCEPT ![c] = new] /\ UNCHANGED <<prod, stalls>>
        /\ started' = started
    BY <1>6 DEF RecvTimeout, Steps
  <2>2. c \in Active
    BY <2>1 DEF Active
  <2>7. new \in Collectors
    BY <1>0, <2>1 DEF Collectors, CollectorPcs
  <2>8. Consistent(new, c, started'[c])
    BY <1>0, <2>1 DEF Consistent, Fresh, LatestInput, Collectors
  <2>9. stalls = 0 /\ new.pc \notin Fresh \cup {"done"} => InTime(new)
    BY <1>0, <2>1 DEF InTime, Fresh, Collectors
  <2>10. new.pc # "none" /\ new.first = r.first /\ r.taken \subseteq new.taken
    BY <1>0, <2>1 DEF Collectors, Consistent, Fresh
  <2>11. started' \in [Producers -> Maybe] /\ \A d \in Producers \ {c} : started'[d] = started[d]
    BY <1>0, <2>1 DEF Collectors, Messages
  <2> HIDE DEF new
  <2> QED
    BY <2>1, <2>2, <2>7, <2>8, <2>9, <2>10, <2>11, CollectorMoves
<1>7. CASE AwaitChange(c)
  <2> DEFINE new == [r EXCEPT !.pc = "asleep"]
  <2>1. /\ r.pc = "missed" /\ coll' = [coll EXCEPT ![c] = new] /\ UNCHANGED <<prod, stalls>>
        /\ started' = started
    BY <1>7 DEF AwaitChange, Steps
  <2>2. c \in Active
    BY <2>1 DEF Active
  <2>7. new \in Collectors
    BY <1>0, <2>1 DEF Collectors, CollectorPcs
  <2>8. Consistent(new, c, started'[c])
    BY <1>0, <2>1 DEF Consistent, Fresh, LatestInput, Collectors
  <2>9. stalls = 0 /\ new.pc \notin Fresh \cup {"done"} => InTime(new)
    BY <1>0, <2>1 DEF InTime, Fresh, Collectors
  <2>10. new.pc # "none" /\ new.first = r.first /\ r.taken \subseteq new.taken
    BY <1>0, <2>1 DEF Collectors, Consistent, Fresh
  <2>11. started' \in [Producers -> Maybe] /\ \A d \in Producers \ {c} : started'[d] = started[d]
    BY <1>0, <2>1 DEF Collectors, Messages
  <2> HIDE DEF new
  <2> QED
    BY <2>1, <2>2, <2>7, <2>8, <2>9, <2>10, <2>11, CollectorMoves
<1>8. CASE Wake(c)
  <2> DEFINE new == [r EXCEPT !.pc = "recv"]
  <2>1. /\ r.pc = "asleep" /\ coll' = [coll EXCEPT ![c] = new] /\ UNCHANGED <<prod, stalls>>
        /\ started' = started
    BY <1>8 DEF Wake, Steps
  <2>2. c \in Active
    BY <2>1 DEF Active
  <2>7. new \in Collectors
    BY <1>0, <2>1 DEF Collectors, CollectorPcs
  <2>8. Consistent(new, c, started'[c])
    BY <1>0, <2>1 DEF Consistent, Fresh, LatestInput, Collectors
  <2>9. stalls = 0 /\ new.pc \notin Fresh \cup {"done"} => InTime(new)
    BY <1>0, <2>1 DEF InTime, Fresh, Collectors
  <2>10. new.pc # "none" /\ new.first = r.first /\ r.taken \subseteq new.taken
    BY <1>0, <2>1 DEF Collectors, Consistent, Fresh
  <2>11. started' \in [Producers -> Maybe] /\ \A d \in Producers \ {c} : started'[d] = started[d]
    BY <1>0, <2>1 DEF Collectors, Messages
  <2> HIDE DEF new
  <2> QED
    BY <2>1, <2>2, <2>7, <2>8, <2>9, <2>10, <2>11, CollectorMoves
<1>9. CASE SetAck(c)
  <2> DEFINE new == [r EXCEPT !.pc = "loop",
                            !.acks = Append(r.acks, <<r.current.from, r.current.n>>)]
  <2>1. /\ r.pc = "ack" /\ coll' = [coll EXCEPT ![c] = new] /\ UNCHANGED <<prod, stalls>>
        /\ started' = started
    BY <1>9 DEF SetAck, Steps
  <2>2. c \in Active
    BY <2>1 DEF Active
  <2>3. r.current.from \in r.taken /\ r.current.from \in Producers
    BY <1>0, <2>1 DEF Collectors, Consistent, Fresh
  <2>4. <<r.current.from, r.current.n>> \in Acks
    BY <1>0, <2>3 DEF Collectors, Messages, Acks
  <2>5. /\ new.acks \in Seq(Acks) /\ new.acks # <<>> /\ Last(new.acks) = <<r.current.from, r.current.n>>
        /\ \A i \in DOMAIN new.acks : new.acks[i][1] \in r.taken
    <3> DEFINE ack == <<r.current.from, r.current.n>>
               old == r.acks
    <3>1. old \in Seq(Acks) /\ \A i \in DOMAIN old : old[i][1] \in r.taken
      BY <1>0 DEF Collectors, Consistent
    <3>2. new.acks = Append(old, ack)
      BY <1>0 DEF Collectors
    <3>3. ack \in Acks /\ ack[1] \in r.taken
      BY <2>3, <2>4
    <3> HIDE DEF ack, old, new
    <3> QED
      BY <3>1, <3>2, <3>3 DEF Last, ack
  <2>7. new \in Collectors
    BY <1>0, <2>1, <2>3, <2>5 DEF Collectors, CollectorPcs
  <2>8. Consistent(new, c, started'[c])
    <3>1. /\ new.pc = "loop" /\ new.first = r.first /\ new.current = r.current
          /\ new.taken = r.taken
      BY <1>0 DEF Collectors
    <3>2. new.current.from = LatestInput(new)
      BY <2>5, <3>1 DEF LatestInput
    <3> HIDE DEF new
    <3> QED
      BY <1>0, <2>1, <2>3, <2>5, <3>1, <3>2 DEF Consistent, Fresh
  <2>9. stalls = 0 /\ new.pc \notin Fresh \cup {"done"} => InTime(new)
    BY <1>0, <2>1, <2>3, <2>5 DEF InTime, Fresh, Collectors
  <2>10. new.pc # "none" /\ new.first = r.first /\ r.taken \subseteq new.taken
    BY <1>0, <2>1, <2>3, <2>5 DEF Collectors, Consistent, Fresh
  <2>11. started' \in [Producers -> Maybe] /\ \A d \in Producers \ {c} : started'[d] = started[d]
    BY <1>0, <2>1 DEF Collectors, Messages
  <2> HIDE DEF new
  <2> QED
    BY <2>1, <2>2, <2>7, <2>8, <2>9, <2>10, <2>11, CollectorMoves
<1>10. CASE StartTarget(c)
  <2> DEFINE new == [r EXCEPT !.pc = "finish"]
  <2>1. /\ r.pc = "run" /\ coll' = [coll EXCEPT ![c] = new] /\ UNCHANGED <<prod, stalls>>
        /\ started' = [started EXCEPT ![c] = r.current.from]
    BY <1>10 DEF StartTarget, Steps
  <2>2. c \in Active
    BY <2>1 DEF Active
  <2>7. new \in Collectors
    BY <1>0, <2>1 DEF Collectors, CollectorPcs
  <2>8. Consistent(new, c, started'[c])
    BY <1>0, <2>1 DEF Consistent, Fresh, LatestInput, Collectors
  <2>9. stalls = 0 /\ new.pc \notin Fresh \cup {"done"} => InTime(new)
    BY <1>0, <2>1 DEF InTime, Fresh, Collectors
  <2>10. new.pc # "none" /\ new.first = r.first /\ r.taken \subseteq new.taken
    BY <1>0, <2>1 DEF Collectors, Consistent, Fresh
  <2>11. started' \in [Producers -> Maybe] /\ \A d \in Producers \ {c} : started'[d] = started[d]
    BY <1>0, <2>1 DEF Collectors, Messages
  <2> HIDE DEF new
  <2> QED
    BY <2>1, <2>2, <2>7, <2>8, <2>9, <2>10, <2>11, CollectorMoves
<1>11. CASE Complete(c)
  <2> DEFINE new == [NoCollector EXCEPT !.pc = "done", !.first = r.first, !.timeout = r.timeout,
                                      !.taken = r.taken, !.current = r.current, !.acks = r.acks]
  <2>1. /\ r.pc = "finish" /\ coll' = [coll EXCEPT ![c] = new] /\ UNCHANGED <<prod, stalls>>
        /\ started' = started
    BY <1>11 DEF Complete, Steps
  <2>2. c \in Active
    BY <2>1 DEF Active
  <2>3. NoCollector \in Collectors
    BY NoCollectorType
  <2>7. new \in Collectors
    BY <1>0, <2>1, <2>3 DEF Collectors, CollectorPcs
  <2>8. Consistent(new, c, started'[c])
    BY <1>0, <2>1, <2>3 DEF Consistent, Fresh, LatestInput, Collectors, NoCollector
  <2>9. stalls = 0 /\ new.pc \notin Fresh \cup {"done"} => InTime(new)
    BY <1>0, <2>1, <2>3 DEF InTime, Fresh, Collectors, NoCollector
  <2>10. new.pc # "none" /\ new.first = r.first /\ r.taken \subseteq new.taken
    BY <1>0, <2>1, <2>3 DEF Collectors, Consistent, Fresh, NoCollector
  <2>11. started' \in [Producers -> Maybe] /\ \A d \in Producers \ {c} : started'[d] = started[d]
    BY <1>0, <2>1 DEF Collectors, Messages
  <2> HIDE DEF new
  <2> QED
    BY <2>1, <2>2, <2>7, <2>8, <2>9, <2>10, <2>11, CollectorMoves
<1> QED
  BY <1>1, <1>2, <1>3, <1>4, <1>5, <1>6, <1>7, <1>8, <1>9, <1>10, <1>11 DEF CollectorStep

(***************************************************************************)
(* A step of one producer                                                  *)
(***************************************************************************)
\* The steps that leave the collectors alone.
LEMMA CallMoves ==
    ASSUME Inv, NEW p \in Producers, NEW call \in CallStates,
           prod' = [prod EXCEPT ![p] = call], UNCHANGED <<coll, started, stalls>>,
           prod[p].pc # "returned",
           call.pc \in {"send", "ack"} =>
              call.existing \in Producers /\ coll[call.existing].pc # "none",
           call.pc = "returned" =>
              /\ call.target \in Producers /\ coll[call.target].pc # "none"
              /\ p \in coll[call.target].taken
    PROVE  Inv'
<1>1. Types'
  BY DEF Inv, Types
<1>2. Alone' /\ Punctual' /\ \A c \in Producers : Consistent(coll[c], c, started[c])'
  BY DEF Inv, Alone, Active, Punctual
<1>3. Served(p)'
  BY DEF Inv, Types, Served
<1>4. ASSUME NEW q \in Producers \ {p} PROVE Served(q)'
  BY DEF Inv, Types, Served
<1> QED
  BY <1>1, <1>2, <1>3, <1>4 DEF Inv

LEMMA ProducerStepInv == ASSUME Inv, NEW p \in Producers, ProducerStep(p) PROVE Inv'
<1>0. prod[p] \in CallStates /\ Call \in CallStates /\ NoProducer \in Maybe
  BY Bounds DEF Inv, Types, Call, CallStates, Maybe
<1>1. ASSUME NEW delay \in Delays, NEW timeout \in Timeouts, EnqueueCollector(p, delay, timeout)
      PROVE  Inv'
  <2> DEFINE new == [NoCollector EXCEPT !.pc = "queued", !.timeout = timeout,
                                        !.first = Message(p, 0, delay)]
             call == [Call EXCEPT !.pc = "returned", !.target = p]
  <2>1. /\ coll' = [coll EXCEPT ![p] = new] /\ prod' = [prod EXCEPT ![p] = call]
        /\ UNCHANGED <<started, stalls>> /\ Active = {} /\ coll[p].pc = "none"
    BY <1>1 DEF EnqueueCollector, Inv, Served
  <2>2. Message(p, 0, delay) \in Messages
    BY Bounds DEF Message, Messages, Maybe
  <2>3. new \in Collectors
    BY <2>2, NoCollectorType, Bounds DEF Collectors, CollectorPcs
  <2>4. call \in CallStates
    BY <1>0 DEF CallStates, Maybe
  <2>5. /\ new.pc = "queued" /\ new.first.from = p /\ new.taken = {} /\ new.acks = <<>>
        /\ new.age = 0
    BY DEF NoCollector, Message
  <2>6. call.pc = "returned" /\ call.target = p
    BY DEF Call
  <2> HIDE DEF new, call
  <2>7. Types'
    BY <2>1, <2>3, <2>4 DEF Inv, Types
  <2>8. /\ coll'[p] = new /\ \A c \in Producers \ {p} : coll'[c] = coll[c]
        /\ prod'[p] = call /\ \A q \in Producers \ {p} : prod'[q] = prod[q]
    BY <2>1 DEF Inv, Types
  <2>9. Alone'
    BY <2>1, <2>8 DEF Alone, Active
  <2>10. Punctual'
    BY <2>1, <2>5, <2>8 DEF Inv, Punctual, Fresh
  <2>11. started[p] = NoProducer
    BY <2>1 DEF Inv, Consistent
  <2>12. \A c \in Producers : Consistent(coll[c], c, started[c])'
    <3>1. Consistent(new, p, started[p])
      BY <2>5, <2>11 DEF Consistent, Fresh
    <3> QED
      BY <2>1, <2>8, <3>1 DEF Inv
  <2>13. Served(p)'
    BY <2>5, <2>6, <2>8 DEF Served
  <2>14. ASSUME NEW q \in Producers \ {p} PROVE Served(q)'
    BY <2>1, <2>5, <2>8 DEF Inv, Served
  <2> QED
    BY <2>7, <2>9, <2>10, <2>12, <2>13, <2>14 DEF Inv
<1>2. CASE Deduplicated(p)
  <2> DEFINE call == [prod[p] EXCEPT !.pc = "lookup"]
  <2>1. call \in CallStates /\ call.pc = "lookup"
    BY <1>0 DEF CallStates
  <2>2. prod' = [prod EXCEPT ![p] = call]
    BY <1>2 DEF Deduplicated, Inv, Types
  <2> QED
    BY <1>2, <2>1, <2>2, CallMoves DEF Deduplicated
<1>3. CASE Lookup(p)
  <2>1. prod[p].pc = "lookup" /\ UNCHANGED <<coll, started, stalls>>
    BY <1>3 DEF Lookup
  <2>2. CASE prod' = [prod EXCEPT ![p].pc = "enqueue"]
    <3> DEFINE call == [prod[p] EXCEPT !.pc = "enqueue"]
    <3>1. call \in CallStates /\ call.pc = "enqueue"
      BY <1>0 DEF CallStates
    <3>2. prod' = [prod EXCEPT ![p] = call]
      BY <2>2 DEF Inv, Types
    <3> QED
      BY <2>1, <3>1, <3>2, CallMoves
  <2>3. ASSUME NEW c \in Active,
               prod' = [prod EXCEPT ![p] = [prod[p] EXCEPT !.pc = "send", !.existing = c]]
        PROVE  Inv'
    <3> DEFINE call == [prod[p] EXCEPT !.pc = "send", !.existing = c]
    <3>1. c \in Producers /\ coll[c].pc # "none"
      BY DEF Active
    <3>2. call \in CallStates /\ call.pc = "send" /\ call.existing = c
      BY <1>0, <3>1 DEF CallStates, Maybe
    <3> HIDE DEF call
    <3> QED
      BY <2>1, <2>3, <3>1, <3>2, CallMoves DEF call
  <2> QED
    BY <1>3, <2>2, <2>3 DEF Lookup
<1>4. ASSUME NEW delay \in Delays, SendDebounce(p, delay) PROVE Inv'
  <2> DEFINE e == prod[p].existing
             msg == Message(p, prod[p].sent + 1, delay)
             call == [prod[p] EXCEPT !.pc = "ack", !.sent = prod[p].sent + 1, !.wait = AckTimeout]
             mail == IF e \in Active THEN Append(coll[e].mail, msg) ELSE coll[e].mail
             new == [coll[e] EXCEPT !.mail = mail]
  <2>1. /\ prod[p].pc = "send" /\ e \in Producers /\ coll[e].pc # "none"
        /\ prod' = [prod EXCEPT ![p] = call] /\ UNCHANGED <<started, stalls>>
    <3>1. prod[p].pc = "send" /\ prod' = [prod EXCEPT ![p] = call] /\ UNCHANGED <<started, stalls>>
      BY <1>4 DEF SendDebounce
    <3>2. Served(p)
      BY DEF Inv
    <3>3. e \in Producers /\ coll[e].pc # "none"
      BY <3>1, <3>2 DEF Served
    <3> QED
      BY <3>1, <3>3
  <2>2. coll' = [coll EXCEPT ![e] = new]
    BY <1>4, <2>1 DEF SendDebounce, Inv, Types
  <2>3. call \in CallStates /\ call.pc = "ack" /\ call.existing = e
    <3>1. AckTimeout \in 0..AckTimeout
      BY Bounds
    <3>2. prod[p].sent + 1 \in Nat
      BY <1>0 DEF CallStates
    <3> QED
      BY <1>0, <3>1, <3>2 DEF CallStates
  <2>4. msg \in Mails
    BY <1>0, Bounds DEF CallStates, Message, Mails
  <2>5. mail \in Seq(Mails)
    <3>1. coll[e].mail \in Seq(Mails)
      BY <2>1 DEF Inv, Types, Collectors
    <3> HIDE DEF msg
    <3> QED
      BY <2>4, <3>1
  <2> HIDE DEF mail, call
  <2>6. /\ new \in Collectors /\ new.pc = coll[e].pc /\ new.first = coll[e].first
        /\ new.taken = coll[e].taken /\ new.acks = coll[e].acks /\ new.age = coll[e].age
        /\ new.current = coll[e].current /\ new.left = coll[e].left
        /\ new.wait = coll[e].wait /\ new.remaining = coll[e].remaining
        /\ new.fixed = coll[e].fixed /\ new.timeout = coll[e].timeout
    <3>1. coll[e] \in Collectors
      BY <2>1 DEF Inv, Types
    <3> HIDE DEF e
    <3> QED
      BY <2>5, <3>1 DEF Collectors
  <2> HIDE DEF new, e
  <2>7. Types'
    BY <2>1, <2>2, <2>3, <2>6 DEF Inv, Types
  <2>8. /\ coll'[e] = new /\ \A c \in Producers \ {e} : coll'[c] = coll[c]
        /\ prod'[p] = call /\ \A q \in Producers \ {p} : prod'[q] = prod[q]
    BY <2>1, <2>2 DEF Inv, Types
  <2>9. Alone'
    <3>1. Active' = Active
      BY <2>6, <2>8 DEF Active
    <3> QED
      BY <3>1 DEF Inv, Alone
  <2>10. Punctual'
    BY <2>1, <2>6, <2>8 DEF Inv, Punctual, InTime
  <2>11. \A c \in Producers : Consistent(coll[c], c, started[c])'
    BY <2>1, <2>6, <2>8 DEF Inv, Consistent, LatestInput
  <2>12. Served(p)'
    BY <2>1, <2>3, <2>6, <2>8 DEF Inv, Served
  <2>13. ASSUME NEW q \in Producers \ {p} PROVE Served(q)'
    BY <2>1, <2>6, <2>8 DEF Inv, Served
  <2> QED
    BY <2>7, <2>9, <2>10, <2>11, <2>12, <2>13 DEF Inv
<1>5. CASE Acknowledged(p)
  <2> DEFINE e == prod[p].existing
             call == [Call EXCEPT !.pc = "returned", !.target = e]
  <2>1. /\ prod[p].pc = "ack" /\ e \in Producers /\ coll[e].pc # "none"
        /\ prod' = [prod EXCEPT ![p] = call] /\ UNCHANGED <<coll, started, stalls>>
    BY <1>5 DEF Acknowledged, Inv, Served
  <2>2. p \in coll[e].taken
    <3>1. PICK i \in DOMAIN coll[e].acks : coll[e].acks[i] = <<p, prod[p].sent>>
      BY <1>5 DEF Acknowledged, Range
    <3> QED
      BY <2>1, <3>1 DEF Inv, Consistent
  <2>3. call \in CallStates /\ call.pc = "returned" /\ call.target = e
    BY <1>0, <2>1 DEF CallStates, Maybe, Call
  <2> HIDE DEF call, e
  <2> QED
    BY <2>1, <2>2, <2>3, CallMoves
<1>6. CASE AckTimedOut(p)
  <2> DEFINE call == [prod[p] EXCEPT !.pc = "enqueue", !.existing = NoProducer]
  <2>1. /\ prod[p].pc = "ack" /\ prod' = [prod EXCEPT ![p] = call]
        /\ UNCHANGED <<coll, started, stalls>>
    BY <1>6 DEF AckTimedOut
  <2>2. call \in CallStates /\ call.pc = "enqueue"
    BY <1>0 DEF CallStates
  <2> HIDE DEF call
  <2> QED
    BY <2>1, <2>2, CallMoves
<1> QED
  BY <1>1, <1>2, <1>3, <1>4, <1>5, <1>6 DEF ProducerStep

(***************************************************************************)
(* Time                                                                    *)
(***************************************************************************)
LEMMA AgedCollector ==
    ASSUME NEW r \in Collectors
    PROVE  /\ Aged(r) \in Collectors
           /\ Aged(r).pc = r.pc /\ Aged(r).first = r.first /\ Aged(r).current = r.current
           /\ Aged(r).taken = r.taken /\ Aged(r).acks = r.acks /\ Aged(r).timeout = r.timeout
           /\ Aged(r).fixed = r.fixed
           /\ r.pc \in Fresh => Aged(r).age = 0
           /\ Aged(r).age <= r.age + 1
           /\ Aged(r).left = Minus(r.left, 1) /\ Aged(r).wait = Minus(r.wait, 1)
<1> DEFINE age == IF r.pc \in {"none", "queued", "start"} THEN 0 ELSE Min({r.age + 1, Oldest})
           since == IF r.pc \in {"recv", "missed", "asleep"} THEN Min({r.since + 1, Longest}) ELSE 0
           left == Minus(r.left, 1)
           wait == Minus(r.wait, 1)
<1>1. /\ r.age \in 0..Oldest /\ r.since \in 0..Longest
      /\ r.left \in 0..Longest /\ r.wait \in 0..Longest
  BY DEF Collectors
<1>2. age \in 0..Oldest /\ age <= r.age + 1 /\ (r.pc \in Fresh => age = 0)
  <2>1. r.age + 1 \in Nat
    BY <1>1, Bounds
  <2>2. /\ Min({r.age + 1, Oldest}) \in Nat /\ Min({r.age + 1, Oldest}) <= r.age + 1
        /\ Min({r.age + 1, Oldest}) <= Oldest
    BY <2>1, MinOfTwo, Bounds
  <2> QED
    BY <1>1, <2>2, Bounds DEF Fresh
<1>3. since \in 0..Longest
  <2>1. r.since + 1 \in Nat
    BY <1>1, Bounds
  <2>2. Min({r.since + 1, Longest}) \in Nat /\ Min({r.since + 1, Longest}) <= Longest
    BY <2>1, MinOfTwo, Bounds
  <2> QED
    BY <2>2, Bounds
<1>4. left \in 0..Longest /\ wait \in 0..Longest
  BY <1>1, Bounds DEF Minus
<1>5. Aged(r) = [r EXCEPT !.age = age, !.since = since, !.left = left, !.wait = wait]
  BY DEF Aged
<1> HIDE DEF age, since, left, wait
<1>6. /\ Aged(r) \in Collectors
      /\ Aged(r).pc = r.pc /\ Aged(r).first = r.first /\ Aged(r).current = r.current
      /\ Aged(r).taken = r.taken /\ Aged(r).acks = r.acks /\ Aged(r).timeout = r.timeout
      /\ Aged(r).fixed = r.fixed
      /\ Aged(r).age = age /\ Aged(r).left = left /\ Aged(r).wait = wait
  BY <1>2, <1>3, <1>4, <1>5 DEF Collectors
<1> QED
  BY <1>2, <1>6 DEF left, wait

LEMMA TickInv == ASSUME Inv, Tick PROVE Inv'
<1>1. /\ coll' = [c \in Producers |-> IF c \in Active THEN Aged(coll[c]) ELSE coll[c]]
      /\ prod' = [p \in Producers |-> [prod[p] EXCEPT !.wait = Minus(prod[p].wait, 1)]]
      /\ started' = started
      /\ IF Busy THEN stalls < MaxStalls /\ stalls' = stalls + 1 ELSE UNCHANGED stalls
  BY DEF Tick
<1>2. \A c \in Producers : coll[c] \in Collectors
  BY DEF Inv, Types
<1>3. ASSUME NEW c \in Producers
      PROVE  /\ coll'[c] \in Collectors
             /\ coll'[c].pc = coll[c].pc /\ coll'[c].first = coll[c].first
             /\ coll'[c].current = coll[c].current /\ coll'[c].taken = coll[c].taken
             /\ coll'[c].acks = coll[c].acks
             /\ coll[c].pc \in Fresh => coll'[c].age = 0
  <2>1. c \in Active => coll'[c] = Aged(coll[c])
    BY <1>1
  <2>2. c \notin Active => coll'[c] = coll[c]
    BY <1>1
  <2>3. coll[c].pc \in Fresh => coll[c].age = 0
    BY DEF Inv, Consistent
  <2> QED
    BY <1>2, <2>1, <2>2, <2>3, AgedCollector
<1>4. ASSUME NEW p \in Producers
      PROVE  /\ prod'[p] \in CallStates /\ prod'[p].pc = prod[p].pc
             /\ prod'[p].existing = prod[p].existing /\ prod'[p].target = prod[p].target
  <2>1. prod[p] \in CallStates /\ prod'[p] = [prod[p] EXCEPT !.wait = Minus(prod[p].wait, 1)]
    BY <1>1 DEF Inv, Types
  <2>2. Minus(prod[p].wait, 1) \in 0..AckTimeout
    BY <2>1, Bounds DEF CallStates, Minus
  <2> QED
    BY <2>1, <2>2 DEF CallStates
<1>5. Types'
  <2>1. stalls' \in 0..MaxStalls
    BY <1>1, Bounds DEF Inv, Types
  <2>2. coll' \in [Producers -> Collectors]
    BY <1>1, <1>3
  <2>3. prod' \in [Producers -> CallStates]
    BY <1>1, <1>4
  <2> QED
    BY <1>1, <2>1, <2>2, <2>3 DEF Inv, Types
<1>6. Alone'
  <2>1. Active' = Active
    BY <1>3 DEF Active
  <2> QED
    BY <2>1 DEF Inv, Alone
<1>7. \A c \in Producers : Consistent(coll[c], c, started[c])'
  BY <1>1, <1>3 DEF Inv, Consistent, LatestInput
<1>8. \A p \in Producers : Served(p)'
  BY <1>3, <1>4 DEF Inv, Served
<1>9. Punctual'
  <2> SUFFICES ASSUME stalls' = 0, NEW c \in Producers, coll'[c].pc \notin Fresh \cup {"done"}
               PROVE  InTime(coll'[c])
    BY DEF Punctual
  <2>1. ~Busy /\ stalls = 0
    BY <1>1 DEF Inv, Types
  <2>2. coll[c].pc \notin Fresh \cup {"done"} /\ c \in Active /\ InTime(coll[c])
    BY <1>3, <2>1 DEF Inv, Punctual, Active, Fresh
  <2>3. coll[c].pc = "asleep" /\ coll[c].wait > 0
    BY <2>1, <2>2 DEF Busy
  <2>4. coll'[c] = Aged(coll[c])
    BY <1>1, <2>2
  <2>5. /\ coll[c].timeout \in Nat /\ coll[c].age \in Nat /\ coll[c].left \in Nat
        /\ coll[c].wait \in Nat /\ Aged(coll[c]).age \in Nat
    BY <1>2, Bounds, AgedCollector DEF Collectors
  <2>6. coll[c].fixed /\ coll[c].wait <= coll[c].left
    BY <2>2, <2>3 DEF InTime
  <2>7. /\ Aged(coll[c]).left = coll[c].left - 1 /\ Aged(coll[c]).wait = coll[c].wait - 1
        /\ Aged(coll[c]).age <= coll[c].age + 1
    BY <1>2, <2>3, <2>5, <2>6, AgedCollector DEF Minus
  <2>8. /\ Aged(coll[c]).fixed = coll[c].fixed /\ Aged(coll[c]).timeout = coll[c].timeout
        /\ Aged(coll[c]).pc = "asleep"
    BY <1>2, <2>3, AgedCollector
  <2> QED
    BY <2>2, <2>4, <2>5, <2>6, <2>7, <2>8 DEF InTime
<1> QED
  BY <1>5, <1>6, <1>7, <1>8, <1>9 DEF Inv

(***************************************************************************)
(* The theorems                                                            *)
(***************************************************************************)
LEMMA InvStep == Inv /\ [Next]_vars => Inv'
<1>1. ASSUME Inv, UNCHANGED vars PROVE Inv'
  BY <1>1 DEF vars, Inv, Types, Alone, Active, Punctual, Served
<1> QED
  BY <1>1, ProducerStepInv, CollectorStepInv, TickInv DEF Next, Finished

LEMMA InvHolds == Spec => []Inv
  BY InvInit, InvStep, PTL DEF Spec

\* Every timer, age and phase of the producers and the collectors stays in its range.
THEOREM TypeCorrect == Spec => []TypeOK
<1>1. Inv => TypeOK
  <2> SUFFICES ASSUME Inv PROVE TypeOK
    OBVIOUS
  <2>1. ASSUME NEW p \in Producers
        PROVE  /\ prod[p].pc \in {"enqueue", "lookup", "send", "ack", "returned"}
               /\ prod[p].wait \in 0..AckTimeout
               /\ {prod[p].existing, prod[p].target} \subseteq Producers \cup {NoProducer}
    BY DEF Inv, Types, CallStates, Maybe
  <2>2. ASSUME NEW p \in Producers
        PROVE  /\ coll[p].pc \in CollectorPcs
               /\ {coll[p].left, coll[p].remaining, coll[p].wait} \subseteq 0..Longest
               /\ coll[p].age \in 0..Oldest
               /\ coll[p].taken \subseteq Producers
    BY DEF Inv, Types, Collectors
  <2> QED
    BY <2>1, <2>2 DEF TypeOK, Inv, Types, Maybe
<1> QED
  BY InvHolds, <1>1, PTL

\* No call returns before its input is the collector's, whatever the retries, the collector's
\* last recv and its completion do.
THEOREM AcceptedTaken == Spec => []AcceptedIsTaken
<1>1. Inv => AcceptedIsTaken
  BY DEF Inv, Served, AcceptedIsTaken, Returned
<1> QED
  BY InvHolds, <1>1, PTL

\* A target runs with the last input that was acknowledged.
THEOREM LatestRuns == Spec => []RunsLatest
<1>1. Inv => RunsLatest
  BY DEF Inv, Consistent, LatestInput, RunsLatest, Fresh
<1> QED
  BY InvHolds, <1>1, PTL

\* The timeout caps how long pushes postpone the run, for every delay and timeout, as long as
\* the collector is not itself late.
THEOREM Capping == Spec => []CapHolds
<1>1. Inv => CapHolds
  <2> SUFFICES ASSUME Inv, NEW c \in Active, stalls = 0, coll[c].timeout > 0,
                      coll[c].pc \notin {"queued", "start"}
               PROVE  coll[c].age <= coll[c].timeout
    BY DEF CapHolds
  <2>1. coll[c].age + coll[c].left <= coll[c].timeout
    BY DEF Inv, Punctual, InTime, Active, Fresh
  <2>2. coll[c].age \in Nat /\ coll[c].left \in Nat /\ coll[c].timeout \in Nat
    BY Bounds DEF Inv, Types, Collectors, Active
  <2> QED
    BY <2>1, <2>2
<1> QED
  BY InvHolds, <1>1, PTL

(***************************************************************************)
(* One collector per input.  While no collector was late, a producer's     *)
(* message is in one mailbox at most, and then nobody has its input yet    *)
(* and the producer has time left to wait (InFlight); a collector that     *)
(* has the input has acknowledged it or is about to, within that time      *)
(* (Held).  Hence a producer that starts over left nothing behind.         *)
(***************************************************************************)
Acked(p, c) == <<p, prod[p].sent>> \in Range(coll[c].acks)

InFlight(p) ==
    \A c \in Producers : \A i \in DOMAIN coll[c].mail :
        coll[c].mail[i].from = p =>
            /\ prod[p].pc = "ack" /\ prod[p].existing = c /\ prod[p].wait > 0
            /\ coll[c].mail[i].n = prod[p].sent
            /\ Holders(p) = {}
            /\ \A j \in DOMAIN coll[c].mail : coll[c].mail[j].from = p => j = i

Held(p) ==
    \A c \in Holders(p) :
        /\ Holders(p) = {c}
        /\ \/ prod[p].pc = "returned"
           \/ /\ prod[p].pc = "ack" /\ prod[p].existing = c
              /\ \/ Acked(p, c)
                 \/ /\ coll[c].pc = "ack" /\ prod[p].wait > 0
                    /\ coll[c].current.from = p /\ coll[c].current.n = prod[p].sent

\* Nobody receives what is left in the mailbox of a collector that is done.
Emptied ==
    \A c \in Producers : /\ coll[c].pc \in {"none", "done"} => coll[c].mail = <<>>
                         /\ coll[c].pc = "none" => coll[c].first.from = NoProducer

Single == Emptied /\ (stalls = 0 => \A p \in Producers : InFlight(p) /\ Held(p))

LEMMA SingleInit == Init => Single
<1> SUFFICES ASSUME Init PROVE Single
  OBVIOUS
<1>1. \A p, c \in Producers : /\ coll[c].mail = <<>> /\ coll[c].taken = {}
                              /\ coll[c].first.from = NoProducer
  BY DEF Init, NoCollector, NoMessage, Message
<1>2. \A p \in Producers : Holders(p) = {}
  BY <1>1, DebouncerAssumption DEF Holders
<1> QED
  BY <1>1, <1>2 DEF Single, Emptied, InFlight, Held

\* A step of collector c that takes no input and acknowledges none.
LEMMA SingleKept ==
    ASSUME Inv, Single, NEW c \in Producers, NEW r,
           coll' = [coll EXCEPT ![c] = r], UNCHANGED <<prod, stalls>>,
           coll[c].pc # "ack",
           r.mail = coll[c].mail \/ r.mail = <<>>,
           r.pc # "none", r.pc = "done" => r.mail = <<>>,
           r.acks = coll[c].acks, r.first = coll[c].first,
           r.taken = coll[c].taken \/ r.taken = coll[c].taken \cup {coll[c].first.from}
    PROVE  Single'
<1>1. coll \in [Producers -> Collectors] /\ prod \in [Producers -> CallStates]
  BY DEF Inv, Types
<1>2. /\ coll'[c] = r
      /\ \A d \in Producers : d # c => coll'[d] = coll[d]
  BY <1>1
<1>3. Emptied'
  BY <1>2 DEF Single, Emptied
<1>4. \A p \in Producers : Holders(p)' = Holders(p)
  BY <1>2 DEF Holders
<1>5. SUFFICES ASSUME stalls = 0, NEW p \in Producers PROVE InFlight(p)' /\ Held(p)'
  BY <1>3 DEF Single
<1>6. InFlight(p) /\ Held(p)
  BY <1>5 DEF Single
<1>7. InFlight(p)'
  <2> SUFFICES ASSUME NEW d \in Producers, NEW i \in DOMAIN coll'[d].mail,
                      coll'[d].mail[i].from = p
               PROVE  /\ prod[p].pc = "ack" /\ prod[p].existing = d /\ prod[p].wait > 0
                      /\ coll'[d].mail[i].n = prod[p].sent
                      /\ Holders(p) = {}
                      /\ \A j \in DOMAIN coll'[d].mail : coll'[d].mail[j].from = p => j = i
    BY <1>4 DEF InFlight
  <2>1. coll'[d].mail = coll[d].mail
    BY <1>2
  <2> QED
    BY <1>6, <2>1 DEF InFlight
<1>8. Held(p)'
  <2> SUFFICES ASSUME NEW d \in Holders(p)
               PROVE  /\ Holders(p) = {d}
                      /\ \/ prod[p].pc = "returned"
                         \/ /\ prod[p].pc = "ack" /\ prod[p].existing = d
                            /\ \/ Acked(p, d)'
                               \/ /\ coll'[d].pc = "ack" /\ prod[p].wait > 0
                                  /\ coll'[d].current.from = p
                                  /\ coll'[d].current.n = prod[p].sent
    BY <1>4 DEF Held
  <2>1. d \in Producers
    BY DEF Holders
  <2>2. Acked(p, d)' <=> Acked(p, d)
    BY <1>2, <2>1 DEF Acked
  <2>3. coll[d].pc = "ack" => coll'[d] = coll[d]
    BY <1>2, <2>1
  <2> QED
    BY <1>6, <2>2, <2>3 DEF Held
<1> QED
  BY <1>7, <1>8

LEMMA SingleRecvTake ==
    ASSUME Inv, Single, NEW c \in Producers, RecvTake(c)
    PROVE  Single'
<1> DEFINE msg == Head(coll[c].mail)
           q == msg.from
           r == [coll[c] EXCEPT !.pc = "ack", !.mail = Tail(@), !.current = msg,
                                !.taken = @ \cup {msg.from},
                                !.left = Capped(c, msg.delay, coll[c].since)]
<1>1. /\ coll \in [Producers -> Collectors] /\ prod \in [Producers -> CallStates]
      /\ coll[c] \in Collectors /\ coll[c].mail \in Seq(Mails)
  BY DEF Inv, Types, Collectors
<1>2. /\ coll[c].mail # <<>> /\ coll' = [coll EXCEPT ![c] = r] /\ UNCHANGED <<prod, stalls>>
      /\ coll[c].pc = "recv"
  BY DEF RecvTake, Steps
<1>3. /\ \A d \in Producers : d # c => coll'[d] = coll[d]
      /\ coll'[c].mail = Tail(coll[c].mail) /\ coll'[c].taken = coll[c].taken \cup {q}
      /\ coll'[c].acks = coll[c].acks /\ coll'[c].first = coll[c].first
      /\ coll'[c].pc = "ack" /\ coll'[c].current = msg
  <2>1. /\ r.mail = Tail(coll[c].mail) /\ r.taken = coll[c].taken \cup {q}
        /\ r.acks = coll[c].acks /\ r.first = coll[c].first /\ r.pc = "ack" /\ r.current = msg
    BY <1>1 DEF Collectors
  <2>2. coll'[c] = r /\ \A d \in Producers : d # c => coll'[d] = coll[d]
    <3> HIDE DEF r
    <3> QED
      BY <1>1, <1>2
  <2> HIDE DEF r
  <2> QED
    BY <2>1, <2>2
<1>4. msg \in Mails /\ q \in Producers /\ 1 \in DOMAIN coll[c].mail /\ coll[c].mail[1] = msg
  <2>1. msg \in Mails /\ 1 \in DOMAIN coll[c].mail /\ coll[c].mail[1] = msg
    BY <1>1, <1>2
  <2> HIDE DEF msg
  <2> QED
    BY <2>1 DEF Mails
<1>5. \A i \in DOMAIN coll'[c].mail : /\ i + 1 \in DOMAIN coll[c].mail /\ i \in Nat /\ i + 1 # 1
                                      /\ coll'[c].mail[i] = coll[c].mail[i + 1]
  BY <1>1, <1>2, <1>3
<1> HIDE DEF msg, r
<1>6. Emptied'
  BY <1>3 DEF Single, Emptied
<1>7. SUFFICES ASSUME stalls = 0, NEW p \in Producers PROVE InFlight(p)' /\ Held(p)'
  BY <1>2, <1>6 DEF Single
<1>8. InFlight(p) /\ Held(p) /\ InFlight(q)
  BY <1>4, <1>7 DEF Single
<1>9. CASE p # q
  <2>1. Holders(p)' = Holders(p)
    BY <1>3, <1>9 DEF Holders
  <2>2. InFlight(p)'
    <3> SUFFICES ASSUME NEW d \in Producers, NEW i \in DOMAIN coll'[d].mail,
                        coll'[d].mail[i].from = p
                 PROVE  /\ prod[p].pc = "ack" /\ prod[p].existing = d /\ prod[p].wait > 0
                        /\ coll'[d].mail[i].n = prod[p].sent
                        /\ Holders(p) = {}
                        /\ \A j \in DOMAIN coll'[d].mail : coll'[d].mail[j].from = p => j = i
      BY <1>2, <2>1 DEF InFlight
    <3>1. CASE d # c
      BY <1>3, <1>8, <3>1 DEF InFlight
    <3>2. CASE d = c
      <4>1. i + 1 \in DOMAIN coll[c].mail /\ coll[c].mail[i + 1].from = p /\ i \in Nat
            /\ coll'[c].mail[i] = coll[c].mail[i + 1]
        BY <1>5, <3>2
      <4>2. \A j \in DOMAIN coll'[c].mail : coll'[c].mail[j].from = p => j + 1 = i + 1 /\ j \in Nat
        BY <1>5, <1>8, <4>1 DEF InFlight
      <4> QED
        BY <1>8, <3>2, <4>1, <4>2 DEF InFlight
    <3> QED
      BY <3>1, <3>2
  <2>3. Held(p)'
    <3> SUFFICES ASSUME NEW d \in Holders(p)
                 PROVE  /\ Holders(p) = {d}
                        /\ \/ prod[p].pc = "returned"
                           \/ /\ prod[p].pc = "ack" /\ prod[p].existing = d
                              /\ \/ Acked(p, d)'
                                 \/ /\ coll'[d].pc = "ack" /\ prod[p].wait > 0
                                    /\ coll'[d].current.from = p
                                    /\ coll'[d].current.n = prod[p].sent
      BY <1>2, <2>1 DEF Held
    <3>1. d \in Producers
      BY DEF Holders
    <3>2. Acked(p, d)' <=> Acked(p, d)
      BY <1>2, <1>3, <3>1 DEF Acked
    <3>3. coll[d].pc = "ack" => coll'[d] = coll[d]
      BY <1>2, <1>3, <3>1
    <3> QED
      BY <1>8, <3>2, <3>3 DEF Held
  <2> QED
    BY <2>2, <2>3
<1>10. CASE p = q
  <2>1. /\ prod[p].pc = "ack" /\ prod[p].existing = c /\ prod[p].wait > 0
        /\ msg.n = prod[p].sent /\ Holders(p) = {}
        /\ \A j \in DOMAIN coll[c].mail : coll[c].mail[j].from = p => j = 1
    BY <1>4, <1>8, <1>10 DEF InFlight
  <2>2. Holders(p)' = {c}
    BY <1>3, <1>10, <2>1 DEF Holders
  <2>3. InFlight(p)'
    <3> SUFFICES ASSUME NEW d \in Producers, NEW i \in DOMAIN coll'[d].mail,
                        coll'[d].mail[i].from = p
                 PROVE  FALSE
      BY DEF InFlight
    <3>1. CASE d # c
      BY <1>3, <1>8, <2>1, <3>1 DEF InFlight
    <3>2. CASE d = c
      BY <1>5, <2>1, <3>2
    <3> QED
      BY <3>1, <3>2
  <2>4. Held(p)'
    BY <1>2, <1>3, <1>10, <2>1, <2>2 DEF Held
  <2> QED
    BY <2>3, <2>4
<1> QED
  BY <1>9, <1>10

LEMMA SingleSetAck ==
    ASSUME Inv, Single, NEW c \in Producers, SetAck(c)
    PROVE  Single'
<1> DEFINE ack == <<coll[c].current.from, coll[c].current.n>>
<1>1. /\ coll \in [Producers -> Collectors] /\ coll[c] \in Collectors
      /\ coll[c].acks \in Seq(Acks) /\ coll[c].current.from \in Maybe
      /\ coll[c].current.n \in Nat
  BY DEF Inv, Types, Collectors, Messages
<1>2. /\ coll' = [coll EXCEPT ![c] = [coll[c] EXCEPT !.pc = "loop", !.acks = Append(@, ack)]]
      /\ UNCHANGED <<prod, stalls>> /\ coll[c].pc = "ack"
  BY DEF SetAck, Steps
<1>3. /\ \A d \in Producers : d # c => coll'[d] = coll[d]
      /\ coll'[c].mail = coll[c].mail /\ coll'[c].taken = coll[c].taken
      /\ coll'[c].first = coll[c].first /\ coll'[c].pc = "loop"
      /\ coll'[c].acks = Append(coll[c].acks, ack)
  BY <1>1, <1>2 DEF Collectors
<1>4. /\ ack \in Range(coll'[c].acks)
      /\ \A a \in Range(coll[c].acks) : a \in Range(coll'[c].acks)
  <2> DEFINE old == coll[c].acks
             new == coll'[c].acks
  <2>1. /\ Len(old) + 1 \in DOMAIN new /\ new[Len(old) + 1] = ack
        /\ \A i \in DOMAIN old : i \in DOMAIN new /\ new[i] = old[i]
    BY <1>1, <1>3
  <2> HIDE DEF ack, old, new
  <2>2. ack \in Range(new) /\ \A a \in Range(old) : a \in Range(new)
    BY <2>1 DEF Range
  <2> QED
    BY <2>2 DEF old, new
<1>5. Emptied'
  BY <1>3 DEF Single, Emptied
<1>6. \A p \in Producers : Holders(p)' = Holders(p)
  BY <1>3 DEF Holders
<1>7. SUFFICES ASSUME stalls = 0, NEW p \in Producers PROVE InFlight(p)' /\ Held(p)'
  BY <1>2, <1>5 DEF Single
<1>8. InFlight(p) /\ Held(p)
  BY <1>7 DEF Single
<1>9. \A d \in Producers : coll'[d].mail = coll[d].mail
  BY <1>3
<1>10. InFlight(p)'
  BY <1>2, <1>6, <1>8, <1>9 DEF InFlight
<1>11. Held(p)'
  <2> SUFFICES ASSUME NEW d \in Holders(p)
               PROVE  /\ Holders(p) = {d}
                      /\ \/ prod[p].pc = "returned"
                         \/ /\ prod[p].pc = "ack" /\ prod[p].existing = d
                            /\ \/ Acked(p, d)'
                               \/ /\ coll'[d].pc = "ack" /\ prod[p].wait > 0
                                  /\ coll'[d].current.from = p
                                  /\ coll'[d].current.n = prod[p].sent
    BY <1>2, <1>6 DEF Held
  <2>1. d \in Producers
    BY DEF Holders
  <2>2. Acked(p, d) => Acked(p, d)'
    BY <1>2, <1>3, <1>4, <2>1 DEF Acked
  <2>3. CASE d # c
    BY <1>3, <1>8, <2>1, <2>2, <2>3 DEF Held
  <2>4. CASE d = c
    <3>1. coll[c].current.from = p /\ coll[c].current.n = prod[p].sent => Acked(p, c)'
      BY <1>2, <1>4 DEF Acked
    <3> QED
      BY <1>8, <2>2, <2>4, <3>1 DEF Held
  <2> QED
    BY <2>3, <2>4
<1> QED
  BY <1>10, <1>11

LEMMA SingleCollector ==
    ASSUME Inv, Single, NEW c \in Producers, CollectorStep(c)
    PROVE  Single'
<1>0. /\ coll \in [Producers -> Collectors] /\ coll[c] \in Collectors
      /\ Consistent(coll[c], c, started[c])
  BY DEF Inv, Types
<1>1. CASE Dispatch(c)
  <2> DEFINE r == [coll[c] EXCEPT !.pc = "start"]
  <2>1. coll' = [coll EXCEPT ![c] = r] /\ UNCHANGED <<prod, stalls>> /\ coll[c].pc = "queued"
    BY <1>1 DEF Dispatch, Steps
  <2>2. /\ r.mail = coll[c].mail /\ r.pc = "start" /\ r.acks = coll[c].acks
        /\ r.first = coll[c].first /\ r.taken = coll[c].taken
    BY <1>0 DEF Collectors
  <2> HIDE DEF r
  <2> QED
    BY <2>1, <2>2, SingleKept
<1>2. CASE StartTime(c)
  <2>1. coll[c].pc = "start" /\ coll[c].taken = {}
    BY <1>0, <1>2 DEF StartTime, Steps, Consistent, Fresh
  <2> DEFINE r == [coll[c] EXCEPT !.pc = "loop", !.current = coll[c].first,
                                  !.taken = {coll[c].first.from}, !.age = 0,
                                  !.left = Capped(c, coll[c].first.delay, 0)]
  <2>2. coll' = [coll EXCEPT ![c] = r] /\ UNCHANGED <<prod, stalls>>
    BY <1>2 DEF StartTime, Steps
  <2>3. /\ r.mail = coll[c].mail /\ r.pc = "loop" /\ r.acks = coll[c].acks
        /\ r.first = coll[c].first /\ r.taken = coll[c].taken \cup {coll[c].first.from}
    BY <1>0, <2>1 DEF Collectors
  <2> HIDE DEF r
  <2> QED
    BY <2>1, <2>2, <2>3, SingleKept
<1>3. CASE LoopTime(c)
  <2> DEFINE r == [coll[c] EXCEPT !.pc = IF coll[c].left = 0 THEN "run" ELSE "recv",
                                  !.since = 0, !.remaining = coll[c].left,
                                  !.fixed = FALSE, !.wait = 0]
  <2>1. coll' = [coll EXCEPT ![c] = r] /\ UNCHANGED <<prod, stalls>> /\ coll[c].pc = "loop"
    BY <1>3 DEF LoopTime, Steps
  <2>2. /\ r.mail = coll[c].mail /\ r.pc \in {"run", "recv"} /\ r.acks = coll[c].acks
        /\ r.first = coll[c].first /\ r.taken = coll[c].taken
    BY <1>0 DEF Collectors
  <2> HIDE DEF r
  <2> QED
    BY <2>1, <2>2, SingleKept
<1>4. CASE RecvTake(c)
  BY <1>4, SingleRecvTake
<1>5. CASE RecvMiss(c)
  <2> DEFINE r == [coll[c] EXCEPT !.pc = "missed", !.fixed = TRUE,
                                  !.wait = IF coll[c].fixed THEN @ ELSE coll[c].remaining]
  <2>1. coll' = [coll EXCEPT ![c] = r] /\ UNCHANGED <<prod, stalls>> /\ coll[c].pc = "recv"
    BY <1>5 DEF RecvMiss, Steps
  <2>2. /\ r.mail = coll[c].mail /\ r.pc = "missed" /\ r.acks = coll[c].acks
        /\ r.first = coll[c].first /\ r.taken = coll[c].taken
    BY <1>0 DEF Collectors
  <2> HIDE DEF r
  <2> QED
    BY <2>1, <2>2, SingleKept
<1>6. CASE RecvTimeout(c)
  <2> DEFINE r == [coll[c] EXCEPT !.pc = "run"]
  <2>1. coll' = [coll EXCEPT ![c] = r] /\ UNCHANGED <<prod, stalls>> /\ coll[c].pc = "missed"
    BY <1>6 DEF RecvTimeout, Steps
  <2>2. /\ r.mail = coll[c].mail /\ r.pc = "run" /\ r.acks = coll[c].acks
        /\ r.first = coll[c].first /\ r.taken = coll[c].taken
    BY <1>0 DEF Collectors
  <2> HIDE DEF r
  <2> QED
    BY <2>1, <2>2, SingleKept
<1>7. CASE AwaitChange(c)
  <2> DEFINE r == [coll[c] EXCEPT !.pc = "asleep"]
  <2>1. coll' = [coll EXCEPT ![c] = r] /\ UNCHANGED <<prod, stalls>> /\ coll[c].pc = "missed"
    BY <1>7 DEF AwaitChange, Steps
  <2>2. /\ r.mail = coll[c].mail /\ r.pc = "asleep" /\ r.acks = coll[c].acks
        /\ r.first = coll[c].first /\ r.taken = coll[c].taken
    BY <1>0 DEF Collectors
  <2> HIDE DEF r
  <2> QED
    BY <2>1, <2>2, SingleKept
<1>8. CASE Wake(c)
  <2> DEFINE r == [coll[c] EXCEPT !.pc = "recv"]
  <2>1. coll' = [coll EXCEPT ![c] = r] /\ UNCHANGED <<prod, stalls>> /\ coll[c].pc = "asleep"
    BY <1>8 DEF Wake, Steps
  <2>2. /\ r.mail = coll[c].mail /\ r.pc = "recv" /\ r.acks = coll[c].acks
        /\ r.first = coll[c].first /\ r.taken = coll[c].taken
    BY <1>0 DEF Collectors
  <2> HIDE DEF r
  <2> QED
    BY <2>1, <2>2, SingleKept
<1>9. CASE SetAck(c)
  BY <1>9, SingleSetAck
<1>10. CASE StartTarget(c)
  <2> DEFINE r == [coll[c] EXCEPT !.pc = "finish"]
  <2>1. coll' = [coll EXCEPT ![c] = r] /\ UNCHANGED <<prod, stalls>> /\ coll[c].pc = "run"
    BY <1>10 DEF StartTarget, Steps
  <2>2. /\ r.mail = coll[c].mail /\ r.pc = "finish" /\ r.acks = coll[c].acks
        /\ r.first = coll[c].first /\ r.taken = coll[c].taken
    BY <1>0 DEF Collectors
  <2> HIDE DEF r
  <2> QED
    BY <2>1, <2>2, SingleKept
<1>11. CASE Complete(c)
  <2> DEFINE r == [NoCollector EXCEPT !.pc = "done", !.first = coll[c].first,
                                      !.timeout = coll[c].timeout, !.taken = coll[c].taken,
                                      !.current = coll[c].current, !.acks = coll[c].acks]
  <2>1. coll' = [coll EXCEPT ![c] = r] /\ UNCHANGED <<prod, stalls>> /\ coll[c].pc = "finish"
    BY <1>11 DEF Complete, Steps
  <2>2. /\ r.mail = <<>> /\ r.pc = "done" /\ r.acks = coll[c].acks
        /\ r.first = coll[c].first /\ r.taken = coll[c].taken
    BY DEF NoCollector
  <2> HIDE DEF r
  <2> QED
    BY <2>1, <2>2, SingleKept
<1> QED
  BY <1>1, <1>2, <1>3, <1>4, <1>5, <1>6, <1>7, <1>8, <1>9, <1>10, <1>11 DEF CollectorStep

\* A step of producer p's call that leaves the collectors alone.
LEMMA SingleCall ==
    ASSUME Inv, Single, NEW p \in Producers, NEW call,
           prod' = [prod EXCEPT ![p] = call], UNCHANGED <<coll, stalls>>,
           (stalls = 0) => (InFlight(p)' /\ Held(p)')
    PROVE  Single'
<1>1. prod \in [Producers -> CallStates]
  BY DEF Inv, Types
<1>2. \A q \in Producers : q # p => prod'[q] = prod[q]
  BY <1>1
<1>3. \A q \in Producers : Holders(q)' = Holders(q)
  BY DEF Holders
<1>4. ASSUME stalls = 0, NEW q \in Producers, q # p PROVE InFlight(q)' /\ Held(q)'
  <2>1. InFlight(q) /\ Held(q) /\ prod'[q] = prod[q]
    BY <1>2, <1>4 DEF Single
  <2> QED
    BY <1>3, <1>4, <2>1 DEF InFlight, Held, Acked
<1> QED
  BY <1>4 DEF Single, Emptied

LEMMA SingleProducer ==
    ASSUME Inv, Single, NEW p \in Producers, ProducerStep(p)
    PROVE  Single'
<1>0. /\ coll \in [Producers -> Collectors] /\ prod \in [Producers -> CallStates]
      /\ prod[p] \in CallStates /\ Served(p) /\ AckTimeout \in Nat \ {0}
      /\ \A c \in Producers : Consistent(coll[c], c, started[c])
  BY DebouncerAssumption DEF Inv, Types
<1>1. ASSUME stalls = 0, prod[p].pc \notin {"ack", "returned"}
      PROVE  /\ Holders(p) = {}
             /\ \A c \in Producers : \A i \in DOMAIN coll[c].mail : coll[c].mail[i].from # p
  BY <1>1 DEF Single, InFlight, Held
<1>2. ASSUME NEW delay \in Delays, NEW timeout \in Timeouts, EnqueueCollector(p, delay, timeout)
      PROVE  Single'
  <2> DEFINE r == [NoCollector EXCEPT !.pc = "queued", !.timeout = timeout,
                                      !.first = Message(p, 0, delay)]
  <2>1. /\ coll' = [coll EXCEPT ![p] = r]
        /\ prod' = [prod EXCEPT ![p] = [Call EXCEPT !.pc = "returned", !.target = p]]
        /\ UNCHANGED stalls /\ prod[p].pc = "enqueue" /\ coll[p].pc = "none"
    BY <1>0, <1>2 DEF EnqueueCollector, Served
  <2>2. /\ \A d \in Producers : d # p => coll'[d] = coll[d]
        /\ coll'[p].mail = <<>> /\ coll'[p].taken = {} /\ coll'[p].first.from = p
        /\ coll'[p].acks = <<>> /\ coll'[p].pc = "queued"
        /\ prod'[p].pc = "returned" /\ \A q \in Producers : q # p => prod'[q] = prod[q]
    BY <1>0, <2>1 DEF NoCollector, Message, Call
  <2>3. Emptied'
    BY <2>2 DEF Single, Emptied
  <2>4. coll[p].mail = <<>> /\ coll[p].taken = {} /\ coll[p].acks = <<>>
    BY <1>0, <2>1 DEF Single, Emptied, Consistent, Fresh
  <2>5. SUFFICES ASSUME stalls = 0, NEW q \in Producers PROVE InFlight(q)' /\ Held(q)'
    BY <2>1, <2>3 DEF Single
  <2>6. /\ Holders(p) = {}
        /\ \A c \in Producers : \A i \in DOMAIN coll[c].mail : coll[c].mail[i].from # p
    BY <1>1, <2>1, <2>5
  <2>7. CASE q = p
    <3>1. Holders(p)' = {p}
      BY <2>2, <2>6 DEF Holders
    <3>2. InFlight(p)'
      BY <2>2, <2>6 DEF InFlight
    <3>3. Held(p)'
      BY <2>2, <3>1 DEF Held
    <3> QED
      BY <2>7, <3>2, <3>3
  <2>8. CASE q # p
    <3>1. InFlight(q) /\ Held(q)
      BY <2>5 DEF Single
    <3>2. p \notin Holders(q)
      BY <2>1, <2>4, DebouncerAssumption DEF Holders, Single, Emptied
    <3>3. Holders(q)' = Holders(q)
      BY <2>2, <2>8, <3>2 DEF Holders
    <3>4. InFlight(q)'
      <4>1. \A d \in Producers : coll'[d].mail = coll[d].mail
        BY <2>2, <2>4
      <4> QED
        BY <2>2, <2>8, <3>1, <3>3, <4>1 DEF InFlight
    <3>5. Held(q)'
      <4>1. \A d \in Holders(q) : d # p /\ d \in Producers /\ coll'[d] = coll[d]
        BY <2>2, <3>2 DEF Holders
      <4> QED
        BY <2>2, <2>8, <3>1, <3>3, <4>1 DEF Held, Acked
    <3> QED
      BY <3>4, <3>5
  <2> QED
    BY <2>7, <2>8
<1>3. ASSUME prod' = [prod EXCEPT ![p].pc = "lookup"] \/ prod' = [prod EXCEPT ![p].pc = "enqueue"]
                \/ \E c \in Active :
                       prod' = [prod EXCEPT ![p] = [prod[p] EXCEPT !.pc = "send", !.existing = c]],
             prod[p].pc \in {"enqueue", "lookup"}, UNCHANGED <<coll, stalls>>
      PROVE  Single'
  <2>1. \E call : prod' = [prod EXCEPT ![p] = call]
    BY <1>3
  <2>2. Holders(p)' = Holders(p)
    BY <1>3 DEF Holders
  <2>3. stalls = 0 => InFlight(p)' /\ Held(p)'
    BY <1>1, <1>3, <2>2 DEF InFlight, Held
  <2> QED
    BY <1>3, <2>1, <2>3, SingleCall
<1>4. CASE Deduplicated(p)
  BY <1>3, <1>4 DEF Deduplicated
<1>5. CASE Lookup(p)
  BY <1>3, <1>5 DEF Lookup
<1>6. ASSUME NEW delay \in Delays, SendDebounce(p, delay) PROVE Single'
  <2> DEFINE msg == Message(p, prod[p].sent + 1, delay)
             c == prod[p].existing
             box == IF c \in Active THEN Append(coll[c].mail, msg) ELSE coll[c].mail
  <2>1. /\ prod[p].pc = "send" /\ UNCHANGED stalls
        /\ prod' = [prod EXCEPT ![p] = [prod[p] EXCEPT !.pc = "ack", !.sent = prod[p].sent + 1,
                                                        !.wait = AckTimeout]]
        /\ coll' = [coll EXCEPT ![c].mail = box]
    BY <1>6 DEF SendDebounce
  <2>2. c \in Producers /\ coll[c] \in Collectors /\ coll[c].mail \in Seq(Mails)
        /\ msg.from = p /\ msg.n = prod[p].sent + 1
    BY <1>0, <2>1 DEF Served, Collectors, Message
  <2>3. /\ prod'[p].pc = "ack" /\ prod'[p].existing = c /\ prod'[p].wait > 0
        /\ prod'[p].sent = prod[p].sent + 1
        /\ \A q \in Producers : q # p => prod'[q] = prod[q]
    BY <1>0, <2>1 DEF CallStates
  <2> HIDE DEF msg, box
  <2>4. /\ \A d \in Producers : d # c => coll'[d] = coll[d]
        /\ coll'[c].mail = box
        /\ coll'[c].pc = coll[c].pc /\ coll'[c].first = coll[c].first
        /\ coll'[c].taken = coll[c].taken /\ coll'[c].acks = coll[c].acks
        /\ coll'[c].current = coll[c].current
    BY <1>0, <2>1, <2>2 DEF Collectors
  <2>5. \A i \in DOMAIN box :
            \/ i \in DOMAIN coll[c].mail /\ box[i] = coll[c].mail[i]
            \/ i = Len(coll[c].mail) + 1 /\ box[i] = msg
    BY <2>2 DEF box
  <2>6. Emptied'
    <3>1. c \notin Active => box = coll[c].mail
      BY DEF box
    <3>2. coll[c].pc \in {"none", "done"} => c \notin Active
      BY DEF Active
    <3> QED
      BY <2>2, <2>4, <3>1, <3>2 DEF Single, Emptied
  <2>7. \A q \in Producers : Holders(q)' = Holders(q)
    BY <2>4 DEF Holders
  <2>8. SUFFICES ASSUME stalls = 0, NEW q \in Producers PROVE InFlight(q)' /\ Held(q)'
    BY <2>1, <2>6 DEF Single
  <2>9. InFlight(q) /\ Held(q)
    BY <2>8 DEF Single
  <2>10. /\ Holders(p) = {}
         /\ \A d \in Producers : \A i \in DOMAIN coll[d].mail : coll[d].mail[i].from # p
    BY <1>1, <2>1, <2>8
  <2>11. CASE q = p
    <3>1. InFlight(p)'
      <4> SUFFICES ASSUME NEW d \in Producers, NEW i \in DOMAIN coll'[d].mail,
                          coll'[d].mail[i].from = p
                   PROVE  /\ prod'[p].pc = "ack" /\ prod'[p].existing = d /\ prod'[p].wait > 0
                          /\ coll'[d].mail[i].n = prod'[p].sent
                          /\ Holders(p)' = {}
                          /\ \A j \in DOMAIN coll'[d].mail : coll'[d].mail[j].from = p => j = i
        BY DEF InFlight
      <4>1. d = c
        BY <2>4, <2>10
      <4>2. i = Len(coll[c].mail) + 1 /\ coll'[c].mail[i] = msg
        BY <2>2, <2>4, <2>5, <2>10, <4>1
      <4>3. \A j \in DOMAIN coll'[c].mail : coll'[c].mail[j].from = p => j = Len(coll[c].mail) + 1
        BY <2>2, <2>4, <2>5, <2>10
      <4> QED
        BY <2>2, <2>3, <2>7, <2>10, <4>1, <4>2, <4>3
    <3>2. Held(p)'
      BY <2>7, <2>10 DEF Held
    <3> QED
      BY <2>11, <3>1, <3>2
  <2>12. CASE q # p
    <3>1. InFlight(q)'
      <4> SUFFICES ASSUME NEW d \in Producers, NEW i \in DOMAIN coll'[d].mail,
                          coll'[d].mail[i].from = q
                   PROVE  /\ prod[q].pc = "ack" /\ prod[q].existing = d /\ prod[q].wait > 0
                          /\ coll'[d].mail[i].n = prod[q].sent
                          /\ Holders(q) = {}
                          /\ \A j \in DOMAIN coll'[d].mail : coll'[d].mail[j].from = q => j = i
        BY <2>3, <2>7, <2>12 DEF InFlight
      <4>1. \A j \in DOMAIN coll'[d].mail : coll'[d].mail[j].from = q =>
                j \in DOMAIN coll[d].mail /\ coll'[d].mail[j] = coll[d].mail[j]
        BY <2>2, <2>4, <2>5, <2>12
      <4> QED
        BY <2>9, <4>1 DEF InFlight
    <3>2. Held(q)'
      <4>1. \A d \in Producers : /\ coll'[d].acks = coll[d].acks /\ coll'[d].pc = coll[d].pc
                                  /\ coll'[d].current = coll[d].current
        BY <2>4
      <4>2. Holders(q) \subseteq Producers
        BY DEF Holders
      <4> QED
        BY <2>3, <2>7, <2>9, <2>12, <4>1, <4>2 DEF Held, Acked
    <3> QED
      BY <3>1, <3>2
  <2> QED
    BY <2>11, <2>12
<1>7. CASE Acknowledged(p)
  <2> DEFINE c == prod[p].existing
  <2>1. /\ prod[p].pc = "ack" /\ <<p, prod[p].sent>> \in Range(coll[c].acks)
        /\ prod' = [prod EXCEPT ![p] = [Call EXCEPT !.pc = "returned", !.target = c]]
        /\ UNCHANGED <<coll, stalls>>
    BY <1>7 DEF Acknowledged
  <2>2. c \in Producers
    BY <1>0, <2>1 DEF Served
  <2>3. c \in Holders(p)
    <3>1. PICK i \in DOMAIN coll[c].acks : coll[c].acks[i] = <<p, prod[p].sent>>
      BY <2>1 DEF Range
    <3>2. coll[c].acks[i][1] \in coll[c].taken
      BY <1>0, <2>2 DEF Consistent
    <3> QED
      BY <2>2, <3>1, <3>2 DEF Holders
  <2>4. Holders(p)' = Holders(p) /\ prod'[p].pc = "returned"
    BY <1>0, <2>1 DEF Holders, Call
  <2>5. stalls = 0 => InFlight(p)' /\ Held(p)'
    BY <2>1, <2>3, <2>4 DEF Single, InFlight, Held
  <2> QED
    BY <2>1, <2>5, SingleCall
<1>8. CASE AckTimedOut(p)
  <2>1. /\ prod[p].pc = "ack" /\ prod[p].wait = 0 /\ ~Acked(p, prod[p].existing)
        /\ prod' = [prod EXCEPT ![p] = [prod[p] EXCEPT !.pc = "enqueue", !.existing = NoProducer]]
        /\ UNCHANGED <<coll, stalls>>
    BY <1>8 DEF AckTimedOut, Acked
  <2>2. ASSUME stalls = 0
        PROVE  /\ Holders(p) = {}
               /\ \A c \in Producers : \A i \in DOMAIN coll[c].mail : coll[c].mail[i].from # p
    BY <2>1, <2>2 DEF Single, InFlight, Held
  <2>3. Holders(p)' = Holders(p)
    BY <2>1 DEF Holders
  <2>4. stalls = 0 => InFlight(p)' /\ Held(p)'
    BY <2>1, <2>2, <2>3 DEF InFlight, Held
  <2> QED
    BY <2>1, <2>4, SingleCall
<1> QED
  BY <1>2, <1>4, <1>5, <1>6, <1>7, <1>8 DEF ProducerStep

\* Time passes without a stall only when every collector sleeps on an empty mailbox.
LEMMA SingleTick == ASSUME Inv, Single, Tick PROVE Single'
<1>0. coll \in [Producers -> Collectors] /\ prod \in [Producers -> CallStates] /\ stalls \in Nat
  BY Bounds DEF Inv, Types
<1>1. /\ \A c \in Producers : coll'[c] = IF c \in Active THEN Aged(coll[c]) ELSE coll[c]
      /\ \A p \in Producers : prod'[p] = [prod[p] EXCEPT !.wait = Minus(prod[p].wait, 1)]
      /\ IF Busy THEN stalls' = stalls + 1 ELSE stalls' = stalls
  BY DEF Tick
<1>2. ASSUME NEW c \in Producers
      PROVE  /\ coll'[c].pc = coll[c].pc /\ coll'[c].mail = coll[c].mail
             /\ coll'[c].taken = coll[c].taken /\ coll'[c].first = coll[c].first
             /\ coll'[c].acks = coll[c].acks
  BY <1>0, <1>1 DEF Aged, Collectors
<1>3. ASSUME NEW p \in Producers
      PROVE  /\ prod'[p].pc = prod[p].pc /\ prod'[p].existing = prod[p].existing
             /\ prod'[p].sent = prod[p].sent
  <2>1. prod[p] \in CallStates /\ prod'[p] = [prod[p] EXCEPT !.wait = Minus(prod[p].wait, 1)]
    BY <1>0, <1>1, <1>3
  <2> HIDE <1>0, <1>1
  <2> QED
    BY <2>1 DEF CallStates
<1>4. Emptied'
  BY <1>2 DEF Single, Emptied
<1>5. \A p \in Producers : Holders(p)' = Holders(p)
  BY <1>2 DEF Holders
<1>6. SUFFICES ASSUME stalls' = 0, NEW p \in Producers PROVE InFlight(p)' /\ Held(p)'
  BY <1>4 DEF Single
<1>7. ~Busy /\ stalls = 0
  BY <1>0, <1>1, <1>6
<1>8. \A c \in Producers : coll[c].pc # "ack" /\ coll[c].mail = <<>>
  BY <1>7 DEF Busy, Active, Single, Emptied
<1>9. InFlight(p)'
  BY <1>2, <1>8 DEF InFlight
<1>10. Held(p)'
  <2>1. Held(p) /\ Holders(p) \subseteq Producers
    BY <1>7 DEF Single, Holders
  <2>2. \A c \in Producers : Acked(p, c)' <=> Acked(p, c)
    BY <1>2, <1>3 DEF Acked
  <2> QED
    BY <1>3, <1>5, <1>8, <2>1, <2>2 DEF Held
<1> QED
  BY <1>9, <1>10

LEMMA SingleStep == Inv /\ Single /\ [Next]_vars => Single'
<1> SUFFICES ASSUME Inv, Single, [Next]_vars PROVE Single'
  OBVIOUS
<1>1. CASE UNCHANGED vars
  BY <1>1 DEF vars, Single, Emptied, InFlight, Held, Holders, Acked
<1> QED
  BY <1>1, SingleProducer, SingleCollector, SingleTick DEF Next, Finished

\* While no collector is late, an input is taken by one collector at most, for any number of
\* producers, delays and timeouts: a producer that starts over left nothing behind.
THEOREM TakenOnce == Spec => [](stalls = 0 => InputTakenOnce)
<1>1. Spec => []Single
  BY InvHolds, SingleInit, SingleStep, PTL DEF Spec
<1>2. Single => (stalls = 0 => InputTakenOnce)
  <2> SUFFICES ASSUME Single, stalls = 0, NEW p \in Producers
               PROVE  Cardinality(Holders(p)) <= 1 + stalls
    BY DEF InputTakenOnce
  <2>1. CASE Holders(p) = {}
    BY <2>1, FS_EmptySet
  <2>2. ASSUME NEW c \in Holders(p) PROVE Cardinality(Holders(p)) <= 1 + stalls
    <3>1. Holders(p) = {c}
      BY <2>2 DEF Single, Held
    <3> QED
      BY <3>1, FS_Singleton
  <2> QED
    BY <2>1, <2>2
<1> QED
  BY <1>1, <1>2, PTL
==============================================================================
