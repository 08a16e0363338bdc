-------------------------- MODULE Conductor_proofs --------------------------
(***************************************************************************)
(* Proofs about the conductor's client, for every set of requests, every   *)
(* number of provider calls they take, every timeout and every number of   *)
(* faults.                                                                 *)
(***************************************************************************)
EXTENDS Conductor, TLAPS

(***************************************************************************)
(* The bounds of the timers.                                               *)
(***************************************************************************)
LEMMA MaxOfTwo == \A a, b \in Nat : LET m == Max({a, b}) IN m \in Nat /\ a <= m /\ b <= m
<1> SUFFICES ASSUME NEW a \in Nat, NEW b \in Nat
             PROVE  LET m == Max({a, b}) IN m \in Nat /\ a <= m /\ b <= m
  OBVIOUS
<1>1. \E x \in {a, b} : \A y \in {a, b} : x >= y
  <2>1. CASE a >= b
    BY <2>1
  <2>2. CASE b >= a
    BY <2>2
  <2> QED
    BY <2>1, <2>2
<1> QED
  BY <1>1 DEF Max

LEMMA MinOfTwo == \A a, b \in Nat : LET m == Min({a, b}) IN m \in {a, b} /\ m <= a /\ m <= b
<1> SUFFICES ASSUME NEW a \in Nat, NEW b \in Nat
             PROVE  LET m == Min({a, b}) IN m \in {a, b} /\ m <= a /\ m <= b
  OBVIOUS
<1>1. \E x \in {a, b} : \A y \in {a, b} : x =< y
  <2>1. CASE a =< b
    BY <2>1
  <2>2. CASE b =< a
    BY <2>2
  <2> QED
    BY <2>1, <2>2
<1> QED
  BY <1>1 DEF Min

LongestWait == Max({2 * MaxWait, CloseDrainTimeout})

LEMMA Timers ==
    /\ InitialWait \in Nat \ {0} /\ MaxWait \in Nat \ {0} /\ InitialWait <= MaxWait
    /\ PingInterval \in Nat /\ PingTimeout \in Nat
    /\ Grace \in Nat /\ MaxFaults \in Nat /\ MaxStalls \in Nat
    /\ LongestWait \in Nat /\ CloseDrainTimeout \in 0..LongestWait
    /\ \A base \in InitialWait..MaxWait : jittered(base) \subseteq 0..LongestWait
    /\ \A base \in InitialWait..MaxWait : Min({2 * base, MaxWait}) \in InitialWait..MaxWait
    /\ \A bound \in Nat : \A t \in 0..bound : Less(t) \in 0..bound
<1>1. /\ InitialWait \in Nat \ {0} /\ MaxWait \in Nat \ {0} /\ InitialWait <= MaxWait
      /\ CloseDrainTimeout \in Nat /\ PingInterval \in Nat /\ PingTimeout \in Nat
      /\ Grace \in Nat /\ MaxFaults \in Nat /\ MaxStalls \in Nat
  BY ConductorAssumption
<1>2. /\ LongestWait \in Nat /\ 2 * MaxWait <= LongestWait
      /\ CloseDrainTimeout <= LongestWait
  BY <1>1, MaxOfTwo DEF LongestWait
<1>3. \A base \in InitialWait..MaxWait : jittered(base) \subseteq 0..LongestWait
  BY <1>1, <1>2 DEF jittered
<1>4. ASSUME NEW base \in InitialWait..MaxWait
      PROVE  Min({2 * base, MaxWait}) \in InitialWait..MaxWait
  BY <1>1, MinOfTwo
<1>5. \A bound \in Nat : \A t \in 0..bound : Less(t) \in 0..bound
  BY DEF Less
<1>6. CloseDrainTimeout \in 0..LongestWait
  BY <1>1, <1>2
<1> QED
  BY <1>1, <1>2, <1>3, <1>4, <1>5, <1>6, Zenon

(***************************************************************************)
(* The inductive invariant.  A request is in the hands of the client at    *)
(* most once: as one frame of the inbox or in the handler, never both, and *)
(* only while the conductor has no answer to it (QueueSound, HandSound).   *)
(* So nothing takes the rows of an answered request back to an earlier     *)
(* stage.  In the handler the rows are at the stage of the last call that  *)
(* succeeded, or a call has failed, which is what Respond answers.         *)
(***************************************************************************)
HandSound ==
    pc = "handle" =>
        /\ handling.req \in Requests
        /\ req[handling.req].answer = "none"
        /\ handling.failed => req[handling.req].failed
        /\ ~handling.failed /\ handling.calls # 0 => req[handling.req].stage = handling.calls

QueueSound ==
    \A i \in DOMAIN inbox : inbox[i] \in Requests =>
        /\ req[inbox[i]].answer = "none"
        /\ ~InHand(inbox[i])
        /\ \A j \in DOMAIN inbox : inbox[j] = inbox[i] => j = i

\* TypeOK, in the parts that the actions change together.
ReqType == [Requests -> [stage : Nat, failed : BOOLEAN, answer : {"none", "ok", "error"}]]

ControlTypes ==
    /\ pc \in {"top", "connecting", "backoff", "serve", "handle", "closing", "stopped", "aborted"}
    /\ link \in {"none", "up", "silent", "closed"}
    /\ inbox \in Seq(Frames)
    /\ token \in BOOLEAN

TimerTypes ==
    /\ backoff \in InitialWait..MaxWait /\ wait \in 0..LongestWait
    /\ ping \in 0..PingInterval /\ read \in 0..PingTimeout
    /\ grace \in 0..Grace /\ faults \in 0..MaxFaults /\ stalls \in 0..MaxStalls

RequestTypes ==
    /\ handling \in [req : Requests \cup {NoRequest}, calls : Nat, failed : BOOLEAN]
    /\ req \in ReqType

Sound == RequestTypes /\ HandSound /\ QueueSound /\ RequestsWhole
Inv == ControlTypes /\ TimerTypes /\ Sound

LEMMA InvTypes == Inv => TypeOK
  BY DEF Inv, Sound, TypeOK, ControlTypes, TimerTypes, RequestTypes, ReqType, LongestWait

LEMMA InvInit == Init => Inv
<1> SUFFICES ASSUME Init PROVE Inv
  OBVIOUS
<1>0. <<>> \in Seq(Frames)
  OBVIOUS
<1>1. ControlTypes
  BY <1>0 DEF Init, ControlTypes
<1>2. TimerTypes
  BY Timers DEF Init, TimerTypes
<1>3. RequestTypes
  BY DEF Init, RequestTypes, ReqType, Idle
<1>4. HandSound /\ QueueSound /\ RequestsWhole
  BY DEF Init, HandSound, QueueSound, RequestsWhole, Half
<1> QED
  BY <1>1, <1>2, <1>3, <1>4 DEF Inv, Sound

\* The actions that leave the requests and the handler alone: none of them enters or leaves the
\* handler, except to end the task, and the inbox is kept or dropped or gets a frame that asks
\* for nothing.
LEMMA Elsewhere ==
    ASSUME Sound, inbox \in Seq(Frames),
           UNCHANGED <<handling, req>>,
           pc' = "handle" => pc = "handle",
           pc = "handle" => pc' \in {"handle", "aborted"},
           pc = "aborted" => pc' = "aborted",
           \/ inbox' = inbox
           \/ inbox' = <<>>
           \/ \E frame \in Frames \ Requests : inbox' = Append(inbox, frame)
    PROVE  Sound'
<1>1. RequestTypes' /\ HandSound'
  BY DEF Sound, RequestTypes, HandSound
<1>2. RequestsWhole'
  BY DEF Sound, RequestsWhole, Half, InHand
<1>3. \A r : InHand(r)' => InHand(r)
  BY DEF InHand
<1>4. QueueSound'
  <2>1. CASE inbox' = inbox
    BY <2>1, <1>3 DEF Sound, QueueSound
  <2>2. CASE inbox' = <<>>
    BY <2>2 DEF QueueSound
  <2>3. ASSUME NEW frame \in Frames \ Requests, inbox' = Append(inbox, frame)
        PROVE  QueueSound'
    <3>1. \A i \in DOMAIN inbox' : inbox'[i] \in Requests =>
             i \in DOMAIN inbox /\ inbox'[i] = inbox[i]
      BY <2>3
    <3>2. QueueSound
      BY DEF Sound
    <3> QED
      BY <1>3, <3>1, <3>2 DEF QueueSound
  <2> QED
    BY <2>1, <2>2, <2>3
<1> QED
  BY <1>1, <1>2, <1>4 DEF Sound

\* A request enters the inbox: it has no answer, and is not in the client's hands.
LEMMA Enters ==
    ASSUME Sound, inbox \in Seq(Frames), NEW r \in Requests,
           UNCHANGED <<handling, pc>>,
           inbox' = Append(inbox, r),
           ~InHand(r), r \notin Range(inbox),
           req[r].answer # "ok",
           req' = [req EXCEPT ![r].answer = "none"]
    PROVE  Sound'
<1>0. req \in ReqType /\ QueueSound /\ HandSound /\ RequestsWhole /\ RequestTypes
  BY DEF Sound, RequestTypes
<1>1. /\ req' \in ReqType
      /\ req'[r].answer = "none"
      /\ \A q \in Requests : q # r => req'[q] = req[q]
      /\ \A q \in Requests : req'[q].stage = req[q].stage /\ req'[q].failed = req[q].failed
  BY <1>0 DEF ReqType
<1>2. \A q : InHand(q)' <=> InHand(q)
  BY DEF InHand
<1>3. \A i \in DOMAIN inbox : inbox[i] # r
  BY DEF Range
<1>4. RequestTypes'
  BY <1>0, <1>1 DEF RequestTypes
<1>5. HandSound'
  BY <1>0, <1>1 DEF HandSound
<1>6. QueueSound'
  <2>1. \A i \in DOMAIN inbox' :
           \/ i = Len(inbox) + 1 /\ inbox'[i] = r
           \/ i \in DOMAIN inbox /\ inbox'[i] = inbox[i]
    OBVIOUS
  <2> QED
    BY <1>0, <1>1, <1>2, <1>3, <2>1 DEF QueueSound
<1>7. RequestsWhole'
  BY <1>0, <1>1, <1>2 DEF RequestsWhole, Half
<1> QED
  BY <1>4, <1>5, <1>6, <1>7 DEF Sound

\* The rows and the answer of the request in the handler change: it is in no frame of the inbox.
LEMMA Handled ==
    ASSUME Sound, pc = "handle", UNCHANGED inbox,
           NEW mark \in [stage : Nat, failed : BOOLEAN, answer : {"none", "ok", "error"}],
           req' = [req EXCEPT ![handling.req] = mark],
           handling' \in [req : Requests \cup {NoRequest}, calls : Nat, failed : BOOLEAN],
           HandSound',
           pc' = "handle" => handling'.req = handling.req,
           pc' # "handle" =>
               /\ mark.answer = "ok" => mark.stage = Calls[handling.req]
               /\ mark.stage \in 1..(Calls[handling.req] - 1) => mark.failed
    PROVE  Sound'
<1>a. PICK r \in Requests : r = handling.req
  BY DEF Sound, HandSound
<1>0. req \in ReqType /\ QueueSound /\ RequestsWhole
  BY DEF Sound, RequestTypes
<1>1. /\ req' \in ReqType /\ req'[r] = mark
      /\ \A q \in Requests : q # r => req'[q] = req[q]
  BY <1>a, <1>0 DEF ReqType
<1>2. RequestTypes'
  BY <1>1 DEF RequestTypes
<1>3. QueueSound'
  BY <1>a, <1>0, <1>1 DEF QueueSound, InHand
<1>4. RequestsWhole'
  <2>1. ASSUME NEW q \in Requests, q # r
        PROVE  /\ req'[q].answer = "ok" => req'[q].stage = Calls[q]
               /\ Half(q)' /\ ~InHand(q)' => req'[q].failed \/ pc' = "aborted"
    BY <1>a, <1>0, <1>1, <2>1 DEF RequestsWhole, Half, InHand
  <2>2. /\ req'[r].answer = "ok" => req'[r].stage = Calls[r]
        /\ Half(r)' /\ ~InHand(r)' => req'[r].failed \/ pc' = "aborted"
    <3>1. CASE pc' = "handle"
      BY <1>a, <1>1, <3>1 DEF HandSound, InHand
    <3>2. CASE pc' # "handle"
      BY <1>a, <1>1, <3>2 DEF Half
    <3> QED
      BY <3>1, <3>2
  <2> QED
    BY <2>1, <2>2 DEF RequestsWhole
<1> QED
  BY <1>2, <1>3, <1>4 DEF Sound

LEMMA InvStep == Inv /\ [Next]_vars => Inv'
<1> SUFFICES ASSUME Inv, [Next]_vars PROVE Inv'
  OBVIOUS
<1> USE DEF Inv, taskVars
<1>a. /\ inbox \in Seq(Frames) /\ RequestTypes /\ HandSound /\ QueueSound /\ RequestsWhole
      /\ {"pong", "close", "garbled"} \cap Requests = {}
      /\ {"pong", "close", "garbled"} \subseteq Frames \ Requests
      /\ Requests \subseteq Frames
  BY ConductorAssumption DEF ControlTypes, Sound, Frames
<1>0. CASE UNCHANGED vars
  BY <1>0 DEF vars, ControlTypes, TimerTypes, Sound, RequestTypes, HandSound, QueueSound,
              RequestsWhole, Half, InHand
<1>1. CASE LoopTop
  <2>1. ControlTypes'
    BY <1>1 DEF LoopTop, ControlTypes
  <2>2. TimerTypes'
    BY <1>1, Timers DEF LoopTop, TimerTypes
  <2>3. Sound'
    BY <1>1, <1>a, Elsewhere DEF LoopTop
  <2> QED
    BY <2>1, <2>2, <2>3
<1>2. CASE Connect
  <2>1. ControlTypes'
    BY <1>2 DEF Connect, NextTurn, ControlTypes
  <2>2. TimerTypes'
    BY <1>2, Timers DEF Connect, NextTurn, TimerTypes
  <2>3. Sound'
    BY <1>2, <1>a, Elsewhere DEF Connect, NextTurn
  <2> QED
    BY <2>1, <2>2, <2>3
<1>3. CASE BackoffEnds
  <2>1. ControlTypes'
    BY <1>3 DEF BackoffEnds, ControlTypes
  <2>2. TimerTypes'
    BY <1>3, Timers DEF BackoffEnds, TimerTypes
  <2>3. Sound'
    BY <1>3, <1>a, Elsewhere DEF BackoffEnds
  <2> QED
    BY <2>1, <2>2, <2>3
<1>4. CASE BackoffCancelled
  <2>1. ControlTypes'
    BY <1>4 DEF BackoffCancelled, ControlTypes
  <2>2. TimerTypes'
    BY <1>4, Timers DEF BackoffCancelled, TimerTypes
  <2>3. Sound'
    BY <1>4, <1>a, Elsewhere DEF BackoffCancelled
  <2> QED
    BY <2>1, <2>2, <2>3
<1>5. CASE Cancelled
  <2>1. ControlTypes'
    BY <1>5 DEF Cancelled, ControlTypes
  <2>2. TimerTypes'
    BY <1>5, Timers DEF Cancelled, TimerTypes
  <2>3. Sound'
    BY <1>5, <1>a, Elsewhere DEF Cancelled
  <2> QED
    BY <2>1, <2>2, <2>3
<1>6. CASE PingTick
  <2>1. ControlTypes'
    BY <1>6, <1>a DEF PingTick, NextTurn, ControlTypes
  <2>2. TimerTypes'
    BY <1>6, Timers DEF PingTick, NextTurn, TimerTypes
  <2>3. Sound'
    BY <1>6, <1>a, Elsewhere DEF PingTick, NextTurn
  <2> QED
    BY <2>1, <2>2, <2>3
<1>7. CASE ReadEnds
  <2>1. ControlTypes'
    BY <1>7 DEF ReadEnds, ControlTypes
  <2>2. TimerTypes'
    BY <1>7, Timers DEF ReadEnds, TimerTypes
  <2>3. Sound'
    BY <1>7, <1>a, Elsewhere DEF ReadEnds
  <2> QED
    BY <2>1, <2>2, <2>3
<1>8. CASE CloseGracefully
  <2>1. ControlTypes'
    BY <1>8 DEF CloseGracefully, ControlTypes
  <2>2. TimerTypes'
    BY <1>8, Timers DEF CloseGracefully, TimerTypes
  <2>3. Sound'
    BY <1>8, <1>a, Elsewhere DEF CloseGracefully
  <2> QED
    BY <2>1, <2>2, <2>3
<1>9. CASE ConnectFails
  <2>1. ControlTypes'
    BY <1>9 DEF ConnectFails, ControlTypes
  <2>2. TimerTypes'
    BY <1>9, Timers DEF ConnectFails, TimerTypes
  <2>3. Sound'
    BY <1>9, <1>a, Elsewhere DEF ConnectFails
  <2> QED
    BY <2>1, <2>2, <2>3
<1>10. CASE ConnectHangs
  <2>1. ControlTypes'
    BY <1>10 DEF ConnectHangs, ControlTypes
  <2>2. TimerTypes'
    BY <1>10, Timers DEF ConnectHangs, TimerTypes
  <2>3. Sound'
    BY <1>10, <1>a, Elsewhere DEF ConnectHangs
  <2> QED
    BY <2>1, <2>2, <2>3
<1>11. CASE Shutdown
  <2>1. ControlTypes'
    BY <1>11 DEF Shutdown, ControlTypes
  <2>2. TimerTypes'
    BY <1>11, Timers DEF Shutdown, TimerTypes
  <2>3. Sound'
    BY <1>11, <1>a, Elsewhere DEF Shutdown
  <2> QED
    BY <2>1, <2>2, <2>3
<1>12. CASE Breaks
  <2>1. ControlTypes'
    BY <1>12, <1>a DEF Breaks, ControlTypes
  <2>2. TimerTypes'
    BY <1>12, Timers DEF Breaks, TimerTypes
  <2>3. Sound'
    BY <1>12, <1>a, Elsewhere DEF Breaks
  <2> QED
    BY <2>1, <2>2, <2>3
<1>13. CASE Tick
  <2>1. ControlTypes'
    BY <1>13 DEF Tick, ControlTypes
  <2>2. TimerTypes'
    BY <1>13, Timers DEF Tick, TimerTypes
  <2>3. Sound'
    BY <1>13, <1>a, Elsewhere DEF Tick
  <2> QED
    BY <2>1, <2>2, <2>3
<1>14. CASE Abort
  <2>1. ControlTypes'
    BY <1>14 DEF Abort, ControlTypes
  <2>2. TimerTypes'
    BY <1>14, Timers DEF Abort, TimerTypes
  <2>3. Sound'
    BY <1>14, <1>a, Elsewhere DEF Abort
  <2> QED
    BY <2>1, <2>2, <2>3
<1>15. CASE Garbles
  <2>1. ControlTypes' /\ TimerTypes'
    BY <1>15, <1>a, Timers DEF Garbles, Sends, ControlTypes, TimerTypes
  <2>2. Sound'
    BY <1>15, <1>a, Elsewhere DEF Garbles, Sends
  <2> QED
    BY <2>1, <2>2
<1>16. CASE ReadFrame
  <2>1. /\ Tail(inbox) \in Seq(Frames) /\ Head(inbox) \in Frames /\ inbox # <<>>
        /\ inbox' = Tail(inbox) /\ pc = "serve"
    BY <1>16 DEF ReadFrame, ControlTypes
  <2>2. ControlTypes'
    BY <1>16, <2>1 DEF ReadFrame, NextTurn, ControlTypes
  <2>3. TimerTypes'
    BY <1>16, Timers DEF ReadFrame, NextTurn, TimerTypes
  <2>4. \A i \in DOMAIN inbox' :
           /\ i + 1 \in DOMAIN inbox /\ 1 \in DOMAIN inbox /\ i + 1 # 1 /\ i \in Nat
           /\ inbox'[i] = inbox[i + 1]
    BY <2>1
  <2>5. CASE UNCHANGED <<handling, req>> /\ pc' # "handle"
    <3>1. RequestTypes' /\ HandSound' /\ RequestsWhole'
      BY <1>a, <2>1, <2>5 DEF RequestTypes, HandSound, RequestsWhole, Half, InHand
    <3>2. QueueSound'
      BY <1>a, <2>4, <2>5 DEF QueueSound, InHand
    <3> QED
      BY <2>2, <2>3, <3>1, <3>2 DEF Sound
  <2>6. CASE /\ Head(inbox) \in Requests /\ pc' = "handle"
             /\ handling' = [Idle EXCEPT !.req = Head(inbox)]
             /\ req' = [req EXCEPT ![Head(inbox)].failed = FALSE]
    <3> DEFINE r == Head(inbox)
    <3>1. handling' = [req |-> r, calls |-> 0, failed |-> FALSE]
      BY <2>6 DEF Idle
    <3>2. /\ req' \in ReqType
          /\ \A q \in Requests : req'[q].stage = req[q].stage /\ req'[q].answer = req[q].answer
          /\ \A q \in Requests : q # r => req'[q].failed = req[q].failed
      BY <1>a, <2>6 DEF RequestTypes, ReqType
    <3>3. 1 \in DOMAIN inbox /\ inbox[1] = r /\ req[r].answer = "none"
      BY <1>a, <2>1, <2>6 DEF QueueSound
    <3>4. \A i \in DOMAIN inbox' : inbox'[i] # r
      BY <1>a, <2>4, <2>6, <3>3 DEF QueueSound
    <3>5. RequestTypes'
      <4>1. r \in Requests
        BY <2>6
      <4>2. handling' \in [req : Requests \cup {NoRequest}, calls : Nat, failed : BOOLEAN]
        BY <3>1, <4>1
      <4> QED
        BY <3>2, <4>2 DEF RequestTypes
    <3>6. HandSound'
      BY <2>6, <3>1, <3>2, <3>3 DEF HandSound
    <3>7. QueueSound'
      BY <1>a, <2>4, <3>1, <3>2, <3>4 DEF QueueSound, InHand
    <3>8. RequestsWhole'
      BY <1>a, <2>1, <2>6, <3>1, <3>2, <3>3 DEF RequestsWhole, Half, InHand
    <3> QED
      BY <2>2, <2>3, <3>5, <3>6, <3>7, <3>8 DEF Sound
  <2> QED
    BY <1>16, <2>5, <2>6 DEF ReadFrame, NextTurn
<1>17. CASE HandlerCall
  <2> DEFINE r == handling.req
             mark == [req[r] EXCEPT !.stage = handling.calls + 1]
  <2>1. /\ r \in Requests /\ pc = "handle" /\ pc' = pc /\ inbox' = inbox
        /\ ~handling.failed /\ req[r].answer = "none"
    BY <1>17, <1>a DEF HandlerCall, Calling, HandSound
  <2>2. /\ handling' = [handling EXCEPT !.calls = handling.calls + 1]
        /\ req' = [req EXCEPT ![r] = mark]
    BY <1>17 DEF HandlerCall
  <2>3. /\ mark \in [stage : Nat, failed : BOOLEAN, answer : {"none", "ok", "error"}]
        /\ mark.stage = handling.calls + 1 /\ mark.answer = "none"
        /\ req'[r] = mark
    BY <1>a, <2>1, <2>2 DEF RequestTypes, ReqType
  <2>4. /\ handling' \in [req : Requests \cup {NoRequest}, calls : Nat, failed : BOOLEAN]
        /\ handling'.req = r /\ handling'.calls = handling.calls + 1 /\ ~handling'.failed
    BY <1>a, <2>1, <2>2 DEF RequestTypes
  <2>5. HandSound'
    <3> HIDE DEF mark
    <3> QED
      BY <2>1, <2>3, <2>4 DEF HandSound
  <2>6. Sound'
    <3> HIDE DEF mark
    <3> QED
      BY <2>1, <2>2, <2>3, <2>4, <2>5, Handled
  <2>7. ControlTypes' /\ TimerTypes'
    BY <1>17 DEF HandlerCall, ControlTypes, TimerTypes
  <2> QED
    BY <2>6, <2>7
<1>18. CASE HandlerCallFails
  <2> DEFINE r == handling.req
  <2>1. /\ r \in Requests /\ pc = "handle" /\ pc' = pc /\ inbox' = inbox
        /\ req[r].answer = "none"
    BY <1>18, <1>a DEF HandlerCallFails, Calling, HandSound
  <2>2. PICK stage \in {req[r].stage, handling.calls + 1} :
             req' = [req EXCEPT ![r].stage = stage, ![r].failed = TRUE]
    BY <1>18 DEF HandlerCallFails
  <2> DEFINE mark == [req[r] EXCEPT !.stage = stage, !.failed = TRUE]
  <2>3. /\ handling' = [handling EXCEPT !.failed = TRUE]
        /\ req' = [req EXCEPT ![r] = mark]
    BY <1>18, <1>a, <2>1, <2>2 DEF HandlerCallFails, RequestTypes, ReqType
  <2>4. /\ mark \in [stage : Nat, failed : BOOLEAN, answer : {"none", "ok", "error"}]
        /\ mark.failed /\ mark.answer = "none"
        /\ req'[r] = mark
    BY <1>a, <2>1, <2>2, <2>3 DEF RequestTypes, ReqType
  <2>5. /\ handling' \in [req : Requests \cup {NoRequest}, calls : Nat, failed : BOOLEAN]
        /\ handling'.req = r /\ handling'.failed
    BY <1>a, <2>3 DEF RequestTypes
  <2>6. HandSound'
    <3> HIDE DEF mark
    <3> QED
      BY <2>1, <2>4, <2>5 DEF HandSound
  <2>7. Sound'
    <3> HIDE DEF mark
    <3> QED
      BY <2>1, <2>3, <2>4, <2>5, <2>6, Handled
  <2>8. ControlTypes'
    BY <1>18 DEF HandlerCallFails, ControlTypes
  <2>9. TimerTypes'
    BY <1>18, Timers DEF HandlerCallFails, TimerTypes
  <2> QED
    BY <2>7, <2>8, <2>9
<1>19. CASE Respond
  <2> DEFINE r == handling.req
             answer == IF link = "up" THEN Answer(handling.failed) ELSE req[r].answer
             mark == [req[r] EXCEPT !.answer = answer]
  <2>1. /\ r \in Requests /\ pc = "handle" /\ pc' = "serve" /\ inbox' = inbox
        /\ handling.failed \/ handling.calls = Calls[r]
        /\ handling' = Idle /\ req' = [req EXCEPT ![r] = mark]
    BY <1>19, <1>a DEF Respond, NextTurn, HandSound
  <2>2. Calls[r] \in Nat \ {0} /\ handling.failed \in BOOLEAN
    BY <1>a, <2>1, ConductorAssumption DEF RequestTypes
  <2>3. /\ handling.failed => req[r].failed
        /\ ~handling.failed => req[r].stage = Calls[r]
        /\ req[r].answer = "none"
    BY <1>a, <2>1, <2>2 DEF HandSound
  <2>4. /\ answer \in {"none", "ok", "error"}
        /\ answer = "ok" => ~handling.failed
    BY <2>2, <2>3 DEF Answer
  <2>5. /\ mark \in [stage : Nat, failed : BOOLEAN, answer : {"none", "ok", "error"}]
        /\ mark.answer = "ok" => mark.stage = Calls[r]
        /\ mark.stage \in 1..(Calls[r] - 1) => mark.failed
    <3> HIDE DEF answer
    <3> QED
      BY <1>a, <2>1, <2>2, <2>3, <2>4 DEF RequestTypes, ReqType
  <2>6. handling' \in [req : Requests \cup {NoRequest}, calls : Nat, failed : BOOLEAN]
    BY <2>1 DEF Idle
  <2>7. HandSound'
    BY <2>1 DEF HandSound
  <2>8. Sound'
    <3> HIDE DEF mark
    <3> QED
      BY <2>1, <2>5, <2>6, <2>7, Handled
  <2>9. ControlTypes'
    BY <1>19 DEF Respond, NextTurn, ControlTypes
  <2>10. TimerTypes'
    BY <1>19, Timers DEF Respond, NextTurn, TimerTypes
  <2> QED
    BY <2>8, <2>9, <2>10
<1>20. ASSUME NEW r \in Requests, Ask(r) \/ AskAgain(r) PROVE Inv'
  <2>1. /\ inbox' = Append(inbox, r)
        /\ UNCHANGED <<taskVars, link, token, grace, faults, stalls>>
    BY <1>20 DEF Ask, AskAgain, Sends
  <2>2. ControlTypes' /\ TimerTypes'
    BY <1>a, <2>1 DEF ControlTypes, TimerTypes
  <2>3. /\ req' = [req EXCEPT ![r].answer = "none"]
        /\ ~InHand(r) /\ r \notin Range(inbox) /\ req[r].answer # "ok"
    <3>1. CASE Ask(r)
      <4>1. req[r].answer = "none" /\ UNCHANGED req /\ ~Pending(r)
        BY <3>1 DEF Ask
      <4>2. req = [req EXCEPT ![r].answer = "none"]
        BY <1>a, <4>1 DEF RequestTypes, ReqType
      <4> QED
        BY <4>1, <4>2 DEF Pending, InHand
    <3>2. CASE AskAgain(r)
      <4>1. req[r].answer = "error" /\ req' = [req EXCEPT ![r].answer = "none"]
        BY <3>2 DEF AskAgain
      <4>2. ~InHand(r)
        BY <1>a, <4>1 DEF HandSound, InHand
      <4>3. r \notin Range(inbox)
        BY <1>a, <4>1 DEF QueueSound, Range
      <4> QED
        BY <4>1, <4>2, <4>3
    <3> QED
      BY <1>20, <3>1, <3>2
  <2>4. Sound'
    BY <1>a, <2>1, <2>3, Enters
  <2> QED
    BY <2>2, <2>4
<1>21. CASE Terminated
  BY <1>0, <1>21 DEF Terminated
<1> QED
  BY <1>0, <1>1, <1>2, <1>3, <1>4, <1>5, <1>6, <1>7, <1>8, <1>9, <1>10, <1>11, <1>12, <1>13,
     <1>14, <1>15, <1>16, <1>17, <1>18, <1>19, <1>20, <1>21 DEF Next, TaskStep

LEMMA InvHolds == Spec => []Inv
  BY InvInit, InvStep, PTL DEF Spec

\* The timers stay within their timeouts, the backoff between INITIAL_RECONNECT_WAIT and
\* MAX_RECONNECT_WAIT, and the task in the phases of connection_loop and serve.
THEOREM TypeCorrect == Spec => []TypeOK
  BY InvHolds, InvTypes, PTL

\* What the conductor was told has succeeded is performed completely, and a request is left half
\* done only by a provider call that failed or by the abort after the grace period.
THEOREM Whole == Spec => []RequestsWhole
<1>1. Inv => RequestsWhole
  BY DEF Inv, Sound
<1> QED
  BY InvHolds, <1>1, PTL
==============================================================================
