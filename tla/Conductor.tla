------------------------------ MODULE Conductor ------------------------------
(***************************************************************************)
(* The client of the DBOS conductor: one task that keeps a websocket open, *)
(* pings it, performs the requests that arrive on it and answers them, and *)
(* is stopped by shutdown.                                                 *)
(*                                                                         *)
(* The conductor itself and the network are external.  The conductor sends *)
(* a request again on a new connection while it has no answer, and may ask *)
(* again for what it was told has failed.  A frame may be one the client   *)
(* cannot parse.  A link can be closed by the peer or the network, which   *)
(* reads and writes report, or go silent: writes are still buffered and    *)
(* nothing arrives.  A connection attempt can hang in the same way.        *)
(*                                                                         *)
(* A request is a sequence of provider calls that each bring its rows to   *)
(* the next stage.  Handling it anew starts from the first stage: resume,  *)
(* for one, takes a row it has enqueued back to PENDING before it enqueues *)
(* it again.  A call can fail, with its statement done or not; the rest of *)
(* the request is skipped and the answer carries the error.                *)
(***************************************************************************)
EXTENDS Naturals, Sequences, FiniteSets, FiniteSetsExt, SequencesExt

CONSTANTS
    Requests,
    Calls,          \* [Requests -> Nat]: the provider calls that change rows; resume makes two
    NoRequest,
    PingInterval, PingTimeout,
    InitialWait, MaxWait,   \* INITIAL_RECONNECT_WAIT, MAX_RECONNECT_WAIT
    CloseDrainTimeout,
    Grace,          \* the timeout given to shutdown
    MaxFaults,      \* bound: links that break or cannot be opened, bad frames, failed calls
    MaxStalls       \* bound: ticks that pass while the task has something to do

ASSUME ConductorAssumption ==
    /\ Requests \cap {NoRequest, "pong", "close", "garbled"} = {}
    /\ Calls \in [Requests -> Nat \ {0}]
    /\ {PingInterval, PingTimeout, InitialWait, MaxWait, CloseDrainTimeout} \subseteq Nat \ {0}
    /\ {Grace, MaxFaults, MaxStalls} \subseteq Nat
    /\ PingInterval < PingTimeout /\ InitialWait <= MaxWait

VARIABLES
    pc,         \* where the task is
    backoff, wait,
    ping, read, \* time to the next ping, to the read deadline
    link,       \* "none", "up", "silent" or "closed"
    inbox,      \* frames that have arrived
    handling,   \* the request being handled, the calls made for it, whether one failed
    req,        \* per request: the stage of its rows, how it was answered, and
                \* whether a call of its last handling failed
    token, grace,
    faults, stalls

taskVars == <<pc, backoff, wait, ping, read, handling>>
vars == <<taskVars, link, inbox, req, token, grace, faults, stalls>>

Idle == [req |-> NoRequest, calls |-> 0, failed |-> FALSE]
Frames == Requests \cup {"pong", "close", "garbled"}

\* The values the variables take.
TypeOK ==
    /\ pc \in {"top", "connecting", "backoff", "serve", "handle", "closing", "stopped", "aborted"}
    /\ backoff \in InitialWait..MaxWait /\ wait \in 0..Max({2 * MaxWait, CloseDrainTimeout})
    /\ ping \in 0..PingInterval /\ read \in 0..PingTimeout
    /\ link \in {"none", "up", "silent", "closed"}
    /\ inbox \in Seq(Frames)
    /\ handling \in [req : Requests \cup {NoRequest}, calls : Nat, failed : BOOLEAN]
    /\ req \in [Requests -> [stage : Nat, failed : BOOLEAN, answer : {"none", "ok", "error"}]]
    /\ token \in BOOLEAN
    /\ grace \in 0..Grace /\ faults \in 0..MaxFaults /\ stalls \in 0..MaxStalls

Init ==
    /\ pc = "top" /\ backoff = InitialWait /\ wait = 0
    /\ ping = 0 /\ read = 0 /\ handling = Idle
    /\ link = "none" /\ inbox = <<>>
    /\ req = [r \in Requests |-> [stage |-> 0, failed |-> FALSE, answer |-> "none"]]
    /\ token = FALSE /\ grace = Grace
    /\ faults = 0 /\ stalls = 0

(***************************************************************************)
(* connection_loop                                                         *)
(***************************************************************************)
LoopTop ==
    /\ pc = "top"
    /\ pc' = IF token THEN "stopped" ELSE "connecting"
    /\ link' = "none" /\ inbox' = <<>>
    /\ UNCHANGED <<backoff, wait, ping, read, handling, req, token, grace, faults, stalls>>

\* Every turn of serve's loop waits with a new read deadline.
NextTurn == pc' = "serve" /\ read' = PingTimeout

Connect ==
    /\ pc = "connecting" /\ link = "none"
    /\ NextTurn /\ ping' = PingInterval /\ backoff' = InitialWait
    /\ link' = "up"
    /\ UNCHANGED <<wait, handling, inbox, req, token, grace, faults, stalls>>

\* Half to one and a half times the wait; the code picks one of them per URL.
jittered(base) == ((base + 1) \div 2)..((3 * base) \div 2)

ConnectFails ==
    /\ pc = "connecting" /\ link = "none"
    /\ faults < MaxFaults /\ faults' = faults + 1
    /\ pc' = "backoff" /\ wait' \in jittered(backoff)
    /\ UNCHANGED <<backoff, ping, read, handling, link, inbox, req, token, grace, stalls>>

\* The attempt has no timeout and does not look at the token.
ConnectHangs ==
    /\ pc = "connecting" /\ link = "none"
    /\ faults < MaxFaults /\ faults' = faults + 1
    /\ link' = "silent"
    /\ UNCHANGED <<taskVars, inbox, req, token, grace, stalls>>

\* Mutant: the wait ends the loop.
BackoffGivesUp ==
    /\ pc = "backoff"
    /\ wait = 0
    /\ pc' = "stopped"
    /\ UNCHANGED <<backoff, wait, ping, read, handling, link, inbox, req, token, grace,
                   faults, stalls>>

BackoffEnds ==
    /\ pc = "backoff"
    /\ wait = 0
    /\ pc' = "top" /\ backoff' = Min({2 * backoff, MaxWait})
    /\ UNCHANGED <<wait, ping, read, handling, link, inbox, req, token, grace, faults, stalls>>

BackoffCancelled ==
    /\ pc = "backoff" /\ token
    /\ pc' = "stopped" /\ wait' = 0
    /\ UNCHANGED <<backoff, ping, read, handling, link, inbox, req, token, grace, faults, stalls>>

(***************************************************************************)
(* serve: the branches of its select                                       *)
(***************************************************************************)
\* Mutant: cancellation interrupts the handler.
CancelledAnywhere ==
    /\ pc \in {"serve", "handle"} /\ token
    /\ pc' = "closing" /\ wait' = CloseDrainTimeout
    /\ UNCHANGED <<backoff, ping, read, handling, link, inbox, req, token, grace, faults, stalls>>

Cancelled ==
    /\ pc = "serve" /\ token
    /\ pc' = "closing" /\ wait' = CloseDrainTimeout
    /\ UNCHANGED <<backoff, ping, read, handling, link, inbox, req, token, grace, faults, stalls>>

PingTick ==
    /\ pc = "serve" /\ ping = 0
    /\ ping' = PingInterval
    /\ IF link = "closed" THEN pc' = "top" /\ UNCHANGED <<read, inbox>>
       ELSE /\ NextTurn
            /\ inbox' = IF link = "up" THEN Append(inbox, "pong") ELSE inbox
    /\ UNCHANGED <<backoff, wait, handling, link, req, token, grace, faults, stalls>>

\* A frame that does not parse is logged: no answer, the loop goes on.
ReadFrame ==
    /\ pc = "serve" /\ inbox # <<>>
    /\ inbox' = Tail(inbox)
    /\ \/ /\ Head(inbox) \in {"pong", "garbled"}
          /\ NextTurn /\ UNCHANGED <<handling, req>>
       \/ /\ Head(inbox) = "close"
          /\ pc' = "top" /\ UNCHANGED <<read, handling, req>>
       \/ /\ Head(inbox) \in Requests
          /\ pc' = "handle" /\ handling' = [Idle EXCEPT !.req = Head(inbox)]
          /\ req' = [req EXCEPT ![Head(inbox)].failed = FALSE]
          /\ UNCHANGED read
    /\ UNCHANGED <<backoff, wait, ping, link, token, grace, faults, stalls>>

ReadEnds ==
    /\ pc = "serve" /\ inbox = <<>>
    /\ link = "closed" \/ read = 0
    /\ pc' = "top"
    /\ UNCHANGED <<backoff, wait, ping, read, handling, link, inbox, req, token, grace,
                   faults, stalls>>

\* close_gracefully: the peer's echo, a link that is gone, or the drain's timeout.
CloseGracefully ==
    /\ pc = "closing"
    /\ link \in {"up", "closed"} \/ wait = 0
    /\ pc' = "stopped" /\ link' = "none" /\ inbox' = <<>> /\ wait' = 0
    /\ UNCHANGED <<backoff, ping, read, handling, req, token, grace, faults, stalls>>

(***************************************************************************)
(* handle_message: the engine's calls one by one, then the response        *)
(***************************************************************************)
Calling == pc = "handle" /\ ~handling.failed /\ handling.calls < Calls[handling.req]

HandlerCall ==
    /\ Calling
    /\ handling' = [handling EXCEPT !.calls = @ + 1]
    /\ req' = [req EXCEPT ![handling.req].stage = handling.calls + 1]
    /\ UNCHANGED <<pc, backoff, wait, ping, read, link, inbox, token, grace, faults, stalls>>

\* The provider reports an error, before or after its statement took effect.
HandlerCallFails ==
    /\ Calling
    /\ faults < MaxFaults /\ faults' = faults + 1
    /\ handling' = [handling EXCEPT !.failed = TRUE]
    /\ \E stage \in {req[handling.req].stage, handling.calls + 1} :
         req' = [req EXCEPT ![handling.req].stage = stage, ![handling.req].failed = TRUE]
    /\ UNCHANGED <<pc, backoff, wait, ping, read, link, inbox, token, grace, stalls>>

Answer(failed) == IF failed THEN "error" ELSE "ok"

\* A response that cannot be written is logged, and the loop goes on.
Respond ==
    /\ pc = "handle" /\ (handling.failed \/ handling.calls = Calls[handling.req])
    /\ req' = [req EXCEPT ![handling.req].answer =
                   IF link = "up" THEN Answer(handling.failed) ELSE @]
    /\ handling' = Idle
    /\ NextTurn
    /\ UNCHANGED <<backoff, wait, ping, link, inbox, token, grace, faults, stalls>>

TaskStep ==
    \/ LoopTop \/ Connect \/ BackoffEnds \/ BackoffCancelled
    \/ Cancelled \/ PingTick \/ ReadFrame \/ ReadEnds \/ CloseGracefully
    \/ HandlerCall \/ Respond

(***************************************************************************)
(* shutdown                                                                *)
(***************************************************************************)
Shutdown ==
    /\ ~token
    /\ token' = TRUE
    /\ UNCHANGED <<taskVars, link, inbox, req, grace, faults, stalls>>

\* Mutant: shutdown waits for the task, however long.
AbortNever == FALSE

\* The task is dropped at whatever it awaits.
Abort ==
    /\ token /\ grace = 0 /\ pc \notin {"stopped", "aborted"}
    /\ pc' = "aborted" /\ link' = "none" /\ inbox' = <<>> /\ wait' = 0
    /\ UNCHANGED <<backoff, ping, read, handling, req, token, grace, faults, stalls>>

(***************************************************************************)
(* The conductor and the network                                           *)
(***************************************************************************)
Pending(r) == handling.req = r \/ r \in Range(inbox)

Sends(frame) ==
    /\ link = "up" /\ pc \in {"serve", "handle"}
    /\ inbox' = Append(inbox, frame)
    /\ UNCHANGED <<taskVars, link, token, grace, stalls>>

Ask(r) ==
    /\ Sends(r) /\ req[r].answer = "none" /\ ~Pending(r)
    /\ UNCHANGED <<req, faults>>

\* What was told to have failed may be asked for again.
AskAgain(r) ==
    /\ Sends(r) /\ req[r].answer = "error"
    /\ req' = [req EXCEPT ![r].answer = "none"]
    /\ UNCHANGED faults

Garbles ==
    /\ Sends("garbled")
    /\ faults < MaxFaults /\ faults' = faults + 1
    /\ UNCHANGED req

Breaks ==
    /\ link = "up" /\ faults < MaxFaults /\ faults' = faults + 1
    /\ \/ link' = "closed" /\ UNCHANGED inbox
       \/ link' = "silent" /\ UNCHANGED inbox
       \/ link' = "closed" /\ inbox' = Append(inbox, "close")
    /\ UNCHANGED <<taskVars, req, token, grace, stalls>>

\* Can the task go on without waiting for a frame or a timer?
Busy ==
    \/ pc \in {"top", "handle"}
    \/ pc = "connecting" /\ link = "none"
    \/ pc = "backoff" /\ (wait = 0 \/ token)
    \/ pc = "serve" /\ (token \/ ping = 0 \/ read = 0 \/ inbox # <<>> \/ link = "closed")
    \/ pc = "closing" /\ (wait = 0 \/ link # "silent")

Less(t) == IF t = 0 THEN 0 ELSE t - 1

Tick ==
    /\ pc \notin {"stopped", "aborted"}
    /\ IF Busy THEN stalls < MaxStalls /\ stalls' = stalls + 1 ELSE UNCHANGED stalls
    /\ wait' = Less(wait) /\ ping' = Less(ping) /\ read' = Less(read)
    /\ grace' = IF token THEN Less(grace) ELSE grace
    /\ UNCHANGED <<pc, backoff, handling, link, inbox, req, token, faults>>

Ended == pc \in {"stopped", "aborted"}
Terminated == Ended /\ UNCHANGED vars

Next ==
    \/ TaskStep \/ ConnectFails \/ ConnectHangs \/ HandlerCallFails \/ Shutdown \/ Abort
    \/ (\E r \in Requests : Ask(r) \/ AskAgain(r)) \/ Garbles \/ Breaks \/ Tick \/ Terminated

Spec == Init /\ [][Next]_vars

(***************************************************************************)
(* Fairness: the task is scheduled, time passes, shutdown's own timeout    *)
(* fires, and the conductor asks for what it has no answer to.  Nothing    *)
(* obliges the network to break, or anyone to call shutdown.               *)
(***************************************************************************)
FairSpec ==
    /\ Spec
    /\ WF_vars(TaskStep) /\ WF_vars(Tick) /\ WF_vars(Abort)
    /\ \A r \in Requests : WF_vars(Ask(r))

(***************************************************************************)
(* Properties                                                              *)
(***************************************************************************)
Half(r) == req[r].stage \in 1..(Calls[r] - 1)
InHand(r) == pc = "handle" /\ handling.req = r

\* A request that was answered as successful is performed completely, although it may have failed
\* or been cut off before and begun anew on another connection; and what is left half done is left
\* so by a provider call that failed, which the answer says, or by the abort that follows the grace
\* period of shutdown: cancellation never tears a handler (the cancel-safety argument of serve).
RequestsWhole ==
    \A r \in Requests :
        /\ req[r].answer = "ok" => req[r].stage = Calls[r]
        /\ Half(r) /\ ~InHand(r) => req[r].failed \/ pc = "aborted"

\* shutdown returns in bounded time whatever the peer does: every phase the task can be in when
\* the token is cancelled ends, or is aborted.
ShutdownEnds == token ~> Ended

\* Every request that has no answer gets one in the end, of success or of failure, over as many
\* connections as it takes, unless the connection is shut down or goes silent.
Answered ==
    \A r \in Requests : req[r].answer = "none" ~> (req[r].answer # "none" \/ token \/ link = "silent")
==============================================================================
