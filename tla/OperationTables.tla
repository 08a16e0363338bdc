--------------------------- MODULE OperationTables ---------------------------
(***************************************************************************)
(* The PostgreSQL tables behind the durable operations of DurableContext:  *)
(* operation_outputs (with its function_name column), notifications,       *)
(* workflow_events and streams, and the statements that act on them.  As   *)
(* in WorkflowStore every operator maps what one statement (or one short   *)
(* transaction) finds to what it leaves.                                   *)
(*                                                                         *)
(* Payloads are small naturals.  A received message is recorded by its     *)
(* position in notifications, which identifies the row that was consumed.  *)
(***************************************************************************)
EXTENDS Naturals, Sequences, FiniteSets

CONSTANTS
    Ids,        \* workflow ids
    Topics,
    Keys,       \* idempotency keys of senders outside a workflow
    NoKey,      \* an unkeyed send: a fresh message_uuid every time
    MaxSlots    \* bound: durable operations (step positions) of a workflow

ASSUME TablesAssumption ==
    /\ NoKey \notin Keys
    /\ MaxSlots \in Nat \ {0}

Slots == 0..(MaxSlots - 1)

(***************************************************************************)
(* operation_outputs.  tag says which column holds the outcome: a value, a *)
(* JSON null, a wake-up time, a message, a child_workflow_id, an error, or *)
(* nothing at all (a patch marker).                                        *)
(***************************************************************************)
Tags == {"none", "val", "null", "time", "msg", "child", "marker", "fail"}

Outcome(tag, val) == [tag |-> tag, val |-> val]
Unrecorded == [name |-> "none", tag |-> "none", val |-> 0]
Entry(name, o) == [name |-> name, tag |-> o.tag, val |-> o.val]

NoOutcome == Outcome("none", 0)
Null      == Outcome("null", 0)
Failed    == Outcome("fail", 0)
Marker    == Outcome("marker", 0)

OutcomeOf(entry) == Outcome(entry.tag, entry.val)
IsRecorded(entry) == entry # Unrecorded

\* INSERT ... ON CONFLICT (workflow_uuid, function_id) DO NOTHING.
record_operation(log, k, name, o) ==
    IF IsRecorded(log[k]) THEN log ELSE [log EXCEPT ![k] = Entry(name, o)]

record_patch(log, k, name) == record_operation(log, k, name, Marker)

record_child_workflow(log, k, name, child) ==
    record_operation(log, k, name, Outcome("child", child))

check_child_workflow(log, k) ==
    IF log[k].tag = "child" THEN OutcomeOf(log[k]) ELSE NoOutcome

get_step_name(log, k) == log[k].name

(***************************************************************************)
(* notifications, in the order of insertion.  created_at is a millisecond  *)
(* timestamp, so several messages may share it, and rows are only ever     *)
(* marked consumed: a keyed duplicate conflicts with the consumed row too. *)
(***************************************************************************)
Notification ==
    [dest : Ids, topic : Topics, key : Keys \cup {NoKey}, created : Nat, consumed : BOOLEAN]

insert_notification(notes, dest, topic, key, now) ==
    IF key # NoKey /\ \E i \in DOMAIN notes : notes[i].key = key /\ notes[i].dest = dest
      THEN notes
      ELSE Append(notes, [dest |-> dest, topic |-> topic, key |-> key, created |-> now,
                          consumed |-> FALSE])

Unconsumed(notes, dest, topic) ==
    {i \in DOMAIN notes : notes[i].dest = dest /\ notes[i].topic = topic /\ ~notes[i].consumed}

\* ORDER BY created_at_epoch_ms LIMIT 1: any of the messages with the least stamp.
OldestEntry(notes, dest, topic) ==
    {i \in Unconsumed(notes, dest, topic) :
        \A j \in Unconsumed(notes, dest, topic) : notes[i].created <= notes[j].created}

\* The UPDATE names the message by its id only: it does not look at consumed again.
MarkConsumed(notes, i) == [notes EXCEPT ![i].consumed = TRUE]

(***************************************************************************)
(* workflow_events, one key per workflow; 0 when it is not set.            *)
(***************************************************************************)
upsert_event(events, w, v) == [events EXCEPT ![w] = v]

get_event_value(events, w) == IF events[w] = 0 THEN NoOutcome ELSE Outcome("val", events[w])

(***************************************************************************)
(* streams, one key per workflow.  The offset of an entry is its position. *)
(***************************************************************************)
CLOSED == 0     \* STREAM_CLOSED_SENTINEL

StreamEntry == [val : Nat, slot : Slots]

IsClosed(stream) == \E i \in DOMAIN stream : stream[i].val = CLOSED

\* MAX(offset) + 1 is the next position.
AppendEntry(stream, v, k) == Append(stream, [val |-> v, slot |-> k])

\* What read_stream returns: the entries from an offset up to the sentinel.
Visible(stream) ==
    IF IsClosed(stream)
      THEN SubSeq(stream, 1, (CHOOSE i \in DOMAIN stream :
                                /\ stream[i].val = CLOSED
                                /\ \A j \in 1..(i-1) : stream[j].val # CLOSED) - 1)
      ELSE stream

read_stream(stream, from) ==
    [values |-> SubSeq(Visible(stream), from + 1, Len(Visible(stream))),
     closed |-> IsClosed(stream)]
=============================================================================
