------------------------------ MODULE StoreTypes ------------------------------
(***************************************************************************)
(* What the storage backends share: the columns of a workflow row, list    *)
(* filters, dequeue requests, and the code of provider.rs that is written  *)
(* once over the StateProvider trait.                                      *)
(*                                                                         *)
(* A missing text column is Null, a missing time is NoTime.  Payloads are  *)
(* small naturals, and where a payload is kept as text, beside it who wrote  *)
(* the text and under which format name.  Inputs, naming and               *)
(* authentication columns are left out, nothing below depends on them.     *)
(***************************************************************************)
EXTENDS Naturals, Sequences, FiniteSets

Null    == "null"
NoTime  == 0
NoLimit == 99       \* a limit the caller does not give, larger than any table

Reply(db, ret) == [db |-> db, ret |-> ret]

\* ORDER BY, sort_by: S in the order of Before, which has no ties in S.
Ordered(S, Before(_, _)) ==
    [i \in 1..Cardinality(S) |-> CHOOSE x \in S : Cardinality({y \in S : Before(y, x)}) = i - 1]

\* insert_workflow_status answers the row that is there now and whether this call created it.
Inserted(how, rows) == [how |-> how, rows |-> rows]

\* The columns of workflow_status.
Row ==
    [id : STRING, status : STRING, exec : STRING, version : STRING, queue : STRING, part : STRING,
     prio : Nat, dedup : STRING, attempts : Nat, parent : STRING, timed : BOOLEAN, deadline : Nat,
     started : Nat, limited : BOOLEAN, delay : Nat, completed : Nat, forked : STRING, out : Nat,
     text : [by : STRING, fmt : STRING], created : Nat]

(***************************************************************************)
(* Text columns.  by is what wrote the text: a serializer (base64 for      *)
(* DBOS_JSON; plain JSON, and errors in an envelope, for portable_json) or *)
(* the export of the in-memory store (plain JSON, errors as they are); fmt *)
(* is the format name recorded beside it, Null when there is none.         *)
(***************************************************************************)
DBOS_JSON == "DBOS_JSON"
PORTABLE  == "portable_json"

Text(by, fmt) == [by |-> by, fmt |-> fmt]

\* payload_str, with the null serialization column of status_to_map.
Plain == Text("memory", Null)

\* decode goes by the recorded name alone: plain JSON for portable_json, else base64.
decode(t) == (t.by # DBOS_JSON) <=> (t.fmt = PORTABLE)

\* decode_error unwraps an envelope only for portable_json.
decode_error(t) == t.by = PORTABLE => t.fmt = PORTABLE

\* serde_json::from_str on the text itself.
from_str(t) == t.by # DBOS_JSON

Garbled == 9        \* what a read answers for a text it cannot decode: mostly an error

\* WorkflowStatus::new: no queue, no owner columns, no times but created_at.
NewRow(id, status, exec, version, now) ==
    [id |-> id, status |-> status, exec |-> exec, version |-> version, queue |-> Null,
     part |-> Null, prio |-> 0, dedup |-> Null, attempts |-> 0, parent |-> Null,
     timed |-> FALSE, deadline |-> NoTime, started |-> NoTime, limited |-> FALSE,
     delay |-> NoTime, completed |-> NoTime, forked |-> Null, out |-> 0, text |-> Plain,
     created |-> now]

is_terminal(status) ==
    status \in {"SUCCESS", "ERROR", "CANCELLED", "MAX_RECOVERY_ATTEMPTS_EXCEEDED"}

is_completion(status) == status \in {"SUCCESS", "ERROR"}

InFlight == {"PENDING", "ENQUEUED", "DELAYED"}

\* The ListFilter that selects everything, oldest first.  {} means "not given".
NoFilter ==
    [ids |-> {}, status |-> {}, queue |-> {}, version |-> {}, exec |-> {}, forked |-> {},
     parent |-> {}, was |-> {}, hasParent |-> {}, queuesOnly |-> FALSE, start |-> NoTime,
     end |-> NoTime, after |-> NoTime, before |-> NoTime, desc |-> FALSE,
     limit |-> NoLimit, offset |-> 0]

(***************************************************************************)
(* An operation's outcome: output, error, neither (a patch marker), or the *)
(* id of a child workflow.                                                 *)
(***************************************************************************)
Outcome(tag, val, child) == [tag |-> tag, val |-> val, child |-> child]
Out(v)   == Outcome("output", v, Null)
Err(v)   == Outcome("error", v, Null)
Child(c) == Outcome("none", 0, c)
Marker   == Outcome("none", 0, Null)
NullOut  == Out(0)

CLOSED == 0         \* STREAM_CLOSED_SENTINEL

\* The newer of the two bounds: the threshold, when one is given, stands for the creation time
\* of the row that newest found, the listing with limit 1 at offset threshold - 1.
resolve_gc_cutoff(newest, cutoff, threshold) ==
    IF threshold # NoLimit /\ newest # <<>> /\ newest[1].created > cutoff
      THEN newest[1].created ELSE cutoff

\* A threshold that is not positive is an error before anything is read.
BadThreshold(threshold) == threshold = 0

NthNewest(threshold) == [NoFilter EXCEPT !.desc = TRUE, !.limit = 1, !.offset = threshold - 1]
=============================================================================
