----------------- MODULE DurableOperations_scenarios_proofs -----------------
(***************************************************************************)
(* Streams, and what is true of whole scenarios: in a Solo one no two      *)
(* executions of a workflow overlap, in a Straight one replay finds what   *)
(* it expects, and in an Unfailing one no workflow fails.                  *)
(***************************************************************************)
EXTENDS DurableOperations_proofs

(***************************************************************************)
(* Streams.  Where no two executions of a workflow overlap, the stream is  *)
(* still open, and no longer than it was, when the entry is inserted after *)
(* the check for the sentinel.                                             *)
(***************************************************************************)
\* A reader of s finds what was written at position k.
Shows(s, k) == \E i \in DOMAIN Visible(s) : Visible(s)[i].slot = k

InStream(w, k) == Shows(streams[w], k)

Streaming(t) ==
    /\ tasks[t].pc = "append" => /\ ~IsClosed(streams[tasks[t].wf])
                                 /\ tasks[t].pick = Len(streams[tasks[t].wf])
    /\ tasks[t].pc = "record" /\ CurOp(t).op = "writeStream" => InStream(tasks[t].wf, tasks[t].seq)

Flow == WritesVisible /\ \A t \in Tasks : Streaming(t)

\* An entry in front of the sentinel is visible, and hides nothing.
LEMMA AppendVisible ==
    ASSUME NEW s \in Seq(StreamEntry), ~IsClosed(s), NEW e \in StreamEntry, NEW r, r = Append(s, e)
    PROVE  /\ r \in Seq(StreamEntry) /\ Len(s) <= Len(Visible(r))
           /\ \A i \in 1..Len(s) : Visible(r)[i] = s[i] /\ r[i] = s[i]
           /\ e.val # CLOSED => ~IsClosed(r) /\ Len(Visible(r)) = Len(s) + 1
           /\ e.val # CLOSED => Visible(r)[Len(s) + 1] = e
<1>1. /\ r \in Seq(StreamEntry) /\ Len(r) = Len(s) + 1 /\ r[Len(s) + 1] = e
      /\ \A i \in 1..Len(s) : r[i] = s[i]
  BY AppendProperties
<1>2. /\ Len(s) \in Nat /\ DOMAIN s = 1..Len(s) /\ DOMAIN r = 1..(Len(s) + 1)
  BY <1>1, LenProperties
<1>3. \A i \in 1..Len(s) : s[i].val # CLOSED
  BY <1>2 DEF IsClosed
<1> DEFINE v == Visible(r)
<1>4. /\ v \in Seq(StreamEntry) /\ Len(v) \in 0..Len(r) /\ \A i \in 1..Len(v) : v[i] = r[i]
      /\ IsClosed(r) => Len(v) + 1 \in 1..Len(r) /\ r[Len(v) + 1].val = CLOSED
      /\ ~IsClosed(r) => v = r
  BY <1>1, VisibleIs
<1> HIDE DEF v
<1>5. Len(v) \in Nat /\ Len(s) <= Len(v)
  BY <1>1, <1>2, <1>3, <1>4
<1>6. \A i \in 1..Len(s) : v[i] = s[i]
  BY <1>1, <1>2, <1>4, <1>5
<1>7. ASSUME e.val # CLOSED PROVE ~IsClosed(r)
  <2>1. \A i \in 1..(Len(s) + 1) : r[i].val # CLOSED
    BY <1>1, <1>2, <1>3, <1>7
  <2> QED
    BY <1>2, <2>1 DEF IsClosed
<1> QED
  BY <1>1, <1>4, <1>5, <1>6, <1>7 DEF v

LEMMA AppendShows ==
    ASSUME NEW s \in Seq(StreamEntry), ~IsClosed(s), NEW e \in StreamEntry, NEW r, r = Append(s, e)
    PROVE  /\ \A j : Shows(s, j) => Shows(r, j)
           /\ e.val # CLOSED => Shows(r, e.slot)
<1> DEFINE v == Visible(r)
<1>1. r \in Seq(StreamEntry) /\ Len(s) <= Len(v)
  BY AppendVisible
<1>2. \A i \in 1..Len(s) : v[i] = s[i]
  BY AppendVisible
<1>3. e.val # CLOSED => Len(v) = Len(s) + 1 /\ v[Len(s) + 1] = e
  BY AppendVisible
<1>4. /\ Visible(s) = s /\ Len(s) \in Nat /\ DOMAIN s = 1..Len(s)
      /\ Len(v) \in Nat /\ DOMAIN v = 1..Len(v)
  BY <1>1, VisibleIs, LenProperties
<1> HIDE DEF v
<1>5. ASSUME NEW j, Shows(s, j) PROVE Shows(r, j)
  <2>1. PICK i \in 1..Len(s) : s[i].slot = j
    BY <1>4, <1>5 DEF Shows
  <2>2. i \in DOMAIN v
    BY <1>1, <1>4, <2>1
  <2>3. v[i].slot = j
    BY <1>2, <2>1
  <2> QED
    BY <2>2, <2>3 DEF Shows, v
<1>6. ASSUME e.val # CLOSED PROVE Shows(r, e.slot)
  <2>0. Len(v) = Len(s) + 1
    BY <1>3, <1>6
  <2>1. Len(s) + 1 \in DOMAIN v
    BY <1>4, <2>0
  <2>2. v[Len(s) + 1].slot = e.slot
    BY <1>3, <1>6
  <2> QED
    BY <2>1, <2>2 DEF Shows, v
<1> QED
  BY <1>5, <1>6

\* What a step does to a task that neither checks a stream nor appends to it.
Dry(u) ==
    \/ tasks'[u] = tasks[u]
    \/ tasks'[u].pc \notin {"append", "record"}
    \/ tasks'[u].pc = "record" /\ CurOp(u)'.op # "writeStream"

NoWrites == \A w \in Ids, k \in Slots : out'[w][k].name = "writeStream" => out[w][k].name = "writeStream"

LEMMA DryStreaming ==
    ASSUME Types, NEW u \in Tasks, Streaming(u), Dry(u), UNCHANGED sc,
           tasks[u].pc # "idle" => streams'[tasks[u].wf] = streams[tasks[u].wf]
    PROVE  Streaming(u)'
<1>1. CASE tasks'[u] = tasks[u]
  BY <1>1 DEF Streaming, InStream, CurOp
<1>2. CASE tasks'[u].pc \notin {"append", "record"}
  BY <1>2 DEF Streaming
<1>3. CASE tasks'[u].pc = "record" /\ CurOp(u)'.op # "writeStream"
  BY <1>3 DEF Streaming
<1> QED
  BY <1>1, <1>2, <1>3 DEF Dry

LEMMA DryFlow ==
    ASSUME Types, Flow, \A u \in Tasks : Dry(u), NoWrites, UNCHANGED <<sc, streams>>
    PROVE  Flow'
<1>1. \A u \in Tasks : Streaming(u)'
  BY DryStreaming DEF Flow
<1>2. WritesVisible'
  BY DEF Flow, WritesVisible, NoWrites
<1> QED
  BY <1>1, <1>2 DEF Flow

LEMMA WroteNone ==
    ASSUME NEW w, NEW k, NEW e, Wrote(w, k, e), e.name # "writeStream"
    PROVE  NoWrites
  BY DEF Wrote, NoWrites

LEMMA HopDry ==
    ASSUME NEW t \in Tasks
    PROVE  /\ \A P : Hop(t, P) /\ P \cap {"append", "record"} = {} => \A u \in Tasks : Dry(u)
           /\ \A P : Hop(t, P) /\ P \cap {"append"} = {} /\ UNCHANGED sc /\ CurOp(t).op # "writeStream"
                       => \A u \in Tasks : Dry(u)
           /\ \A o, n, ip : Went(t, o, n, ip) => \A u \in Tasks : Dry(u)
<1>1. ASSUME NEW P, Hop(t, P), P \cap {"append", "record"} = {} PROVE \A u \in Tasks : Dry(u)
  BY <1>1 DEF Hop, Others, Dry
<1>2. ASSUME NEW P, Hop(t, P), P \cap {"append"} = {}, UNCHANGED sc, CurOp(t).op # "writeStream"
      PROVE  \A u \in Tasks : Dry(u)
  <2>1. CurOp(t)' = CurOp(t)
    BY <1>2 DEF Hop, CurOp
  <2> QED
    BY <1>2, <2>1 DEF Hop, Others, Dry
<1>3. ASSUME NEW o, NEW n, NEW ip, Went(t, o, n, ip) PROVE \A u \in Tasks : Dry(u)
  BY <1>3 DEF Went, Others, Dry
<1> QED
  BY <1>1, <1>2, <1>3

LEMMA TaskDry ==
    ASSUME Types, NEW t \in Tasks,
           \/ ReplayHit(t) \/ ReplayMiss(t) \/ Guard(t) \/ ChildLookup(t) \/ PatchLookup(t)
              \/ deprecate_patch(t) \/ AwaitChild(t)
           \/ Produce(t) \/ GetEvent(t) \/ RecvSelect(t)
           \/ Expire(t) \/ TxGiveUp(t)
           \/ RecvCommit(t) \/ TxCommit(t) \/ Link(t) \/ PatchMark(t)
           \/ DeadlineKnown(t) \/ FixDeadline(t) \/ Sleep(t) \/ Subscribe(t) \/ WakeUp(t)
           \/ SetEvent(t) \/ Send(t)
           \/ conflict_retry_wait(t) \/ TxConflict(t) \/ TxCommitLost(t) \/ TxBodyFails(t)
    PROVE  (\A u \in Tasks : Dry(u)) /\ NoWrites /\ UNCHANGED <<sc, streams>>
<1> USE HopDry DEF outside
<1>0. out' = out => NoWrites
  BY DEF NoWrites
<1>1. CASE ReplayHit(t) \/ ReplayMiss(t) \/ ChildLookup(t) \/ AwaitChild(t)
  BY <1>0, <1>1, ReplayHitIs, ReplayMissIs, ChildLookupIs, AwaitChildIs DEF Still
<1>2. CASE PatchLookup(t) \/ deprecate_patch(t)
  BY <1>0, <1>2, PatchIs DEF Still
<1>3. CASE Guard(t) \/ Subscribe(t) \/ WakeUp(t)
  <2>1. Still /\ \E P : P \cap {"append", "record"} = {} /\ Hop(t, P)
    BY <1>3, PlainHops
  <2> QED
    BY <1>0, <2>1 DEF Still
<1>4. CASE Produce(t) \/ SetEvent(t)
  <2>1. Still /\ Hop(t, {"record"}) /\ CurOp(t).op # "writeStream"
    BY <1>4, PlainHops
  <2> QED
    BY <1>0, <2>1 DEF Still
<1>5. CASE conflict_retry_wait(t) \/ TxConflict(t) \/ TxBodyFails(t)
  <2>1. Still /\ \E P : P \cap {"append", "record"} = {} /\ Hop(t, P)
    BY <1>5, TxHops
  <2> QED
    BY <1>0, <2>1 DEF Still
<1>6. CASE GetEvent(t) \/ DeadlineKnown(t) \/ Sleep(t)
  BY <1>0, <1>6, GetEventIs, DeadlineKnownIs, SleepIs DEF Still
<1>7. CASE RecvSelect(t)
  BY <1>0, <1>7, RecvSelectIs DEF Still
<1>8. CASE Send(t)
  BY <1>0, <1>8, SendIs
<1>9. ASSUME tasks[t].pc \notin {"idle", "finish"}, CurOp(t).op # "writeStream", NEW o \in OutcomeType
      PROVE  Entry(CurOp(t).name, o).name # "writeStream"
  <2>1. CurOp(t).name # "writeStream" /\ CurOp(t).name \in Names
    BY <1>9, OpNames
  <2> QED
    BY <2>1, EntryOutcome
<1>10. CASE Expire(t)
  <2>1. CurOp(t).op # "writeStream" /\ tasks[t].pc = "expire"
    BY <1>10, ExpireIs DEF Waiting
  <2>2. Entry(CurOp(t).name, Null).name # "writeStream"
    BY <1>9, <2>1, OutcomeTypes
  <2> QED
    BY <1>10, <2>2, ExpireIs, WroteNone DEF LogOnly
<1>11. CASE TxGiveUp(t)
  <2>1. Entry(CurOp(t).name, Failed).name # "writeStream"
    BY <1>9, <1>11, TxGiveUpIs, OutcomeTypes
  <2>2. \A u \in Tasks : Dry(u)
    BY <1>11, TxGiveUpIs DEF Others, Dry
  <2> QED
    BY <1>11, <2>1, <2>2, TxGiveUpIs, WroteNone DEF LogOnly
<1>12. CASE Link(t)
  <2>1. Outcome("child", 0) \in OutcomeType
    BY OutcomeTypes DEF Tags
  <2>2. Entry(CurOp(t).name, Outcome("child", 0)).name # "writeStream"
    BY <1>9, <1>12, <2>1, LinkIs
  <2> QED
    BY <1>12, <2>2, LinkIs, WroteNone DEF LogOnly
<1>13. CASE PatchMark(t)
  <2>1. Entry(CurOp(t).name, Marker).name # "writeStream"
    BY <1>9, <1>13, PatchMarkIs, OutcomeTypes
  <2> QED
    BY <1>13, <2>1, PatchMarkIs, WroteNone DEF LogOnly
<1>14. CASE FixDeadline(t)
  <2> DEFINE o == Outcome("time", now + CurOp(t).wait)
  <2>1. o \in OutcomeType /\ Wrote(tasks[t].wf, DeadlineSlot(t), Entry("sleep", o))
    BY <1>14, FixDeadlineIs
  <2> HIDE DEF o
  <2>2. Entry("sleep", o).name # "writeStream"
    BY <2>1, EntryOutcome, OperationsAssumption
  <2>3. NoWrites
    BY <2>1, <2>2, WroteNone
  <2>4. \A u \in Tasks : Dry(u)
    BY <1>14, FixDeadlineIs
  <2> QED
    BY <1>14, <2>3, <2>4, FixDeadlineIs DEF LogOnly
<1>15. CASE RecvCommit(t)
  <2> DEFINE o == Outcome("msg", tasks[t].pick)
  <2>1. /\ tasks[t].pc = "claim" /\ CurOp(t).op = "recv" /\ UNCHANGED <<sc, streams>>
        /\ o \in OutcomeType /\ Wrote(tasks[t].wf, tasks[t].seq, Entry(CurOp(t).name, o))
        /\ Went(t, o, SlotsOf(CurOp(t)), CurOp(t).next)
    BY <1>15, RecvCommitIs
  <2> HIDE DEF o
  <2>2. Entry(CurOp(t).name, o).name # "writeStream"
    BY <1>9, <2>1
  <2> QED
    BY <2>1, <2>2, WroteNone
<1>16. CASE TxCommit(t)
  <2>1. tasks[t].pc = "body" /\ CurOp(t).op = "tx" /\ UNCHANGED <<sc, streams>>
    BY <1>16, TxCommitIs
  <2>2. PICK o \in OutcomeType : /\ Wrote(tasks[t].wf, tasks[t].seq, Entry(CurOp(t).name, o))
                                 /\ Went(t, o, SlotsOf(CurOp(t)), CurOp(t).next)
    BY <1>16, TxCommitIs
  <2>3. Entry(CurOp(t).name, o).name # "writeStream"
    BY <1>9, <2>1
  <2> QED
    BY <2>1, <2>2, <2>3, WroteNone
<1>17. CASE TxCommitLost(t)
  <2>1. tasks[t].pc = "body" /\ CurOp(t).op = "tx" /\ UNCHANGED <<sc, streams>> /\ Hop(t, {"retry"})
    BY <1>17, TxCommitLostIs
  <2>2. PICK o \in OutcomeType : Wrote(tasks[t].wf, tasks[t].seq, Entry(CurOp(t).name, o))
    BY <1>17, TxCommitLostIs
  <2>3. Entry(CurOp(t).name, o).name # "writeStream"
    BY <1>9, <2>1
  <2> QED
    BY <2>1, <2>2, <2>3, WroteNone
<1> QED
  BY <1>1, <1>2, <1>3, <1>4, <1>5, <1>6, <1>7, <1>8, <1>10, <1>11, <1>12, <1>13, <1>14, <1>15, <1>16, <1>17

\* The checkpoint of a write follows its entry.
LEMMA RecordFlow ==
    ASSUME Types, Flow, NEW t \in Tasks, RecordOutcome(t)
    PROVE  Flow'
<1> DEFINE w == tasks[t].wf
           k == tasks[t].seq
           e == Entry(CurOp(t).name, tasks[t].got)
<1>1. /\ tasks[t].pc = "record" /\ UNCHANGED <<sc, streams>> /\ Wrote(w, k, e)
      /\ tasks[t].got \in OutcomeType
      /\ \A u \in Tasks : Dry(u)
  BY RecordOutcomeIs, HopDry DEF LogOnly, outside
<1>2. w \in Ids /\ k \in Slots /\ (CurOp(t).name = "writeStream" => CurOp(t).op = "writeStream")
      /\ CurOp(t).name \in Names
  BY <1>1, TaskFacts, OpNames
<1>3. e.name = "writeStream" => InStream(w, k)
  BY <1>1, <1>2, EntryOutcome DEF Flow, Streaming
<1> HIDE DEF w, k, e
<1>4. ASSUME NEW x \in Ids, NEW j \in Slots, out'[x][j].name = "writeStream" PROVE InStream(x, j)
  <2>1. out'[x][j] = out[x][j] \/ (out'[x][j] = e /\ x = w /\ j = k)
    BY <1>1 DEF Wrote
  <2> QED
    BY <1>3, <1>4, <2>1 DEF Flow, WritesVisible, InStream, Shows
<1>5. WritesVisible'
  BY <1>1, <1>4 DEF WritesVisible, InStream, Shows
<1>6. \A u \in Tasks : Streaming(u)'
  BY <1>1, DryStreaming DEF Flow
<1> QED
  BY <1>5, <1>6 DEF Flow

LEMMA CheckFlow ==
    ASSUME Types, Flow, NEW t \in Tasks, StreamCheck(t)
    PROVE  Flow'
<1>1. UNCHANGED <<sc, streams, out>>
  BY StreamCheckIs DEF Still, outside
<1>2. WritesVisible'
  BY <1>1 DEF Flow, WritesVisible
<1>3. CASE Hop(t, {"finish"})
  BY <1>1, <1>3, HopDry, DryFlow DEF NoWrites
<1>4. CASE /\ Hop(t, {"append"}) /\ ~IsClosed(streams[tasks[t].wf])
           /\ tasks'[t].pick = Len(streams[tasks[t].wf])
  <2>1. Streaming(t)'
    BY <1>1, <1>4 DEF Hop, Streaming
  <2>2. \A u \in Tasks \ {t} : Streaming(u)'
    BY <1>1, <1>4, DryStreaming DEF Flow, Hop, Others, Dry
  <2> QED
    BY <1>2, <2>1, <2>2 DEF Flow
<1> QED
  BY <1>3, <1>4, StreamCheckIs

\* What an append does to the stream it is for, which is open, and to the others.
LEMMA AppendIs ==
    ASSUME Types, Flow, NEW t \in Tasks, StreamAppend(t)
    PROVE  /\ tasks[t].pc = "append" /\ tasks[t].wf \in Ids /\ tasks[t].seq \in Slots
           /\ ~IsClosed(streams[tasks[t].wf])
           /\ streams \in [Ids -> Seq(StreamEntry)]
           /\ UNCHANGED <<outside, rows, out, notes, effects, faults>>
           /\ Hop(t, {"record"})
           /\ [val |-> StreamValue(CurOp(t)), slot |-> tasks[t].seq] \in StreamEntry
           /\ streams'[tasks[t].wf] = Append(streams[tasks[t].wf],
                                             [val |-> StreamValue(CurOp(t)), slot |-> tasks[t].seq])
           /\ \A x \in Ids \ {tasks[t].wf} : streams'[x] = streams[x]
<1>1. tasks[t].pc = "append" /\ CurOp(t).op \in StreamOps /\ CurOp(t) \in Operation
      /\ UNCHANGED <<outside, rows, out, notes, effects, faults>>
  BY StreamAppendIs
<1>2. tasks[t].wf \in Ids /\ tasks[t].seq \in Slots /\ tasks[t] \in Task
      /\ streams \in [Ids -> Seq(StreamEntry)]
  BY <1>1, TaskFacts DEF Types, TypeOK
<1>3. ~IsClosed(streams[tasks[t].wf]) /\ tasks[t].pick = Len(streams[tasks[t].wf])
  BY <1>1 DEF Flow, Streaming
<1>4. tasks[t].pick \in Nat
  BY <1>2 DEF Task
<1>5. ~(Len(streams[tasks[t].wf]) > tasks[t].pick)
  BY <1>3, <1>4
<1>6. StreamValue(CurOp(t)) \in Nat
  BY <1>1 DEF StreamValue, CLOSED, Operation
<1>7. [val |-> StreamValue(CurOp(t)), slot |-> tasks[t].seq] \in StreamEntry
  BY <1>2, <1>6 DEF StreamEntry
<1> QED
  BY <1>1, <1>2, <1>3, <1>5, <1>7, StreamAppendIs

LEMMA AppendFlow ==
    ASSUME Types, Flow, Alone, NEW t \in Tasks, StreamAppend(t)
    PROVE  Flow'
<1> DEFINE w == tasks[t].wf
           k == tasks[t].seq
           e == [val |-> StreamValue(CurOp(t)), slot |-> k]
           s == streams[w]
           r == streams'[w]
<1>1. /\ w \in Ids /\ k \in Slots /\ ~IsClosed(s) /\ s \in Seq(StreamEntry) /\ UNCHANGED <<sc, out>>
      /\ e \in StreamEntry /\ r = Append(s, e) /\ e.slot = k
      /\ \A x \in Ids \ {w} : streams'[x] = streams[x]
      /\ tasks[t].pc = "append" /\ Hop(t, {"record"})
  BY AppendIs DEF outside
<1>2. CurOp(t).op = "writeStream" => e.val # CLOSED
  BY <1>1, OpNames DEF StreamValue
<1> HIDE DEF e, s, r
<1>3. (\A j : Shows(s, j) => Shows(r, j)) /\ (e.val # CLOSED => Shows(r, k))
  BY <1>1, AppendShows
<1>4. Streaming(t)'
  <2>1. CurOp(t)' = CurOp(t) /\ tasks'[t].pc = "record" /\ tasks'[t].wf = w /\ tasks'[t].seq = k
    BY <1>1 DEF Hop, CurOp
  <2>2. CurOp(t).op = "writeStream" => Shows(streams'[w], k)
    BY <1>2, <1>3 DEF r
  <2> QED
    BY <2>1, <2>2 DEF Streaming, InStream
<1>5. ASSUME NEW u \in Tasks \ {t} PROVE Streaming(u)'
  <2>1. tasks'[u] = tasks[u]
    BY <1>1 DEF Hop, Others
  <2>2. tasks[u].pc # "idle" => tasks[u].wf \in Ids \ {w}
    BY <1>1 DEF Alone, Busy, Types, Fit
  <2> QED
    BY <1>1, <2>1, <2>2, DryStreaming DEF Flow, Dry
<1>6. WritesVisible'
  <2> SUFFICES ASSUME NEW x \in Ids, NEW j \in Slots, out[x][j].name = "writeStream"
               PROVE  Shows(streams'[x], j)
    BY <1>1 DEF WritesVisible, Shows
  <2>1. Shows(streams[x], j)
    BY DEF Flow, WritesVisible, Shows
  <2>2. CASE x = w
    BY <1>3, <2>1, <2>2 DEF s, r
  <2>3. CASE x # w
    BY <1>1, <2>1, <2>3
  <2> QED
    BY <2>2, <2>3
<1> QED
  BY <1>4, <1>5, <1>6 DEF Flow

LEMMA FlowInit == Init => Flow
<1> SUFFICES ASSUME Init PROVE Flow
  OBVIOUS
<1>1. \A w \in Ids, k \in Slots : out[w][k].name # "writeStream"
  BY DEF Init, Unrecorded
<1>2. \A t \in Tasks : tasks[t].pc = "idle"
  BY DEF Init, IdleTask
<1> QED
  BY <1>1, <1>2 DEF Flow, WritesVisible, Streaming

LEMMA CalmDry ==
    ASSUME Types, UNCHANGED <<sc, out>>, \A u \in Tasks : Calm(u)
    PROVE  (\A u \in Tasks : Dry(u)) /\ NoWrites
<1>1. ASSUME NEW u \in Tasks PROVE Dry(u)
  BY DEF Calm, Dry, Fresh, Pushed
<1> QED
  BY <1>1 DEF NoWrites

LEMMA PostCalm ==
    ASSUME NEW p \in sc.posts, Post(p)
    PROVE  (\A u \in Tasks : Calm(u)) /\ UNCHANGED <<sc, out, streams, effects, rows, tasks, reader>>
  BY DEF Post, Calm

LEMMA FlowNext == Types /\ Alone /\ Flow /\ [Next]_vars => Flow'
<1> SUFFICES ASSUME Types, Alone, Flow, [Next]_vars PROVE Flow'
  OBVIOUS
<1>1. ASSUME (\A u \in Tasks : Dry(u)) /\ NoWrites /\ UNCHANGED <<sc, streams>> PROVE Flow'
  BY <1>1, DryFlow
<1>2. ASSUME \A u \in Tasks : Calm(u), UNCHANGED <<sc, out, streams>> PROVE Flow'
  BY <1>1, <1>2, CalmDry
<1>3. CASE UNCHANGED vars
  BY <1>2, <1>3 DEF vars, tables, Calm
<1>4. ASSUME (\A u \in Tasks : Calm(u)) /\ UNCHANGED <<sc, out, notes, streams, effects>> PROVE Flow'
  BY <1>2, <1>4
<1>5. ASSUME NEW p \in sc.posts, Post(p) PROVE Flow'
  BY <1>2, <1>5, PostCalm
<1>6. CASE Next
  BY <1>1, <1>4, <1>5, <1>6, NextIs, TaskDry, RestCalm, RecordFlow, CheckFlow, AppendFlow, Zenon
<1> QED
  BY <1>3, <1>6

(***************************************************************************)
(* What the statements of a function leave alone                           *)
(***************************************************************************)
LEMMA TaskRows ==
    ASSUME Types, NEW t \in Tasks,
           \/ ReplayHit(t) \/ ReplayMiss(t) \/ Guard(t) \/ ChildLookup(t) \/ PatchLookup(t)
              \/ deprecate_patch(t) \/ AwaitChild(t)
           \/ Produce(t) \/ GetEvent(t) \/ RecvSelect(t) \/ StreamCheck(t)
           \/ RecordOutcome(t) \/ Expire(t) \/ TxGiveUp(t)
           \/ RecvCommit(t) \/ TxCommit(t) \/ Link(t) \/ PatchMark(t)
           \/ DeadlineKnown(t) \/ FixDeadline(t) \/ Sleep(t) \/ Subscribe(t) \/ WakeUp(t)
           \/ Send(t) \/ SetEvent(t) \/ StreamAppend(t)
           \/ conflict_retry_wait(t) \/ TxConflict(t) \/ TxCommitLost(t) \/ TxBodyFails(t)
    PROVE  /\ UNCHANGED <<sc, version, rows, recover, reader>>
           /\ tasks[t].pc # "idle" /\ Others(t) /\ tasks'[t].pc # "idle" /\ tasks'[t].wf = tasks[t].wf
           /\ faults' = faults \/ Fault("conflict") \/ Fault("lost") \/ Fault("body")
<1> DEFINE Same == /\ UNCHANGED <<sc, version, rows, recover, reader>>
                   /\ tasks[t].pc # "idle"
                   /\ faults' = faults \/ Fault("conflict") \/ Fault("lost") \/ Fault("body")
           Own  == Others(t) /\ tasks'[t].pc # "idle" /\ tasks'[t].wf = tasks[t].wf
<1>h. /\ \A P : Hop(t, P) /\ "idle" \notin P => Own
      /\ \A o, n, ip : Went(t, o, n, ip) => Own
  BY DEF Hop, Went
<1> SUFFICES Same /\ Own
  BY DEF Same, Own
<1> HIDE DEF Own
<1> USE <1>h DEF outside
<1>1. CASE ReplayHit(t) \/ ReplayMiss(t) \/ ChildLookup(t) \/ AwaitChild(t)
  BY <1>1, ReplayHitIs, ReplayMissIs, ChildLookupIs, AwaitChildIs DEF Still
<1>2. CASE PatchLookup(t) \/ deprecate_patch(t)
  BY <1>2, PatchIs DEF Still
<1>3. CASE Guard(t) \/ Produce(t) \/ Subscribe(t) \/ WakeUp(t) \/ SetEvent(t)
  <2>1. (\E P : "idle" \notin P /\ Hop(t, P)) /\ Still /\ tasks[t].pc # "idle" /\ UNCHANGED faults
    BY <1>3, PlainHops
  <2> QED
    BY <2>1 DEF Still
<1>4. CASE conflict_retry_wait(t) \/ TxConflict(t) \/ TxBodyFails(t)
  <2>1. (\E P : "idle" \notin P /\ Hop(t, P)) /\ Still /\ tasks[t].pc # "idle"
        /\ (faults' = faults \/ Fault("conflict") \/ Fault("body"))
    BY <1>4, TxHops
  <2> QED
    BY <2>1 DEF Still
<1>5. CASE GetEvent(t) \/ StreamCheck(t) \/ DeadlineKnown(t) \/ Sleep(t) \/ RecvSelect(t)
  BY <1>5, GetEventIs, StreamCheckIs, DeadlineKnownIs, SleepIs, RecvSelectIs DEF Still
<1>6. CASE RecordOutcome(t) \/ Expire(t) \/ Link(t) \/ PatchMark(t) \/ FixDeadline(t)
  BY <1>6, RecordOutcomeIs, ExpireIs, LinkIs, PatchMarkIs, FixDeadlineIs DEF LogOnly
<1>7. CASE TxGiveUp(t)
  <2>1. Own
    BY <1>7, TxGiveUpIs DEF Own
  <2> QED
    BY <1>7, <2>1, TxGiveUpIs DEF LogOnly
<1>8. CASE TxCommit(t) \/ RecvCommit(t)
  BY <1>8, TxCommitIs, RecvCommitIs
<1>9. CASE StreamAppend(t)
  BY <1>9, StreamAppendIs
<1>10. CASE Send(t)
  BY <1>10, SendIs
<1>11. CASE TxCommitLost(t)
  BY <1>11, TxCommitLostIs
<1> QED
  BY <1>1, <1>2, <1>3, <1>4, <1>5, <1>6, <1>7, <1>8, <1>9, <1>10, <1>11

\* A workflow that has ended stays so.
Ended(w) == rows[w] \in {"SUCCESS", "ERROR", "CANCELLED"} => rows'[w] \in {"SUCCESS", "ERROR", "CANCELLED"}

LEMMA EndedStays ==
    ASSUME Types, [Next]_vars
    PROVE  \A w \in Ids : Ended(w)
<1>0. rows \in [Ids -> {"ABSENT", "PENDING", "SUCCESS", "ERROR", "CANCELLED"}]
  BY DEF Types, TypeOK
<1>1. ASSUME UNCHANGED rows PROVE \A w \in Ids : Ended(w)
  BY <1>1 DEF Ended
<1>2. ASSUME NEW x \in Ids, NEW status, rows' = [rows EXCEPT ![x] = status],
             rows[x] \in {"ABSENT", "PENDING"} \/ status \in {"SUCCESS", "ERROR", "CANCELLED"}
      PROVE  \A w \in Ids : Ended(w)
  BY <1>0, <1>2 DEF Ended
<1>3. ASSUME NEW t \in Tasks, Finish(t) PROVE \A w \in Ids : Ended(w)
  <2>1. tasks[t].wf \in Ids
    BY <1>3, FinishIs
  <2>2. \/ rows' = rows
        \/ \E status \in {"SUCCESS", "ERROR", "CANCELLED"} : rows' = [rows EXCEPT ![tasks[t].wf] = status]
    BY <1>3, FinishIs
  <2>3. CASE rows' = rows
    BY <1>1, <2>3
  <2>4. CASE \E status \in {"SUCCESS", "ERROR", "CANCELLED"} : rows' = [rows EXCEPT ![tasks[t].wf] = status]
    BY <1>2, <2>1, <2>4
  <2> QED
    BY <2>2, <2>3, <2>4
<1>4. ASSUME NEW t \in Tasks, NEW c \in Tasks, spawn_child(t, c) PROVE \A w \in Ids : Ended(w)
  <2>1. CurOp(t).to \in Ids
    BY <1>4, SpawnedIs
  <2>2. rows' = rows \/ (rows[CurOp(t).to] = "ABSENT" /\ rows' = [rows EXCEPT ![CurOp(t).to] = "PENDING"])
    BY <1>4 DEF spawn_child
  <2> QED
    BY <1>1, <1>2, <2>1, <2>2
<1>5. ASSUME NEW t \in Tasks, NEW w \in Ids, Start(t, w) \/ Restart(t, w) PROVE \A x \in Ids : Ended(x)
  <2>1. UNCHANGED rows \/ (rows' = [rows EXCEPT ![w] = "PENDING"] /\ rows[w] = "ABSENT")
    BY <1>5 DEF Start, Restart, tables
  <2> QED
    BY <1>1, <1>2, <2>1
<1>6. ASSUME NEW w \in Ids, Cancel(w) PROVE \A x \in Ids : Ended(x)
  <2>1. rows' = [rows EXCEPT ![w] = "CANCELLED"]
    BY <1>6 DEF Cancel
  <2> QED
    BY <1>2, <2>1
<1>7. ASSUME NEW t \in Tasks, Recover(t) PROVE UNCHANGED rows
  BY <1>7, RecoverIs DEF tables
<1>8. ASSUME Crash \/ Deploy PROVE UNCHANGED rows
  BY <1>8, CrashIs
<1>9. ASSUME ListenerBack \/ (\E w \in Ids : Notify(w)) PROVE UNCHANGED rows
  BY <1>9, ListenerIs
<1>10. ASSUME ListenerLost \/ Tick \/ ReadEntries \/ ReadStatus \/ Quiet PROVE UNCHANGED rows
  BY <1>10 DEF ListenerLost, ReadEntries, ReadStatus, Quiet, Tick, vars, tables, outside
<1>11. ASSUME NEW p \in sc.posts, Post(p) PROVE UNCHANGED rows
  BY <1>11 DEF Post
<1>12. CASE UNCHANGED vars
  BY <1>1, <1>12 DEF vars, tables
<1>13. ASSUME UNCHANGED <<sc, version, rows, recover, reader>> PROVE \A w \in Ids : Ended(w)
  BY <1>1, <1>13
<1>14. CASE Next
  BY <1>1, <1>3, <1>4, <1>5, <1>6, <1>7, <1>8, <1>9, <1>10, <1>11, <1>13, <1>14, NextIs, TaskRows, Zenon
<1> QED
  BY <1>12, <1>14

(***************************************************************************)
(* A reader of a stream has a part of it, and everything once it is done:  *)
(* after the producer ended nothing is written any more (Settled).         *)
(***************************************************************************)
Settled == \A t \in Tasks : Busy(t) => ~IsTerminal(tasks[t].wf)

Source == streams[sc.readFrom]

Followed ==
    /\ Len(reader.values) <= Len(Visible(Source))
    /\ \A i \in 1..Len(reader.values) : reader.values[i] = Source[i]
    /\ reader.final /\ reader.pc \in {"read", "done"} => IsTerminal(sc.readFrom)
    /\ reader.pc = "done" => Len(reader.values) = Len(Visible(Source))
    /\ reader.pc = "done" => IsClosed(Source) \/ IsTerminal(sc.readFrom)

LEMMA ReaderTypes ==
    ASSUME Types
    PROVE  /\ sc.readFrom \in Ids /\ Source \in Seq(StreamEntry) /\ reader.values \in Seq(StreamEntry)
           /\ Visible(Source) \in Seq(StreamEntry)
           /\ Len(Source) \in Nat /\ Len(reader.values) \in Nat /\ Len(Visible(Source)) \in Nat
<1>1. sc.readFrom \in Ids
  BY ScenarioFacts DEF Types, TypeOK
<1>2. Source \in Seq(StreamEntry) /\ reader.values \in Seq(StreamEntry)
  BY <1>1 DEF Types, TypeOK, Source
<1>3. Visible(Source) \in Seq(StreamEntry)
  BY <1>2, VisibleIs
<1> QED
  BY <1>1, <1>2, <1>3, LenProperties

LEMMA SameFollowed ==
    ASSUME Types, Followed, UNCHANGED <<sc, reader>>, streams'[sc.readFrom] = streams[sc.readFrom],
           Ended(sc.readFrom)
    PROVE  Followed'
<1>1. Source' = Source
  BY DEF Source
<1>2. IsTerminal(sc.readFrom) => IsTerminal(sc.readFrom)'
  BY DEF IsTerminal, Ended
<1> QED
  BY <1>1, <1>2 DEF Followed

LEMMA AppendFollowed ==
    ASSUME Types, Flow, Settled, Followed, NEW t \in Tasks, StreamAppend(t), Ended(sc.readFrom)
    PROVE  Followed'
<1>1. UNCHANGED <<sc, reader, rows>> /\ tasks[t].pc = "append" /\ Busy(t)
  BY AppendIs DEF outside, Busy
<1>2. CASE tasks[t].wf # sc.readFrom
  <2>1. streams'[sc.readFrom] = streams[sc.readFrom]
    BY <1>2, AppendIs, ReaderTypes
  <2> QED
    BY <1>1, <2>1, SameFollowed
<1>3. CASE tasks[t].wf = sc.readFrom
  <2> DEFINE e == [val |-> StreamValue(CurOp(t)), slot |-> tasks[t].seq]
             s == Source
             r == Source'
             v == reader.values
  <2>1. s \in Seq(StreamEntry) /\ ~IsClosed(s) /\ e \in StreamEntry /\ r = Append(s, e)
        /\ v \in Seq(StreamEntry) /\ Len(s) \in Nat /\ Len(v) \in Nat
    BY <1>1, <1>3, AppendIs, ReaderTypes DEF Source
  <2>2. ~IsTerminal(sc.readFrom)
    BY <1>1, <1>3 DEF Settled
  <2> HIDE DEF e, s, r, v
  <2>3. Visible(s) = s
    BY <2>1, VisibleIs
  <2>4. r \in Seq(StreamEntry) /\ Len(s) <= Len(Visible(r))
    BY <2>1, AppendVisible
  <2>5. \A i \in 1..Len(s) : r[i] = s[i]
    BY <2>1, AppendVisible
  <2>6. Len(Visible(r)) \in Nat
    BY <2>4, VisibleIs, LenProperties
  <2>7. Len(v) <= Len(s) /\ \A i \in 1..Len(v) : v[i] = s[i]
    BY <2>3 DEF Followed, s, v
  <2>8. Len(v) <= Len(Visible(r))
    BY <2>1, <2>4, <2>6, <2>7
  <2>9. \A i \in 1..Len(v) : v[i] = r[i]
    BY <2>1, <2>5, <2>7
  <2>10. reader.pc # "done" /\ ~(reader.final /\ reader.pc = "read")
    BY <2>1, <2>2 DEF Followed, s
  <2>11. Len(reader.values)' <= Len(Visible(Source))' /\ \A i \in 1..Len(reader'.values) : reader'.values[i] = Source'[i]
    BY <1>1, <2>8, <2>9 DEF v, r
  <2> QED
    BY <1>1, <2>10, <2>11 DEF Followed
<1> QED
  BY <1>2, <1>3

\* What a reader holds after it took what it had not seen of s.
LEMMA CaughtUp ==
    ASSUME NEW s \in Seq(StreamEntry), NEW v \in Seq(StreamEntry), Len(v) <= Len(Visible(s)),
           \A i \in 1..Len(v) : v[i] = s[i],
           NEW r, r = v \o read_stream(s, Len(v)).values
    PROVE  Len(r) = Len(Visible(s)) /\ \A i \in 1..Len(r) : r[i] = s[i]
<1> DEFINE n == Len(v)
           x == Visible(s)
           m == Len(x)
           y == SubSeq(x, n + 1, m)
<1>1. n \in Nat /\ m \in Nat /\ n <= m /\ x \in Seq(StreamEntry) /\ \A i \in 1..m : x[i] = s[i]
  BY VisibleIs, LenProperties
<1>2. read_stream(s, Len(v)).values = y
  BY <1>1, ReadIs
<1>3. \A i \in 1..n : v[i] = s[i]
  OBVIOUS
<1>4. v \in Seq(StreamEntry) /\ Len(v) = n /\ Len(x) = m
  OBVIOUS
<1>5. r = v \o y
  BY <1>2
<1> HIDE DEF n, x, m, y
<1>6. \A i \in (n+1)..m : x[i] \in StreamEntry
  BY <1>1, <1>4, ElementOfSeq
<1>7. /\ y \in Seq(StreamEntry) /\ Len(y) = m - n
      /\ \A i \in 1..(m - n) : y[i] = x[n + i]
  <2>1. n + 1 \in Int /\ m \in Int
    BY <1>1
  <2>2. y = SubSeq(x, n + 1, m)
    BY DEF y
  <2>3. /\ y \in Seq(StreamEntry) /\ Len(y) = IF n + 1 <= m THEN m - (n + 1) + 1 ELSE 0
        /\ \A i \in 1..(m - (n + 1) + 1) : y[i] = x[n + 1 + i - 1]
    BY <1>6, <2>1, <2>2, SubSeqProperties
  <2> QED
    BY <1>1, <2>3
<1>8. /\ Len(r) = m
      /\ \A i \in 1..m : r[i] = IF i <= n THEN v[i] ELSE y[i - n]
  <2>1. /\ Len(v \o y) = Len(v) + Len(y)
        /\ \A i \in 1..(Len(v) + Len(y)) : (v \o y)[i] = IF i <= Len(v) THEN v[i] ELSE y[i - Len(v)]
    BY <1>4, <1>7, ConcatProperties
  <2>2. Len(v) + Len(y) = m
    BY <1>1, <1>4, <1>7
  <2>3. Len(v) = n
    BY <1>4
  <2> QED
    BY <1>5, <2>1, <2>2, <2>3
<1>9. ASSUME NEW i \in 1..m PROVE r[i] = s[i]
  <2>1. CASE i <= n
    BY <1>1, <1>3, <1>8, <2>1
  <2>2. CASE i > n
    <3>1. ~(i <= n) /\ i - n \in 1..(m - n) /\ n + (i - n) = i
      BY <1>1, <2>2
    <3>2. r[i] = y[i - n] /\ y[i - n] = x[n + (i - n)] /\ x[i] = s[i]
      BY <1>1, <1>7, <1>8, <3>1
    <3> QED
      BY <3>1, <3>2
  <2>3. i <= n \/ i > n
    BY <1>1
  <2> QED
    BY <2>1, <2>2, <2>3
<1>10. Len(r) = m
  BY <1>1, <1>8
<1> QED
  BY <1>9, <1>10 DEF m, x

LEMMA EntriesFollowed ==
    ASSUME Types, Followed, ReadEntries
    PROVE  Followed'
<1> DEFINE s == Source
           v == reader.values
           r == v \o read_stream(s, Len(v)).values
<1>1. UNCHANGED <<sc, rows, streams>> /\ reader.pc = "read" /\ reader'.values = r
      /\ reader'.final = reader.final /\ reader'.pc \in {"read", "done", "status"}
      /\ (reader'.pc = "done" => read_stream(s, Len(v)).closed \/ reader.final)
  BY DEF ReadEntries, Source, Types, TypeOK, tables
<1>2. s \in Seq(StreamEntry) /\ v \in Seq(StreamEntry) /\ Len(v) \in Nat
  BY ReaderTypes
<1>3. Len(v) <= Len(Visible(s)) /\ \A i \in 1..Len(v) : v[i] = s[i]
  BY DEF Followed
<1>4. s' = s /\ (IsTerminal(sc.readFrom)' = IsTerminal(sc.readFrom))
  BY <1>1 DEF Source, IsTerminal
<1>5. read_stream(s, Len(v)).closed = IsClosed(s)
  BY <1>2, ReadIs
<1>6. reader.final => IsTerminal(sc.readFrom)
  BY <1>1 DEF Followed
<1>7. s = Source /\ Source' = s /\ sc' = sc
  BY <1>1, <1>4
<1>8. Len(Visible(s)) \in Nat
  BY ReaderTypes
<1> HIDE DEF s, v, r
<1>9. Len(r) = Len(Visible(s)) /\ \A i \in 1..Len(r) : r[i] = s[i]
  BY <1>2, <1>3, CaughtUp DEF r
<1> QED
  BY <1>1, <1>4, <1>5, <1>6, <1>7, <1>8, <1>9 DEF Followed

LEMMA StatusFollowed ==
    ASSUME Types, Followed, ReadStatus
    PROVE  Followed'
<1>1. UNCHANGED <<sc, rows, streams>> /\ reader.pc = "status" /\ reader'.values = reader.values
      /\ reader'.final = (rows[sc.readFrom] # "PENDING")
      /\ reader'.pc = IF rows[sc.readFrom] = "ABSENT" THEN "error" ELSE "read"
  BY DEF ReadStatus, Types, TypeOK, tables
<1>2. rows[sc.readFrom] \in {"ABSENT", "PENDING", "SUCCESS", "ERROR", "CANCELLED"}
  BY ReaderTypes DEF Types, TypeOK
<1>3. reader'.final /\ reader'.pc \in {"read", "done"} => IsTerminal(sc.readFrom)'
  BY <1>1, <1>2 DEF IsTerminal
<1>4. Source' = Source
  BY <1>1 DEF Source
<1> QED
  BY <1>1, <1>3, <1>4 DEF Followed

LEMMA FollowedInit == Init => Followed
<1> SUFFICES ASSUME Init PROVE Followed
  OBVIOUS
<1>1. Types
  BY TypesInit
<1>2. reader.values = <<>> /\ reader.final = FALSE /\ reader.pc \in {"off", "read"}
  BY DEF Init
<1>3. Len(reader.values) = 0 /\ Len(Visible(Source)) \in Nat
  BY <1>1, <1>2, ReaderTypes
<1> QED
  BY <1>2, <1>3 DEF Followed

LEMMA FollowedNext == Types /\ Flow /\ Settled /\ Followed /\ [Next]_vars => Followed'
<1> SUFFICES ASSUME Types, Flow, Settled, Followed, [Next]_vars PROVE Followed'
  OBVIOUS
<1>0. sc.readFrom \in Ids
  BY ReaderTypes
<1>1. Ended(sc.readFrom)
  BY <1>0, EndedStays
<1>2. ASSUME UNCHANGED <<sc, streams, reader>> PROVE Followed'
  BY <1>1, <1>2, SameFollowed
<1>3. CASE UNCHANGED vars
  BY <1>2, <1>3 DEF vars, tables
<1>4. ASSUME NEW t \in Tasks,
             \/ ReplayHit(t) \/ ReplayMiss(t) \/ Guard(t) \/ ChildLookup(t) \/ PatchLookup(t)
                \/ deprecate_patch(t) \/ AwaitChild(t)
             \/ Produce(t) \/ GetEvent(t) \/ RecvSelect(t)
             \/ Expire(t) \/ TxGiveUp(t)
             \/ RecvCommit(t) \/ TxCommit(t) \/ Link(t) \/ PatchMark(t)
             \/ DeadlineKnown(t) \/ FixDeadline(t) \/ Sleep(t) \/ Subscribe(t) \/ WakeUp(t)
             \/ SetEvent(t) \/ Send(t)
             \/ conflict_retry_wait(t) \/ TxConflict(t) \/ TxCommitLost(t) \/ TxBodyFails(t)
      PROVE  Followed'
  <2>1. UNCHANGED <<sc, streams>>
    BY <1>4, TaskDry
  <2>2. UNCHANGED <<sc, version, rows, recover, reader>>
    BY <1>4, TaskRows, Zenon
  <2> QED
    BY <1>2, <2>1, <2>2
<1>5. ASSUME NEW t \in Tasks, RecordOutcome(t) \/ StreamCheck(t) PROVE Followed'
  <2>1. UNCHANGED streams
    BY <1>5, RecordOutcomeIs, StreamCheckIs DEF LogOnly, Still
  <2>2. UNCHANGED <<sc, version, rows, recover, reader>>
    BY <1>5, TaskRows
  <2> QED
    BY <1>2, <2>1, <2>2
<1>6. ASSUME NEW t \in Tasks, StreamAppend(t) PROVE Followed'
  BY <1>1, <1>6, AppendFollowed
<1>7. ASSUME \/ \E t \in Tasks : Finish(t) \/ Recover(t) \/ \E c \in Tasks : spawn_child(t, c)
             \/ \E t \in Tasks, w \in Ids : Start(t, w) \/ Restart(t, w)
             \/ Crash \/ Deploy
             \/ \E w \in Ids : Cancel(w)
             \/ ListenerLost \/ Tick \/ Quiet
             \/ ListenerBack \/ (\E w \in Ids : Notify(w))
      PROVE  Followed'
  <2>1. UNCHANGED <<sc, out, notes, streams, effects>>
    BY <1>7, RestCalm, Zenon
  <2>2. UNCHANGED reader
    BY <1>7 DEF Finish, Recover, spawn_child, Start, Restart, Crash, Deploy, ProcessDies, Cancel,
                ListenerLost, ListenerBack, Notify, Tick, Quiet, vars, outside
  <2> QED
    BY <1>2, <2>1, <2>2
<1>8. ASSUME NEW p \in sc.posts, Post(p) PROVE Followed'
  BY <1>2, <1>8, PostCalm
<1>9. ASSUME ReadEntries \/ ReadStatus PROVE Followed'
  BY <1>9, EntriesFollowed, StatusFollowed
<1>10. CASE Next
  BY <1>4, <1>5, <1>6, <1>7, <1>8, <1>9, <1>10, NextIs, Zenon
<1> QED
  BY <1>3, <1>10

LEMMA FollowedIsEnough == Types /\ Flow /\ Followed => StreamComplete
<1> SUFFICES ASSUME Types, Flow, Followed PROVE WritesVisible /\ ReaderComplete
  BY DEF StreamComplete
<1>1. WritesVisible
  BY DEF Flow
<1>2. ASSUME reader.pc = "done" PROVE reader.values = Visible(Source)
  <2> DEFINE v == reader.values
             x == Visible(Source)
  <2>1. v \in Seq(StreamEntry) /\ x \in Seq(StreamEntry) /\ Len(v) = Len(x)
    BY <1>2, ReaderTypes DEF Followed
  <2>2. (\A i \in 1..Len(v) : v[i] = Source[i]) /\ \A i \in 1..Len(x) : x[i] = Source[i]
    BY ReaderTypes, VisibleIs DEF Followed
  <2> HIDE DEF v, x
  <2>3. \A i \in 1..Len(v) : v[i] = x[i]
    BY <2>1, <2>2
  <2> QED
    BY <2>1, <2>3, SeqEqual DEF v, x
<1> QED
  BY <1>1, <1>2 DEF ReaderComplete, Source

(***************************************************************************)
(* While no two executions of a workflow overlap and nobody executes a     *)
(* workflow that has ended, every write with a checkpoint is in front of   *)
(* the sentinel and a reader that was told the stream is complete has all  *)
(* of it.  (write_stream, close_stream, drain_stream_from, stream_values)  *)
(***************************************************************************)
THEOREM StreamsWhileAlone == Spec /\ []Alone /\ []Settled => []StreamComplete
<1>1. Init => Flow /\ Followed
  BY FlowInit, FollowedInit
<1>2. Types /\ Alone /\ Settled /\ Flow /\ Followed /\ [Next]_vars => (Flow /\ Followed)'
  BY FlowNext, FollowedNext
<1>3. Types /\ Flow /\ Followed => StreamComplete
  BY FollowedIsEnough
<1> QED
  BY <1>1, <1>2, <1>3, TypeCorrect, PTL DEF Spec

(***************************************************************************)
(* In a Solo scenario executions of a workflow do not overlap: the client  *)
(* starts it once, and the recovery pass once after each crash.            *)
(***************************************************************************)
\* What is executed exists, and is not up for recovery.
Taken(t) == Busy(t) => rows[tasks[t].wf] # "ABSENT" /\ tasks[t].wf \notin recover.todo

Single ==
    /\ Alone
    /\ faults["restart"] = 0
    /\ \A t \in Tasks : Taken(t)
    /\ \A w \in recover.todo : rows[w] # "ABSENT"

\* A fault that is not left does not come back, and the scenario stays.
LEMMA FaultIs ==
    ASSUME Types, NEW kind \in FaultKinds, NEW k \in FaultKinds, faults[k] = 0, Fault(kind)
    PROVE  faults'[k] = 0
<1>1. faults \in [FaultKinds -> Nat]
  BY DEF Types, TypeOK
<1>2. k # kind
  BY <1>1 DEF Fault
<1> QED
  BY <1>1, <1>2 DEF Fault

LEMMA NoMore ==
    ASSUME Types, [Next]_vars
    PROVE  sc' = sc /\ \A k \in FaultKinds : faults[k] = 0 => faults'[k] = 0
<1>1. sc' = sc /\ (faults' = faults \/ \E kind \in FaultKinds : Fault(kind))
  <2> DEFINE Goal == sc' = sc /\ (faults' = faults \/ \E kind \in FaultKinds : Fault(kind))
  <2>0. FaultKinds = {"crash", "deploy", "restart", "cancel", "listener", "conflict", "lost", "body"}
    BY DEF FaultKinds
  <2>1. ASSUME NEW t \in Tasks,
               /\ UNCHANGED <<sc, version, rows, recover, reader>>
               /\ tasks[t].pc # "idle" /\ Others(t) /\ tasks'[t].pc # "idle" /\ tasks'[t].wf = tasks[t].wf
               /\ faults' = faults \/ Fault("conflict") \/ Fault("lost") \/ Fault("body")
        PROVE  Goal
    BY <2>0, <2>1
  <2>2. ASSUME NEW t \in Tasks, Finish(t) \/ Recover(t) PROVE Goal
    BY <2>2 DEF Finish, Recover
  <2>3. ASSUME NEW t \in Tasks, NEW c \in Tasks, spawn_child(t, c) PROVE Goal
    BY <2>3 DEF spawn_child
  <2>4. ASSUME NEW t \in Tasks, NEW w \in Ids, Start(t, w) \/ Restart(t, w) PROVE Goal
    BY <2>0, <2>4 DEF Start, Restart
  <2>5. ASSUME Crash \/ Deploy PROVE Goal
    BY <2>0, <2>5 DEF Crash, Deploy, ProcessDies
  <2>6. ASSUME NEW w \in Ids, Cancel(w) PROVE Goal
    BY <2>0, <2>6 DEF Cancel
  <2>7. ASSUME NEW p \in sc.posts, Post(p) PROVE Goal
    BY <2>7 DEF Post
  <2>8. ASSUME ListenerLost \/ Tick \/ ReadEntries \/ ReadStatus \/ Quiet PROVE Goal
    BY <2>0, <2>8 DEF ListenerLost, Tick, ReadEntries, ReadStatus, Quiet, vars, outside
  <2>9. ASSUME ListenerBack \/ (\E w \in Ids : Notify(w)) PROVE Goal
    BY <2>9 DEF ListenerBack, Notify, outside
  <2>10. CASE UNCHANGED vars
    BY <2>10 DEF vars
  <2> HIDE DEF Goal
  <2>11. ASSUME Next PROVE Goal
    BY <2>1, <2>2, <2>3, <2>4, <2>5, <2>6, <2>7, <2>8, <2>9, <2>11, NextIs, TaskRows, Zenon
  <2> QED
    BY <2>10, <2>11 DEF Goal
<1> QED
  BY <1>1, FaultIs

\* Tasks only stop, rows only get further, and nothing more is up for recovery.
Fewer ==
    /\ \A u \in Tasks : tasks'[u].pc # "idle" => tasks[u].pc # "idle" /\ tasks'[u].wf = tasks[u].wf
    /\ recover'.todo \subseteq recover.todo
    /\ \A w \in Ids : rows[w] # "ABSENT" => rows'[w] # "ABSENT"

LEMMA FewerSingle ==
    ASSUME Types, Single, Fewer, faults'["restart"] = 0
    PROVE  Single'
<1>1. recover.todo \subseteq Ids /\ \A t \in Tasks : Busy(t) => tasks[t].wf \in Ids
  BY DEF Types, TypeOK, Fit, Busy
<1>2. \A u \in Tasks : Busy(u)' => Busy(u) /\ tasks'[u].wf = tasks[u].wf
  BY DEF Fewer, Busy
<1>3. Alone'
  BY <1>2 DEF Single, Alone
<1>4. ASSUME NEW t \in Tasks PROVE Taken(t)'
  BY <1>1, <1>2 DEF Single, Taken, Fewer
<1>5. \A w \in recover'.todo : rows'[w] # "ABSENT"
  BY <1>1 DEF Single, Fewer
<1> QED
  BY <1>3, <1>4, <1>5 DEF Single

LEMMA MoreSingle ==
    ASSUME Types, Single, NEW t \in Tasks, NEW w \in Ids, Others(t), tasks'[t].wf = w,
           \A u \in Tasks : Busy(u) => tasks[u].wf # w,
           recover'.todo \subseteq recover.todo \ {w},
           rows'[w] # "ABSENT", \A x \in Ids : rows[x] # "ABSENT" => rows'[x] # "ABSENT",
           faults'["restart"] = 0
    PROVE  Single'
<1>1. recover.todo \subseteq Ids /\ \A u \in Tasks : Busy(u) => tasks[u].wf \in Ids
  BY DEF Types, TypeOK, Fit, Busy
<1>2. \A u \in Tasks \ {t} : Busy(u)' = Busy(u) /\ tasks'[u].wf = tasks[u].wf
  BY DEF Others, Busy
<1>3. Alone'
  <2> SUFFICES ASSUME NEW u \in Tasks, NEW v \in Tasks, Busy(u)', Busy(v)', tasks'[u].wf = tasks'[v].wf,
                      u # v
               PROVE  FALSE
    BY DEF Alone
  <2>1. CASE u = t \/ v = t
    BY <1>2, <2>1
  <2>2. CASE u # t /\ v # t
    BY <1>2, <2>2 DEF Single, Alone
  <2> QED
    BY <2>1, <2>2
<1>4. ASSUME NEW u \in Tasks PROVE Taken(u)'
  <2>1. CASE u = t
    BY <2>1 DEF Taken
  <2>2. CASE u # t
    BY <1>1, <1>2, <2>2 DEF Single, Taken
  <2> QED
    BY <2>1, <2>2
<1>5. \A x \in recover'.todo : rows'[x] # "ABSENT"
  BY <1>1 DEF Single
<1> QED
  BY <1>3, <1>4, <1>5 DEF Single

LEMMA SingleInit == Init /\ Solo(sc) => Single
<1> SUFFICES ASSUME Init, Solo(sc) PROVE Single
  OBVIOUS
<1>1. \A t \in Tasks : tasks[t].pc = "idle"
  BY DEF Init, IdleTask
<1>2. recover.todo = {} /\ faults["restart"] = 0
  BY DEF Init, NoRecovery, Solo
<1> QED
  BY <1>1, <1>2 DEF Single, Alone, Taken, Busy

LEMMA SingleNext == Types /\ Solo(sc) /\ Single /\ [Next]_vars => Single'
<1> SUFFICES ASSUME Types, Solo(sc), Single, [Next]_vars PROVE Single'
  OBVIOUS
<1>0. faults'["restart"] = 0
  BY NoMore DEF Single, FaultKinds
<1>1. rows \in [Ids -> {"ABSENT", "PENDING", "SUCCESS", "ERROR", "CANCELLED"}] /\ tasks \in [Tasks -> Task]
  BY DEF Types, TypeOK
<1>2. ASSUME Fewer PROVE Single'
  BY <1>0, <1>2, FewerSingle
<1>3. ASSUME NEW t \in Tasks,
             /\ UNCHANGED <<sc, version, rows, recover, reader>>
             /\ tasks[t].pc # "idle" /\ Others(t) /\ tasks'[t].pc # "idle" /\ tasks'[t].wf = tasks[t].wf
             /\ faults' = faults \/ Fault("conflict") \/ Fault("lost") \/ Fault("body")
      PROVE  Single'
  BY <1>2, <1>3 DEF Fewer, Others
<1>4. ASSUME NEW t \in Tasks, Finish(t) PROVE Single'
  <2>1. tasks' = [tasks EXCEPT ![t] = IdleTask] /\ tasks[t].wf \in Ids
        /\ recover' \in {recover, [recover EXCEPT !.task = NoTask]}
    BY <1>4, FinishIs
  <2>2. rows' = rows \/ \E status \in {"SUCCESS", "ERROR", "CANCELLED"} : rows' = [rows EXCEPT ![tasks[t].wf] = status]
    BY <1>4, FinishIs
  <2>3. recover'.todo = recover.todo
    BY <2>1 DEF Types, TypeOK
  <2>4. \A w \in Ids : rows[w] # "ABSENT" => rows'[w] # "ABSENT"
    BY <1>1, <2>1, <2>2
  <2>5. \A u \in Tasks : tasks'[u].pc # "idle" => tasks'[u] = tasks[u]
    BY <1>1, <2>1 DEF IdleTask
  <2> QED
    BY <1>2, <2>3, <2>4, <2>5 DEF Fewer
<1>5. ASSUME NEW t \in Tasks, NEW c \in Tasks, spawn_child(t, c) PROVE FALSE
  <2>1. tasks[t].pc = "spawn" /\ CurOp(t).op = "child"
    BY <1>5, SpawnedIs
  <2>2. tasks[t].wf \in Ids /\ tasks[t].version \in DOMAIN sc.code
        /\ tasks[t].ip \in DOMAIN sc.code[tasks[t].version][tasks[t].wf]
    BY <2>1 DEF Types, Fit, Working, CodeOf
  <2> QED
    BY <2>1, <2>2 DEF Solo, CurOp
<1>6. ASSUME NEW t \in Tasks, NEW w \in Ids, Start(t, w) PROVE Single'
  <2>1. rows[w] = "ABSENT" /\ Spawn(t, w) /\ rows' = [rows EXCEPT ![w] = "PENDING"] /\ recover' = recover
    BY <1>6 DEF Start
  <2>2. Others(t) /\ tasks'[t].wf = w
    BY <2>1, SpawnCalm
  <2>3. (\A u \in Tasks : Busy(u) => tasks[u].wf # w) /\ recover'.todo \subseteq recover.todo \ {w}
    BY <2>1 DEF Single, Taken
  <2>4. rows'[w] # "ABSENT" /\ \A x \in Ids : rows[x] # "ABSENT" => rows'[x] # "ABSENT"
    BY <1>1, <2>1
  <2> QED
    BY <1>0, <2>2, <2>3, <2>4, MoreSingle
<1>7. ASSUME NEW t \in Tasks, NEW w \in Ids, Restart(t, w) PROVE FALSE
  BY <1>7 DEF Restart, Fault, Single
<1>8. ASSUME NEW t \in Tasks, Recover(t) PROVE Single'
  <2>1. PICK w \in recover.todo : recover' = [todo |-> recover.todo \ {w}, task |-> t] /\ Spawn(t, w) /\ w \in Ids
    BY <1>8, RecoverIs
  <2>2. rows' = rows
    BY <1>8, RecoverIs DEF tables
  <2>3. Others(t) /\ tasks'[t].wf = w
    BY <2>1, SpawnCalm
  <2>4. (\A u \in Tasks : Busy(u) => tasks[u].wf # w) /\ rows[w] # "ABSENT"
    BY <2>1 DEF Single, Taken
  <2>5. recover'.todo \subseteq recover.todo \ {w}
    BY <2>1
  <2> QED
    BY <1>0, <2>1, <2>2, <2>3, <2>4, <2>5, MoreSingle
<1>9. ASSUME Crash \/ Deploy PROVE Single'
  <2>1. tasks' = [t \in Tasks |-> IdleTask] /\ recover' = [todo |-> PendingRows, task |-> NoTask] /\ rows' = rows
    BY <1>9, CrashIs
  <2>2. \A t \in Tasks : tasks'[t].pc = "idle"
    BY <2>1 DEF IdleTask
  <2>3. \A w \in recover'.todo : rows'[w] # "ABSENT"
    BY <2>1 DEF PendingRows
  <2> QED
    BY <1>0, <2>2, <2>3 DEF Single, Alone, Taken, Busy
<1>10. ASSUME NEW w \in Ids, Cancel(w) PROVE Single'
  <2>1. UNCHANGED <<tasks, recover>> /\ rows' = [rows EXCEPT ![w] = "CANCELLED"]
    BY <1>10 DEF Cancel
  <2>2. \A x \in Ids : rows[x] # "ABSENT" => rows'[x] # "ABSENT"
    BY <1>1, <2>1
  <2> QED
    BY <1>2, <2>1, <2>2 DEF Fewer
<1>11. ASSUME ListenerBack \/ (\E w \in Ids : Notify(w)) PROVE Single'
  <2>1. UNCHANGED <<rows, recover>>
    BY <1>11, ListenerIs DEF outside
  <2>2. \A t \in Tasks : tasks'[t] = tasks[t] \/ (tasks[t].pc = "wait" /\ tasks'[t] = [tasks[t] EXCEPT !.pc = "act"])
    BY <1>11, ListenerIs
  <2>3. \A t \in Tasks : tasks'[t].pc # "idle" => tasks[t].pc # "idle" /\ tasks'[t].wf = tasks[t].wf
    BY <1>1, <2>2 DEF Task
  <2> QED
    BY <1>2, <2>1, <2>3 DEF Fewer
<1>12. ASSUME UNCHANGED <<tasks, rows, recover>> PROVE Single'
  BY <1>2, <1>12 DEF Fewer
<1>13. ASSUME ListenerLost \/ Tick \/ ReadEntries \/ ReadStatus \/ Quiet PROVE Single'
  BY <1>12, <1>13 DEF ListenerLost, ReadEntries, ReadStatus, Quiet, Tick, vars, tables, outside
<1>14. ASSUME NEW p \in sc.posts, Post(p) PROVE Single'
  BY <1>12, <1>14 DEF Post
<1>15. CASE UNCHANGED vars
  BY <1>12, <1>15 DEF vars, tables
<1>16. CASE Next
  BY <1>3, <1>4, <1>5, <1>6, <1>7, <1>8, <1>9, <1>10, <1>11, <1>13, <1>14, <1>16, NextIs, TaskRows, Zenon
<1> QED
  BY <1>15, <1>16

(***************************************************************************)
(* Where nobody cancels either, what is executed or up for recovery is     *)
(* PENDING: an execution ends before its row does.                         *)
(***************************************************************************)
Pending(t) == Busy(t) => rows[tasks[t].wf] = "PENDING"

Current ==
    /\ faults["cancel"] = 0
    /\ \A t \in Tasks : Pending(t)
    /\ \A w \in recover.todo : rows[w] = "PENDING"

LEMMA CurrentSettled == Types /\ Current => Settled
  BY DEF Current, Pending, Settled, IsTerminal

LEMMA CurrentInit == Init /\ Uncancelled(sc) => Current
<1> SUFFICES ASSUME Init, Uncancelled(sc) PROVE Current
  OBVIOUS
<1>1. \A t \in Tasks : tasks[t].pc = "idle"
  BY DEF Init, IdleTask
<1>2. recover.todo = {} /\ faults["cancel"] = 0
  BY DEF Init, NoRecovery, Uncancelled
<1> QED
  BY <1>1, <1>2 DEF Current, Pending, Busy

LEMMA CurrentNext == Types /\ Solo(sc) /\ Single /\ Current /\ [Next]_vars => Current'
<1> SUFFICES ASSUME Types, Solo(sc), Single, Current, [Next]_vars PROVE Current'
  OBVIOUS
<1>0. faults'["cancel"] = 0
  BY NoMore DEF Current, FaultKinds
<1>1. rows \in [Ids -> {"ABSENT", "PENDING", "SUCCESS", "ERROR", "CANCELLED"}] /\ tasks \in [Tasks -> Task]
      /\ recover.todo \subseteq Ids
  BY DEF Types, TypeOK
<1>2. ASSUME Fewer, rows' = rows PROVE Current'
  <2>1. \A u \in Tasks : Busy(u)' => Busy(u) /\ tasks'[u].wf = tasks[u].wf
    BY <1>2 DEF Fewer, Busy
  <2>2. ASSUME NEW u \in Tasks PROVE Pending(u)'
    BY <1>2, <2>1 DEF Current, Pending
  <2>3. \A w \in recover'.todo : rows'[w] = "PENDING"
    BY <1>2 DEF Current, Fewer
  <2> QED
    BY <1>0, <2>2, <2>3 DEF Current
<1>3. ASSUME NEW t \in Tasks,
             /\ UNCHANGED <<sc, version, rows, recover, reader>>
             /\ tasks[t].pc # "idle" /\ Others(t) /\ tasks'[t].pc # "idle" /\ tasks'[t].wf = tasks[t].wf
             /\ faults' = faults \/ Fault("conflict") \/ Fault("lost") \/ Fault("body")
      PROVE  Current'
  BY <1>2, <1>3 DEF Fewer, Others
<1>4. ASSUME NEW t \in Tasks, Finish(t) PROVE Current'
  <2>1. tasks' = [tasks EXCEPT ![t] = IdleTask] /\ tasks[t].wf \in Ids /\ tasks[t].pc = "finish"
        /\ recover' \in {recover, [recover EXCEPT !.task = NoTask]}
    BY <1>4, FinishIs
  <2>2. rows' = rows \/ \E status \in {"SUCCESS", "ERROR", "CANCELLED"} : rows' = [rows EXCEPT ![tasks[t].wf] = status]
    BY <1>4, FinishIs
  <2>3. recover'.todo = recover.todo
    BY <2>1 DEF Types, TypeOK
  <2>4. \A w \in Ids \ {tasks[t].wf} : rows'[w] = rows[w]
    BY <1>1, <2>1, <2>2
  <2>5. \A u \in Tasks : tasks'[u].pc # "idle" => u # t /\ tasks'[u] = tasks[u]
    BY <1>1, <2>1 DEF IdleTask
  <2>6. Busy(t)
    BY <2>1 DEF Busy
  <2>7. ASSUME NEW u \in Tasks, Busy(u)' PROVE Busy(u) /\ tasks'[u].wf = tasks[u].wf /\ tasks[u].wf # tasks[t].wf
    BY <2>5, <2>6, <2>7 DEF Busy, Single, Alone
  <2>8. ASSUME NEW u \in Tasks, Busy(u)' PROVE rows'[tasks'[u].wf] = "PENDING"
    <3>1. tasks[u].wf \in Ids
      BY <2>7, <2>8 DEF Types, Fit, Busy
    <3> QED
      BY <2>4, <2>7, <2>8, <3>1 DEF Current, Pending
  <2>9. \A w \in recover'.todo : rows'[w] = "PENDING"
    BY <1>1, <2>3, <2>4, <2>6 DEF Current, Single, Taken
  <2> QED
    BY <1>0, <2>8, <2>9 DEF Current, Pending
<1>5. ASSUME NEW t \in Tasks, NEW c \in Tasks, spawn_child(t, c) PROVE FALSE
  <2>1. tasks[t].pc = "spawn" /\ CurOp(t).op = "child"
    BY <1>5, SpawnedIs
  <2>2. tasks[t].wf \in Ids /\ tasks[t].version \in DOMAIN sc.code
        /\ tasks[t].ip \in DOMAIN sc.code[tasks[t].version][tasks[t].wf]
    BY <2>1 DEF Types, Fit, Working, CodeOf
  <2> QED
    BY <2>1, <2>2 DEF Solo, CurOp
<1>6. ASSUME NEW t \in Tasks, NEW w \in Ids, Start(t, w) \/ Restart(t, w) PROVE Current'
  <2>1. Spawn(t, w) /\ recover' = recover /\ rows'[w] = "PENDING" /\ \A x \in Ids \ {w} : rows'[x] = rows[x]
    BY <1>1, <1>6 DEF Start, Restart, tables
  <2>2. Others(t) /\ tasks'[t].wf = w
    BY <2>1, SpawnCalm
  <2>3. ASSUME NEW u \in Tasks PROVE Pending(u)'
    <3>1. Busy(u) => tasks[u].wf \in Ids
      BY DEF Types, Fit, Busy
    <3>2. CASE u = t
      BY <2>1, <2>2, <3>2 DEF Pending
    <3>3. CASE u # t
      BY <2>1, <2>2, <3>1, <3>3 DEF Pending, Current, Others, Busy
    <3> QED
      BY <3>2, <3>3
  <2>4. \A x \in recover'.todo : rows'[x] = "PENDING"
    BY <1>1, <2>1 DEF Current
  <2> QED
    BY <1>0, <2>3, <2>4 DEF Current
<1>7. ASSUME NEW t \in Tasks, Recover(t) PROVE Current'
  <2>1. PICK w \in recover.todo : recover' = [todo |-> recover.todo \ {w}, task |-> t] /\ Spawn(t, w) /\ w \in Ids
    BY <1>7, RecoverIs
  <2>2. rows' = rows
    BY <1>7, RecoverIs DEF tables
  <2>3. Others(t) /\ tasks'[t].wf = w
    BY <2>1, SpawnCalm
  <2>4. ASSUME NEW u \in Tasks PROVE Pending(u)'
    BY <2>1, <2>2, <2>3 DEF Pending, Current, Others, Busy
  <2>5. \A x \in recover'.todo : rows'[x] = "PENDING"
    BY <2>1, <2>2 DEF Current
  <2> QED
    BY <1>0, <2>4, <2>5 DEF Current
<1>8. ASSUME Crash \/ Deploy PROVE Current'
  <2>1. tasks' = [t \in Tasks |-> IdleTask] /\ recover' = [todo |-> PendingRows, task |-> NoTask] /\ rows' = rows
    BY <1>8, CrashIs
  <2>2. \A t \in Tasks : tasks'[t].pc = "idle"
    BY <2>1 DEF IdleTask
  <2>3. \A w \in recover'.todo : rows'[w] = "PENDING"
    BY <2>1 DEF PendingRows
  <2> QED
    BY <1>0, <2>2, <2>3 DEF Current, Pending, Busy
<1>9. ASSUME NEW w \in Ids, Cancel(w) PROVE FALSE
  BY <1>9 DEF Cancel, Fault, Current
<1>10. ASSUME ListenerBack \/ (\E w \in Ids : Notify(w)) PROVE Current'
  <2>1. UNCHANGED <<rows, recover>>
    BY <1>10, ListenerIs DEF outside
  <2>2. \A t \in Tasks : tasks'[t] = tasks[t] \/ (tasks[t].pc = "wait" /\ tasks'[t] = [tasks[t] EXCEPT !.pc = "act"])
    BY <1>10, ListenerIs
  <2>3. \A t \in Tasks : tasks'[t].pc # "idle" => tasks[t].pc # "idle" /\ tasks'[t].wf = tasks[t].wf
    BY <1>1, <2>2 DEF Task
  <2> QED
    BY <1>2, <2>1, <2>3 DEF Fewer
<1>11. ASSUME UNCHANGED <<tasks, rows, recover>> PROVE Current'
  BY <1>2, <1>11 DEF Fewer
<1>12. ASSUME ListenerLost \/ Tick \/ ReadEntries \/ ReadStatus \/ Quiet PROVE Current'
  BY <1>11, <1>12 DEF ListenerLost, ReadEntries, ReadStatus, Quiet, Tick, vars, tables, outside
<1>13. ASSUME NEW p \in sc.posts, Post(p) PROVE Current'
  BY <1>11, <1>13 DEF Post
<1>14. CASE UNCHANGED vars
  BY <1>11, <1>14 DEF vars, tables
<1>15. CASE Next
  BY <1>3, <1>4, <1>5, <1>6, <1>7, <1>8, <1>9, <1>10, <1>12, <1>13, <1>15, NextIs, TaskRows, Zenon
<1> QED
  BY <1>14, <1>15

(***************************************************************************)
(* In a scenario where executions cannot overlap every write that has a    *)
(* checkpoint is in the stream in front of the sentinel, across crashes    *)
(* and upgrades; and if nobody cancels, a reader that was told the stream  *)
(* is complete has all of it.  (write_stream, close_stream,                *)
(* drain_stream_from, stream_values)                                       *)
(***************************************************************************)
THEOREM StreamsComplete ==
    Spec => [](/\ Solo(sc) => WritesVisible
               /\ Solo(sc) /\ Uncancelled(sc) => StreamComplete)
<1> DEFINE Inv == /\ Solo(sc) => Single /\ Flow
                  /\ Solo(sc) /\ Uncancelled(sc) => Current /\ Followed
<1>1. Init => Inv
  BY SingleInit, FlowInit, CurrentInit, FollowedInit
<1>2. Types /\ Inv /\ [Next]_vars => Inv'
  <2> SUFFICES ASSUME Types, Inv, [Next]_vars PROVE Inv'
    OBVIOUS
  <2>1. Solo(sc)' = Solo(sc) /\ Uncancelled(sc)' = Uncancelled(sc)
    BY NoMore DEF Solo, Uncancelled
  <2>2. ASSUME Solo(sc) PROVE Single' /\ Flow'
    BY <2>2, SingleNext, FlowNext DEF Single
  <2>3. ASSUME Solo(sc), Uncancelled(sc) PROVE Current' /\ Followed'
    BY <2>3, CurrentNext, CurrentSettled, FollowedNext
  <2> QED
    BY <2>1, <2>2, <2>3
<1>3. Types /\ Inv => /\ Solo(sc) => WritesVisible
                      /\ Solo(sc) /\ Uncancelled(sc) => StreamComplete
  BY FollowedIsEnough DEF Flow
<1> QED
  BY <1>1, <1>2, <1>3, TypeCorrect, PTL DEF Spec

(***************************************************************************)
(* In a Straight scenario a position belongs to one operation, and replay  *)
(* finds there what that operation left.                                   *)
(***************************************************************************)
Place(s, w) == CHOOSE at \in [DOMAIN s.code[1][w] -> 0..MaxSlots] : Lays(s.code[1][w], at)

\* e is what operation i of w may have left at position k.
Belongs(s, w, i, k, e) ==
    LET o == s.code[1][w][i]
    IN \/ /\ o.op # "await" /\ Place(s, w)[i] = k /\ e.name = o.name
          /\ o.op = "child" => e.tag = "child"
          /\ o.op = "sleep" => e.tag = "time"
       \/ o.op \in Waiting /\ Place(s, w)[i] + 1 = k /\ e.name = "sleep" /\ e.tag = "time"

Placed(t) == Working(tasks[t]) => tasks[t].seq = Place(sc, tasks[t].wf)[tasks[t].ip]

Laid(w, k) == IsRecorded(out[w][k]) => \E i \in DOMAIN sc.code[1][w] : Belongs(sc, w, i, k, out[w][k])

Layout == (\A t \in Tasks : Placed(t)) /\ \A w \in Ids, k \in Slots : Laid(w, k)

LEMMA PlaceIs ==
    ASSUME Straight(sc), NEW w \in Ids
    PROVE  Place(sc, w) \in [DOMAIN sc.code[1][w] -> 0..MaxSlots] /\ Lays(sc.code[1][w], Place(sc, w))
  BY DEF Straight, Place

LEMMA StraightOp ==
    ASSUME Types, Straight(sc), NEW t \in Tasks, tasks[t].pc \notin {"idle", "finish"}
    PROVE  /\ tasks[t].wf \in Ids /\ tasks[t].ip \in DOMAIN sc.code[1][tasks[t].wf]
           /\ CurOp(t) = sc.code[1][tasks[t].wf][tasks[t].ip]
           /\ CurOp(t).op \notin PatchOps
           /\ CurOp(t).next # 0 => CurOp(t).next \in DOMAIN sc.code[1][tasks[t].wf]
           /\ CurOp(t).next # 0 => Place(sc, tasks[t].wf)[CurOp(t).next]
                                     = Place(sc, tasks[t].wf)[tasks[t].ip] + Uses(CurOp(t))
<1>1. Fit(tasks[t]) /\ Working(tasks[t])
  BY TaskFacts
<1>2. tasks[t].wf \in Ids /\ tasks[t].version \in DOMAIN sc.code
      /\ sc.code[tasks[t].version] = sc.code[1]
  BY TaskFacts DEF Straight
<1>3. tasks[t].ip \in DOMAIN sc.code[1][tasks[t].wf] /\ \E at : Bounds(sc.code[1][tasks[t].wf], at)
  BY <1>1, <1>2 DEF Fit, CodeOf
<1>4. CurOp(t) = sc.code[1][tasks[t].wf][tasks[t].ip]
  BY <1>2 DEF CurOp
<1>5. CurOp(t).next # 0 => CurOp(t).next \in DOMAIN sc.code[1][tasks[t].wf]
  BY <1>3, <1>4 DEF Bounds
<1>6. Lays(sc.code[1][tasks[t].wf], Place(sc, tasks[t].wf))
  BY <1>2, PlaceIs
<1> QED
  BY <1>2, <1>3, <1>4, <1>5, <1>6 DEF Lays

\* A position belongs to one operation.
LEMMA OneEach ==
    ASSUME Types, Straight(sc), NEW w \in Ids, NEW k \in Slots,
           NEW i \in DOMAIN sc.code[1][w], NEW j \in DOMAIN sc.code[1][w],
           sc.code[1][w][i].op # "await", sc.code[1][w][j].op # "await",
           Place(sc, w)[i] <= k, k < Place(sc, w)[i] + Uses(sc.code[1][w][i]),
           Place(sc, w)[j] <= k, k < Place(sc, w)[j] + Uses(sc.code[1][w][j])
    PROVE  i = j
<1> DEFINE f == sc.code[1][w]
           at == Place(sc, w)
           n == Uses(f[i])
           m == Uses(f[j])
<1>1. at[i] \in Nat /\ at[j] \in Nat /\ k \in Nat /\ n \in Nat /\ m \in Nat
  BY PlaceIs, TablesAssumption DEF Slots, Uses, SlotsOf
<1>2. /\ at[i] <= at[j] /\ at[j] < at[i] + n => i = j
      /\ at[j] <= at[i] /\ at[i] < at[j] + m => i = j
  BY PlaceIs DEF Lays
<1>3. at[i] <= k /\ k < at[i] + n /\ at[j] <= k /\ k < at[j] + m
  OBVIOUS
<1> HIDE DEF f, at, n, m
<1> QED
  BY <1>1, <1>2, <1>3

LEMMA LayoutInit == Init => Layout
<1> SUFFICES ASSUME Init PROVE Layout
  OBVIOUS
<1>1. \A t \in Tasks : tasks[t].pc = "idle"
  BY DEF Init, IdleTask
<1>2. \A w \in Ids, k \in Slots : out[w][k] = Unrecorded
  BY DEF Init
<1> QED
  BY <1>1, <1>2 DEF Layout, Placed, Laid, Working, IsRecorded

\* Replay finds the operation it expects.
LEMMA LayoutDeterministic == Types /\ Straight(sc) /\ Layout => Deterministic
<1> SUFFICES ASSUME Types, Straight(sc), Layout, NEW t \in Tasks, tasks[t].pc = "replay", IsRecorded(At(t)),
                    CurOp(t).op \notin PatchOps \cup {"await"}
             PROVE  At(t).name = CurOp(t).name /\ (CurOp(t).op = "child" => At(t).tag = "child")
  BY DEF Deterministic
<1> DEFINE w == tasks[t].wf
           i == tasks[t].ip
           k == tasks[t].seq
           f == sc.code[1][w]
           at == Place(sc, w)
<1>1. w \in Ids /\ i \in DOMAIN f /\ CurOp(t) = f[i] /\ f[i].op # "await" /\ k \in Slots /\ At(t) = out[w][k]
  BY StraightOp, TaskFacts
<1>2. at[i] = k
  BY DEF Layout, Placed, Working
<1>3. PICK j \in DOMAIN f : Belongs(sc, w, j, k, out[w][k])
  BY <1>1 DEF Layout, Laid
<1>4. at[i] \in Nat /\ at[j] \in Nat /\ k \in Nat
  BY <1>1, PlaceIs, TablesAssumption DEF Slots
<1>5. f[j].op # "await"
  BY <1>3 DEF Belongs, Waiting
<1>6. at[i] <= k /\ k < at[i] + Uses(f[i])
  BY <1>1, <1>2, <1>4 DEF Uses, SlotsOf
<1>7. at[j] <= k /\ k < at[j] + Uses(f[j])
  BY <1>3, <1>4, <1>5 DEF Belongs, Uses, SlotsOf, Waiting
<1>8. i = j
  BY <1>1, <1>5, <1>6, <1>7, OneEach
<1>9. ~(at[j] + 1 = k)
  BY <1>2, <1>4, <1>8
<1> QED
  BY <1>1, <1>3, <1>8, <1>9 DEF Belongs

LEMMA HopPlaced ==
    ASSUME NEW t \in Tasks, Working(tasks[t]), sc' = sc, \A u \in Tasks : Placed(u), NEW P, Hop(t, P)
    PROVE  \A u \in Tasks : Placed(u)'
<1>1. Placed(t)'
  BY DEF Placed, Hop
<1>2. \A u \in Tasks \ {t} : Placed(u)'
  BY DEF Placed, Hop, Others
<1> QED
  BY <1>1, <1>2

LEMMA WentPlaced ==
    ASSUME Types, Straight(sc), NEW t \in Tasks, tasks[t].pc \notin {"idle", "finish"}, sc' = sc,
           \A u \in Tasks : Placed(u),
           NEW o, NEW n, n = Uses(CurOp(t)), Went(t, o, n, CurOp(t).next)
    PROVE  \A u \in Tasks : Placed(u)'
<1>1. tasks[t].seq = Place(sc, tasks[t].wf)[tasks[t].ip]
  BY DEF Placed, Working
<1>2. CurOp(t).next # 0 => Place(sc, tasks[t].wf)[CurOp(t).next] = tasks[t].seq + n
  BY <1>1, StraightOp
<1>3. /\ CurOp(t).next = 0 => tasks'[t].pc = "finish"
      /\ tasks'[t].wf = tasks[t].wf /\ tasks'[t].ip = CurOp(t).next /\ tasks'[t].seq = tasks[t].seq + n
  BY DEF Went
<1>4. Placed(t)'
  BY <1>2, <1>3 DEF Placed, Working
<1>5. \A u \in Tasks \ {t} : Placed(u)'
  BY DEF Placed, Went, Others
<1> QED
  BY <1>4, <1>5

LEMMA WroteLaid ==
    ASSUME sc' = sc, \A w \in Ids, k \in Slots : Laid(w, k), NEW x \in Ids, NEW j \in Slots, NEW e,
           Wrote(x, j, e), \E i \in DOMAIN sc.code[1][x] : Belongs(sc, x, i, j, e)
    PROVE  \A w \in Ids, k \in Slots : Laid(w, k)'
<1> SUFFICES ASSUME NEW w \in Ids, NEW k \in Slots PROVE Laid(w, k)'
  OBVIOUS
<1>1. CASE w = x /\ k = j /\ out[w][k] = Unrecorded
  <2>1. out'[w][k] = e
    BY <1>1 DEF Wrote
  <2> QED
    BY <1>1, <2>1 DEF Laid
<1>2. CASE ~(w = x /\ k = j /\ out[w][k] = Unrecorded)
  <2>1. out'[w][k] = out[w][k]
    BY <1>2 DEF Wrote
  <2> QED
    BY <2>1 DEF Laid
<1> QED
  BY <1>1, <1>2

\* The outcome of an operation that is not a child, a sleep or a wait for one.
LEMMA OwnLaid ==
    ASSUME Types, Straight(sc), NEW t \in Tasks, tasks[t].pc \notin {"idle", "finish"}, Placed(t),
           CurOp(t).op # "await", NEW o,
           CurOp(t).op = "child" => o.tag = "child", CurOp(t).op = "sleep" => o.tag = "time"
    PROVE  \E i \in DOMAIN sc.code[1][tasks[t].wf] :
              Belongs(sc, tasks[t].wf, i, tasks[t].seq, Entry(CurOp(t).name, o))
<1>1. tasks[t].ip \in DOMAIN sc.code[1][tasks[t].wf] /\ CurOp(t) = sc.code[1][tasks[t].wf][tasks[t].ip]
  BY StraightOp
<1>2. tasks[t].seq = Place(sc, tasks[t].wf)[tasks[t].ip]
  BY DEF Placed, Working
<1>3. Entry(CurOp(t).name, o).name = CurOp(t).name /\ Entry(CurOp(t).name, o).tag = o.tag
  BY DEF Entry
<1> QED
  BY <1>1, <1>2, <1>3 DEF Belongs

LEMMA DeadlineLaid ==
    ASSUME Types, Straight(sc), NEW t \in Tasks, tasks[t].pc \notin {"idle", "finish"}, Placed(t),
           CurOp(t).op \in Waiting \cup {"sleep"}, NEW o, o.tag = "time"
    PROVE  \E i \in DOMAIN sc.code[1][tasks[t].wf] :
              Belongs(sc, tasks[t].wf, i, DeadlineSlot(t), Entry("sleep", o))
<1>1. tasks[t].ip \in DOMAIN sc.code[1][tasks[t].wf] /\ CurOp(t) = sc.code[1][tasks[t].wf][tasks[t].ip]
  BY StraightOp
<1>2. tasks[t].seq = Place(sc, tasks[t].wf)[tasks[t].ip]
  BY DEF Placed, Working
<1>3. Entry("sleep", o).name = "sleep" /\ Entry("sleep", o).tag = "time"
  BY DEF Entry
<1>4. CASE CurOp(t).op = "sleep"
  <2>1. CurOp(t).name = "sleep"
    BY <1>4, OpNames
  <2> QED
    BY <1>1, <1>2, <1>3, <1>4, <2>1 DEF Belongs, DeadlineSlot
<1>5. CASE CurOp(t).op \in Waiting
  <2>1. DeadlineSlot(t) = Place(sc, tasks[t].wf)[tasks[t].ip] + 1
    BY <1>2, <1>5 DEF DeadlineSlot, Waiting
  <2> QED
    BY <1>1, <1>3, <1>5, <2>1 DEF Belongs
<1> QED
  BY <1>4, <1>5

LEMMA CalmLayout ==
    ASSUME Types, Straight(sc), Layout, UNCHANGED <<sc, out>>, \A u \in Tasks : Calm(u)
    PROVE  Layout'
<1>1. \A w \in Ids, k \in Slots : Laid(w, k)'
  BY DEF Layout, Laid
<1>2. ASSUME NEW u \in Tasks PROVE Placed(u)'
  <2>1. CASE tasks'[u] = tasks[u]
    BY <2>1 DEF Layout, Placed
  <2>2. CASE tasks'[u].pc = "idle"
    BY <2>2 DEF Placed, Working
  <2>3. CASE Fresh(u)
    <3>1. tasks'[u].seq = 0 /\ tasks'[u].ip = 1 /\ tasks'[u].wf \in Ids
      BY <2>3 DEF Fresh
    <3>2. Working(tasks[u])' => 1 \in DOMAIN sc.code[1][tasks'[u].wf]
      <4>1. Working(tasks[u])' => 1 \in DOMAIN sc.code[version][tasks'[u].wf]
        BY <2>3 DEF Fresh, Working
      <4>2. sc.code[version] = sc.code[1]
        BY DEF Types, TypeOK, Straight
      <4> QED
        BY <4>1, <4>2
    <3>3. Lays(sc.code[1][tasks'[u].wf], Place(sc, tasks'[u].wf))
      BY <3>1, PlaceIs
    <3> QED
      BY <3>1, <3>2, <3>3 DEF Lays, Placed
  <2>4. CASE Pushed(u)
    <3>1. Working(tasks[u])
      BY <2>4 DEF Pushed, Working
    <3> QED
      BY <2>4, <3>1 DEF Layout, Placed, Pushed
  <2> QED
    BY <2>1, <2>2, <2>3, <2>4 DEF Calm
<1> QED
  BY <1>1, <1>2 DEF Layout

LEMMA TaskLayout ==
    ASSUME Types, Straight(sc), Layout, NEW t \in Tasks,
           \/ ReplayHit(t) \/ ReplayMiss(t) \/ Guard(t) \/ ChildLookup(t) \/ PatchLookup(t)
              \/ deprecate_patch(t) \/ AwaitChild(t)
           \/ Produce(t) \/ GetEvent(t) \/ RecvSelect(t) \/ StreamCheck(t)
           \/ RecordOutcome(t) \/ Expire(t) \/ TxGiveUp(t)
           \/ RecvCommit(t) \/ TxCommit(t) \/ Link(t) \/ PatchMark(t)
           \/ DeadlineKnown(t) \/ FixDeadline(t) \/ Sleep(t) \/ Subscribe(t) \/ WakeUp(t)
           \/ Send(t) \/ SetEvent(t) \/ StreamAppend(t)
           \/ conflict_retry_wait(t) \/ TxConflict(t) \/ TxCommitLost(t) \/ TxBodyFails(t)
    PROVE  Layout'
<1> DEFINE P == \A u \in Tasks : Placed(u)'
           L == \A w \in Ids, k \in Slots : Laid(w, k)'
<1> SUFFICES P /\ L
  BY DEF Layout
<1>0. sc' = sc
  BY TaskRows
<1>1. out' = out => L
  BY <1>0 DEF Layout, Laid
<1>2. ASSUME tasks[t].pc \notin {"idle", "finish"}, NEW Q, Hop(t, Q) PROVE P
  BY <1>0, <1>2, HopPlaced DEF Layout, Working
<1>3. ASSUME tasks[t].pc \notin {"idle", "finish"}, NEW o, Went(t, o, Uses(CurOp(t)), CurOp(t).next) PROVE P
  BY <1>0, <1>3, WentPlaced DEF Layout
<1>4. CurOp(t).op # "await" => Uses(CurOp(t)) = SlotsOf(CurOp(t))
  BY DEF Uses
<1>5. ASSUME tasks[t].pc \notin {"idle", "finish"}, CurOp(t).op # "await", NEW o,
             CurOp(t).op = "child" => o.tag = "child", CurOp(t).op = "sleep" => o.tag = "time",
             Wrote(tasks[t].wf, tasks[t].seq, Entry(CurOp(t).name, o))
      PROVE  L
  <2>1. tasks[t].wf \in Ids /\ tasks[t].seq \in Slots
    BY <1>5, TaskFacts
  <2>2. \E i \in DOMAIN sc.code[1][tasks[t].wf] :
            Belongs(sc, tasks[t].wf, i, tasks[t].seq, Entry(CurOp(t).name, o))
    BY <1>5, OwnLaid DEF Layout
  <2> DEFINE e == Entry(CurOp(t).name, o)
  <2> HIDE DEF e
  <2>3. Wrote(tasks[t].wf, tasks[t].seq, e) /\ \E i \in DOMAIN sc.code[1][tasks[t].wf] :
            Belongs(sc, tasks[t].wf, i, tasks[t].seq, e)
    BY <1>5, <2>2 DEF e
  <2> QED
    BY <1>0, <2>1, <2>3, WroteLaid DEF Layout
<1> HIDE DEF P, L
<1>6. CASE ReplayHit(t) \/ ReplayMiss(t) \/ ChildLookup(t)
  <2>1. tasks[t].pc = "replay" /\ CurOp(t).op # "await" /\ out' = out
        /\ ((\E Q : Hop(t, Q)) \/ \E o : Went(t, o, SlotsOf(CurOp(t)), CurOp(t).next))
    BY <1>6, ReplayHitIs, ReplayMissIs, ChildLookupIs DEF Still, HasOwnLookup
  <2> QED
    BY <1>1, <1>2, <1>3, <1>4, <2>1
<1>7. CASE AwaitChild(t)
  <2>1. tasks[t].pc = "replay" /\ CurOp(t).op = "await" /\ out' = out
        /\ ((\E Q : Hop(t, Q)) \/ Went(t, NoOutcome, 0, CurOp(t).next))
    BY <1>7, AwaitChildIs DEF Still
  <2>2. Uses(CurOp(t)) = 0
    BY <2>1 DEF Uses
  <2> QED
    BY <1>1, <1>2, <1>3, <2>1, <2>2
<1>8. CASE PatchLookup(t) \/ deprecate_patch(t) \/ PatchMark(t)
  <2>1. tasks[t].pc \in {"replay", "mark"} /\ CurOp(t).op \in PatchOps
    BY <1>8, PatchIs, PatchMarkIs DEF PatchOps
  <2> QED
    BY <2>1, StraightOp
<1>9. CASE Guard(t) \/ Produce(t) \/ Subscribe(t) \/ WakeUp(t) \/ SetEvent(t)
  <2>1. Still /\ tasks[t].pc \notin {"idle", "finish"} /\ \E Q : Hop(t, Q)
    BY <1>9, PlainHops
  <2> QED
    BY <1>1, <1>2, <2>1 DEF Still
<1>10. CASE conflict_retry_wait(t) \/ TxConflict(t) \/ TxBodyFails(t)
  <2>1. Still /\ tasks[t].pc \notin {"idle", "finish"} /\ \E Q : Hop(t, Q)
    BY <1>10, TxHops
  <2> QED
    BY <1>1, <1>2, <2>1 DEF Still
<1>11. CASE GetEvent(t) \/ RecvSelect(t) \/ StreamCheck(t) \/ DeadlineKnown(t)
  <2>1. Still /\ tasks[t].pc \notin {"idle", "finish"} /\ \E Q : Hop(t, Q)
    BY <1>11, GetEventIs, RecvSelectIs, StreamCheckIs, DeadlineKnownIs
  <2> QED
    BY <1>1, <1>2, <2>1 DEF Still
<1>12. CASE Sleep(t)
  <2>1. Still /\ tasks[t].pc = "sleeping" /\ CurOp(t).op = "sleep"
        /\ Went(t, tasks[t].deadline, SlotsOf(CurOp(t)), CurOp(t).next)
    BY <1>12, SleepIs
  <2> QED
    BY <1>1, <1>3, <1>4, <2>1 DEF Still
<1>13. CASE Send(t) \/ StreamAppend(t)
  <2>1. out' = out /\ tasks[t].pc \notin {"idle", "finish"} /\ \E Q : Hop(t, Q)
    BY <1>13, SendIs, StreamAppendIs
  <2> QED
    BY <1>1, <1>2, <2>1
<1>14. CASE RecordOutcome(t)
  <2>1. tasks[t].pc = "record" /\ CurOp(t).op \in Recorded
        /\ Wrote(tasks[t].wf, tasks[t].seq, Entry(CurOp(t).name, tasks[t].got))
        /\ ((\E Q : Hop(t, Q)) \/ \E o : Went(t, o, SlotsOf(CurOp(t)), CurOp(t).next))
    BY <1>14, RecordOutcomeIs
  <2>2. CurOp(t).op \notin {"await", "child", "sleep"}
    BY <2>1 DEF Recorded, StreamOps
  <2> QED
    BY <1>2, <1>3, <1>4, <1>5, <2>1, <2>2
<1>15. CASE Expire(t)
  <2>1. tasks[t].pc = "expire" /\ CurOp(t).op \notin {"await", "child", "sleep"}
        /\ Wrote(tasks[t].wf, tasks[t].seq, Entry(CurOp(t).name, Null))
        /\ Went(t, Null, SlotsOf(CurOp(t)), CurOp(t).next)
    BY <1>15, ExpireIs DEF Waiting
  <2> QED
    BY <1>3, <1>4, <1>5, <2>1
<1>16. CASE TxGiveUp(t)
  <2>1. tasks[t].pc = "giveup" /\ CurOp(t).op = "tx" /\ Others(t) /\ tasks'[t].pc = "finish"
        /\ Wrote(tasks[t].wf, tasks[t].seq, Entry(CurOp(t).name, Failed))
    BY <1>16, TxGiveUpIs
  <2>2. P
    BY <1>0, <2>1 DEF P, Placed, Others, Layout, Working
  <2> QED
    BY <1>5, <2>1, <2>2
<1>17. CASE RecvCommit(t)
  <2> DEFINE o == Outcome("msg", tasks[t].pick)
  <2>1. tasks[t].pc = "claim" /\ CurOp(t).op = "recv"
        /\ Wrote(tasks[t].wf, tasks[t].seq, Entry(CurOp(t).name, o))
        /\ Went(t, o, SlotsOf(CurOp(t)), CurOp(t).next)
    BY <1>17, RecvCommitIs
  <2> HIDE DEF o
  <2> QED
    BY <1>3, <1>4, <1>5, <2>1
<1>18. CASE TxCommit(t)
  <2>1. tasks[t].pc = "body" /\ CurOp(t).op = "tx"
    BY <1>18, TxCommitIs
  <2>2. PICK o \in OutcomeType : Wrote(tasks[t].wf, tasks[t].seq, Entry(CurOp(t).name, o))
                                 /\ Went(t, o, SlotsOf(CurOp(t)), CurOp(t).next)
    BY <1>18, TxCommitIs
  <2> QED
    BY <1>3, <1>4, <1>5, <2>1, <2>2
<1>19. CASE Link(t)
  <2> DEFINE o == Outcome("child", 0)
  <2>1. tasks[t].pc = "link" /\ CurOp(t).op = "child"
        /\ Wrote(tasks[t].wf, tasks[t].seq, Entry(CurOp(t).name, o))
        /\ Went(t, o, SlotsOf(CurOp(t)), CurOp(t).next) /\ o.tag = "child"
    BY <1>19, LinkIs DEF Outcome
  <2> HIDE DEF o
  <2> QED
    BY <1>3, <1>4, <1>5, <2>1
<1>20. CASE FixDeadline(t)
  <2> DEFINE o == Outcome("time", now + CurOp(t).wait)
             e == Entry("sleep", o)
  <2>1. tasks[t].pc = "fix" /\ CurOp(t).op \in Waiting \cup {"sleep"} /\ DeadlineSlot(t) \in Slots
        /\ tasks[t].wf \in Ids /\ Wrote(tasks[t].wf, DeadlineSlot(t), e) /\ o.tag = "time"
        /\ \E Q : Hop(t, Q)
    BY <1>20, FixDeadlineIs, TaskFacts DEF Outcome
  <2> HIDE DEF o
  <2>2. \E i \in DOMAIN sc.code[1][tasks[t].wf] : Belongs(sc, tasks[t].wf, i, DeadlineSlot(t), e)
    BY <2>1, DeadlineLaid DEF Layout
  <2> HIDE DEF e
  <2>3. L
    BY <1>0, <2>1, <2>2, WroteLaid DEF Layout, L
  <2> QED
    BY <1>2, <2>1, <2>3
<1>21. CASE TxCommitLost(t)
  <2>1. tasks[t].pc = "body" /\ CurOp(t).op = "tx" /\ Hop(t, {"retry"})
    BY <1>21, TxCommitLostIs
  <2>2. PICK o \in OutcomeType : Wrote(tasks[t].wf, tasks[t].seq, Entry(CurOp(t).name, o))
    BY <1>21, TxCommitLostIs
  <2> QED
    BY <1>2, <1>5, <2>1, <2>2
<1> QED
  BY <1>6, <1>7, <1>8, <1>9, <1>10, <1>11, <1>12, <1>13, <1>14, <1>15, <1>16, <1>17, <1>18, <1>19, <1>20, <1>21

LEMMA LayoutNext == Types /\ Straight(sc) /\ Layout /\ [Next]_vars => Layout'
<1> SUFFICES ASSUME Types, Straight(sc), Layout, [Next]_vars PROVE Layout'
  OBVIOUS
<1>1. ASSUME (\A u \in Tasks : Calm(u)) /\ UNCHANGED <<sc, out, notes, streams, effects>> PROVE Layout'
  BY <1>1, CalmLayout
<1>2. ASSUME NEW p \in sc.posts, Post(p) PROVE Layout'
  BY <1>2, CalmLayout, PostCalm
<1>3. CASE UNCHANGED vars
  BY <1>3, CalmLayout DEF vars, tables, Calm
<1>4. CASE Next
  BY <1>1, <1>2, <1>4, NextIs, TaskLayout, RestCalm, Zenon
<1> QED
  BY <1>3, <1>4

(***************************************************************************)
(* In a scenario where executions cannot overlap and functions keep to a   *)
(* layout, every function is given what the log holds, every message is    *)
(* received at one position, keyed ones once, in order, and a transaction  *)
(* has taken effect exactly when its success is recorded, once and at most *)
(* once more for every commit whose answer was lost: across crashes,       *)
(* redeployments, cancellations, lost notifications and conflicts.         *)
(* (replay_or_guard, record_step_result, durable_wake_at,                  *)
(* consume_notification, insert_notification, run_transaction_step)        *)
(***************************************************************************)
THEOREM DurableOnce ==
    Spec => [](Solo(sc) /\ Straight(sc) => ObservedIsRecorded /\ Delivery /\ EffectsOnce)
<1> DEFINE Inv == Solo(sc) /\ Straight(sc) => Single /\ Layout /\ Core
<1>1. Init => Types /\ Mail /\ Inv
  BY TypesInit, MailInit, SingleInit, LayoutInit, CoreInit
<1>2. Types /\ Mail /\ Inv /\ [Next]_vars => (Types /\ Mail /\ Inv)'
  <2> SUFFICES ASSUME Types, Mail, Inv, [Next]_vars PROVE (Types /\ Mail /\ Inv)'
    OBVIOUS
  <2>1. Types' /\ Mail'
    BY TypesNext, MailNext
  <2>2. Solo(sc)' = Solo(sc) /\ Straight(sc)' = Straight(sc)
    BY NoMore DEF Solo, Straight
  <2>3. ASSUME Solo(sc), Straight(sc) PROVE Single' /\ Layout' /\ Core'
    <3>1. Single /\ Alone /\ Layout /\ Core /\ Deterministic
      BY <2>3, LayoutDeterministic DEF Single
    <3> QED
      BY <2>3, <3>1, SingleNext, LayoutNext, CoreNext
  <2> QED
    BY <2>1, <2>2, <2>3
<1>3. Types /\ Mail /\ Inv => (Solo(sc) /\ Straight(sc) => ObservedIsRecorded /\ Delivery /\ EffectsOnce)
  BY CoreIsEnough
<1> QED
  BY <1>1, <1>2, <1>3, PTL DEF Spec

(***************************************************************************)
(* In an Unfailing scenario no execution comes to a statement that fails.  *)
(***************************************************************************)
Fine(t) ==
    /\ tasks[t].pc # "giveup"
    /\ tasks[t].pc = "finish" => tasks[t].res \in {"SUCCESS", "CANCELLED"}
    /\ tasks[t].pc = "record" /\ CurOp(t).op = "getEvent" => tasks[t].got # Null

NoFailures == \A w \in Ids, k \in Slots : out[w][k].tag # "fail"

Open == \A w \in Ids : ~IsClosed(streams[w])

NoErrors == \A w \in Ids : rows[w] # "ERROR"

Steady ==
    /\ faults["body"] = 0
    /\ \A t \in Tasks : Fine(t)
    /\ NoFailures /\ Open /\ NoErrors

LEMMA SafeOp ==
    ASSUME Types, Unfailing(sc), NEW t \in Tasks, tasks[t].pc \notin {"idle", "finish"}
    PROVE  CurOp(t).op \in Safe
<1>1. tasks[t].wf \in Ids /\ tasks[t].version \in DOMAIN sc.code
      /\ tasks[t].ip \in DOMAIN sc.code[tasks[t].version][tasks[t].wf]
  BY DEF Types, Fit, Working, CodeOf
<1> QED
  BY <1>1 DEF Unfailing, CurOp

\* At the position of a deadline there is an instant.
LEMMA DeadlineEntry ==
    ASSUME Types, Straight(sc), NEW t \in Tasks, tasks[t].pc \notin {"idle", "finish"}, Placed(t),
           CurOp(t).op \in Waiting \cup {"sleep"}, DeadlineSlot(t) \in Slots, NEW e,
           NEW j \in DOMAIN sc.code[1][tasks[t].wf], Belongs(sc, tasks[t].wf, j, DeadlineSlot(t), e)
    PROVE  e.name = "sleep" /\ e.tag = "time"
<1> DEFINE w == tasks[t].wf
           i == tasks[t].ip
           k == DeadlineSlot(t)
           f == sc.code[1][w]
           at == Place(sc, w)
<1>1. w \in Ids /\ i \in DOMAIN f /\ CurOp(t) = f[i] /\ k \in Slots /\ f[i].op \in Waiting \cup {"sleep"}
  BY StraightOp
<1>2. at[i] = tasks[t].seq
  BY DEF Placed, Working
<1>3. at[i] \in Nat /\ at[j] \in Nat /\ k \in Nat
  BY <1>1, PlaceIs, TablesAssumption DEF Slots
<1>4. f[i].op # "await" /\ f[j].op # "await"
  BY <1>1 DEF Belongs, Waiting
<1>5. k = IF f[i].op = "sleep" THEN at[i] ELSE at[i] + 1
  BY <1>1, <1>2 DEF DeadlineSlot
<1>6. at[i] <= k /\ k < at[i] + Uses(f[i])
  <2>1. CASE f[i].op = "sleep"
    <3>1. Uses(f[i]) = 1 /\ k = at[i]
      BY <1>5, <2>1 DEF Uses, SlotsOf
    <3> QED
      BY <1>3, <3>1
  <2>2. CASE f[i].op \in Waiting
    <3>1. Uses(f[i]) = 2 /\ k = at[i] + 1
      BY <1>5, <2>2 DEF Uses, SlotsOf, Waiting
    <3> QED
      BY <1>3, <3>1
  <2> QED
    BY <1>1, <2>1, <2>2
<1>7. at[j] <= k /\ k < at[j] + Uses(f[j])
  BY <1>3, <1>4 DEF Belongs, Uses, SlotsOf, Waiting
<1>8. i = j
  BY <1>1, <1>4, <1>6, <1>7, OneEach
<1>9. CASE f[i].op = "sleep"
  <2>1. f[i].name = "sleep"
    BY <1>1, <1>9, OpNames
  <2> QED
    BY <1>8, <1>9, <2>1 DEF Belongs, Waiting
<1>10. CASE f[i].op # "sleep"
  <2>1. ~(at[j] = k)
    BY <1>3, <1>5, <1>8, <1>10
  <2> QED
    BY <1>8, <2>1 DEF Belongs
<1> QED
  BY <1>9, <1>10

LEMMA SteadyInit == Init /\ Unfailing(sc) => Steady
<1> SUFFICES ASSUME Init, Unfailing(sc) PROVE Steady
  OBVIOUS
<1>1. (\A t \in Tasks : tasks[t].pc = "idle") /\ faults["body"] = 0
  BY DEF Init, IdleTask, Unfailing
<1>2. \A w \in Ids : rows[w] = "ABSENT" /\ streams[w] = <<>> /\ \A k \in Slots : out[w][k] = Unrecorded
  BY DEF Init
<1>3. NoErrors /\ NoFailures
  BY <1>2 DEF NoErrors, NoFailures, Unrecorded
<1>4. Open
  BY <1>2 DEF Open, IsClosed
<1>5. \A t \in Tasks : Fine(t)
  BY <1>1 DEF Fine
<1> QED
  BY <1>1, <1>3, <1>4, <1>5 DEF Steady

LEMMA CalmSteady ==
    ASSUME Types, Steady, UNCHANGED <<sc, out, streams>>, faults'["body"] = 0, NoErrors',
           \A u \in Tasks : Calm(u)
    PROVE  Steady'
<1>1. ASSUME NEW u \in Tasks PROVE Fine(u)'
  <2>1. CASE tasks'[u] = tasks[u]
    BY <2>1 DEF Steady, Fine, CurOp
  <2>2. CASE tasks'[u].pc = "idle"
    BY <2>2 DEF Fine
  <2>3. CASE Fresh(u)
    BY <2>3 DEF Fresh, Fine
  <2>4. CASE Pushed(u)
    BY <2>4 DEF Pushed, Fine
  <2> QED
    BY <2>1, <2>2, <2>3, <2>4 DEF Calm
<1>2. NoFailures' /\ Open'
  BY DEF Steady, NoFailures, Open
<1> QED
  BY <1>1, <1>2 DEF Steady

LEMMA TaskSteady ==
    ASSUME Types, Straight(sc), Unfailing(sc), Core, Flow, Layout, Layout', Deterministic, Steady,
           NEW t \in Tasks,
           \/ ReplayHit(t) \/ ReplayMiss(t) \/ Guard(t) \/ ChildLookup(t) \/ PatchLookup(t)
              \/ deprecate_patch(t) \/ AwaitChild(t)
           \/ Produce(t) \/ GetEvent(t) \/ RecvSelect(t) \/ StreamCheck(t)
           \/ RecordOutcome(t) \/ Expire(t) \/ TxGiveUp(t)
           \/ RecvCommit(t) \/ TxCommit(t) \/ Link(t) \/ PatchMark(t)
           \/ DeadlineKnown(t) \/ FixDeadline(t) \/ Sleep(t) \/ Subscribe(t) \/ WakeUp(t)
           \/ Send(t) \/ SetEvent(t) \/ StreamAppend(t)
           \/ conflict_retry_wait(t) \/ TxConflict(t) \/ TxCommitLost(t) \/ TxBodyFails(t)
    PROVE  (\A u \in Tasks : Fine(u)') /\ NoFailures' /\ Open'
<1> DEFINE F == \A u \in Tasks : Fine(u)'
           N == NoFailures'
           C == Open'
<1> SUFFICES F /\ N /\ C
  OBVIOUS
<1>0. sc' = sc /\ Others(t)
  BY TaskRows
<1>1. ASSUME Fine(t)' PROVE F
  BY <1>0, <1>1 DEF Others, Steady, Fine, CurOp
<1>2. ASSUME NEW Q, Hop(t, Q), Q \cap {"finish", "giveup", "record"} = {} PROVE F
  <2>1. tasks'[t].pc \notin {"finish", "giveup", "record"}
    BY <1>2 DEF Hop
  <2> QED
    BY <1>1, <2>1 DEF Fine
<1>3. ASSUME Hop(t, {"record"}), CurOp(t).op # "getEvent" \/ tasks'[t].got # Null PROVE F
  <2>1. tasks'[t].pc = "record" /\ CurOp(t)' = CurOp(t)
    BY <1>0, <1>3 DEF Hop, CurOp
  <2> QED
    BY <1>1, <1>3, <2>1 DEF Fine
<1>4. ASSUME NEW o, NEW n, NEW ip, Went(t, o, n, ip) PROVE F
  <2>1. tasks'[t].pc \in {"finish", "replay"} /\ (tasks'[t].pc = "finish" => tasks'[t].res = "SUCCESS")
    BY <1>4 DEF Went
  <2> QED
    BY <1>1, <2>1 DEF Fine
<1>5. out' = out => N
  BY DEF Steady, NoFailures
<1>6. ASSUME NEW w, NEW k, NEW e, Wrote(w, k, e), e.tag # "fail" PROVE N
  BY <1>6 DEF Steady, NoFailures, Wrote
<1>7. streams' = streams => C
  BY DEF Steady, Open
<1>8. ASSUME tasks[t].pc \notin {"idle", "finish"} PROVE CurOp(t).op \in Safe /\ CurOp(t).op \notin PatchOps \cup {"await", "child", "send", "closeStream"}
  BY <1>8, SafeOp DEF Safe, PatchOps
<1>9. Fine(t) /\ Placed(t) /\ NoFailures /\ Open /\ faults["body"] = 0
  BY DEF Steady, Layout
<1> HIDE DEF F, N, C
<1>10. CASE ReplayHit(t) \/ ReplayMiss(t)
  <2>1. tasks[t].pc = "replay" /\ out' = out /\ streams' = streams
    BY <1>10, ReplayHitIs, ReplayMissIs DEF Still
  <2>2. ASSUME ReplayHit(t) PROVE At(t).name = CurOp(t).name /\ At(t).tag # "fail"
    <3>1. IsRecorded(At(t)) /\ tasks[t].wf \in Ids /\ tasks[t].seq \in Slots /\ At(t) = out[tasks[t].wf][tasks[t].seq]
      BY <2>1, <2>2, ReplayHitIs, TaskFacts
    <3> QED
      BY <1>8, <1>9, <2>1, <3>1 DEF Deterministic, NoFailures
  <2>3. ASSUME ReplayHit(t) PROVE F
    <3>1. Hop(t, {"sleeping"}) \/ \E o, n, ip : Went(t, o, n, ip)
      BY <2>2, <2>3, ReplayHitIs
    <3> QED
      BY <1>2, <1>4, <3>1
  <2>4. ASSUME ReplayMiss(t) PROVE F
    BY <1>2, <2>4, ReplayMissIs
  <2> QED
    BY <1>5, <1>7, <1>10, <2>1, <2>3, <2>4
<1>11. CASE ChildLookup(t) \/ AwaitChild(t) \/ Link(t) \/ Send(t)
  <2>1. tasks[t].pc \notin {"idle", "finish"} /\ CurOp(t).op \in {"child", "await", "send"}
    BY <1>11, ChildLookupIs, AwaitChildIs, LinkIs, SendIs
  <2> QED
    BY <1>8, <2>1
<1>12. CASE PatchLookup(t) \/ deprecate_patch(t) \/ PatchMark(t)
  <2>1. tasks[t].pc \notin {"idle", "finish"} /\ CurOp(t).op \in PatchOps
    BY <1>12, PatchIs, PatchMarkIs DEF PatchOps
  <2> QED
    BY <1>8, <2>1
<1>13. CASE Guard(t) \/ conflict_retry_wait(t)
  <2>1. Still /\ Hop(t, {"finish", "act", "body"}) /\ (tasks'[t].pc = "finish" => tasks'[t].res = "CANCELLED")
    BY <1>13, PlainHops, TxHops DEF Hop
  <2>2. Fine(t)'
    BY <2>1 DEF Fine, Hop
  <2> QED
    BY <1>1, <1>5, <1>7, <2>1, <2>2 DEF Still
<1>14. CASE Produce(t) \/ SetEvent(t)
  <2>1. Still /\ Hop(t, {"record"}) /\ CurOp(t).op # "getEvent"
    BY <1>14, PlainHops
  <2> QED
    BY <1>3, <1>5, <1>7, <2>1 DEF Still
<1>15. CASE Subscribe(t) \/ WakeUp(t) \/ TxConflict(t)
  <2>1. Still /\ \E Q : Hop(t, Q) /\ Q \cap {"finish", "giveup", "record"} = {}
    BY <1>15, PlainHops, TxHops
  <2> QED
    BY <1>2, <1>5, <1>7, <2>1 DEF Still
<1>16. CASE TxBodyFails(t)
  BY <1>9, <1>16, TxHops DEF Fault
<1>17. CASE TxGiveUp(t)
  BY <1>9, <1>17, TxGiveUpIs DEF Fine
<1>18. CASE GetEvent(t)
  <2>1. Still /\ ((Hop(t, {"record"}) /\ tasks'[t].got # Null) \/ Hop(t, {"deadline", "expire", "subscribe"}))
    BY <1>18, GetEventIs
  <2> QED
    BY <1>2, <1>3, <1>5, <1>7, <2>1 DEF Still
<1>19. CASE RecvSelect(t)
  <2>1. Still /\ (Hop(t, {"claim"}) \/ Hop(t, {"deadline", "expire", "subscribe"}))
    BY <1>19, RecvSelectIs
  <2> QED
    BY <1>2, <1>5, <1>7, <2>1 DEF Still
<1>20. CASE StreamCheck(t)
  <2>1. Still /\ tasks[t].pc = "act" /\ (IsClosed(streams[tasks[t].wf]) \/ Hop(t, {"append"}))
    BY <1>20, StreamCheckIs
  <2>2. ~IsClosed(streams[tasks[t].wf])
    BY <1>9, <2>1, TaskFacts DEF Open
  <2> QED
    BY <1>2, <1>5, <1>7, <2>1, <2>2 DEF Still
<1>21. CASE StreamAppend(t)
  <2> DEFINE s == streams[tasks[t].wf]
             e == [val |-> StreamValue(CurOp(t)), slot |-> tasks[t].seq]
             r == streams'[tasks[t].wf]
  <2>1. tasks[t].pc = "append" /\ tasks[t].wf \in Ids /\ out' = out /\ Hop(t, {"record"}) /\ CurOp(t).op \in StreamOps
    BY <1>21, AppendIs, StreamAppendIs
  <2>2. s \in Seq(StreamEntry) /\ e \in StreamEntry /\ ~IsClosed(s) /\ r = Append(s, e)
        /\ \A x \in Ids \ {tasks[t].wf} : streams'[x] = streams[x]
    BY <1>21, <2>1, AppendIs
  <2>3. CurOp(t).op = "writeStream" /\ CurOp(t).val # CLOSED
    BY <1>8, <2>1, OpNames DEF StreamOps
  <2>4. e.val # CLOSED
    BY <2>3 DEF StreamValue
  <2> HIDE DEF s, e, r
  <2>5. ~IsClosed(r)
    BY <2>2, <2>4, AppendVisible
  <2>6. C
    BY <1>9, <2>2, <2>5 DEF C, Open, r
  <2>7. F
    BY <1>3, <2>1, <2>3
  <2> QED
    BY <1>5, <2>1, <2>6, <2>7
<1>22. CASE RecordOutcome(t)
  <2>1. tasks[t].pc = "record" /\ tasks[t].got \in OutcomeType /\ tasks[t].got.tag \in {"val", "null"}
        /\ streams' = streams /\ Wrote(tasks[t].wf, tasks[t].seq, Entry(CurOp(t).name, tasks[t].got))
    BY <1>22, RecordOutcomeIs DEF LogOnly
  <2>2. tasks[t].wf \in Ids /\ tasks[t].seq \in Slots /\ out[tasks[t].wf][tasks[t].seq] = Unrecorded
    <3>1. tasks[t].wf \in Ids /\ tasks[t].seq \in Slots /\ At(t) = out[tasks[t].wf][tasks[t].seq]
      BY <2>1, TaskFacts
    <3> QED
      BY <2>1, <3>1 DEF Core, Sound, Busy, Ahead, InTx
  <2>3. out'[tasks[t].wf][tasks[t].seq] = Entry(CurOp(t).name, tasks[t].got)
    BY <2>1, <2>2 DEF Wrote
  <2>4. OutcomeOf(out'[tasks[t].wf][tasks[t].seq]) = tasks[t].got
    BY <2>1, <2>3 DEF OutcomeOf, Outcome, Entry, OutcomeType
  <2>5. \E o, n, ip : Went(t, o, n, ip)
    BY <1>9, <1>22, <2>1, <2>4, RecordOutcomeIs DEF Fine
  <2>6. Entry(CurOp(t).name, tasks[t].got).tag # "fail"
    BY <2>1 DEF Entry
  <2> QED
    BY <1>4, <1>6, <1>7, <2>1, <2>5, <2>6
<1>23. CASE Expire(t)
  <2>1. streams' = streams /\ Wrote(tasks[t].wf, tasks[t].seq, Entry(CurOp(t).name, Null))
        /\ Went(t, Null, SlotsOf(CurOp(t)), CurOp(t).next)
    BY <1>23, ExpireIs DEF LogOnly
  <2>2. Entry(CurOp(t).name, Null).tag # "fail"
    BY DEF Entry, Null, Outcome
  <2> QED
    BY <1>4, <1>6, <1>7, <2>1, <2>2
<1>24. CASE RecvCommit(t)
  <2>1. streams' = streams /\ (\E o, n, ip : Went(t, o, n, ip))
        /\ Wrote(tasks[t].wf, tasks[t].seq, Entry(CurOp(t).name, Outcome("msg", tasks[t].pick)))
    BY <1>24, RecvCommitIs
  <2>2. Entry(CurOp(t).name, Outcome("msg", tasks[t].pick)).tag # "fail"
    BY DEF Entry, Outcome
  <2> QED
    BY <1>4, <1>6, <1>7, <2>1, <2>2
<1>25. CASE TxCommit(t)
  <2>1. streams' = streams
    BY <1>25, TxCommitIs
  <2>2. PICK o \in OutcomeType : o.tag = "val" /\ Wrote(tasks[t].wf, tasks[t].seq, Entry(CurOp(t).name, o))
                                 /\ Went(t, o, SlotsOf(CurOp(t)), CurOp(t).next)
    BY <1>25, TxCommitIs
  <2>3. Entry(CurOp(t).name, o).tag # "fail"
    BY <2>2 DEF Entry
  <2> QED
    BY <1>4, <1>6, <1>7, <2>1, <2>2, <2>3
<1>26. CASE DeadlineKnown(t)
  <2>1. tasks[t].pc = "deadline" /\ CurOp(t).op \in Waiting /\ Still /\ DeadlineSlot(t) \in Slots
        /\ (Hop(t, {"fix"}) \/ Hop(t, {"expire", "subscribe"})
            \/ (IsRecorded(Log(t)[DeadlineSlot(t)]) /\ Log(t)[DeadlineSlot(t)].name # "sleep"))
    BY <1>26, DeadlineKnownIs
  <2>2. ~(IsRecorded(Log(t)[DeadlineSlot(t)]) /\ Log(t)[DeadlineSlot(t)].name # "sleep")
    <3>1. tasks[t].wf \in Ids /\ Log(t) = out[tasks[t].wf]
      BY <2>1, TaskFacts
    <3>2. Laid(tasks[t].wf, DeadlineSlot(t))
      BY <2>1, <3>1 DEF Layout
    <3> QED
      BY <1>9, <2>1, <3>1, <3>2, DeadlineEntry DEF Laid
  <2>3. \E Q : Hop(t, Q) /\ Q \cap {"finish", "giveup", "record"} = {}
    BY <2>1, <2>2
  <2> QED
    BY <1>2, <1>5, <1>7, <2>1, <2>3 DEF Still
<1>27. CASE FixDeadline(t)
  <2> DEFINE e == Entry("sleep", Outcome("time", now + CurOp(t).wait))
             w == tasks[t].wf
             k == DeadlineSlot(t)
  <2>1. tasks[t].pc = "fix" /\ CurOp(t).op \in Waiting \cup {"sleep"} /\ streams' = streams /\ k \in Slots
        /\ Wrote(w, k, e) /\ w \in Ids
        /\ (out'[w][k].tag # "time" \/ Hop(t, {"sleeping"}) \/ Hop(t, {"expire", "subscribe"}))
    BY <1>27, FixDeadlineIs, TaskFacts DEF LogOnly
  <2>2. e.tag = "time" /\ e # Unrecorded
    BY DEF Entry, Outcome, Unrecorded
  <2>3. out'[w][k] # Unrecorded
    BY <2>1, <2>2 DEF Wrote
  <2>4. \E j \in DOMAIN sc.code[1][w] : Belongs(sc, w, j, k, out'[w][k])
    BY <1>0, <2>1, <2>3 DEF Layout, Laid, IsRecorded
  <2>5. out'[w][k].tag = "time"
    BY <1>9, <2>1, <2>4, DeadlineEntry
  <2>6. \E Q : Hop(t, Q) /\ Q \cap {"finish", "giveup", "record"} = {}
    BY <2>1, <2>5
  <2> QED
    BY <1>2, <1>6, <1>7, <2>1, <2>2, <2>6
<1>28. CASE Sleep(t)
  BY <1>4, <1>5, <1>7, <1>28, SleepIs DEF Still
<1>29. CASE TxCommitLost(t)
  <2>1. streams' = streams /\ Hop(t, {"retry"})
    BY <1>29, TxCommitLostIs
  <2>2. PICK o \in OutcomeType : o.tag = "val" /\ Wrote(tasks[t].wf, tasks[t].seq, Entry(CurOp(t).name, o))
    BY <1>29, TxCommitLostIs
  <2>3. Entry(CurOp(t).name, o).tag # "fail"
    BY <2>2 DEF Entry
  <2>4. F
    BY <1>2, <2>1
  <2> QED
    BY <1>6, <1>7, <2>1, <2>2, <2>3, <2>4
<1> QED
  BY <1>10, <1>11, <1>12, <1>13, <1>14, <1>15, <1>16, <1>17, <1>18, <1>19, <1>20, <1>21, <1>22, <1>23,
     <1>24, <1>25, <1>26, <1>27, <1>28, <1>29

\* A row gets ERROR only from an execution that failed.
LEMMA RowsSteady ==
    ASSUME Types, Steady, [Next]_vars
    PROVE  NoErrors'
<1>0. rows \in [Ids -> {"ABSENT", "PENDING", "SUCCESS", "ERROR", "CANCELLED"}] /\ NoErrors
  BY DEF Types, TypeOK, Steady
<1>1. ASSUME UNCHANGED rows PROVE NoErrors'
  BY <1>0, <1>1 DEF NoErrors
<1>2. ASSUME NEW x \in Ids, NEW status, rows' = [rows EXCEPT ![x] = status], status # "ERROR"
      PROVE  NoErrors'
  BY <1>0, <1>2 DEF NoErrors
<1>3. ASSUME NEW t \in Tasks, Finish(t) PROVE NoErrors'
  <2>1. tasks[t].wf \in Ids /\ tasks[t].pc = "finish"
    BY <1>3, FinishIs
  <2>2. tasks[t].res \in {"SUCCESS", "CANCELLED"}
    BY <2>1 DEF Steady, Fine
  <2>3. rows' = rows \/ rows' = [rows EXCEPT ![tasks[t].wf] = tasks[t].res]
    BY <1>3, <2>2 DEF Finish
  <2> QED
    BY <1>1, <1>2, <2>1, <2>2, <2>3
<1>4. ASSUME NEW t \in Tasks, NEW c \in Tasks, spawn_child(t, c) PROVE NoErrors'
  <2>1. CurOp(t).to \in Ids
    BY <1>4, SpawnedIs
  <2>2. rows' = rows \/ rows' = [rows EXCEPT ![CurOp(t).to] = "PENDING"]
    BY <1>4 DEF spawn_child
  <2> QED
    BY <1>1, <1>2, <2>1, <2>2
<1>5. ASSUME NEW t \in Tasks, NEW w \in Ids, Start(t, w) \/ Restart(t, w) PROVE NoErrors'
  <2>1. UNCHANGED rows \/ rows' = [rows EXCEPT ![w] = "PENDING"]
    BY <1>5 DEF Start, Restart, tables
  <2> QED
    BY <1>1, <1>2, <2>1
<1>6. ASSUME NEW w \in Ids, Cancel(w) PROVE NoErrors'
  <2>1. rows' = [rows EXCEPT ![w] = "CANCELLED"]
    BY <1>6 DEF Cancel
  <2> QED
    BY <1>2, <2>1
<1>7. ASSUME NEW t \in Tasks, Recover(t) PROVE UNCHANGED rows
  BY <1>7, RecoverIs DEF tables
<1>8. ASSUME Crash \/ Deploy PROVE UNCHANGED rows
  BY <1>8, CrashIs
<1>9. ASSUME ListenerBack \/ (\E w \in Ids : Notify(w)) PROVE UNCHANGED rows
  BY <1>9, ListenerIs
<1>10. ASSUME ListenerLost \/ Tick \/ ReadEntries \/ ReadStatus \/ Quiet PROVE UNCHANGED rows
  BY <1>10 DEF ListenerLost, ReadEntries, ReadStatus, Quiet, Tick, vars, tables, outside
<1>11. ASSUME NEW p \in sc.posts, Post(p) PROVE UNCHANGED rows
  BY <1>11 DEF Post
<1>12. CASE UNCHANGED vars
  BY <1>1, <1>12 DEF vars, tables
<1>13. ASSUME UNCHANGED <<sc, version, rows, recover, reader>> PROVE NoErrors'
  BY <1>1, <1>13
<1>14. CASE Next
  BY <1>1, <1>3, <1>4, <1>5, <1>6, <1>7, <1>8, <1>9, <1>10, <1>11, <1>13, <1>14, NextIs, TaskRows, Zenon
<1> QED
  BY <1>12, <1>14

LEMMA SteadyNext ==
    ASSUME Types, Straight(sc), Unfailing(sc), Core, Flow, Layout, Steady, [Next]_vars
    PROVE  Steady'
<1>0. faults'["body"] = 0 /\ NoErrors' /\ Layout' /\ Deterministic
  BY NoMore, RowsSteady, LayoutNext, LayoutDeterministic DEF Steady, FaultKinds
<1>1. ASSUME (\A u \in Tasks : Fine(u)') /\ NoFailures' /\ Open' PROVE Steady'
  BY <1>0, <1>1 DEF Steady
<1>2. ASSUME (\A u \in Tasks : Calm(u)) /\ UNCHANGED <<sc, out, notes, streams, effects>> PROVE Steady'
  BY <1>0, <1>2, CalmSteady
<1>3. ASSUME NEW p \in sc.posts, Post(p) PROVE Steady'
  BY <1>0, <1>3, CalmSteady, PostCalm
<1>4. CASE UNCHANGED vars
  BY <1>0, <1>4, CalmSteady DEF vars, tables, Calm
<1>5. CASE Next
  BY <1>0, <1>1, <1>2, <1>3, <1>5, NextIs, TaskSteady, RestCalm, Zenon
<1> QED
  BY <1>4, <1>5

(***************************************************************************)
(* In such a scenario no crash, redeployment, cancellation, lost           *)
(* notification or conflict makes a workflow fail: replay finds at every   *)
(* position the operation it expects and at every deadline's position an   *)
(* instant, and no check of a stream finds a sentinel.                     *)
(* (replay_or_guard, durable_wake_at)                                      *)
(***************************************************************************)
THEOREM FailuresAreInvisible ==
    Spec => [](Solo(sc) /\ Straight(sc) /\ Unfailing(sc) => NoErrors /\ CrashIsInvisible)
<1> DEFINE Cond == Solo(sc) /\ Straight(sc) /\ Unfailing(sc)
           Inv == Cond => Single /\ Layout /\ Core /\ Flow /\ Steady
<1>1. Init => Types /\ Mail /\ Inv
  BY TypesInit, MailInit, SingleInit, LayoutInit, CoreInit, FlowInit, SteadyInit
<1>2. Types /\ Mail /\ Inv /\ [Next]_vars => (Types /\ Mail /\ Inv)'
  <2> SUFFICES ASSUME Types, Mail, Inv, [Next]_vars PROVE (Types /\ Mail /\ Inv)'
    OBVIOUS
  <2>1. Types' /\ Mail'
    BY TypesNext, MailNext
  <2>2. Solo(sc)' = Solo(sc) /\ Straight(sc)' = Straight(sc) /\ Unfailing(sc)' = Unfailing(sc)
    BY NoMore DEF Solo, Straight, Unfailing
  <2>3. ASSUME Cond PROVE Single' /\ Layout' /\ Core' /\ Flow' /\ Steady'
    <3>1. Single /\ Alone /\ Layout /\ Core /\ Flow /\ Steady /\ Deterministic
      BY <2>3, LayoutDeterministic DEF Single
    <3> QED
      BY <2>3, <3>1, SingleNext, LayoutNext, CoreNext, FlowNext, SteadyNext
  <2> QED
    BY <2>1, <2>2, <2>3
<1>3. Types /\ Mail /\ Inv => (Cond => NoErrors /\ CrashIsInvisible)
  BY DEF Steady, NoErrors, CrashIsInvisible
<1> QED
  BY <1>1, <1>2, <1>3, PTL DEF Spec
=============================================================================
