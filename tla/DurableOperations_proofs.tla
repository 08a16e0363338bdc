---------------------- MODULE DurableOperations_proofs ----------------------
(***************************************************************************)
(* What the durable operations promise, for every set of scenarios.  Every *)
(* variable has its type, and a mailbox keeps its order whatever happens.  *)
(* What an operation promises across crashes holds as long as no two       *)
(* executions of a workflow overlap (Alone) and replay finds at a position *)
(* the operation it expects there (Deterministic);                         *)
(* DurableOperations_scenarios_proofs shows of which scenarios that is     *)
(* true.                                                                   *)
(***************************************************************************)
EXTENDS DurableOperations, FiniteSetTheorems, SequenceTheorems, WellFoundedInduction, TLAPS

(***************************************************************************)
(* Types                                                                   *)
(***************************************************************************)
Waiting   == {"recv", "getEvent"}
StreamOps == {"writeStream", "closeStream"}
Recorded  == {"select", "value", "send", "setEvent", "getEvent"} \cup StreamOps

\* Which operations have a statement called pc.
PcFits(pc, op) ==
    /\ pc = "guard" => op \in (Recorded \cup {"recv"}) \ {"value"}
    /\ pc = "act" => op \in Recorded \cup {"recv"}
    /\ pc = "append" => op \in StreamOps
    /\ pc = "claim" => op = "recv"
    /\ pc \in {"deadline", "subscribe", "wait", "expire"} => op \in Waiting
    /\ pc = "fix" => op \in Waiting \cup {"sleep"}
    /\ pc = "sleeping" => op = "sleep"
    /\ pc \in {"body", "retry", "giveup"} => op = "tx"
    /\ pc \in {"spawn", "link"} => op = "child"
    /\ pc = "mark" => op = "patch"
    /\ pc = "record" => op \in Recorded

\* A position for every operation of f, in front of which its predecessors have theirs.
Bounds(f, at) ==
    /\ at \in [DOMAIN f -> Slots]
    /\ \A i \in DOMAIN f :
        /\ at[i] + SlotsOf(f[i]) <= MaxSlots
        /\ \A j \in {f[i].next, f[i].old} \ {0} :
              j \in DOMAIN f /\ at[i] + SlotsOf(f[i]) <= at[j]

Working(a) == a.pc \notin {"idle", "finish"}
CodeOf(a)  == sc.code[a.version][a.wf]
OpOf(a)    == CodeOf(a)[a.ip]

\* A task is at an operation of its function, at a position that exists.
Fit(a) ==
    /\ a \in Task
    /\ a.pc # "idle" => a.wf \in Ids /\ a.version \in DOMAIN sc.code
    /\ Working(a) => /\ a.ip \in DOMAIN CodeOf(a)
                     /\ PcFits(a.pc, OpOf(a).op)
                     /\ \E at : Bounds(CodeOf(a), at) /\ a.seq <= at[a.ip]
    /\ a.pc = "record" => a.got.tag \in {"val", "null"}
    /\ a.pc = "finish" => a.res # "none"

Types == TypeOK /\ \A t \in Tasks : Fit(tasks[t])

LEMMA ScenarioFacts ==
    ASSUME sc \in Scenarios
    PROVE  /\ 1 \in DOMAIN sc.code /\ DOMAIN sc.code \subseteq Nat
           /\ \A v \in DOMAIN sc.code :
                sc.code[v] \in [Ids -> Seq(Operation)] /\ \A w \in Ids : Fits(sc.code[v][w])
           /\ sc.roots \subseteq Ids
           /\ sc.posts \subseteq [to : Ids, topic : Topics, key : Keys \cup {NoKey}]
           /\ sc.faults \in [FaultKinds -> Nat]
           /\ sc.reader \in {"none", "drain", "values"} /\ sc.readFrom \in Ids
           /\ Reserved(sc) /\ KeyedApart(sc)
  BY ScenariosAssumption

\* A task that is at an operation has an operation, and positions for it.
LEMMA AtOperation ==
    ASSUME sc \in Scenarios, NEW a, Fit(a), Working(a)
    PROVE  /\ a.wf \in Ids /\ a.version \in DOMAIN sc.code
           /\ CodeOf(a) \in Seq(Operation) /\ a.ip \in DOMAIN CodeOf(a)
           /\ OpOf(a) \in Operation
           /\ a.seq \in Nat /\ a.seq \in Slots /\ a.seq + SlotsOf(OpOf(a)) <= MaxSlots
           /\ a.seq + SlotsOf(OpOf(a)) - 1 \in Slots
           /\ PcFits(a.pc, OpOf(a).op)
<1>1. a.wf \in Ids /\ a.version \in DOMAIN sc.code /\ a.ip \in DOMAIN CodeOf(a) /\ a.seq \in Nat
      /\ PcFits(a.pc, OpOf(a).op)
  BY DEF Fit, Working, Task
<1>2. CodeOf(a) \in Seq(Operation)
  BY <1>1, ScenarioFacts DEF CodeOf
<1>3. OpOf(a) \in Operation
  BY <1>1, <1>2, ElementOfSeq, LenProperties DEF OpOf
<1>4. PICK at : Bounds(CodeOf(a), at) /\ a.seq <= at[a.ip]
  BY DEF Fit, Working
<1>5. at[a.ip] \in Slots /\ at[a.ip] + SlotsOf(OpOf(a)) <= MaxSlots
  BY <1>1, <1>4 DEF Bounds, OpOf
<1>6. SlotsOf(OpOf(a)) \in {1, 2}
  BY DEF SlotsOf
<1>7. a.seq \in Slots /\ a.seq + SlotsOf(OpOf(a)) <= MaxSlots /\ a.seq + SlotsOf(OpOf(a)) - 1 \in Slots
  BY <1>1, <1>4, <1>5, <1>6, TablesAssumption DEF Slots
<1> QED
  BY <1>1, <1>2, <1>3, <1>7

LEMMA CurIsOp ==
    ASSUME NEW t \in Tasks
    PROVE  CurOp(t) = OpOf(tasks[t]) /\ Log(t) = out[tasks[t].wf] /\ At(t) = Log(t)[tasks[t].seq]
  BY DEF CurOp, OpOf, CodeOf, Log, At

(***************************************************************************)
(* What the moves of a task make of it                                     *)
(***************************************************************************)
LEMMA OutcomeTypes ==
    /\ NoOutcome \in OutcomeType /\ Null \in OutcomeType /\ Failed \in OutcomeType
    /\ Marker \in OutcomeType
    /\ \A tag \in Tags, v \in Nat : Outcome(tag, v) \in OutcomeType
  BY DEF NoOutcome, Null, Failed, Marker, Outcome, OutcomeType, Tags

LEMMA IdleFits == IdleTask \in Task /\ Fit(IdleTask)
<1>1. IdleTask \in Task
  BY OutcomeTypes DEF IdleTask, Task, Pcs
<1> QED
  BY <1>1 DEF Fit, IdleTask, Working

LEMMA GotoFits ==
    ASSUME sc \in Scenarios, NEW a, Fit(a), Working(a),
           NEW pc \in Pcs \ {"idle", "finish", "record"}, PcFits(pc, OpOf(a).op)
    PROVE  Fit([a EXCEPT !.pc = pc])
<1> DEFINE b == [a EXCEPT !.pc = pc]
<1>1. b \in Task /\ b.pc = pc /\ b.wf = a.wf /\ b.version = a.version /\ b.ip = a.ip /\ b.seq = a.seq
  BY DEF Fit, Task
<1>2. OpOf(b) = OpOf(a) /\ CodeOf(b) = CodeOf(a)
  BY <1>1 DEF OpOf, CodeOf
<1> SUFFICES Fit(b)
  OBVIOUS
<1> HIDE DEF b
<1> QED
  BY <1>1, <1>2 DEF Fit, Working

LEMMA RecordFits ==
    ASSUME sc \in Scenarios, NEW a, Fit(a), Working(a), OpOf(a).op \in Recorded,
           NEW o \in OutcomeType, o.tag \in {"val", "null"}
    PROVE  Fit([a EXCEPT !.pc = "record", !.got = o])
<1> DEFINE b == [a EXCEPT !.pc = "record", !.got = o]
<1>1. b \in Task /\ b.pc = "record" /\ b.wf = a.wf /\ b.version = a.version /\ b.ip = a.ip
      /\ b.seq = a.seq /\ b.got = o
  BY DEF Fit, Task, Pcs
<1>2. OpOf(b) = OpOf(a) /\ CodeOf(b) = CodeOf(a)
  BY <1>1 DEF OpOf, CodeOf
<1>3. PcFits("record", OpOf(a).op)
  BY DEF PcFits
<1> SUFFICES Fit(b)
  OBVIOUS
<1> HIDE DEF b
<1> QED
  BY <1>1, <1>2, <1>3 DEF Fit, Working

LEMMA ReturnFits ==
    ASSUME NEW a, Fit(a), a.pc # "idle", NEW res \in {"SUCCESS", "ERROR", "CANCELLED", "UNEXPECTED"}
    PROVE  Fit([a EXCEPT !.pc = "finish", !.res = res])
  BY DEF Fit, Task, Pcs, Working

LEMMA ContinuedIs ==
    ASSUME NEW a \in Task, NEW o \in OutcomeType, NEW n \in Nat, NEW ip \in Nat
    PROVE  /\ Continued(a, o, n, ip) \in Task
           /\ Continued(a, o, n, ip).pc = (IF ip = 0 THEN "finish" ELSE "replay")
           /\ Continued(a, o, n, ip).res = (IF ip = 0 THEN "SUCCESS" ELSE "none")
           /\ Continued(a, o, n, ip).wf = a.wf
           /\ Continued(a, o, n, ip).version = a.version
           /\ Continued(a, o, n, ip).ip = ip
           /\ Continued(a, o, n, ip).seq = a.seq + n
           /\ \A k \in Slots : Continued(a, o, n, ip).seen[k] =
                                IF n # 0 /\ k = a.seq THEN o ELSE a.seen[k]
<1> DEFINE saw == IF n = 0 THEN a.seen ELSE [a.seen EXCEPT ![a.seq] = o]
           pc  == IF ip = 0 THEN "finish" ELSE "replay"
           res == IF ip = 0 THEN "SUCCESS" ELSE "none"
           b   == [IdleTask EXCEPT !.pc = pc, !.res = res, !.wf = a.wf, !.version = a.version,
                                   !.ip = ip, !.seq = a.seq + n, !.seen = saw]
<1>1. /\ a.wf \in Ids \cup {NoId} /\ a.version \in Nat /\ a.seq \in Nat /\ a.seq + n \in Nat
      /\ a.seen \in [Slots -> OutcomeType]
  BY DEF Task
<1>2. saw \in [Slots -> OutcomeType] /\ pc \in Pcs /\ res \in {"SUCCESS", "none"}
  BY <1>1 DEF Pcs
<1>3. Continued(a, o, n, ip) = b
  BY DEF Continued
<1> HIDE DEF saw, pc, res
<1>4. b \in Task
  BY <1>1, <1>2, IdleFits DEF Task
<1>5. /\ b.pc = pc /\ b.res = res /\ b.wf = a.wf /\ b.version = a.version /\ b.ip = ip
      /\ b.seq = a.seq + n /\ b.seen = saw
  BY DEF IdleTask
<1>6. \A k \in Slots : saw[k] = IF n # 0 /\ k = a.seq THEN o ELSE a.seen[k]
  BY <1>1 DEF saw
<1> HIDE DEF b
<1> QED
  BY <1>3, <1>4, <1>5, <1>6 DEF pc, res

LEMMA ContinueFits ==
    ASSUME sc \in Scenarios, NEW a, Fit(a), Working(a),
           NEW o \in OutcomeType, NEW n \in 0..SlotsOf(OpOf(a)), NEW ip \in {OpOf(a).next, OpOf(a).old}
    PROVE  Fit(Continued(a, o, n, ip))
<1> DEFINE b == Continued(a, o, n, ip)
<1>1. a \in Task /\ OpOf(a) \in Operation /\ a.ip \in DOMAIN CodeOf(a) /\ a.seq \in Nat
      /\ a.wf \in Ids /\ a.version \in DOMAIN sc.code
  BY AtOperation DEF Fit
<1>2. ip \in Nat /\ n \in Nat /\ SlotsOf(OpOf(a)) \in Nat /\ n <= SlotsOf(OpOf(a))
  BY <1>1 DEF Operation, SlotsOf
<1>3. /\ b \in Task /\ b.wf = a.wf /\ b.version = a.version /\ b.ip = ip /\ b.seq = a.seq + n
      /\ ip = 0 => b.pc = "finish" /\ b.res = "SUCCESS"
      /\ ip # 0 => b.pc = "replay"
  <2>1. a \in Task /\ n \in Nat /\ ip \in Nat
    BY <1>1, <1>2
  <2> HIDE DEF b
  <2>2. b = Continued(a, o, n, ip)
    BY DEF b
  <2>3. b \in Task /\ b.wf = a.wf /\ b.version = a.version
    BY <2>1, <2>2, ContinuedIs
  <2>4. b.ip = ip /\ b.seq = a.seq + n
    BY <2>1, <2>2, ContinuedIs
  <2>5. /\ ip = 0 => b.pc = "finish" /\ b.res = "SUCCESS"
        /\ ip # 0 => b.pc = "replay"
    BY <2>1, <2>2, ContinuedIs
  <2> QED
    BY <2>3, <2>4, <2>5
<1>4. CodeOf(b) = CodeOf(a)
  BY <1>3 DEF CodeOf
<1> SUFFICES Fit(b)
  OBVIOUS
<1> HIDE DEF b
<1>5. ASSUME ip # 0
      PROVE  ip \in DOMAIN CodeOf(a) /\ \E at : Bounds(CodeOf(a), at) /\ a.seq + n <= at[ip]
  <2>1. PICK at : Bounds(CodeOf(a), at) /\ a.seq <= at[a.ip]
    BY DEF Fit, Working
  <2>2. ip \in DOMAIN CodeOf(a) /\ at[a.ip] + SlotsOf(OpOf(a)) <= at[ip]
    BY <1>1, <1>5, <2>1 DEF Bounds, OpOf
  <2>3. at[a.ip] \in Nat /\ at[ip] \in Nat
    BY <1>1, <2>1, <2>2, TablesAssumption DEF Bounds, Slots
  <2>4. a.seq + n <= at[ip]
    BY <1>1, <1>2, <2>1, <2>2, <2>3
  <2> QED
    BY <2>1, <2>2, <2>4
<1>6. PcFits("replay", OpOf(b).op)
  BY DEF PcFits
<1>7. CASE ip = 0
  BY <1>1, <1>3, <1>7 DEF Fit, Working
<1>8. CASE ip # 0
  BY <1>1, <1>3, <1>4, <1>5, <1>6, <1>8 DEF Fit, Working
<1> QED
  BY <1>7, <1>8

\* Continue is the case in which the operation uses all its positions.
LEMMA ContinueIs ==
    ASSUME NEW t \in Tasks, NEW o, Continue(t, o)
    PROVE  tasks' = [tasks EXCEPT ![t] = Continued(tasks[t], o, SlotsOf(OpOf(tasks[t])), OpOf(tasks[t]).next)]
  BY DEF Continue, ContinueAt, CurOp, OpOf, CodeOf

LEMMA NewFits ==
    ASSUME TypeOK, NEW w \in Ids
    PROVE  /\ Fit(NewTask(w)) /\ NewTask(w).pc \in {"replay", "finish"} /\ NewTask(w).wf = w
           /\ NewTask(w).version = version /\ NewTask(w).seq = 0 /\ NewTask(w).ip = 1
           /\ NewTask(w).seen = [k \in Slots |-> NoOutcome]
           /\ NewTask(w).pc = "finish" => NewTask(w).res = "SUCCESS"
           /\ NewTask(w).pc = "replay" => 1 \in DOMAIN sc.code[version][w]
<1> DEFINE b == NewTask(w)
           f == sc.code[version][w]
<1>1. version \in DOMAIN sc.code /\ version \in Nat /\ f \in Seq(Operation) /\ Fits(f)
  BY ScenarioFacts DEF TypeOK
<1>2. /\ b \in Task /\ b.pc = (IF f = <<>> THEN "finish" ELSE "replay") /\ b.wf = w
      /\ b.version = version /\ b.seq = 0 /\ b.ip = 1 /\ b.seen = [k \in Slots |-> NoOutcome]
      /\ b.res = (IF f = <<>> THEN "SUCCESS" ELSE "none")
  BY <1>1, OutcomeTypes DEF NewTask, IdleTask, Task, Pcs
<1>3. CodeOf(b) = f
  BY <1>2 DEF CodeOf
<1>4. ASSUME f # <<>> PROVE 1 \in DOMAIN f
  BY <1>1, <1>4, EmptySeq, LenProperties
<1>5. PICK at : Bounds(f, at)
  BY <1>1 DEF Fits, Bounds
<1>6. ASSUME f # <<>> PROVE 0 <= at[1]
  BY <1>4, <1>5, <1>6, TablesAssumption DEF Bounds, Slots
<1>7. PcFits("replay", OpOf(b).op)
  BY DEF PcFits
<1> HIDE DEF b, f
<1>8. CASE f = <<>>
  BY <1>1, <1>2, <1>8 DEF Fit, Working, b
<1>9. CASE f # <<>>
  <2>1. Fit(b)
    BY <1>1, <1>2, <1>3, <1>4, <1>5, <1>6, <1>7, <1>9 DEF Fit, Working
  <2> QED
    BY <1>2, <1>4, <1>9, <2>1 DEF b, f
<1> QED
  BY <1>8, <1>9

\* One task moves, the others stay as they are.
LEMMA OneMoves ==
    ASSUME Types, UNCHANGED sc, NEW t \in Tasks, NEW b, Fit(b), tasks' = [tasks EXCEPT ![t] = b]
    PROVE  tasks' \in [Tasks -> Task] /\ (\A u \in Tasks : Fit(tasks[u]))'
<1>1. b \in Task
  BY DEF Fit
<1>2. tasks' \in [Tasks -> Task]
  BY <1>1 DEF Types, TypeOK
<1>3. ASSUME NEW u \in Tasks PROVE Fit(tasks'[u])
  BY DEF Types, TypeOK
<1>4. ASSUME NEW u \in Tasks PROVE Fit(tasks[u])'
  BY <1>3 DEF Fit, Working, CodeOf, OpOf
<1> QED
  BY <1>2, <1>4

(***************************************************************************)
(* What a checkpoint leaves in the log                                     *)
(***************************************************************************)
EntryType == [name : Names, tag : Tags, val : Nat]
LogType   == [Ids -> [Slots -> EntryType]]

\* INSERT ... ON CONFLICT DO NOTHING changes one position, and only if it is free.
Wrote(w, k, e) ==
    \A x \in Ids, j \in Slots :
        out'[x][j] = IF x = w /\ j = k /\ out[x][j] = Unrecorded THEN e ELSE out[x][j]

LEMMA Recording ==
    ASSUME out \in LogType, NEW w \in Ids, NEW k \in Slots, NEW name \in Names, NEW o \in OutcomeType,
           out' = [out EXCEPT ![w] = record_operation(out[w], k, name, o)]
    PROVE  out' \in LogType /\ Wrote(w, k, Entry(name, o))
<1>1. Entry(name, o) \in EntryType
  BY DEF Entry, EntryType, OutcomeType
<1>2. CASE out[w][k] = Unrecorded
  <2>1. out' = [out EXCEPT ![w] = [out[w] EXCEPT ![k] = Entry(name, o)]]
    BY <1>2 DEF record_operation, IsRecorded
  <2> DEFINE e == Entry(name, o)
             line == [out[w] EXCEPT ![k] = e]
  <2>2. out[w] \in [Slots -> EntryType] /\ e \in EntryType
    BY <1>1 DEF LogType
  <2> HIDE DEF e
  <2>3. line \in [Slots -> EntryType] /\ \A j \in Slots : line[j] = IF j = k THEN e ELSE out[w][j]
    BY <2>2
  <2>4. out' = [out EXCEPT ![w] = line]
    BY <2>1 DEF e
  <2> HIDE DEF line
  <2>5. out' \in LogType
    BY <2>3, <2>4 DEF LogType
  <2>6. ASSUME NEW x \in Ids, NEW j \in Slots
        PROVE  out'[x][j] = IF x = w /\ j = k /\ out[x][j] = Unrecorded THEN e ELSE out[x][j]
    <3>1. out'[x] = IF x = w THEN line ELSE out[x]
      BY <2>4 DEF LogType
    <3> QED
      BY <1>2, <2>3, <3>1
  <2> QED
    BY <2>5, <2>6 DEF e, Wrote
<1>3. CASE out[w][k] # Unrecorded
  <2>1. out' = out
    BY <1>3 DEF record_operation, IsRecorded, LogType
  <2> QED
    BY <1>3, <2>1 DEF Wrote
<1> QED
  BY <1>2, <1>3

LEMMA EntryOutcome ==
    /\ \A e \in EntryType : OutcomeOf(e) \in OutcomeType /\ OutcomeOf(e).tag = e.tag /\ OutcomeOf(e).val = e.val
    /\ \A n \in Names, o \in OutcomeType :
         /\ Entry(n, o) \in EntryType /\ OutcomeOf(Entry(n, o)) = o
         /\ Entry(n, o).name = n /\ Entry(n, o).tag = o.tag /\ Entry(n, o).val = o.val
    /\ Unrecorded \in EntryType /\ OutcomeOf(Unrecorded) = NoOutcome
    /\ Unrecorded.name = "none" /\ Unrecorded.tag = "none"
<1>1. \A e \in EntryType : OutcomeOf(e) \in OutcomeType /\ OutcomeOf(e).tag = e.tag /\ OutcomeOf(e).val = e.val
  BY DEF EntryType, OutcomeType, OutcomeOf, Outcome
<1>2. ASSUME NEW n \in Names, NEW o \in OutcomeType
      PROVE  /\ Entry(n, o) \in EntryType
             /\ Entry(n, o).name = n /\ Entry(n, o).tag = o.tag /\ Entry(n, o).val = o.val
  BY DEF EntryType, OutcomeType, Entry
<1>3. ASSUME NEW n \in Names, NEW o \in OutcomeType
      PROVE  OutcomeOf(Entry(n, o)) = o
  BY DEF OutcomeType, OutcomeOf, Outcome, Entry
<1>4. /\ Unrecorded \in EntryType /\ OutcomeOf(Unrecorded) = NoOutcome
      /\ Unrecorded.name = "none" /\ Unrecorded.tag = "none"
  <2>1. Unrecorded \in EntryType
    BY OperationsAssumption DEF EntryType, Unrecorded, Tags
  <2>2. Unrecorded.name = "none" /\ Unrecorded.tag = "none" /\ Unrecorded.val = 0
    BY DEF Unrecorded
  <2>3. OutcomeOf(Unrecorded) = NoOutcome
    BY <2>2 DEF OutcomeOf, NoOutcome
  <2> QED
    BY <2>1, <2>2, <2>3
<1> QED
  BY <1>1, <1>2, <1>3, <1>4

LEMMA TableTypes == ASSUME TypeOK PROVE out \in LogType
  BY DEF TypeOK, LogType, EntryType

\* The steps of a task leave most of the state alone.
LEMMA TaskTypes ==
    ASSUME Types, UNCHANGED outside, NEW t \in Tasks, NEW b, Fit(b), tasks' = [tasks EXCEPT ![t] = b],
           rows' \in [Ids -> {"ABSENT", "PENDING", "SUCCESS", "ERROR", "CANCELLED"}],
           out' \in LogType, notes' \in Seq(Notification), events' \in [Ids -> Nat],
           streams' \in [Ids -> Seq(StreamEntry)], effects' \in [Ids -> [Slots -> EffectType]],
           hub' \in [listening : BOOLEAN, signals : SUBSET Ids], faults' \in [FaultKinds -> Nat]
    PROVE  Types'
<1>1. UNCHANGED sc
  BY DEF outside
<1>2. tasks' \in [Tasks -> Task] /\ (\A u \in Tasks : Fit(tasks[u]))'
  BY <1>1, OneMoves
<1>3. TypeOK'
  BY <1>2 DEF Types, TypeOK, outside, LogType, EntryType
<1> QED
  BY <1>2, <1>3 DEF Types

\* Steps that change nothing but the task.
LEMMA QuietTypes ==
    ASSUME Types, UNCHANGED <<outside, rows, out, notes, events, streams, effects, hub, faults>>,
           NEW t \in Tasks, NEW b, Fit(b), tasks' = [tasks EXCEPT ![t] = b]
    PROVE  Types'
<1>1. /\ rows' \in [Ids -> {"ABSENT", "PENDING", "SUCCESS", "ERROR", "CANCELLED"}]
      /\ out' \in LogType /\ notes' \in Seq(Notification) /\ events' \in [Ids -> Nat]
      /\ streams' \in [Ids -> Seq(StreamEntry)] /\ effects' \in [Ids -> [Slots -> EffectType]]
      /\ hub' \in [listening : BOOLEAN, signals : SUBSET Ids] /\ faults' \in [FaultKinds -> Nat]
  BY TableTypes DEF Types, TypeOK
<1> QED
  BY <1>1, TaskTypes

\* Steps that change the task and its log.
LEMMA LogTypes ==
    ASSUME Types, UNCHANGED <<outside, rows, notes, events, streams, effects, hub, faults>>,
           NEW t \in Tasks, NEW b, Fit(b), tasks' = [tasks EXCEPT ![t] = b], out' \in LogType
    PROVE  Types'
<1>1. /\ rows' \in [Ids -> {"ABSENT", "PENDING", "SUCCESS", "ERROR", "CANCELLED"}]
      /\ notes' \in Seq(Notification) /\ events' \in [Ids -> Nat]
      /\ streams' \in [Ids -> Seq(StreamEntry)] /\ effects' \in [Ids -> [Slots -> EffectType]]
      /\ hub' \in [listening : BOOLEAN, signals : SUBSET Ids] /\ faults' \in [FaultKinds -> Nat]
  BY DEF Types, TypeOK
<1> QED
  BY <1>1, TaskTypes

\* The forms in which a task's step is written, as the new value of the task.
LEMMA Forms ==
    ASSUME Types, NEW t \in Tasks
    PROVE  /\ \A pc : Goto(t, pc) => tasks' = [tasks EXCEPT ![t] = [tasks[t] EXCEPT !.pc = pc]]
           /\ \A res : Return(t, res) =>
                tasks' = [tasks EXCEPT ![t] = [tasks[t] EXCEPT !.pc = "finish", !.res = res]]
  BY DEF Goto, Return, Types, TypeOK

(***************************************************************************)
(* A step of a task leads to a task that fits                              *)
(***************************************************************************)
Moves(t) == \E b : Fit(b) /\ tasks' = [tasks EXCEPT ![t] = b]

LEMMA TaskFacts ==
    ASSUME Types, NEW t \in Tasks, tasks[t].pc \notin {"idle", "finish"}
    PROVE  /\ sc \in Scenarios /\ tasks[t] \in Task /\ Fit(tasks[t]) /\ Working(tasks[t])
           /\ tasks[t].wf \in Ids /\ tasks[t].version \in DOMAIN sc.code
           /\ CurOp(t) = OpOf(tasks[t]) /\ CurOp(t) \in Operation
           /\ tasks[t].seq \in Slots /\ tasks[t].seq \in Nat
           /\ tasks[t].seq + SlotsOf(CurOp(t)) - 1 \in Slots
           /\ Log(t) = out[tasks[t].wf] /\ Log(t) \in [Slots -> EntryType]
           /\ At(t) = out[tasks[t].wf][tasks[t].seq] /\ At(t) \in EntryType
           /\ PcFits(tasks[t].pc, CurOp(t).op)
<1>1. sc \in Scenarios /\ tasks[t] \in Task /\ Fit(tasks[t]) /\ Working(tasks[t])
  BY DEF Types, TypeOK, Working
<1>2. CurOp(t) = OpOf(tasks[t]) /\ Log(t) = out[tasks[t].wf] /\ At(t) = Log(t)[tasks[t].seq]
  BY CurIsOp
<1>3. /\ tasks[t].wf \in Ids /\ tasks[t].version \in DOMAIN sc.code /\ OpOf(tasks[t]) \in Operation
      /\ tasks[t].seq \in Slots /\ tasks[t].seq \in Nat
      /\ tasks[t].seq + SlotsOf(OpOf(tasks[t])) - 1 \in Slots
      /\ PcFits(tasks[t].pc, OpOf(tasks[t]).op)
  BY <1>1, AtOperation
<1>4. out[tasks[t].wf] \in [Slots -> EntryType]
  BY <1>3, TableTypes DEF Types, LogType
<1>5. out[tasks[t].wf][tasks[t].seq] \in EntryType
  BY <1>3, <1>4
<1> QED
  BY <1>1, <1>2, <1>3, <1>4, <1>5

LEMMA GotoMoves ==
    ASSUME Types, NEW t \in Tasks, tasks[t].pc \notin {"idle", "finish"},
           NEW pc \in Pcs \ {"idle", "finish", "record"}, PcFits(pc, CurOp(t).op), Goto(t, pc)
    PROVE  Moves(t)
<1>1. Fit([tasks[t] EXCEPT !.pc = pc])
  BY TaskFacts, GotoFits
<1> QED
  BY <1>1, Forms DEF Moves

LEMMA ReturnMoves ==
    ASSUME Types, NEW t \in Tasks, tasks[t].pc \notin {"idle", "finish"},
           NEW res \in {"SUCCESS", "ERROR", "CANCELLED", "UNEXPECTED"}, Return(t, res)
    PROVE  Moves(t)
<1>1. Fit([tasks[t] EXCEPT !.pc = "finish", !.res = res])
  BY TaskFacts, ReturnFits
<1> QED
  BY <1>1, Forms DEF Moves

LEMMA RecordMoves ==
    ASSUME Types, NEW t \in Tasks, tasks[t].pc \notin {"idle", "finish"}, CurOp(t).op \in Recorded,
           NEW o \in OutcomeType, o.tag \in {"val", "null"},
           tasks' = [tasks EXCEPT ![t].pc = "record", ![t].got = o]
    PROVE  Moves(t)
<1>1. Fit([tasks[t] EXCEPT !.pc = "record", !.got = o])
  BY TaskFacts, RecordFits
<1>2. tasks' = [tasks EXCEPT ![t] = [tasks[t] EXCEPT !.pc = "record", !.got = o]]
  BY DEF Types, TypeOK
<1> QED
  BY <1>1, <1>2 DEF Moves

LEMMA ContinueAtMoves ==
    ASSUME Types, NEW t \in Tasks, tasks[t].pc \notin {"idle", "finish"},
           NEW o \in OutcomeType, NEW n \in 0..SlotsOf(CurOp(t)),
           NEW ip \in {CurOp(t).next, CurOp(t).old}, ContinueAt(t, o, n, ip)
    PROVE  Moves(t)
<1>1. Fit(Continued(tasks[t], o, n, ip))
  BY TaskFacts, ContinueFits
<1> QED
  BY <1>1 DEF Moves, ContinueAt

LEMMA ContinueMoves ==
    ASSUME Types, NEW t \in Tasks, tasks[t].pc \notin {"idle", "finish"},
           NEW o \in OutcomeType, Continue(t, o)
    PROVE  Moves(t)
<1>1. SlotsOf(CurOp(t)) \in 0..SlotsOf(CurOp(t))
  BY DEF SlotsOf
<1> QED
  BY <1>1, ContinueAtMoves DEF Continue

\* Statements that change the pc and other fields that Fit does not look at.
LEMMA FieldsFit ==
    ASSUME sc \in Scenarios, NEW a, Fit(a), Working(a), NEW b \in Task,
           b.wf = a.wf, b.version = a.version, b.ip = a.ip, b.seq = a.seq,
           b.pc \notin {"idle", "finish", "record"}, PcFits(b.pc, OpOf(a).op)
    PROVE  Fit(b)
<1>1. OpOf(b) = OpOf(a) /\ CodeOf(b) = CodeOf(a)
  BY DEF OpOf, CodeOf
<1> QED
  BY <1>1 DEF Fit, Working

LEMMA ClockMoves ==
    ASSUME Types, NEW t \in Tasks, tasks[t].pc \notin {"idle", "finish"}, CurOp(t).op \in Waiting,
           NEW o \in OutcomeType, CheckClock(t, o)
    PROVE  Moves(t)
<1> DEFINE pc == IF now >= o.val THEN "expire" ELSE "subscribe"
           b  == [tasks[t] EXCEPT !.pc = pc, !.deadline = o]
<1>1. tasks' = [tasks EXCEPT ![t] = b]
  BY DEF CheckClock, Types, TypeOK
<1>2. pc \in {"expire", "subscribe"}
  OBVIOUS
<1> HIDE DEF pc
<1>3. b \in Task /\ b.wf = tasks[t].wf /\ b.version = tasks[t].version /\ b.ip = tasks[t].ip
      /\ b.seq = tasks[t].seq /\ b.pc = pc
  <2>1. tasks[t] \in Task /\ pc \in Pcs
    BY <1>2, TaskFacts DEF Pcs
  <2> QED
    BY <2>1 DEF Task
<1>4. PcFits(pc, CurOp(t).op)
  BY <1>2 DEF PcFits
<1> HIDE DEF b
<1>5. Fit(b)
  BY <1>2, <1>3, <1>4, TaskFacts, FieldsFit
<1> QED
  BY <1>1, <1>5 DEF Moves

LEMMA MissMoves ==
    ASSUME Types, NEW t \in Tasks, tasks[t].pc \notin {"idle", "finish"}, CurOp(t).op \in Waiting,
           Miss(t)
    PROVE  Moves(t)
<1>1. CASE tasks[t].deadline = NoOutcome
  <2>1. Goto(t, "deadline") /\ "deadline" \in Pcs \ {"idle", "finish", "record"}
    BY <1>1 DEF Miss, Pcs
  <2>2. PcFits("deadline", CurOp(t).op)
    BY DEF PcFits
  <2> QED
    BY <2>1, <2>2, GotoMoves
<1>2. CASE tasks[t].deadline # NoOutcome
  <2>1. CheckClock(t, tasks[t].deadline) /\ tasks[t].deadline \in OutcomeType
    BY <1>2, TaskFacts DEF Miss, Task
  <2> QED
    BY <2>1, ClockMoves
<1> QED
  BY <1>1, <1>2

LEMMA QuietMoves ==
    ASSUME Types, NEW t \in Tasks, Moves(t),
           UNCHANGED <<outside, rows, out, notes, events, streams, effects, hub, faults>>
    PROVE  Types'
  BY QuietTypes DEF Moves

LEMMA LogMoves ==
    ASSUME Types, NEW t \in Tasks, Moves(t), out' \in LogType,
           UNCHANGED <<outside, rows, notes, events, streams, effects, hub, faults>>
    PROVE  Types'
  BY LogTypes DEF Moves

\* The checkpoint of the current operation.
LEMMA RecordLog ==
    ASSUME Types, NEW t \in Tasks, tasks[t].pc \notin {"idle", "finish"}, NEW o \in OutcomeType,
           out' = Record(t, o)
    PROVE  out' \in LogType /\ Wrote(tasks[t].wf, tasks[t].seq, Entry(CurOp(t).name, o))
<1>1. out' = [out EXCEPT ![tasks[t].wf] = record_operation(out[tasks[t].wf], tasks[t].seq, CurOp(t).name, o)]
  BY DEF Record
<1>2. tasks[t].wf \in Ids /\ tasks[t].seq \in Slots /\ CurOp(t).name \in Names
  BY TaskFacts DEF Operation
<1>3. out \in LogType
  BY TableTypes DEF Types
<1> QED
  BY <1>1, <1>2, <1>3, Recording

\* The deadline, at the position of a sleep or at the one after a recv or get_event.
LEMMA DeadlineLog ==
    ASSUME Types, NEW t \in Tasks, tasks[t].pc \in {"deadline", "fix"}
    PROVE  /\ DeadlineSlot(t) \in Slots
           /\ CurOp(t).op = "sleep" => DeadlineSlot(t) = tasks[t].seq
           /\ CurOp(t).op \in Waiting => DeadlineSlot(t) = tasks[t].seq + 1
           /\ CurOp(t).op \in Waiting \cup {"sleep"}
<1>1. CurOp(t).op \in Waiting \cup {"sleep"}
  BY TaskFacts DEF PcFits
<1>2. tasks[t].seq \in Slots /\ tasks[t].seq + SlotsOf(CurOp(t)) - 1 \in Slots /\ tasks[t].seq \in Nat
  BY TaskFacts
<1> QED
  BY <1>1, <1>2 DEF DeadlineSlot, SlotsOf, Waiting

FixLog(t) == record_operation(Log(t), DeadlineSlot(t), "sleep", Outcome("time", now + CurOp(t).wait))

LEMMA FixLogIs ==
    ASSUME Types, NEW t \in Tasks, FixDeadline(t)
    PROVE  /\ out' \in LogType
           /\ Outcome("time", now + CurOp(t).wait) \in OutcomeType
           /\ Wrote(tasks[t].wf, DeadlineSlot(t), Entry("sleep", Outcome("time", now + CurOp(t).wait)))
           /\ out'[tasks[t].wf][DeadlineSlot(t)] = FixLog(t)[DeadlineSlot(t)]
           /\ FixLog(t)[DeadlineSlot(t)] \in EntryType
<1>1. tasks[t].pc = "fix"
  BY DEF FixDeadline, Run
<1>2. out' = [out EXCEPT ![tasks[t].wf] = FixLog(t)]
  BY DEF FixDeadline, FixLog
<1>3. FixLog(t) = record_operation(out[tasks[t].wf], DeadlineSlot(t), "sleep",
                                   Outcome("time", now + CurOp(t).wait))
  BY DEF FixLog, Log
<1>4. tasks[t].wf \in Ids /\ DeadlineSlot(t) \in Slots /\ "sleep" \in Names /\ out \in LogType
  BY <1>1, TaskFacts, DeadlineLog, TableTypes, OperationsAssumption DEF Types
<1>5. Outcome("time", now + CurOp(t).wait) \in OutcomeType
  <2>1. now \in Nat /\ CurOp(t).wait \in Nat
    BY <1>1, TaskFacts DEF Types, TypeOK, Operation
  <2> QED
    BY <2>1, OutcomeTypes DEF Tags
<1>6. /\ out' \in LogType
      /\ Wrote(tasks[t].wf, DeadlineSlot(t), Entry("sleep", Outcome("time", now + CurOp(t).wait)))
  BY <1>2, <1>3, <1>4, <1>5, Recording
<1>7. out'[tasks[t].wf] = FixLog(t)
  BY <1>2, <1>4 DEF LogType
<1>8. out'[tasks[t].wf][DeadlineSlot(t)] \in EntryType
  BY <1>4, <1>6 DEF LogType
<1> QED
  BY <1>5, <1>6, <1>7, <1>8

(***************************************************************************)
(* Types are preserved by the steps of a task                              *)
(***************************************************************************)
LEMMA LookupTypes ==
    ASSUME Types, NEW t \in Tasks, ReplayHit(t) \/ ReplayMiss(t) \/ Guard(t) \/ ChildLookup(t)
                                     \/ PatchLookup(t) \/ deprecate_patch(t) \/ AwaitChild(t)
    PROVE  Types'
<1>0. tasks[t].pc \in {"replay", "guard"}
  BY DEF ReplayHit, ReplayMiss, Guard, ChildLookup, PatchLookup, deprecate_patch, AwaitChild, Run
<1>a. /\ CurOp(t) \in Operation /\ At(t) \in EntryType /\ OutcomeOf(At(t)) \in OutcomeType
      /\ PcFits(tasks[t].pc, CurOp(t).op) /\ tasks[t].pc \notin {"idle", "finish"}
      /\ tasks[t].seq \in Slots /\ tasks[t] \in Task
  BY <1>0, TaskFacts, EntryOutcome
<1>1. CASE ReplayHit(t)
  <2>1. ASSUME Return(t, "UNEXPECTED") \/ Return(t, "ERROR") PROVE Moves(t)
    BY <1>a, <2>1, ReturnMoves
  <2>2. ASSUME Continue(t, OutcomeOf(At(t))) PROVE Moves(t)
    BY <1>a, <2>2, ContinueMoves
  <2>3. ASSUME CurOp(t).op = "sleep",
               tasks' = [tasks EXCEPT ![t].pc = "sleeping", ![t].deadline = OutcomeOf(At(t))]
        PROVE  Moves(t)
    <3> DEFINE o == OutcomeOf(At(t))
               b == [tasks[t] EXCEPT !.pc = "sleeping", !.deadline = o]
    <3>1. tasks' = [tasks EXCEPT ![t] = b]
      BY <2>3 DEF Types, TypeOK
    <3>2. o \in OutcomeType
      BY <1>a
    <3> HIDE DEF o
    <3>3. b \in Task /\ b.wf = tasks[t].wf /\ b.version = tasks[t].version /\ b.ip = tasks[t].ip
          /\ b.seq = tasks[t].seq /\ b.pc = "sleeping"
      BY <1>a, <3>2 DEF Task, Pcs
    <3> HIDE DEF b
    <3>4. PcFits("sleeping", CurOp(t).op)
      BY <2>3 DEF PcFits
    <3>5. Fit(b)
      BY <1>a, <3>3, <3>4, TaskFacts, FieldsFit
    <3> QED
      BY <3>1, <3>5 DEF Moves
  <2>4. Moves(t)
    BY <1>1, <2>1, <2>2, <2>3 DEF ReplayHit
  <2> QED
    BY <1>1, <2>4, QuietMoves DEF ReplayHit
<1>2. CASE ReplayMiss(t)
  <2> DEFINE pc == CASE CurOp(t).op = "sleep" -> "fix"
                     [] CurOp(t).op = "tx" -> "body"
                     [] CurOp(t).op = "value" -> "act"
                     [] OTHER -> "guard"
  <2>1. Goto(t, pc) /\ CurOp(t).op \in OpKinds \ HasOwnLookup
    BY <1>2, <1>a DEF ReplayMiss, Operation
  <2>2. pc \in Pcs \ {"idle", "finish", "record"}
    BY DEF Pcs
  <2>3. PcFits(pc, CurOp(t).op)
    BY <2>1 DEF PcFits, OpKinds, HasOwnLookup, PatchOps, Recorded, Waiting, StreamOps
  <2> HIDE DEF pc
  <2>4. Moves(t)
    BY <1>a, <2>1, <2>2, <2>3, GotoMoves
  <2> QED
    BY <1>2, <2>4, QuietMoves DEF ReplayMiss
<1>3. CASE Guard(t)
  <2>1. tasks[t].pc = "guard"
    BY <1>3 DEF Guard, Run
  <2>2. PcFits("act", CurOp(t).op) /\ "act" \in Pcs \ {"idle", "finish", "record"}
    BY <1>a, <2>1 DEF PcFits, Pcs
  <2>3. Return(t, "CANCELLED") \/ Goto(t, "act")
    BY <1>3 DEF Guard
  <2>4. Moves(t)
    BY <1>a, <2>2, <2>3, GotoMoves, ReturnMoves
  <2> QED
    BY <1>3, <2>4, QuietMoves DEF Guard
<1>4. CASE ChildLookup(t)
  <2>1. PcFits("spawn", CurOp(t).op) /\ "spawn" \in Pcs \ {"idle", "finish", "record"}
    BY <1>4 DEF ChildLookup, PcFits, Pcs
  <2>2. check_child_workflow(Log(t), tasks[t].seq) \in OutcomeType
    BY <1>0, <1>a, TaskFacts, OutcomeTypes DEF check_child_workflow
  <2>3. \/ Goto(t, "spawn") \/ Continue(t, check_child_workflow(Log(t), tasks[t].seq))
        \/ Return(t, "UNEXPECTED")
    BY <1>4 DEF ChildLookup
  <2>4. Moves(t)
    BY <1>a, <2>1, <2>2, <2>3, GotoMoves, ContinueMoves, ReturnMoves
  <2> QED
    BY <1>4, <2>4, QuietMoves DEF ChildLookup
<1>5. CASE PatchLookup(t)
  <2>1. PcFits("mark", CurOp(t).op) /\ "mark" \in Pcs \ {"idle", "finish", "record"}
    BY <1>5 DEF PatchLookup, PcFits, Pcs
  <2>2. 0 \in 0..SlotsOf(CurOp(t)) /\ 1 \in 0..SlotsOf(CurOp(t))
    BY DEF SlotsOf
  <2>3. \/ Goto(t, "mark") \/ ContinueAt(t, Marker, 1, CurOp(t).next)
        \/ ContinueAt(t, NoOutcome, 0, CurOp(t).old)
    BY <1>5 DEF PatchLookup
  <2>4. Moves(t)
    BY <1>a, <2>1, <2>2, <2>3, GotoMoves, ContinueAtMoves, OutcomeTypes
  <2> QED
    BY <1>5, <2>4, QuietMoves DEF PatchLookup
<1>6. CASE deprecate_patch(t)
  <2>2. 0 \in 0..SlotsOf(CurOp(t)) /\ 1 \in 0..SlotsOf(CurOp(t))
    BY DEF SlotsOf
  <2>3. ContinueAt(t, Marker, 1, CurOp(t).next) \/ ContinueAt(t, NoOutcome, 0, CurOp(t).next)
    BY <1>6 DEF deprecate_patch
  <2>4. Moves(t)
    BY <1>a, <2>2, <2>3, ContinueAtMoves, OutcomeTypes
  <2> QED
    BY <1>6, <2>4, QuietMoves DEF deprecate_patch
<1>7. CASE AwaitChild(t)
  <2>2. 0 \in 0..SlotsOf(CurOp(t))
    BY DEF SlotsOf
  <2>3. ContinueAt(t, NoOutcome, 0, CurOp(t).next) \/ Return(t, "ERROR")
    BY <1>7 DEF AwaitChild
  <2>4. Moves(t)
    BY <1>a, <2>2, <2>3, ContinueAtMoves, ReturnMoves, OutcomeTypes
  <2> QED
    BY <1>7, <2>4, QuietMoves DEF AwaitChild
<1> QED
  BY <1>1, <1>2, <1>3, <1>4, <1>5, <1>6, <1>7

LEMMA ActTypes ==
    ASSUME Types, NEW t \in Tasks, Produce(t) \/ GetEvent(t) \/ RecvSelect(t) \/ StreamCheck(t)
    PROVE  Types'
<1>0. tasks[t].pc = "act"
  BY DEF Produce, GetEvent, RecvSelect, StreamCheck, Run
<1>a. CurOp(t) \in Operation /\ tasks[t].pc \notin {"idle", "finish"} /\ tasks[t] \in Task
      /\ tasks[t].wf \in Ids
  BY <1>0, TaskFacts
<1>b. UNCHANGED <<outside, rows, out, notes, events, streams, effects, hub, faults>>
  BY DEF Produce, GetEvent, RecvSelect, StreamCheck
<1> SUFFICES Moves(t)
  BY <1>b, QuietMoves
<1>1. CASE Produce(t)
  <2>1. PICK v \in 1..2 : tasks' = [tasks EXCEPT ![t].pc = "record", ![t].got = Outcome("val", v)]
    BY <1>1 DEF Produce
  <2>2. Outcome("val", v) \in OutcomeType /\ Outcome("val", v).tag \in {"val", "null"}
    BY DEF Outcome, OutcomeType, Tags
  <2>3. CurOp(t).op \in Recorded
    BY <1>1 DEF Produce, Recorded
  <2> QED
    BY <1>a, <2>1, <2>2, <2>3, RecordMoves
<1>2. CASE GetEvent(t)
  <2>1. CurOp(t).op \in Waiting /\ CurOp(t).op \in Recorded
    BY <1>2 DEF GetEvent, Waiting, Recorded
  <2>2. CASE get_event_value(events, CurOp(t).to) = NoOutcome
    BY <1>a, <1>2, <2>1, <2>2, MissMoves DEF GetEvent
  <2>3. CASE get_event_value(events, CurOp(t).to) # NoOutcome
    <3> DEFINE o == get_event_value(events, CurOp(t).to)
    <3>1. tasks' = [tasks EXCEPT ![t].pc = "record", ![t].got = o]
      BY <1>2, <2>3 DEF GetEvent
    <3>2. o = Outcome("val", events[CurOp(t).to]) /\ events[CurOp(t).to] \in Nat
      BY <1>a, <2>3 DEF get_event_value, Types, TypeOK, Operation
    <3>3. o \in OutcomeType /\ o.tag \in {"val", "null"}
      BY <3>2 DEF Outcome, OutcomeType, Tags
    <3> HIDE DEF o
    <3> QED
      BY <1>a, <2>1, <3>1, <3>3, RecordMoves
  <2> QED
    BY <2>2, <2>3
<1>3. CASE RecvSelect(t)
  <2>1. CurOp(t).op = "recv" /\ CurOp(t).op \in Waiting
    BY <1>3 DEF RecvSelect, Waiting
  <2>2. ASSUME NEW i \in OldestEntry(notes, tasks[t].wf, CurOp(t).topic),
               tasks' = [tasks EXCEPT ![t].pc = "claim", ![t].pick = i]
        PROVE  Moves(t)
    <3> DEFINE b == [tasks[t] EXCEPT !.pc = "claim", !.pick = i]
    <3>1. i \in Nat
      BY LenProperties DEF OldestEntry, Unconsumed, Types, TypeOK
    <3>2. b \in Task /\ b.wf = tasks[t].wf /\ b.version = tasks[t].version /\ b.ip = tasks[t].ip
          /\ b.seq = tasks[t].seq /\ b.pc = "claim"
      BY <1>a, <3>1 DEF Task, Pcs
    <3>3. tasks' = [tasks EXCEPT ![t] = b]
      BY <2>2 DEF Types, TypeOK
    <3>4. PcFits("claim", CurOp(t).op)
      BY <2>1 DEF PcFits
    <3> HIDE DEF b
    <3>5. Fit(b)
      BY <1>a, <3>2, <3>4, TaskFacts, FieldsFit
    <3> QED
      BY <3>3, <3>5 DEF Moves
  <2>3. ASSUME Miss(t) PROVE Moves(t)
    BY <1>a, <2>1, <2>3, MissMoves
  <2> QED
    BY <1>3, <2>2, <2>3 DEF RecvSelect
<1>4. CASE StreamCheck(t)
  <2>1. CurOp(t).op \in StreamOps
    BY <1>4 DEF StreamCheck, StreamOps
  <2>2. CASE IsClosed(streams[tasks[t].wf])
    BY <1>a, <1>4, <2>2, ReturnMoves DEF StreamCheck
  <2>3. CASE ~IsClosed(streams[tasks[t].wf])
    <3> DEFINE n == Len(streams[tasks[t].wf])
               b == [tasks[t] EXCEPT !.pc = "append", !.pick = n]
    <3>1. n \in Nat
      BY <1>a, LenProperties DEF Types, TypeOK
    <3>3. tasks' = [tasks EXCEPT ![t] = b]
      BY <1>4, <2>3 DEF StreamCheck, Types, TypeOK
    <3> HIDE DEF n
    <3>2. b \in Task /\ b.wf = tasks[t].wf /\ b.version = tasks[t].version /\ b.ip = tasks[t].ip
          /\ b.seq = tasks[t].seq /\ b.pc = "append"
      BY <1>a, <3>1 DEF Task, Pcs
    <3>4. PcFits("append", CurOp(t).op)
      BY <2>1 DEF PcFits
    <3> HIDE DEF b
    <3>5. Fit(b)
      BY <1>a, <3>2, <3>4, TaskFacts, FieldsFit
    <3> QED
      BY <3>3, <3>5 DEF Moves
  <2> QED
    BY <2>2, <2>3
<1> QED
  BY <1>1, <1>2, <1>3, <1>4

LEMMA CheckpointTypes ==
    ASSUME Types, NEW t \in Tasks, RecordOutcome(t) \/ Expire(t) \/ TxGiveUp(t)
    PROVE  Types'
<1>0. tasks[t].pc \in {"record", "expire", "giveup"}
  BY DEF RecordOutcome, Expire, TxGiveUp, Run
<1>a. CurOp(t) \in Operation /\ tasks[t].pc \notin {"idle", "finish"} /\ tasks[t] \in Task
      /\ tasks[t].wf \in Ids /\ tasks[t].seq \in Slots
  BY <1>0, TaskFacts
<1>b. UNCHANGED <<outside, rows, notes, events, streams, effects, hub, faults>>
  BY DEF RecordOutcome, Expire, TxGiveUp
<1>c. out' \in LogType
  <2>1. tasks[t].got \in OutcomeType /\ Null \in OutcomeType /\ Failed \in OutcomeType
    BY <1>a, OutcomeTypes DEF Task
  <2>2. \E o \in OutcomeType : out' = Record(t, o)
    BY <2>1 DEF RecordOutcome, Expire, TxGiveUp
  <2> QED
    BY <1>a, <2>2, RecordLog
<1> SUFFICES Moves(t)
  BY <1>b, <1>c, LogMoves
<1>1. CASE RecordOutcome(t)
  <2> DEFINE o == OutcomeOf(out'[tasks[t].wf][tasks[t].seq])
  <2>1. o \in OutcomeType
    BY <1>a, <1>c, EntryOutcome DEF LogType
  <2>2. Return(t, "ERROR") \/ Continue(t, o)
    BY <1>1 DEF RecordOutcome
  <2> HIDE DEF o
  <2> QED
    BY <1>a, <2>1, <2>2, ReturnMoves, ContinueMoves
<1>2. CASE Expire(t)
  BY <1>2, <1>a, ContinueMoves, OutcomeTypes DEF Expire
<1>3. CASE TxGiveUp(t)
  <2> DEFINE saw == [tasks[t].seen EXCEPT ![tasks[t].seq] = Failed]
             b == [tasks[t] EXCEPT !.seen = saw]
  <2>1. tasks' = [tasks EXCEPT ![t] = [b EXCEPT !.pc = "finish", !.res = "ERROR"]]
    BY <1>3, <1>a DEF TxGiveUp, Types, TypeOK, Task
  <2>2. saw \in [Slots -> OutcomeType]
    BY <1>a, OutcomeTypes DEF Task
  <2> HIDE DEF saw
  <2>3. b \in Task /\ b.wf = tasks[t].wf /\ b.version = tasks[t].version /\ b.ip = tasks[t].ip
        /\ b.seq = tasks[t].seq /\ b.pc = "giveup"
    BY <1>3, <1>a, <2>2 DEF Task, TxGiveUp, Run
  <2> HIDE DEF b
  <2>4. Fit(b)
    <3>1. tasks[t].pc = "giveup"
      BY <1>3 DEF TxGiveUp, Run
    <3>2. Fit(tasks[t]) /\ Working(tasks[t]) /\ PcFits("giveup", OpOf(tasks[t]).op) /\ sc \in Scenarios
      BY <3>1, <1>a, TaskFacts
    <3> QED
      BY <2>3, <3>2, FieldsFit
  <2>5. Fit([b EXCEPT !.pc = "finish", !.res = "ERROR"])
    BY <2>3, <2>4, ReturnFits
  <2> QED
    BY <2>1, <2>5 DEF Moves
<1> QED
  BY <1>1, <1>2, <1>3

\* What RecvCommit and TxCommit do to their tables.
LEMMA NotesTypes ==
    ASSUME notes \in Seq(Notification)
    PROVE  /\ \A i \in Nat : MarkConsumed(notes, i) \in Seq(Notification)
           /\ \A dest \in Ids, topic \in Topics, key \in Keys \cup {NoKey}, n \in Nat :
                insert_notification(notes, dest, topic, key, n) \in Seq(Notification)
<1>1. ASSUME NEW i \in Nat PROVE MarkConsumed(notes, i) \in Seq(Notification)
  <2>1. CASE i \in 1..Len(notes)
    <3> DEFINE e == [notes[i] EXCEPT !.consumed = TRUE]
    <3>1. MarkConsumed(notes, i) = [notes EXCEPT ![i] = e]
      BY DEF MarkConsumed
    <3>2. notes[i] \in Notification
      BY <2>1, ElementOfSeq
    <3>3. e \in Notification
      BY <3>2 DEF Notification
    <3> HIDE DEF e
    <3> QED
      BY <2>1, <3>1, <3>3, ExceptSeq
  <2>2. CASE i \notin 1..Len(notes)
    <3>1. MarkConsumed(notes, i) = [notes EXCEPT ![i] = [notes[i] EXCEPT !.consumed = TRUE]]
      BY DEF MarkConsumed
    <3>2. i \notin DOMAIN notes
      BY <2>2, LenProperties
    <3>3. MarkConsumed(notes, i) = notes
      BY <3>1, <3>2
    <3> QED
      BY <3>3
  <2> QED
    BY <2>1, <2>2
<1>2. ASSUME NEW dest \in Ids, NEW topic \in Topics, NEW key \in Keys \cup {NoKey}, NEW n \in Nat
      PROVE  insert_notification(notes, dest, topic, key, n) \in Seq(Notification)
  <2>1. [dest |-> dest, topic |-> topic, key |-> key, created |-> n, consumed |-> FALSE] \in Notification
    BY DEF Notification
  <2> QED
    BY <2>1, AppendProperties DEF insert_notification
<1> QED
  BY <1>1, <1>2

\* The body at k of w has committed once more, and n answers more were lost; the rest stays.
Counted(w, k, n) ==
    \A x \in Ids, j \in Slots :
        effects'[x][j] = IF x = w /\ j = k
                           THEN [done |-> effects[x][j].done + 1, lost |-> effects[x][j].lost + n]
                           ELSE effects[x][j]

LEMMA EffectTypes ==
    ASSUME Types, NEW t \in Tasks, tasks[t].pc \notin {"idle", "finish"}, NEW n \in Nat,
           effects' = Effect(t, n)
    PROVE  /\ effects' \in [Ids -> [Slots -> EffectType]]
           /\ Counted(tasks[t].wf, tasks[t].seq, n)
           /\ BodyValue(t) \in OutcomeType /\ BodyValue(t).tag = "val"
<1> DEFINE w == tasks[t].wf
           k == tasks[t].seq
           e == [done |-> effects[w][k].done + 1, lost |-> effects[w][k].lost + n]
           line == [effects[w] EXCEPT ![k] = e]
<1>1. w \in Ids /\ k \in Slots /\ effects \in [Ids -> [Slots -> EffectType]]
  BY TaskFacts DEF Types, TypeOK
<1>2. effects[w] \in [Slots -> EffectType] /\ effects[w][k] \in EffectType
  BY <1>1
<1>3. e \in EffectType /\ effects[w][k].done + 1 \in Nat
  BY <1>2 DEF EffectType
<1>4. effects' = [effects EXCEPT ![w] = line]
  BY DEF Effect
<1>5. BodyValue(t) = Outcome("val", effects[w][k].done + 1)
  BY DEF BodyValue
<1>6. BodyValue(t) \in OutcomeType /\ BodyValue(t).tag = "val"
  BY <1>3, <1>5, OutcomeTypes DEF Tags, Outcome
<1>7. \A x \in Ids, j \in Slots :
        x = w /\ j = k => e = [done |-> effects[x][j].done + 1, lost |-> effects[x][j].lost + n]
  OBVIOUS
<1> HIDE DEF e
<1>8. line \in [Slots -> EffectType] /\ \A j \in Slots : line[j] = IF j = k THEN e ELSE effects[w][j]
  BY <1>1, <1>2, <1>3
<1> HIDE DEF line, w, k
<1>9. effects' \in [Ids -> [Slots -> EffectType]]
      /\ \A x \in Ids : effects'[x] = IF x = w THEN line ELSE effects[x]
  BY <1>1, <1>4, <1>8
<1>10. Counted(w, k, n)
  BY <1>7, <1>8, <1>9 DEF Counted
<1> QED
  BY <1>6, <1>9, <1>10 DEF w, k

LEMMA LinkLog ==
    ASSUME Types, NEW t \in Tasks, Link(t) \/ PatchMark(t)
    PROVE  /\ out' \in LogType
           /\ Link(t) => Wrote(tasks[t].wf, tasks[t].seq, Entry(CurOp(t).name, Outcome("child", 0)))
           /\ PatchMark(t) => Wrote(tasks[t].wf, tasks[t].seq, Entry(CurOp(t).name, Marker))
<1>1. tasks[t].pc \in {"link", "mark"}
  BY DEF Link, PatchMark, Run
<1>2. tasks[t].wf \in Ids /\ tasks[t].seq \in Slots /\ CurOp(t).name \in Names /\ out \in LogType
  BY <1>1, TaskFacts, TableTypes DEF Operation, Types
<1>3. Outcome("child", 0) \in OutcomeType /\ Marker \in OutcomeType
  BY OutcomeTypes DEF Tags
<1>4. ASSUME Link(t)
      PROVE  out' = [out EXCEPT ![tasks[t].wf] =
                       record_operation(out[tasks[t].wf], tasks[t].seq, CurOp(t).name, Outcome("child", 0))]
  BY <1>4 DEF Link, record_child_workflow
<1>5. ASSUME PatchMark(t)
      PROVE  out' = [out EXCEPT ![tasks[t].wf] =
                       record_operation(out[tasks[t].wf], tasks[t].seq, CurOp(t).name, Marker)]
  BY <1>5 DEF PatchMark, record_patch
<1>6. ASSUME Link(t)
      PROVE  out' \in LogType /\ Wrote(tasks[t].wf, tasks[t].seq, Entry(CurOp(t).name, Outcome("child", 0)))
  BY <1>2, <1>3, <1>4, <1>6, Recording
<1>7. ASSUME PatchMark(t)
      PROVE  out' \in LogType /\ Wrote(tasks[t].wf, tasks[t].seq, Entry(CurOp(t).name, Marker))
  BY <1>2, <1>3, <1>5, <1>7, Recording
<1> QED
  BY <1>6, <1>7

LEMMA CommitTypes ==
    ASSUME Types, NEW t \in Tasks, RecvCommit(t) \/ TxCommit(t) \/ Link(t) \/ PatchMark(t)
    PROVE  Types'
<1>0. tasks[t].pc \in {"claim", "body", "link", "mark"}
  BY DEF RecvCommit, TxCommit, Link, PatchMark, Run
<1>a. CurOp(t) \in Operation /\ tasks[t].pc \notin {"idle", "finish"} /\ tasks[t] \in Task
      /\ tasks[t].wf \in Ids /\ tasks[t].seq \in Slots /\ tasks[t].pick \in Nat
  BY <1>0, TaskFacts DEF Task
<1>1. CASE RecvCommit(t)
  <2>1. Outcome("msg", tasks[t].pick) \in OutcomeType
    BY <1>a, OutcomeTypes DEF Tags
  <2>2. out' \in LogType
    BY <1>1, <1>a, <2>1, RecordLog DEF RecvCommit
  <2>3. Moves(t)
    BY <1>1, <1>a, <2>1, ContinueMoves DEF RecvCommit
  <2>4. notes' \in Seq(Notification)
    BY <1>1, <1>a, NotesTypes DEF RecvCommit, Types, TypeOK
  <2>5. UNCHANGED <<outside, rows, events, streams, effects, hub, faults>>
    BY <1>1 DEF RecvCommit
  <2>6. /\ rows' \in [Ids -> {"ABSENT", "PENDING", "SUCCESS", "ERROR", "CANCELLED"}]
        /\ events' \in [Ids -> Nat] /\ streams' \in [Ids -> Seq(StreamEntry)]
        /\ effects' \in [Ids -> [Slots -> EffectType]]
        /\ hub' \in [listening : BOOLEAN, signals : SUBSET Ids] /\ faults' \in [FaultKinds -> Nat]
    BY <2>5 DEF Types, TypeOK
  <2> QED
    BY <2>2, <2>3, <2>4, <2>5, <2>6, TaskTypes DEF Moves
<1>2. CASE TxCommit(t)
  <2> DEFINE o == BodyValue(t)
  <2>1. effects' \in [Ids -> [Slots -> EffectType]] /\ o \in OutcomeType
    BY <1>2, <1>a, EffectTypes DEF TxCommit
  <2>3. o \in OutcomeType
    BY <2>1
  <2>4. out' = Record(t, o) /\ Continue(t, o)
    BY <1>2 DEF TxCommit
  <2> HIDE DEF o
  <2>5. out' \in LogType
    BY <1>a, <2>3, <2>4, RecordLog
  <2>6. Moves(t)
    BY <1>a, <2>3, <2>4, ContinueMoves
  <2>7. UNCHANGED <<outside, rows, notes, events, streams, hub, faults>>
    BY <1>2 DEF TxCommit
  <2>8. /\ rows' \in [Ids -> {"ABSENT", "PENDING", "SUCCESS", "ERROR", "CANCELLED"}]
        /\ notes' \in Seq(Notification)
        /\ events' \in [Ids -> Nat] /\ streams' \in [Ids -> Seq(StreamEntry)]
        /\ hub' \in [listening : BOOLEAN, signals : SUBSET Ids] /\ faults' \in [FaultKinds -> Nat]
    BY <2>7 DEF Types, TypeOK
  <2> QED
    BY <2>1, <2>5, <2>6, <2>7, <2>8, TaskTypes DEF Moves
<1>3. CASE Link(t)
  <2>1. Outcome("child", 0) \in OutcomeType
    BY OutcomeTypes DEF Tags
  <2>2. Moves(t)
    BY <1>3, <1>a, <2>1, ContinueMoves DEF Link
  <2> QED
    BY <1>3, <2>2, LinkLog, LogMoves DEF Link
<1>4. CASE PatchMark(t)
  <2>1. Marker \in OutcomeType /\ 1 \in 0..SlotsOf(CurOp(t))
    BY OutcomeTypes DEF SlotsOf
  <2>2. Moves(t)
    BY <1>4, <1>a, <2>1, ContinueAtMoves DEF PatchMark
  <2> QED
    BY <1>4, <2>2, LinkLog, LogMoves DEF PatchMark
<1> QED
  BY <1>1, <1>2, <1>3, <1>4

LEMMA SleepMoves ==
    ASSUME Types, NEW t \in Tasks, tasks[t].pc \notin {"idle", "finish"}, CurOp(t).op = "sleep",
           NEW o \in OutcomeType, tasks' = [tasks EXCEPT ![t].pc = "sleeping", ![t].deadline = o]
    PROVE  Moves(t)
<1> DEFINE b == [tasks[t] EXCEPT !.pc = "sleeping", !.deadline = o]
<1>1. tasks' = [tasks EXCEPT ![t] = b]
  BY DEF Types, TypeOK
<1>2. tasks[t] \in Task
  BY TaskFacts
<1>3. b \in Task /\ b.wf = tasks[t].wf /\ b.version = tasks[t].version /\ b.ip = tasks[t].ip
      /\ b.seq = tasks[t].seq /\ b.pc = "sleeping"
  BY <1>2 DEF Task, Pcs
<1> HIDE DEF b
<1>4. PcFits("sleeping", CurOp(t).op)
  BY DEF PcFits
<1>5. Fit(b)
  BY <1>3, <1>4, TaskFacts, FieldsFit
<1> QED
  BY <1>1, <1>5 DEF Moves

LEMMA WaitTypes ==
    ASSUME Types, NEW t \in Tasks,
           DeadlineKnown(t) \/ FixDeadline(t) \/ Sleep(t) \/ Subscribe(t) \/ WakeUp(t)
    PROVE  Types'
<1>0. tasks[t].pc \in {"deadline", "fix", "sleeping", "subscribe", "wait"}
  BY DEF DeadlineKnown, FixDeadline, Sleep, Subscribe, WakeUp, Run
<1>a. CurOp(t) \in Operation /\ tasks[t].pc \notin {"idle", "finish"} /\ tasks[t] \in Task
      /\ tasks[t].wf \in Ids /\ tasks[t].seq \in Slots /\ Log(t) \in [Slots -> EntryType]
      /\ PcFits(tasks[t].pc, CurOp(t).op) /\ tasks[t].deadline \in OutcomeType
  BY <1>0, TaskFacts DEF Task
<1>1. CASE DeadlineKnown(t)
  <2> DEFINE entry == Log(t)[DeadlineSlot(t)]
  <2>1. tasks[t].pc = "deadline"
    BY <1>1 DEF DeadlineKnown, Run
  <2>2. CurOp(t).op \in Waiting /\ PcFits("fix", CurOp(t).op) /\ "fix" \in Pcs \ {"idle", "finish", "record"}
    BY <1>a, <2>1 DEF PcFits, Pcs
  <2>3. OutcomeOf(entry) \in OutcomeType
    BY <1>a, <2>1, DeadlineLog, EntryOutcome
  <2>4. Goto(t, "fix") \/ Return(t, "UNEXPECTED") \/ CheckClock(t, OutcomeOf(entry))
    BY <1>1 DEF DeadlineKnown
  <2> HIDE DEF entry
  <2>5. Moves(t)
    BY <1>a, <2>2, <2>3, <2>4, GotoMoves, ReturnMoves, ClockMoves
  <2> QED
    BY <1>1, <2>5, QuietMoves DEF DeadlineKnown
<1>2. CASE FixDeadline(t)
  <2> DEFINE o == OutcomeOf(FixLog(t)[DeadlineSlot(t)])
  <2>1. out' \in LogType /\ o \in OutcomeType
    BY <1>2, FixLogIs, EntryOutcome
  <2>2. CurOp(t).op \in Waiting \cup {"sleep"}
    BY <1>2, DeadlineLog DEF FixDeadline, Run
  <2>3. \/ Return(t, "ERROR")
        \/ CurOp(t).op = "sleep" /\ tasks' = [tasks EXCEPT ![t].pc = "sleeping", ![t].deadline = o]
        \/ CurOp(t).op # "sleep" /\ CheckClock(t, o)
    BY <1>2 DEF FixDeadline, FixLog
  <2> HIDE DEF o
  <2>4. Moves(t)
    BY <1>a, <2>1, <2>2, <2>3, ReturnMoves, SleepMoves, ClockMoves
  <2> QED
    BY <1>2, <2>1, <2>4, LogMoves DEF FixDeadline
<1>3. CASE Sleep(t)
  <2>1. Moves(t)
    BY <1>3, <1>a, ContinueMoves DEF Sleep
  <2> QED
    BY <1>3, <2>1, QuietMoves DEF Sleep
<1>4. CASE Subscribe(t)
  <2> DEFINE rest == tasks[t].deadline.val
             until == IF rest < now + Backstop THEN rest ELSE now + Backstop
             b == [tasks[t] EXCEPT !.pc = "wait", !.until = until]
  <2>1. tasks' = [tasks EXCEPT ![t] = b]
    BY <1>4 DEF Subscribe, Types, TypeOK
  <2>2. until \in Nat
    BY <1>a, OperationsAssumption DEF Types, TypeOK, OutcomeType
  <2> HIDE DEF until
  <2>3. b \in Task /\ b.wf = tasks[t].wf /\ b.version = tasks[t].version /\ b.ip = tasks[t].ip
        /\ b.seq = tasks[t].seq /\ b.pc = "wait"
    BY <1>a, <2>2 DEF Task, Pcs
  <2> HIDE DEF b
  <2>4. tasks[t].pc = "subscribe"
    BY <1>4 DEF Subscribe, Run
  <2>5. PcFits("wait", CurOp(t).op)
    BY <1>a, <2>4 DEF PcFits
  <2>6. Fit(b)
    BY <1>a, <2>3, <2>5, TaskFacts, FieldsFit
  <2>7. Moves(t)
    BY <2>1, <2>6 DEF Moves
  <2> QED
    BY <1>4, <2>7, QuietMoves DEF Subscribe
<1>5. CASE WakeUp(t)
  <2>1. tasks[t].pc = "wait"
    BY <1>5 DEF WakeUp, Run
  <2>2. PcFits("act", CurOp(t).op) /\ "act" \in Pcs \ {"idle", "finish", "record"}
    BY <1>a, <2>1 DEF PcFits, Pcs, Waiting, Recorded
  <2>3. Moves(t)
    BY <1>5, <1>a, <2>2, GotoMoves DEF WakeUp
  <2> QED
    BY <1>5, <2>3, QuietMoves DEF WakeUp
<1> QED
  BY <1>1, <1>2, <1>3, <1>4, <1>5

LEMMA SignalTypes ==
    ASSUME Types, NEW w \in Ids, Signal(w)
    PROVE  hub' \in [listening : BOOLEAN, signals : SUBSET Ids]
<1>1. hub \in [listening : BOOLEAN, signals : SUBSET Ids]
  BY DEF Types, TypeOK
<1>2. CASE hub.listening
  <2>1. hub' = [hub EXCEPT !.signals = hub.signals \cup {w}]
    BY <1>2 DEF Signal
  <2>2. hub.signals \cup {w} \in SUBSET Ids
    BY <1>1
  <2> QED
    BY <1>1, <2>1, <2>2
<1>3. CASE ~hub.listening
  BY <1>1, <1>3 DEF Signal
<1> QED
  BY <1>2, <1>3

LEMMA StreamTypes ==
    ASSUME Types, NEW w \in Ids, NEW v \in Nat, NEW k \in Slots,
           streams' = [streams EXCEPT ![w] = AppendEntry(streams[w], v, k)]
    PROVE  /\ streams' \in [Ids -> Seq(StreamEntry)]
           /\ streams'[w] = Append(streams[w], [val |-> v, slot |-> k])
           /\ \A x \in Ids \ {w} : streams'[x] = streams[x]
<1>1. [val |-> v, slot |-> k] \in StreamEntry
  BY DEF StreamEntry
<1>2. streams \in [Ids -> Seq(StreamEntry)] /\ streams[w] \in Seq(StreamEntry)
  BY DEF Types, TypeOK
<1> DEFINE s == AppendEntry(streams[w], v, k)
<1>3. s \in Seq(StreamEntry) /\ s = Append(streams[w], [val |-> v, slot |-> k])
  BY <1>1, <1>2, AppendProperties DEF AppendEntry
<1>4. streams' = [streams EXCEPT ![w] = s]
  OBVIOUS
<1> HIDE DEF s
<1> QED
  BY <1>2, <1>3, <1>4

LEMMA OutputTypes ==
    ASSUME Types, NEW t \in Tasks, Send(t) \/ SetEvent(t) \/ StreamAppend(t)
    PROVE  Types'
<1>0. tasks[t].pc \in {"act", "append"}
  BY DEF Send, SetEvent, StreamAppend, Run
<1>a. CurOp(t) \in Operation /\ tasks[t].pc \notin {"idle", "finish"} /\ tasks[t] \in Task
      /\ tasks[t].wf \in Ids /\ tasks[t].seq \in Slots /\ PcFits(tasks[t].pc, CurOp(t).op)
  BY <1>0, TaskFacts
<1>b. Null \in OutcomeType /\ Null.tag \in {"val", "null"}
  BY DEF Null, Outcome, OutcomeType, Tags
<1>c. /\ CurOp(t).to \in Ids /\ CurOp(t).topic \in Topics /\ CurOp(t).val \in Nat /\ now \in Nat
      /\ NoKey \in Keys \cup {NoKey}
  BY <1>a DEF Operation, Types, TypeOK
<1>d. /\ rows \in [Ids -> {"ABSENT", "PENDING", "SUCCESS", "ERROR", "CANCELLED"}]
      /\ out \in LogType /\ notes \in Seq(Notification) /\ events \in [Ids -> Nat]
      /\ streams \in [Ids -> Seq(StreamEntry)] /\ effects \in [Ids -> [Slots -> EffectType]]
      /\ hub \in [listening : BOOLEAN, signals : SUBSET Ids] /\ faults \in [FaultKinds -> Nat]
  BY TableTypes DEF Types, TypeOK
<1>1. CASE Send(t)
  <2>1. UNCHANGED <<outside, rows, out, events, streams, effects, faults>> /\ CurOp(t).op \in Recorded
    BY <1>1 DEF Send, Recorded
  <2>2. CASE rows[CurOp(t).to] = "ABSENT"
    <3>1. Return(t, "ERROR") /\ UNCHANGED <<notes, hub>>
      BY <1>1, <2>2 DEF Send
    <3>2. Moves(t)
      BY <1>a, <3>1, ReturnMoves
    <3> QED
      BY <2>1, <3>1, <3>2, QuietMoves
  <2>3. CASE rows[CurOp(t).to] # "ABSENT"
    <3>1. /\ notes' = insert_notification(notes, CurOp(t).to, CurOp(t).topic, NoKey, now)
          /\ Signal(CurOp(t).to)
          /\ tasks' = [tasks EXCEPT ![t].pc = "record", ![t].got = Null]
      BY <1>1, <2>3 DEF Send
    <3>2. Moves(t)
      BY <1>a, <1>b, <2>1, <3>1, RecordMoves
    <3>3. notes' \in Seq(Notification)
      BY <1>c, <1>d, <3>1, NotesTypes
    <3>4. hub' \in [listening : BOOLEAN, signals : SUBSET Ids]
      BY <1>c, <3>1, SignalTypes
    <3>5. /\ rows' \in [Ids -> {"ABSENT", "PENDING", "SUCCESS", "ERROR", "CANCELLED"}]
          /\ out' \in LogType /\ events' \in [Ids -> Nat] /\ streams' \in [Ids -> Seq(StreamEntry)]
          /\ effects' \in [Ids -> [Slots -> EffectType]] /\ faults' \in [FaultKinds -> Nat]
      BY <1>d, <2>1
    <3> QED
      BY <2>1, <3>2, <3>3, <3>4, <3>5, TaskTypes DEF Moves
  <2> QED
    BY <2>2, <2>3
<1>2. CASE SetEvent(t)
  <2>1. /\ UNCHANGED <<outside, rows, out, notes, streams, effects, faults>> /\ CurOp(t).op \in Recorded
        /\ events' = [events EXCEPT ![tasks[t].wf] = CurOp(t).val] /\ Signal(tasks[t].wf)
        /\ tasks' = [tasks EXCEPT ![t].pc = "record", ![t].got = Null]
    BY <1>2 DEF SetEvent, Recorded, upsert_event
  <2>2. Moves(t)
    BY <1>a, <1>b, <2>1, RecordMoves
  <2>3. events' \in [Ids -> Nat]
    BY <1>c, <1>d, <2>1
  <2>4. hub' \in [listening : BOOLEAN, signals : SUBSET Ids]
    BY <1>a, <2>1, SignalTypes
  <2>5. /\ rows' \in [Ids -> {"ABSENT", "PENDING", "SUCCESS", "ERROR", "CANCELLED"}]
        /\ out' \in LogType /\ notes' \in Seq(Notification) /\ streams' \in [Ids -> Seq(StreamEntry)]
        /\ effects' \in [Ids -> [Slots -> EffectType]] /\ faults' \in [FaultKinds -> Nat]
    BY <1>d, <2>1
  <2> QED
    BY <2>1, <2>2, <2>3, <2>4, <2>5, TaskTypes DEF Moves
<1>3. CASE StreamAppend(t)
  <2>1. tasks[t].pc = "append"
    BY <1>3 DEF StreamAppend, Run
  <2>2. CurOp(t).op \in Recorded /\ StreamValue(CurOp(t)) \in Nat
    BY <1>a, <1>c, <2>1 DEF PcFits, Recorded, StreamValue, CLOSED
  <2>3. UNCHANGED <<outside, rows, out, notes, events, effects, hub, faults>>
    BY <1>3 DEF StreamAppend
  <2>4. CASE /\ streams' = [streams EXCEPT ![tasks[t].wf] =
                             AppendEntry(streams[tasks[t].wf], StreamValue(CurOp(t)), tasks[t].seq)]
             /\ tasks' = [tasks EXCEPT ![t].pc = "record", ![t].got = Null]
    <3>1. Moves(t)
      BY <1>a, <1>b, <2>2, <2>4, RecordMoves
    <3>2. streams' \in [Ids -> Seq(StreamEntry)]
      BY <1>a, <2>2, <2>4, StreamTypes
    <3>3. /\ rows' \in [Ids -> {"ABSENT", "PENDING", "SUCCESS", "ERROR", "CANCELLED"}]
          /\ out' \in LogType /\ notes' \in Seq(Notification) /\ events' \in [Ids -> Nat]
          /\ effects' \in [Ids -> [Slots -> EffectType]] /\ faults' \in [FaultKinds -> Nat]
          /\ hub' \in [listening : BOOLEAN, signals : SUBSET Ids]
      BY <1>d, <2>3
    <3> QED
      BY <2>3, <3>1, <3>2, <3>3, TaskTypes DEF Moves
  <2>5. CASE Return(t, "ERROR") /\ UNCHANGED streams
    <3>1. Moves(t)
      BY <1>a, <2>5, ReturnMoves
    <3> QED
      BY <2>3, <2>5, <3>1, QuietMoves
  <2> QED
    BY <1>3, <2>4, <2>5 DEF StreamAppend
<1> QED
  BY <1>1, <1>2, <1>3

LEMMA FaultTypes ==
    ASSUME Types, NEW kind \in FaultKinds, Fault(kind)
    PROVE  faults' \in [FaultKinds -> Nat]
  BY DEF Types, TypeOK, Fault

LEMMA RetryTypes ==
    ASSUME Types, NEW t \in Tasks, conflict_retry_wait(t) \/ TxConflict(t) \/ TxBodyFails(t)
    PROVE  Types'
<1>0. tasks[t].pc \in {"body", "retry"}
  BY DEF conflict_retry_wait, TxConflict, TxBodyFails, Run
<1>a. tasks[t].pc \notin {"idle", "finish"} /\ tasks[t] \in Task /\ CurOp(t).op = "tx"
      /\ PcFits(tasks[t].pc, CurOp(t).op)
  BY <1>0, TaskFacts DEF PcFits
<1>b. PcFits("retry", CurOp(t).op) /\ PcFits("body", CurOp(t).op) /\ PcFits("giveup", CurOp(t).op)
  BY <1>a DEF PcFits
<1>c. {"retry", "body", "giveup"} \subseteq Pcs \ {"idle", "finish", "record"}
  BY DEF Pcs
<1>d. UNCHANGED <<outside, rows, out, notes, events, streams, effects, hub>>
  BY DEF conflict_retry_wait, TxConflict, TxBodyFails
<1>e. faults' \in [FaultKinds -> Nat]
  <2>1. faults' = faults \/ Fault("conflict") \/ Fault("body")
    BY DEF conflict_retry_wait, TxConflict, TxBodyFails
  <2> QED
    BY <2>1, FaultTypes DEF FaultKinds, Types, TypeOK
<1>f. Moves(t)
  <2>1. ASSUME tasks' = [tasks EXCEPT ![t].try = tasks[t].try + 1] PROVE Moves(t)
    <3> DEFINE b == [tasks[t] EXCEPT !.try = tasks[t].try + 1]
    <3>1. tasks' = [tasks EXCEPT ![t] = b]
      BY <2>1 DEF Types, TypeOK
    <3>2. b \in Task /\ b.wf = tasks[t].wf /\ b.version = tasks[t].version /\ b.ip = tasks[t].ip
          /\ b.seq = tasks[t].seq /\ b.pc = tasks[t].pc
      BY <1>a DEF Task
    <3> HIDE DEF b
    <3>3. Fit(b)
      BY <1>a, <1>0, <3>2, TaskFacts, FieldsFit
    <3> QED
      BY <3>1, <3>3 DEF Moves
  <2>2. \/ tasks' = [tasks EXCEPT ![t].try = tasks[t].try + 1]
        \/ Goto(t, "retry") \/ Goto(t, "body") \/ Goto(t, "giveup") \/ Return(t, "CANCELLED")
    BY DEF conflict_retry_wait, TxConflict, TxBodyFails
  <2> QED
    BY <1>a, <1>b, <1>c, <2>1, <2>2, GotoMoves, ReturnMoves
<1>1. /\ rows' \in [Ids -> {"ABSENT", "PENDING", "SUCCESS", "ERROR", "CANCELLED"}]
      /\ out' \in LogType /\ notes' \in Seq(Notification) /\ events' \in [Ids -> Nat]
      /\ streams' \in [Ids -> Seq(StreamEntry)] /\ effects' \in [Ids -> [Slots -> EffectType]]
      /\ hub' \in [listening : BOOLEAN, signals : SUBSET Ids]
  BY <1>d, TableTypes DEF Types, TypeOK
<1>2. UNCHANGED outside
  BY <1>d
<1> QED
  BY <1>1, <1>2, <1>e, <1>f, TaskTypes DEF Moves

LEMMA LostTypes ==
    ASSUME Types, NEW t \in Tasks, TxCommitLost(t)
    PROVE  Types'
<1>1. tasks[t].pc = "body" /\ Goto(t, "retry") /\ out' = Record(t, BodyValue(t)) /\ Fault("lost")
      /\ effects' = Effect(t, 1) /\ UNCHANGED <<outside, rows, notes, events, streams, hub>>
  BY DEF TxCommitLost, Run
<1>2. CurOp(t).op = "tx" /\ tasks[t].pc \notin {"idle", "finish"}
  BY <1>1, TaskFacts DEF PcFits
<1>3. PcFits("retry", CurOp(t).op) /\ "retry" \in Pcs \ {"idle", "finish", "record"}
  BY <1>2 DEF PcFits, Pcs
<1>4. Moves(t)
  BY <1>1, <1>2, <1>3, GotoMoves
<1>5. effects' \in [Ids -> [Slots -> EffectType]] /\ BodyValue(t) \in OutcomeType
  BY <1>1, <1>2, EffectTypes
<1>6. out' \in LogType
  BY <1>1, <1>2, <1>5, RecordLog
<1>7. faults' \in [FaultKinds -> Nat]
  BY <1>1, FaultTypes DEF FaultKinds
<1>8. /\ rows' \in [Ids -> {"ABSENT", "PENDING", "SUCCESS", "ERROR", "CANCELLED"}]
      /\ notes' \in Seq(Notification) /\ events' \in [Ids -> Nat]
      /\ streams' \in [Ids -> Seq(StreamEntry)] /\ hub' \in [listening : BOOLEAN, signals : SUBSET Ids]
  BY <1>1 DEF Types, TypeOK
<1> QED
  BY <1>1, <1>4, <1>5, <1>6, <1>7, <1>8, TaskTypes DEF Moves

LEMMA SpawnFits ==
    ASSUME Types, NEW t \in Tasks, NEW w \in Ids, Spawn(t, w), UNCHANGED sc
    PROVE  tasks' \in [Tasks -> Task] /\ (\A u \in Tasks : Fit(tasks[u]))'
<1>1. Fit(NewTask(w))
  BY NewFits DEF Types
<1> QED
  BY <1>1, OneMoves DEF Spawn

\* The child's execution starts, the parent goes on to link it.
LEMMA SpawnChildIs ==
    ASSUME Types, NEW t \in Tasks, NEW c \in Tasks, spawn_child(t, c)
    PROVE  /\ tasks[t].pc = "spawn" /\ CurOp(t).op = "child"
           /\ tasks[t] \in Task /\ tasks[t].wf \in Ids
           /\ CurOp(t).to \in Ids
           /\ Fit([tasks[t] EXCEPT !.pc = "link"])
           /\ \/ c = t /\ tasks' = [tasks EXCEPT ![t] = [tasks[t] EXCEPT !.pc = "link"]]
              \/ /\ c # t /\ tasks[c].pc = "idle" /\ rows[CurOp(t).to] \in {"ABSENT", "PENDING"}
                 /\ tasks' = [[tasks EXCEPT ![t] = [tasks[t] EXCEPT !.pc = "link"]]
                                EXCEPT ![c] = NewTask(CurOp(t).to)]
           /\ rows' \in [Ids -> {"ABSENT", "PENDING", "SUCCESS", "ERROR", "CANCELLED"}]
           /\ created' \in Seq(Ids)
           /\ UNCHANGED <<sc, version, out, notes, events, streams, effects, recover, hub, reader,
                          posted, now, faults>>
<1>1. tasks[t].pc = "spawn"
  BY DEF spawn_child, Run
<1>2. CurOp(t) \in Operation /\ CurOp(t).to \in Ids /\ CurOp(t).op = "child" /\ tasks[t] \in Task
      /\ tasks[t].wf \in Ids /\ Fit(tasks[t]) /\ Working(tasks[t]) /\ sc \in Scenarios
  BY <1>1, TaskFacts DEF Operation, PcFits
<1>3. PcFits("link", OpOf(tasks[t]).op) /\ "link" \in Pcs \ {"idle", "finish", "record"}
  BY <1>2, CurIsOp DEF PcFits, Pcs
<1>4. Fit([tasks[t] EXCEPT !.pc = "link"])
  BY <1>2, <1>3, GotoFits
<1>5. \/ c = t /\ tasks' = [tasks EXCEPT ![t] = [tasks[t] EXCEPT !.pc = "link"]]
      \/ /\ c # t /\ tasks[c].pc = "idle" /\ rows[CurOp(t).to] \in {"ABSENT", "PENDING"}
         /\ tasks' = [[tasks EXCEPT ![t] = [tasks[t] EXCEPT !.pc = "link"]]
                        EXCEPT ![c] = NewTask(CurOp(t).to)]
  <2>1. CASE IsTerminal(CurOp(t).to)
    <3>1. c = t /\ Goto(t, "link")
      BY <2>1 DEF spawn_child
    <3> QED
      BY <3>1, Forms
  <2>2. CASE ~IsTerminal(CurOp(t).to)
    <3>1. tasks[c].pc = "idle" /\ tasks' = [tasks EXCEPT ![t].pc = "link", ![c] = NewTask(CurOp(t).to)]
      BY <2>2 DEF spawn_child
    <3>2. c # t
      BY <1>1, <3>1
    <3>3. rows[CurOp(t).to] \in {"ABSENT", "PENDING"}
      BY <1>2, <2>2 DEF IsTerminal, Types, TypeOK
    <3> QED
      BY <3>1, <3>2, <3>3 DEF Types, TypeOK
  <2> QED
    BY <2>1, <2>2
<1>6. rows' \in [Ids -> {"ABSENT", "PENDING", "SUCCESS", "ERROR", "CANCELLED"}]
  <2>1. rows' = rows \/ rows' = [rows EXCEPT ![CurOp(t).to] = "PENDING"]
    BY DEF spawn_child
  <2> QED
    BY <1>2, <2>1 DEF Types, TypeOK
<1>7. created' \in Seq(Ids)
  <2>1. created' = created \/ created' = Append(created, CurOp(t).to)
    BY DEF spawn_child
  <2> QED
    <3>1. created \in Seq(Ids)
      BY DEF Types, TypeOK
    <3> QED
      BY <1>2, <2>1, <3>1, AppendProperties
<1>8. UNCHANGED <<sc, version, out, notes, events, streams, effects, recover, hub, reader, posted, now,
                  faults>>
  BY DEF spawn_child
<1> QED
  BY <1>1, <1>2, <1>4, <1>5, <1>6, <1>7, <1>8

LEMMA SpawnChildTypes ==
    ASSUME Types, NEW t \in Tasks, NEW c \in Tasks, spawn_child(t, c)
    PROVE  Types'
<1> DEFINE a == [tasks[t] EXCEPT !.pc = "link"]
           b == NewTask(CurOp(t).to)
<1>1. Fit(a) /\ Fit(b) /\ UNCHANGED sc
  BY SpawnChildIs, NewFits DEF Types
<1>2. \/ tasks' = [tasks EXCEPT ![t] = a]
      \/ tasks' = [[tasks EXCEPT ![t] = a] EXCEPT ![c] = b]
  BY SpawnChildIs
<1>3. a \in Task /\ b \in Task
  BY <1>1 DEF Fit
<1> HIDE DEF a, b
<1>4. tasks' \in [Tasks -> Task] /\ \A u \in Tasks : tasks'[u] \in {tasks[u], a, b}
  <2>1. tasks \in [Tasks -> Task]
    BY DEF Types, TypeOK
  <2>2. CASE tasks' = [tasks EXCEPT ![t] = a]
    BY <1>3, <2>1, <2>2
  <2>3. CASE tasks' = [[tasks EXCEPT ![t] = a] EXCEPT ![c] = b]
    BY <1>3, <2>1, <2>3
  <2> QED
    BY <1>2, <2>2, <2>3
<1>5. \A u \in Tasks : Fit(tasks'[u])
  BY <1>1, <1>4 DEF Types
<1>6. (\A u \in Tasks : Fit(tasks[u]))'
  BY <1>1, <1>5 DEF Fit, Working, CodeOf, OpOf
<1>7. TypeOK'
  <2>1. /\ rows' \in [Ids -> {"ABSENT", "PENDING", "SUCCESS", "ERROR", "CANCELLED"}]
        /\ created' \in Seq(Ids)
        /\ UNCHANGED <<sc, version, out, notes, events, streams, effects, recover, hub, reader,
                       posted, now, faults>>
    BY SpawnChildIs
  <2> QED
    BY <1>4, <2>1 DEF Types, TypeOK
<1> QED
  BY <1>6, <1>7 DEF Types

LEMMA FinishIs ==
    ASSUME Types, NEW t \in Tasks, Finish(t)
    PROVE  /\ tasks[t].pc = "finish" /\ tasks[t].wf \in Ids
           /\ tasks' = [tasks EXCEPT ![t] = IdleTask]
           /\ \/ rows' = rows /\ rows[tasks[t].wf] = "CANCELLED"
              \/ \E status \in {"SUCCESS", "ERROR", "CANCELLED"} :
                    /\ rows' = [rows EXCEPT ![tasks[t].wf] = status]
                    /\ status = "ERROR" => tasks[t].res \in {"ERROR", "UNEXPECTED"}
                    /\ status = "CANCELLED" => tasks[t].res = "CANCELLED"
                    /\ status = "SUCCESS" => tasks[t].res = "SUCCESS"
           /\ recover' \in {recover, [recover EXCEPT !.task = NoTask]}
           /\ recover' \in [todo : SUBSET Ids, task : Tasks \cup {NoTask}]
           /\ UNCHANGED <<sc, version, created, out, notes, events, streams, effects, hub, reader,
                          posted, now, faults>>
<1>1. tasks[t].pc = "finish" /\ tasks' = [tasks EXCEPT ![t] = IdleTask]
      /\ UNCHANGED <<sc, version, created, out, notes, events, streams, effects, hub, reader,
                     posted, now, faults>>
      /\ recover' \in {recover, [recover EXCEPT !.task = NoTask]}
  BY DEF Finish, Run
<1>2. tasks[t].wf \in Ids /\ tasks[t].res \in {"SUCCESS", "ERROR", "CANCELLED", "UNEXPECTED"}
  <2>1. Fit(tasks[t]) /\ tasks[t] \in Task
    BY DEF Types, TypeOK
  <2> QED
    BY <1>1, <2>1 DEF Fit, Task
<1>3. recover' \in [todo : SUBSET Ids, task : Tasks \cup {NoTask}]
  BY <1>1 DEF Types, TypeOK
<1> DEFINE status == IF tasks[t].res = "UNEXPECTED" THEN "ERROR" ELSE tasks[t].res
<1>4. rows' = IF rows[tasks[t].wf] = "CANCELLED" THEN rows ELSE [rows EXCEPT ![tasks[t].wf] = status]
  BY DEF Finish
<1>5. /\ status \in {"SUCCESS", "ERROR", "CANCELLED"}
      /\ status = "ERROR" => tasks[t].res \in {"ERROR", "UNEXPECTED"}
      /\ status = "CANCELLED" => tasks[t].res = "CANCELLED"
      /\ status = "SUCCESS" => tasks[t].res = "SUCCESS"
  BY <1>2
<1> HIDE DEF status
<1> QED
  BY <1>1, <1>2, <1>3, <1>4, <1>5

LEMMA FinishTypes ==
    ASSUME Types, NEW t \in Tasks, Finish(t)
    PROVE  Types'
<1>1. UNCHANGED sc /\ Fit(IdleTask) /\ tasks' = [tasks EXCEPT ![t] = IdleTask]
  BY FinishIs, IdleFits
<1>2. tasks' \in [Tasks -> Task] /\ (\A u \in Tasks : Fit(tasks[u]))'
  BY <1>1, OneMoves
<1>3. rows' \in [Ids -> {"ABSENT", "PENDING", "SUCCESS", "ERROR", "CANCELLED"}]
  BY FinishIs DEF Types, TypeOK
<1>4. /\ recover' \in [todo : SUBSET Ids, task : Tasks \cup {NoTask}]
      /\ UNCHANGED <<sc, version, created, out, notes, events, streams, effects, hub, reader,
                     posted, now, faults>>
  BY FinishIs
<1>5. TypeOK'
  BY <1>2, <1>3, <1>4 DEF Types, TypeOK
<1> QED
  BY <1>2, <1>5 DEF Types

(***************************************************************************)
(* Streams                                                                 *)
(***************************************************************************)
LEMMA Least ==
    ASSUME NEW T, T \subseteq Nat, T # {}
    PROVE  \E x \in T : \A y \in T : x <= y
<1> DEFINE R == {ss \in Nat \X Nat : ss[1] < ss[2]}
<1>1. IsWellFoundedOn(R, Nat)
  BY NatLessThanWellFounded DEF OpToRel
<1>2. \A x, y \in Nat : y < x => <<y, x>> \in R
  OBVIOUS
<1> HIDE DEF R
<1>3. PICK x \in T : \A y \in T : ~ (<<y, x>> \in R)
  BY <1>1, WFMin
<1>4. ASSUME NEW y \in T PROVE x <= y
  <2>1. x \in Nat /\ y \in Nat /\ ~(y < x)
    BY <1>2, <1>3
  <2> QED
    BY <2>1
<1> QED
  BY <1>4

\* Visible is the longest prefix without the sentinel.
LEMMA VisibleIs ==
    ASSUME NEW s \in Seq(StreamEntry)
    PROVE  /\ Visible(s) \in Seq(StreamEntry) /\ Len(Visible(s)) \in 0..Len(s)
           /\ \A i \in 1..Len(Visible(s)) : Visible(s)[i] = s[i] /\ s[i].val # CLOSED
           /\ IsClosed(s) => /\ Len(Visible(s)) + 1 \in 1..Len(s)
                             /\ s[Len(Visible(s)) + 1].val = CLOSED
           /\ ~IsClosed(s) => Visible(s) = s
<1>1. CASE ~IsClosed(s)
  BY <1>1, LenProperties DEF Visible, IsClosed
<1>2. CASE IsClosed(s)
  <2> DEFINE T == {i \in 1..Len(s) : s[i].val = CLOSED}
             First(i) == s[i].val = CLOSED /\ \A j \in 1..(i-1) : s[j].val # CLOSED
             m == CHOOSE i \in DOMAIN s : First(i)
             v == SubSeq(s, 1, m - 1)
  <2>1. Len(s) \in Nat /\ DOMAIN s = 1..Len(s) /\ \A i \in 1..Len(s) : s[i] \in StreamEntry
    BY LenProperties, ElementOfSeq
  <2>2. T \subseteq Nat /\ T # {}
    BY <1>2, <2>1 DEF IsClosed
  <2> HIDE DEF T
  <2>3. PICK x \in T : \A y \in T : x <= y
    BY <2>2, Least
  <2>4. x \in DOMAIN s /\ First(x)
    BY <2>1, <2>3 DEF T
  <2>5. m \in DOMAIN s /\ First(m)
    <3> HIDE DEF First
    <3> QED
      BY <2>4
  <2>6. m \in 1..Len(s) /\ s[m].val = CLOSED /\ \A j \in 1..(m-1) : s[j].val # CLOSED
    BY <2>1, <2>5
  <2>7. Visible(s) = v
    BY <1>2 DEF Visible
  <2> HIDE DEF m, First
  <2>8. m \in Nat /\ m - 1 \in Nat /\ 1 \in Int /\ m - 1 \in Int /\ \A i \in 1..(m-1) : s[i] \in StreamEntry
    BY <2>1, <2>6
  <2>9. /\ v \in Seq(StreamEntry) /\ Len(v) = (IF 1 <= m - 1 THEN m - 1 - 1 + 1 ELSE 0)
        /\ \A i \in 1..(m - 1 - 1 + 1) : v[i] = s[1 + i - 1]
    BY <2>8, SubSeqProperties
  <2> HIDE DEF v
  <2>10. Len(v) = m - 1
    BY <2>8, <2>9
  <2>11. \A i \in 1..(m-1) : v[i] = s[i]
    BY <2>8, <2>9
  <2>12. Len(v) \in 0..Len(s) /\ Len(v) + 1 = m
    BY <2>1, <2>6, <2>8, <2>10
  <2>13. \A i \in 1..Len(v) : v[i] = s[i] /\ s[i].val # CLOSED
    BY <2>6, <2>10, <2>11
  <2> QED
    BY <1>2, <2>6, <2>7, <2>9, <2>12, <2>13
<1> QED
  BY <1>1, <1>2

\* What a read adds to what the reader has.
LEMMA ReadIs ==
    ASSUME NEW s \in Seq(StreamEntry), NEW n \in Nat
    PROVE  /\ read_stream(s, n).values \in Seq(StreamEntry)
           /\ read_stream(s, n).closed = IsClosed(s)
           /\ read_stream(s, n).values = SubSeq(Visible(s), n + 1, Len(Visible(s)))
<1>1. Visible(s) \in Seq(StreamEntry)
  BY VisibleIs
<1> DEFINE v == Visible(s)
<1>2. /\ n + 1 \in Int /\ Len(v) \in Int /\ \A i \in (n+1)..Len(v) : v[i] \in StreamEntry
  BY <1>1, LenProperties, ElementOfSeq
<1> HIDE DEF v
<1>3. SubSeq(v, n + 1, Len(v)) \in Seq(StreamEntry)
  BY <1>2, SubSeqProperties
<1> QED
  BY <1>3 DEF v, read_stream

(***************************************************************************)
(* Types are preserved by everything else                                  *)
(***************************************************************************)
LEMMA StartTypes ==
    ASSUME Types, NEW t \in Tasks, NEW w \in Ids, Start(t, w) \/ Restart(t, w)
    PROVE  Types'
<1>1. Spawn(t, w) /\ UNCHANGED <<sc, version, out, notes, events, streams, effects, recover, hub,
                                 reader, posted, now>>
  BY DEF Start, Restart, tables
<1>2. tasks' \in [Tasks -> Task] /\ (\A u \in Tasks : Fit(tasks[u]))'
  BY <1>1, SpawnFits
<1>3. rows' \in [Ids -> {"ABSENT", "PENDING", "SUCCESS", "ERROR", "CANCELLED"}]
  BY DEF Start, Restart, tables, Types, TypeOK
<1>4. created' \in Seq(Ids)
  <2>1. created \in Seq(Ids)
    BY DEF Types, TypeOK
  <2>2. created' = created \/ created' = Append(created, w)
    BY DEF Start, Restart, tables
  <2> QED
    BY <2>1, <2>2, AppendProperties
<1>5. faults' \in [FaultKinds -> Nat]
  BY FaultTypes DEF Start, Restart, Types, TypeOK, FaultKinds
<1>6. TypeOK'
  BY <1>1, <1>2, <1>3, <1>4, <1>5 DEF Types, TypeOK
<1> QED
  BY <1>2, <1>6 DEF Types

LEMMA RecoverIs ==
    ASSUME Types, NEW t \in Tasks, Recover(t)
    PROVE  /\ recover.task = NoTask
           /\ \E w \in recover.todo : /\ recover' = [todo |-> recover.todo \ {w}, task |-> t]
                                      /\ Spawn(t, w) /\ w \in Ids
           /\ UNCHANGED <<sc, version, tables, hub, reader, posted, now, faults>>
  BY DEF Recover, Types, TypeOK

LEMMA RecoverTypes ==
    ASSUME Types, NEW t \in Tasks, Recover(t)
    PROVE  Types'
<1>1. PICK w \in Ids : recover' = [todo |-> recover.todo \ {w}, task |-> t] /\ Spawn(t, w)
  BY RecoverIs
<1>2. UNCHANGED <<sc, version, rows, created, out, notes, events, streams, effects, hub, reader,
                  posted, now, faults>>
  BY RecoverIs DEF tables
<1>3. tasks' \in [Tasks -> Task] /\ (\A u \in Tasks : Fit(tasks[u]))'
  BY <1>1, <1>2, SpawnFits
<1>4. recover' \in [todo : SUBSET Ids, task : Tasks \cup {NoTask}]
  <2>1. recover.todo \in SUBSET Ids
    BY DEF Types, TypeOK
  <2>2. recover.todo \ {w} \in SUBSET Ids
    BY <2>1
  <2> QED
    BY <1>1, <2>2
<1>5. TypeOK'
  BY <1>2, <1>3, <1>4 DEF Types, TypeOK
<1> QED
  BY <1>3, <1>5 DEF Types

LEMMA CrashIs ==
    ASSUME Types, Crash \/ Deploy
    PROVE  /\ tasks' = [t \in Tasks |-> IdleTask]
           /\ recover' = [todo |-> PendingRows, task |-> NoTask]
           /\ hub' = [listening |-> TRUE, signals |-> {}]
           /\ version' \in DOMAIN sc.code
           /\ faults' \in [FaultKinds -> Nat]
           /\ UNCHANGED <<sc, rows, created, out, notes, events, streams, effects, reader, posted, now>>
<1>1. ProcessDies /\ (Fault("crash") \/ Fault("deploy"))
  BY DEF Crash, Deploy
<1>2. version' \in DOMAIN sc.code
  BY DEF Crash, Deploy, Types, TypeOK
<1>3. faults' \in [FaultKinds -> Nat]
  BY <1>1, FaultTypes DEF FaultKinds
<1> QED
  BY <1>1, <1>2, <1>3 DEF ProcessDies, tables

LEMMA CrashTypes ==
    ASSUME Types, Crash \/ Deploy
    PROVE  Types'
<1>1. tasks' \in [Tasks -> Task] /\ \A u \in Tasks : tasks'[u] = IdleTask
  BY CrashIs, IdleFits
<1>2. (\A u \in Tasks : Fit(tasks[u]))'
  <2>1. ASSUME NEW u \in Tasks PROVE Fit(tasks'[u])
    BY <1>1, IdleFits
  <2>2. UNCHANGED sc
    BY CrashIs
  <2> QED
    BY <2>1, <2>2 DEF Fit, Working, CodeOf, OpOf
<1>3. recover' \in [todo : SUBSET Ids, task : Tasks \cup {NoTask}]
  <2>1. PendingRows \in SUBSET Ids
    BY DEF PendingRows
  <2> QED
    BY <2>1, CrashIs
<1>4. hub' \in [listening : BOOLEAN, signals : SUBSET Ids]
  <2>1. hub' = [listening |-> TRUE, signals |-> {}]
    BY CrashIs
  <2> QED
    BY <2>1
<1>5. /\ version' \in DOMAIN sc.code /\ faults' \in [FaultKinds -> Nat]
      /\ UNCHANGED <<sc, rows, created, out, notes, events, streams, effects, reader, posted, now>>
  BY CrashIs
<1>6. TypeOK'
  BY <1>1, <1>3, <1>4, <1>5 DEF Types, TypeOK
<1> QED
  BY <1>2, <1>6 DEF Types

\* The tasks stay as they are.
LEMMA SameTasks ==
    ASSUME Types, UNCHANGED <<sc, tasks>>, TypeOK'
    PROVE  Types'
  BY DEF Types, Fit, Working, CodeOf, OpOf

LEMMA ClientTypes ==
    ASSUME Types,
           \/ \E w \in Ids : Cancel(w)
           \/ \E p \in sc.posts : Post(p)
           \/ ListenerLost \/ Tick \/ ReadEntries \/ ReadStatus \/ Quiet
    PROVE  Types'
<1>0. TypeOK /\ sc \in Scenarios
  BY DEF Types, TypeOK
<1>1. ASSUME NEW w \in Ids, Cancel(w) PROVE Types'
  <2>1. faults' \in [FaultKinds -> Nat]
    BY <1>1, FaultTypes DEF Cancel, FaultKinds
  <2>2. TypeOK'
    BY <1>0, <1>1, <2>1 DEF Cancel, TypeOK
  <2> QED
    BY <1>1, <2>2, SameTasks DEF Cancel
<1>2. ASSUME NEW p \in sc.posts, Post(p) PROVE Types'
  <2>1. p.to \in Ids /\ p.topic \in Topics /\ p.key \in Keys \cup {NoKey}
    BY <1>0, ScenarioFacts
  <2>2. notes' \in Seq(Notification)
    BY <1>0, <1>2, <2>1, NotesTypes DEF Post, TypeOK
  <2>3. hub' \in [listening : BOOLEAN, signals : SUBSET Ids]
    BY <1>0, <1>2, <2>1, SignalTypes DEF Post, TypeOK
  <2>4. posted' \in [sc.posts -> Nat]
    BY <1>0, <1>2 DEF Post, TypeOK
  <2>5. TypeOK'
    BY <1>0, <1>2, <2>2, <2>3, <2>4 DEF Post, TypeOK
  <2> QED
    BY <1>2, <2>5, SameTasks DEF Post
<1>3. CASE ListenerLost
  <2>1. faults' \in [FaultKinds -> Nat]
    BY <1>3, FaultTypes DEF ListenerLost, FaultKinds
  <2>2. hub' \in [listening : BOOLEAN, signals : SUBSET Ids]
    BY <1>3 DEF ListenerLost
  <2>3. TypeOK'
    BY <1>0, <1>3, <2>1, <2>2 DEF ListenerLost, TypeOK, outside
  <2> QED
    BY <1>3, <2>3, SameTasks DEF ListenerLost, outside
<1>4. CASE Tick
  <2>1. TypeOK'
    BY <1>0, <1>4 DEF Tick, TypeOK, tables
  <2> QED
    BY <1>4, <2>1, SameTasks DEF Tick
<1>5. CASE ReadEntries
  <2> DEFINE r == read_stream(streams[sc.readFrom], Len(reader.values))
             more == sc.reader = "values" /\ r.values # <<>>
             pc == CASE more -> "read"
                     [] ~more /\ (r.closed \/ reader.final) -> "done"
                     [] OTHER -> "status"
             vs == reader.values \o r.values
  <2>1. reader' = [reader EXCEPT !.values = vs, !.pc = pc]
    BY <1>5 DEF ReadEntries
  <2>2. pc \in {"read", "done", "status"}
    OBVIOUS
  <2>3. reader \in [pc : {"off", "read", "status", "done", "error"}, values : Seq(StreamEntry),
                    final : BOOLEAN]
    BY <1>0 DEF TypeOK
  <2>4. streams[sc.readFrom] \in Seq(StreamEntry) /\ reader.values \in Seq(StreamEntry)
    BY <1>0, <2>3, ScenarioFacts DEF TypeOK
  <2>5. r.values \in Seq(StreamEntry)
    BY <2>4, LenProperties, ReadIs
  <2>6. vs \in Seq(StreamEntry)
    BY <2>4, <2>5, ConcatProperties
  <2> HIDE DEF pc, vs
  <2>7. reader' \in [pc : {"off", "read", "status", "done", "error"}, values : Seq(StreamEntry),
                     final : BOOLEAN]
    BY <2>1, <2>2, <2>3, <2>6
  <2>8. TypeOK'
    BY <1>0, <1>5, <2>7 DEF ReadEntries, TypeOK, tables
  <2> QED
    BY <1>5, <2>8, SameTasks DEF ReadEntries
<1>6. CASE ReadStatus
  <2>1. TypeOK'
    BY <1>0, <1>6 DEF ReadStatus, TypeOK, tables
  <2> QED
    BY <1>6, <2>1, SameTasks DEF ReadStatus
<1>7. CASE Quiet
  <2>1. TypeOK'
    BY <1>0, <1>7 DEF Quiet, TypeOK, vars, tables
  <2> QED
    BY <1>7, <2>1, SameTasks DEF Quiet, vars
<1> QED
  BY <1>1, <1>2, <1>3, <1>4, <1>5, <1>6, <1>7

LEMMA ListenerIs ==
    ASSUME Types, ListenerBack \/ \E w \in Ids : Notify(w)
    PROVE  /\ tasks' \in [Tasks -> Task]
           /\ \A t \in Tasks : \/ tasks'[t] = tasks[t]
                               \/ /\ tasks[t].pc = "wait" /\ tasks'[t] = [tasks[t] EXCEPT !.pc = "act"]
                                  /\ Fit(tasks'[t])
           /\ hub' \in [listening : BOOLEAN, signals : SUBSET Ids]
           /\ UNCHANGED <<outside, rows, out, notes, events, streams, effects, faults>>
<1>1. PICK S : Woken(S)
  BY DEF ListenerBack, Notify
<1>2. hub' \in [listening : BOOLEAN, signals : SUBSET Ids]
  <2>1. hub \in [listening : BOOLEAN, signals : SUBSET Ids]
    BY DEF Types, TypeOK
  <2>2. CASE ListenerBack
    <3>1. hub' = [hub EXCEPT !.listening = TRUE]
      BY <2>2 DEF ListenerBack
    <3> QED
      BY <2>1, <3>1
  <2>3. ASSUME NEW w \in Ids, Notify(w)
        PROVE  hub' \in [listening : BOOLEAN, signals : SUBSET Ids]
    <3>1. hub' = [hub EXCEPT !.signals = hub.signals \ {w}]
      BY <2>3 DEF Notify
    <3>2. hub.signals \ {w} \in SUBSET Ids
      BY <2>1
    <3> QED
      BY <2>1, <3>1, <3>2
  <2> QED
    BY <2>2, <2>3
<1>3. UNCHANGED <<outside, rows, out, notes, events, streams, effects, faults>>
  BY DEF ListenerBack, Notify
<1>4. tasks' = [t \in Tasks |-> IF Run(t, "wait") /\ Payload(t) \in S
                                  THEN [tasks[t] EXCEPT !.pc = "act"] ELSE tasks[t]]
  BY <1>1 DEF Woken
<1>5. ASSUME NEW t \in Tasks
      PROVE  \/ tasks'[t] = tasks[t]
             \/ tasks[t].pc = "wait" /\ tasks'[t] = [tasks[t] EXCEPT !.pc = "act"] /\ Fit(tasks'[t])
  <2>1. CASE Run(t, "wait") /\ Payload(t) \in S
    <3>1. tasks[t].pc = "wait" /\ tasks'[t] = [tasks[t] EXCEPT !.pc = "act"]
      BY <1>4, <2>1 DEF Run
    <3>2. PcFits("act", OpOf(tasks[t]).op) /\ "act" \in Pcs \ {"idle", "finish", "record"}
      BY <3>1, TaskFacts DEF PcFits, Pcs, Waiting, Recorded
    <3>3. Fit([tasks[t] EXCEPT !.pc = "act"])
      BY <3>1, <3>2, TaskFacts, GotoFits
    <3> QED
      BY <3>1, <3>3
  <2>2. CASE ~(Run(t, "wait") /\ Payload(t) \in S)
    BY <1>4, <2>2
  <2> QED
    BY <2>1, <2>2
<1>6. \A t \in Tasks : tasks'[t] \in Task
  BY <1>5 DEF Fit, Types, TypeOK
<1>7. tasks' \in [Tasks -> Task]
  BY <1>4, <1>6
<1> QED
  BY <1>2, <1>3, <1>5, <1>7

LEMMA ListenerTypes ==
    ASSUME Types, ListenerBack \/ \E w \in Ids : Notify(w)
    PROVE  Types'
<1>1. \A t \in Tasks : Fit(tasks'[t])
  BY ListenerIs DEF Types
<1>2. (\A t \in Tasks : Fit(tasks[t]))'
  BY <1>1, ListenerIs DEF Fit, Working, CodeOf, OpOf, outside
<1>3. TypeOK'
  BY ListenerIs DEF Types, TypeOK, outside
<1> QED
  BY <1>2, <1>3 DEF Types

LEMMA TypesInit == Init => Types
<1> SUFFICES ASSUME Init PROVE Types
  OBVIOUS
<1>1. sc \in Scenarios /\ 1 \in DOMAIN sc.code /\ sc.faults \in [FaultKinds -> Nat]
  BY ScenarioFacts DEF Init
<1>2. \A t \in Tasks : tasks[t] = IdleTask
  BY DEF Init
<1>3. tasks \in [Tasks -> Task]
  BY IdleFits DEF Init
<1>4. out \in [Ids -> [Slots -> [name : Names, tag : Tags, val : Nat]]]
  BY EntryOutcome DEF Init, EntryType
<1>5. notes \in Seq(Notification) /\ created \in Seq(Ids) /\ streams \in [Ids -> Seq(StreamEntry)]
  BY EmptySeq DEF Init
<1>6. reader \in [pc : {"off", "read", "status", "done", "error"}, values : Seq(StreamEntry),
                  final : BOOLEAN]
  BY EmptySeq DEF Init
<1>7. effects \in [Ids -> [Slots -> EffectType]] /\ events \in [Ids -> Nat]
  BY DEF Init, EffectType
<1>8. recover \in [todo : SUBSET Ids, task : Tasks \cup {NoTask}]
      /\ hub \in [listening : BOOLEAN, signals : SUBSET Ids]
  BY DEF Init, NoRecovery
<1>9. TypeOK
  BY <1>1, <1>3, <1>4, <1>5, <1>6, <1>7, <1>8 DEF Init, TypeOK
<1> QED
  BY <1>2, <1>9, IdleFits DEF Types

\* The steps of Next, one by one.
LEMMA NextIs ==
    ASSUME Next
    PROVE  \/ \E t \in Tasks :
                \/ ReplayHit(t) \/ ReplayMiss(t) \/ Guard(t) \/ ChildLookup(t) \/ PatchLookup(t)
                   \/ deprecate_patch(t) \/ AwaitChild(t)
                \/ Produce(t) \/ GetEvent(t) \/ RecvSelect(t) \/ StreamCheck(t)
                \/ RecordOutcome(t) \/ Expire(t) \/ TxGiveUp(t)
                \/ RecvCommit(t) \/ TxCommit(t) \/ Link(t) \/ PatchMark(t)
                \/ DeadlineKnown(t) \/ FixDeadline(t) \/ Sleep(t) \/ Subscribe(t) \/ WakeUp(t)
                \/ Send(t) \/ SetEvent(t) \/ StreamAppend(t)
                \/ conflict_retry_wait(t) \/ TxConflict(t) \/ TxCommitLost(t) \/ TxBodyFails(t)
                \/ (\E c \in Tasks : spawn_child(t, c)) \/ Finish(t) \/ Recover(t)
           \/ \E t \in Tasks, w \in Ids : Start(t, w) \/ Restart(t, w)
           \/ Crash \/ Deploy
           \/ \E w \in Ids : Cancel(w)
           \/ \E p \in sc.posts : Post(p)
           \/ ListenerLost \/ Tick \/ ReadEntries \/ ReadStatus \/ Quiet
           \/ ListenerBack \/ (\E w \in Ids : Notify(w))
  BY Zenon DEF Next, TaskStep, Environment, Listener, ReaderStep

LEMMA TypesNext == Types /\ [Next]_vars => Types'
<1> SUFFICES ASSUME Types, [Next]_vars PROVE Types'
  OBVIOUS
<1>1. CASE UNCHANGED vars
  <2>1. UNCHANGED <<sc, tasks>> /\ TypeOK'
    BY <1>1 DEF vars, tables, Types, TypeOK
  <2> QED
    BY <2>1, SameTasks
<1>2. CASE Next
  BY <1>2, NextIs, LookupTypes, ActTypes, CheckpointTypes, CommitTypes, WaitTypes, OutputTypes,
     RetryTypes, LostTypes, SpawnChildTypes, FinishTypes, RecoverTypes, StartTypes, CrashTypes, ClientTypes,
     ListenerTypes, Zenon
<1> QED
  BY <1>1, <1>2

\* Every variable has its type, and every execution is at an operation its function has, at a
\* position the log has: no replay, upgrade or patch makes a function run out of its log.
THEOREM TypeCorrect == Spec => []Types
<1> QED
  BY TypesInit, TypesNext, PTL DEF Spec

(***************************************************************************)
(* What a step does to the task that takes it                              *)
(***************************************************************************)
Others(t) == \A u \in Tasks \ {t} : tasks'[u] = tasks[u]

\* The task stays at its operation and goes to a statement in P.
Hop(t, P) ==
    /\ Others(t)
    /\ tasks'[t].pc \in P
    /\ tasks'[t].wf = tasks[t].wf /\ tasks'[t].version = tasks[t].version
    /\ tasks'[t].ip = tasks[t].ip /\ tasks'[t].seq = tasks[t].seq
    /\ tasks'[t].seen = tasks[t].seen

\* The operation gave o (n # 0) or nothing (n = 0); the function is at ip, or at its end.
Went(t, o, n, ip) ==
    /\ Others(t)
    /\ ip = 0 => tasks'[t].pc = "finish" /\ tasks'[t].res = "SUCCESS"
    /\ ip # 0 => tasks'[t].pc = "replay"
    /\ tasks'[t].wf = tasks[t].wf /\ tasks'[t].version = tasks[t].version
    /\ tasks'[t].ip = ip /\ tasks'[t].seq = tasks[t].seq + n
    /\ \A k \in Slots : /\ n # 0 /\ k = tasks[t].seq => tasks'[t].seen[k] = o
                        /\ ~(n # 0 /\ k = tasks[t].seq) => tasks'[t].seen[k] = tasks[t].seen[k]

LEMMA HopGoto ==
    ASSUME Types, NEW t \in Tasks, NEW pc, Goto(t, pc)
    PROVE  /\ Hop(t, {pc}) /\ tasks'[t].pc = pc /\ tasks'[t].pick = tasks[t].pick
           /\ tasks'[t].got = tasks[t].got /\ tasks'[t].res = tasks[t].res
           /\ tasks'[t].deadline = tasks[t].deadline
<1>1. tasks \in [Tasks -> Task] /\ tasks[t] \in Task /\ tasks' = [tasks EXCEPT ![t] = [tasks[t] EXCEPT !.pc = pc]]
  BY Forms DEF Types, TypeOK
<1>2. tasks'[t] = [tasks[t] EXCEPT !.pc = pc] /\ Others(t)
  BY <1>1 DEF Others
<1> QED
  BY <1>1, <1>2 DEF Hop, Task

LEMMA HopReturn ==
    ASSUME Types, NEW t \in Tasks, NEW res, Return(t, res)
    PROVE  Hop(t, {"finish"}) /\ tasks'[t].pc = "finish" /\ tasks'[t].res = res
<1>1. tasks \in [Tasks -> Task] /\ tasks[t] \in Task
      /\ tasks' = [tasks EXCEPT ![t] = [tasks[t] EXCEPT !.pc = "finish", !.res = res]]
  BY Forms DEF Types, TypeOK
<1>2. tasks'[t] = [tasks[t] EXCEPT !.pc = "finish", !.res = res] /\ Others(t)
  BY <1>1 DEF Others
<1> QED
  BY <1>1, <1>2 DEF Hop, Task

LEMMA HopRecord ==
    ASSUME Types, NEW t \in Tasks, NEW o, tasks' = [tasks EXCEPT ![t].pc = "record", ![t].got = o]
    PROVE  Hop(t, {"record"}) /\ tasks'[t].pc = "record" /\ tasks'[t].got = o
<1>1. tasks \in [Tasks -> Task] /\ tasks[t] \in Task
  BY DEF Types, TypeOK
<1>2. tasks'[t] = [tasks[t] EXCEPT !.pc = "record", !.got = o] /\ Others(t)
  BY <1>1 DEF Others
<1> QED
  BY <1>1, <1>2 DEF Hop, Task

LEMMA HopPick ==
    ASSUME Types, NEW t \in Tasks, NEW pc, NEW i, tasks' = [tasks EXCEPT ![t].pc = pc, ![t].pick = i]
    PROVE  Hop(t, {pc}) /\ tasks'[t].pc = pc /\ tasks'[t].pick = i
<1>1. tasks \in [Tasks -> Task] /\ tasks[t] \in Task
  BY DEF Types, TypeOK
<1>2. tasks'[t] = [tasks[t] EXCEPT !.pc = pc, !.pick = i] /\ Others(t)
  BY <1>1 DEF Others
<1> QED
  BY <1>1, <1>2 DEF Hop, Task

LEMMA HopSleep ==
    ASSUME Types, NEW t \in Tasks, NEW o, tasks' = [tasks EXCEPT ![t].pc = "sleeping", ![t].deadline = o]
    PROVE  Hop(t, {"sleeping"}) /\ tasks'[t].pc = "sleeping" /\ tasks'[t].deadline = o
<1>1. tasks \in [Tasks -> Task] /\ tasks[t] \in Task
  BY DEF Types, TypeOK
<1>2. tasks'[t] = [tasks[t] EXCEPT !.pc = "sleeping", !.deadline = o] /\ Others(t)
  BY <1>1 DEF Others
<1> QED
  BY <1>1, <1>2 DEF Hop, Task

LEMMA HopClock ==
    ASSUME Types, NEW t \in Tasks, NEW o, CheckClock(t, o)
    PROVE  Hop(t, {"expire", "subscribe"})
<1> DEFINE pc == IF now >= o.val THEN "expire" ELSE "subscribe"
<1>1. tasks \in [Tasks -> Task] /\ tasks[t] \in Task
  BY DEF Types, TypeOK
<1>2. tasks'[t] = [tasks[t] EXCEPT !.pc = pc, !.deadline = o] /\ Others(t)
  BY <1>1 DEF Others, CheckClock
<1>3. pc \in {"expire", "subscribe"}
  OBVIOUS
<1> HIDE DEF pc
<1> QED
  BY <1>1, <1>2, <1>3 DEF Hop, Task

\* A hop into a set is a hop into a larger one.
LEMMA HopWider ==
    ASSUME NEW t, NEW P, NEW Q, P \subseteq Q, Hop(t, P)
    PROVE  Hop(t, Q)
  BY DEF Hop

LEMMA HopMiss ==
    ASSUME Types, NEW t \in Tasks, Miss(t)
    PROVE  Hop(t, {"deadline", "expire", "subscribe"})
<1>1. CASE Goto(t, "deadline")
  <2>1. Hop(t, {"deadline"})
    BY <1>1, HopGoto
  <2> QED
    BY <2>1, HopWider
<1>2. CASE CheckClock(t, tasks[t].deadline)
  BY <1>2, HopClock, HopWider
<1> QED
  BY <1>1, <1>2 DEF Miss

LEMMA WentAt ==
    ASSUME Types, NEW t \in Tasks, tasks[t].pc \notin {"idle", "finish"}, NEW o \in OutcomeType,
           NEW n \in Nat, NEW ip \in Nat, ContinueAt(t, o, n, ip)
    PROVE  Went(t, o, n, ip)
<1> DEFINE b == Continued(tasks[t], o, n, ip)
<1>1. tasks \in [Tasks -> Task] /\ tasks[t] \in Task
  BY DEF Types, TypeOK
<1>2. tasks'[t] = b /\ Others(t)
  BY <1>1 DEF Others, ContinueAt
<1> HIDE DEF b
<1>3. b = Continued(tasks[t], o, n, ip)
  BY DEF b
<1>4. b.wf = tasks[t].wf /\ b.version = tasks[t].version /\ b.ip = ip /\ b.seq = tasks[t].seq + n
  BY <1>1, <1>3, ContinuedIs
<1>5. /\ ip = 0 => b.pc = "finish" /\ b.res = "SUCCESS"
      /\ ip # 0 => b.pc = "replay"
  BY <1>1, <1>3, ContinuedIs
<1>6. \A k \in Slots : /\ n # 0 /\ k = tasks[t].seq => b.seen[k] = o
                       /\ ~(n # 0 /\ k = tasks[t].seq) => b.seen[k] = tasks[t].seen[k]
  BY <1>1, <1>3, ContinuedIs
<1> QED
  BY <1>2, <1>4, <1>5, <1>6 DEF Went

LEMMA WentNext ==
    ASSUME Types, NEW t \in Tasks, tasks[t].pc \notin {"idle", "finish"}, NEW o \in OutcomeType,
           Continue(t, o)
    PROVE  Went(t, o, SlotsOf(CurOp(t)), CurOp(t).next)
<1>1. SlotsOf(CurOp(t)) \in Nat /\ CurOp(t).next \in Nat
  BY TaskFacts DEF SlotsOf, Operation
<1> QED
  BY <1>1, WentAt DEF Continue

(***************************************************************************)
(* The steps of a task, in these terms                                     *)
(***************************************************************************)
\* Nothing a later execution could find has changed.
Still == UNCHANGED <<outside, rows, out, notes, streams, effects>>

LEMMA ReplayHitIs ==
    ASSUME Types, NEW t \in Tasks, ReplayHit(t)
    PROVE  /\ tasks[t].pc = "replay" /\ CurOp(t).op \notin HasOwnLookup /\ Still /\ UNCHANGED faults
           /\ IsRecorded(At(t)) /\ At(t).tag # "marker"
           /\ \/ /\ Hop(t, {"finish"})
                 /\ At(t).name # CurOp(t).name \/ At(t).tag = "fail"
              \/ /\ Hop(t, {"sleeping"}) /\ tasks'[t].deadline = OutcomeOf(At(t))
                 /\ CurOp(t).op = "sleep"
              \/ Went(t, OutcomeOf(At(t)), SlotsOf(CurOp(t)), CurOp(t).next)
<1>1. tasks[t].pc = "replay" /\ CurOp(t).op \notin HasOwnLookup /\ Still /\ UNCHANGED faults
  BY DEF ReplayHit, Run, Still
<1>2. IsRecorded(At(t)) /\ At(t).tag # "marker"
  BY DEF ReplayHit, Stored
<1>3. OutcomeOf(At(t)) \in OutcomeType
  BY <1>1, TaskFacts, EntryOutcome
<1>4. CASE At(t).name # CurOp(t).name
  <2>1. Return(t, "UNEXPECTED")
    BY <1>4 DEF ReplayHit
  <2> QED
    BY <1>1, <1>2, <1>4, <2>1, HopReturn
<1>5. CASE At(t).name = CurOp(t).name
  <2>1. \/ Return(t, "ERROR") /\ At(t).tag = "fail"
        \/ /\ CurOp(t).op = "sleep"
           /\ tasks' = [tasks EXCEPT ![t].pc = "sleeping", ![t].deadline = OutcomeOf(At(t))]
        \/ Continue(t, OutcomeOf(At(t)))
    BY <1>5 DEF ReplayHit
  <2>2. CASE Return(t, "ERROR") /\ At(t).tag = "fail"
    BY <1>1, <1>2, <2>2, HopReturn
  <2>3. CASE /\ CurOp(t).op = "sleep"
             /\ tasks' = [tasks EXCEPT ![t].pc = "sleeping", ![t].deadline = OutcomeOf(At(t))]
    BY <1>1, <1>2, <2>3, HopSleep
  <2>4. CASE Continue(t, OutcomeOf(At(t)))
    BY <1>1, <1>2, <1>3, <2>4, WentNext
  <2> QED
    BY <2>1, <2>2, <2>3, <2>4
<1> QED
  BY <1>4, <1>5

LEMMA ReplayMissIs ==
    ASSUME Types, NEW t \in Tasks, ReplayMiss(t)
    PROVE  /\ tasks[t].pc = "replay" /\ CurOp(t).op \notin HasOwnLookup /\ Still /\ UNCHANGED faults
           /\ ~IsRecorded(At(t)) \/ At(t).tag = "marker"
           /\ Hop(t, {"fix", "body", "act", "guard"})
<1> DEFINE pc == CASE CurOp(t).op = "sleep" -> "fix"
                   [] CurOp(t).op = "tx" -> "body"
                   [] CurOp(t).op = "value" -> "act"
                   [] OTHER -> "guard"
<1>1. Goto(t, pc) /\ pc \in {"fix", "body", "act", "guard"}
  BY DEF ReplayMiss
<1> HIDE DEF pc
<1>2. Hop(t, {pc})
  BY <1>1, HopGoto
<1>3. Hop(t, {"fix", "body", "act", "guard"})
  BY <1>1, <1>2 DEF Hop
<1> QED
  BY <1>3 DEF ReplayMiss, Run, Stored, Still

\* Steps that only move their task from one statement to the next.
LEMMA PlainHops ==
    ASSUME Types, NEW t \in Tasks
    PROVE  /\ Guard(t) => tasks[t].pc = "guard" /\ Hop(t, {"finish", "act"}) /\ Still /\ UNCHANGED faults
                          /\ (tasks'[t].pc = "finish" => tasks'[t].res = "CANCELLED")
           /\ Produce(t) => tasks[t].pc = "act" /\ Hop(t, {"record"}) /\ Still /\ UNCHANGED faults
                            /\ CurOp(t).op \in {"select", "value"}
           /\ Subscribe(t) => tasks[t].pc = "subscribe" /\ Hop(t, {"wait"}) /\ Still /\ UNCHANGED faults
           /\ WakeUp(t) => tasks[t].pc = "wait" /\ Hop(t, {"act"}) /\ Still /\ UNCHANGED faults
           /\ SetEvent(t) => tasks[t].pc = "act" /\ Hop(t, {"record"}) /\ Still /\ UNCHANGED faults
                             /\ CurOp(t).op = "setEvent"
<1>1. ASSUME Guard(t)
      PROVE  tasks[t].pc = "guard" /\ Hop(t, {"finish", "act"}) /\ Still /\ UNCHANGED faults
             /\ (tasks'[t].pc = "finish" => tasks'[t].res = "CANCELLED")
  <2>1. Return(t, "CANCELLED") \/ Goto(t, "act")
    BY <1>1 DEF Guard
  <2>2. /\ Return(t, "CANCELLED") => Hop(t, {"finish"}) /\ tasks'[t].res = "CANCELLED"
        /\ Goto(t, "act") => Hop(t, {"act"}) /\ tasks'[t].pc = "act"
    BY HopReturn, HopGoto
  <2> QED
    BY <1>1, <2>1, <2>2 DEF Guard, Run, Still, Hop
<1>2. ASSUME Produce(t)
      PROVE  tasks[t].pc = "act" /\ Hop(t, {"record"}) /\ Still /\ UNCHANGED faults
             /\ CurOp(t).op \in {"select", "value"}
  <2>1. PICK v \in 1..2 : tasks' = [tasks EXCEPT ![t].pc = "record", ![t].got = Outcome("val", v)]
    BY <1>2 DEF Produce
  <2> QED
    BY <1>2, <2>1, HopRecord DEF Produce, Run, Still
<1>3. ASSUME Subscribe(t)
      PROVE  tasks[t].pc = "subscribe" /\ Hop(t, {"wait"}) /\ Still /\ UNCHANGED faults
  <2> DEFINE until == IF tasks[t].deadline.val < now + Backstop THEN tasks[t].deadline.val
                                                                ELSE now + Backstop
  <2>1. tasks \in [Tasks -> Task] /\ tasks[t] \in Task
    BY DEF Types, TypeOK
  <2>2. tasks' = [tasks EXCEPT ![t].pc = "wait", ![t].until = until]
    BY <1>3 DEF Subscribe
  <2> HIDE DEF until
  <2>3. tasks'[t] = [tasks[t] EXCEPT !.pc = "wait", !.until = until] /\ Others(t)
    BY <2>1, <2>2 DEF Others
  <2>4. Hop(t, {"wait"})
    BY <2>1, <2>3 DEF Hop, Task
  <2> QED
    BY <1>3, <2>4 DEF Subscribe, Run, Still
<1>4. ASSUME WakeUp(t)
      PROVE  tasks[t].pc = "wait" /\ Hop(t, {"act"}) /\ Still /\ UNCHANGED faults
  BY <1>4, HopGoto DEF WakeUp, Run, Still
<1>5. ASSUME SetEvent(t)
      PROVE  tasks[t].pc = "act" /\ Hop(t, {"record"}) /\ Still /\ UNCHANGED faults
             /\ CurOp(t).op = "setEvent"
  BY <1>5, HopRecord DEF SetEvent, Run, Still
<1> QED
  BY <1>1, <1>2, <1>3, <1>4, <1>5

LEMMA TxHops ==
    ASSUME Types, NEW t \in Tasks
    PROVE  /\ conflict_retry_wait(t) => tasks[t].pc = "retry" /\ Hop(t, {"finish", "body"}) /\ Still
                                        /\ UNCHANGED faults
                                        /\ (tasks'[t].pc = "finish" => tasks'[t].res = "CANCELLED")
           /\ TxConflict(t) => tasks[t].pc = "body" /\ Hop(t, {"retry"}) /\ Still /\ Fault("conflict")
           /\ TxBodyFails(t) => tasks[t].pc = "body" /\ Hop(t, {"body", "giveup"}) /\ Still
                                /\ Fault("body")
<1>1. ASSUME conflict_retry_wait(t)
      PROVE  tasks[t].pc = "retry" /\ Hop(t, {"finish", "body"}) /\ Still /\ UNCHANGED faults
             /\ (tasks'[t].pc = "finish" => tasks'[t].res = "CANCELLED")
  <2>1. Return(t, "CANCELLED") \/ Goto(t, "body")
    BY <1>1 DEF conflict_retry_wait
  <2>2. /\ Return(t, "CANCELLED") => Hop(t, {"finish"}) /\ tasks'[t].res = "CANCELLED"
        /\ Goto(t, "body") => Hop(t, {"body"}) /\ tasks'[t].pc = "body"
    BY HopReturn, HopGoto
  <2> QED
    BY <1>1, <2>1, <2>2 DEF conflict_retry_wait, Run, Still, Hop
<1>2. ASSUME TxConflict(t)
      PROVE  tasks[t].pc = "body" /\ Hop(t, {"retry"}) /\ Still /\ Fault("conflict")
  BY <1>2, HopGoto DEF TxConflict, Run, Still
<1>3. ASSUME TxBodyFails(t)
      PROVE  tasks[t].pc = "body" /\ Hop(t, {"body", "giveup"}) /\ Still /\ Fault("body")
  <2>1. tasks' = [tasks EXCEPT ![t].try = tasks[t].try + 1] \/ Goto(t, "giveup")
    BY <1>3 DEF TxBodyFails
  <2>2. tasks \in [Tasks -> Task] /\ tasks[t] \in Task /\ tasks[t].pc = "body"
    BY <1>3 DEF Types, TypeOK, TxBodyFails, Run
  <2>3. CASE tasks' = [tasks EXCEPT ![t].try = tasks[t].try + 1]
    <3>1. tasks'[t] = [tasks[t] EXCEPT !.try = tasks[t].try + 1] /\ Others(t)
      BY <2>2, <2>3 DEF Others
    <3>2. Hop(t, {"body", "giveup"})
      BY <2>2, <3>1 DEF Hop, Task
    <3> QED
      BY <1>3, <2>2, <3>2 DEF TxBodyFails, Still
  <2>4. CASE Goto(t, "giveup")
    <3>1. Hop(t, {"giveup"})
      BY <2>4, HopGoto
    <3>2. Hop(t, {"body", "giveup"})
      BY <3>1 DEF Hop
    <3> QED
      BY <1>3, <2>2, <3>2 DEF TxBodyFails, Still
  <2> QED
    BY <2>1, <2>3, <2>4
<1> QED
  BY <1>1, <1>2, <1>3

\* A checkpoint: the log changes at the task's position, the other tables stay.
LogOnly == UNCHANGED <<outside, rows, notes, streams, effects, faults>>

LEMMA RecordOutcomeIs ==
    ASSUME Types, NEW t \in Tasks, RecordOutcome(t)
    PROVE  /\ tasks[t].pc = "record" /\ CurOp(t).op \in Recorded
           /\ tasks[t].got \in OutcomeType /\ tasks[t].got.tag \in {"val", "null"}
           /\ LogOnly /\ out' \in LogType
           /\ Wrote(tasks[t].wf, tasks[t].seq, Entry(CurOp(t).name, tasks[t].got))
           /\ \/ /\ Hop(t, {"finish"})
                 /\ CurOp(t).op = "getEvent" /\ OutcomeOf(out'[tasks[t].wf][tasks[t].seq]) = Null
              \/ Went(t, OutcomeOf(out'[tasks[t].wf][tasks[t].seq]), SlotsOf(CurOp(t)), CurOp(t).next)
<1>1. tasks[t].pc = "record" /\ LogOnly /\ out' = Record(t, tasks[t].got)
  BY DEF RecordOutcome, Run, LogOnly
<1>2. CurOp(t).op \in Recorded /\ tasks[t].wf \in Ids /\ tasks[t].seq \in Slots
      /\ tasks[t].got \in OutcomeType /\ tasks[t].got.tag \in {"val", "null"}
  <2>1. Fit(tasks[t]) /\ PcFits(tasks[t].pc, CurOp(t).op) /\ tasks[t].wf \in Ids /\ tasks[t].seq \in Slots
    BY <1>1, TaskFacts
  <2> QED
    BY <1>1, <2>1 DEF PcFits, Fit, Task
<1>3. out' \in LogType /\ Wrote(tasks[t].wf, tasks[t].seq, Entry(CurOp(t).name, tasks[t].got))
  BY <1>1, <1>2, RecordLog
<1> DEFINE o == OutcomeOf(out'[tasks[t].wf][tasks[t].seq])
<1>4. o \in OutcomeType
  BY <1>2, <1>3, EntryOutcome DEF LogType
<1>5. (Return(t, "ERROR") /\ CurOp(t).op = "getEvent" /\ o = Null) \/ Continue(t, o)
  BY DEF RecordOutcome
<1>6. ASSUME Return(t, "ERROR") PROVE Hop(t, {"finish"})
  BY <1>6, HopReturn
<1> HIDE DEF o
<1>7. ASSUME Continue(t, o) PROVE Went(t, o, SlotsOf(CurOp(t)), CurOp(t).next)
  BY <1>1, <1>4, <1>7, WentNext
<1> QED
  BY <1>1, <1>2, <1>3, <1>5, <1>6, <1>7 DEF o

LEMMA ExpireIs ==
    ASSUME Types, NEW t \in Tasks, Expire(t)
    PROVE  /\ tasks[t].pc = "expire" /\ CurOp(t).op \in Waiting
           /\ LogOnly /\ out' \in LogType
           /\ Wrote(tasks[t].wf, tasks[t].seq, Entry(CurOp(t).name, Null))
           /\ Went(t, Null, SlotsOf(CurOp(t)), CurOp(t).next)
<1>1. tasks[t].pc = "expire" /\ LogOnly /\ out' = Record(t, Null) /\ Continue(t, Null)
  BY DEF Expire, Run, LogOnly
<1>2. CurOp(t).op \in Waiting
  BY <1>1, TaskFacts DEF PcFits
<1> QED
  BY <1>1, <1>2, OutcomeTypes, RecordLog, WentNext

\* The failure is recorded, and is what the function sees; then the handler returns the error.
LEMMA TxGiveUpIs ==
    ASSUME Types, NEW t \in Tasks, TxGiveUp(t)
    PROVE  /\ tasks[t].pc = "giveup" /\ CurOp(t).op = "tx"
           /\ LogOnly /\ out' \in LogType
           /\ Wrote(tasks[t].wf, tasks[t].seq, Entry(CurOp(t).name, Failed))
           /\ Others(t) /\ tasks'[t].pc = "finish" /\ tasks'[t].wf = tasks[t].wf
           /\ tasks'[t].version = tasks[t].version
           /\ \A k \in Slots : /\ k = tasks[t].seq => tasks'[t].seen[k] = Failed
                               /\ k # tasks[t].seq => tasks'[t].seen[k] = tasks[t].seen[k]
<1>1. tasks[t].pc = "giveup" /\ LogOnly /\ out' = Record(t, Failed)
  BY DEF TxGiveUp, Run, LogOnly
<1>2. CurOp(t).op = "tx" /\ tasks[t].seq \in Slots /\ tasks[t] \in Task /\ tasks \in [Tasks -> Task]
  BY <1>1, TaskFacts DEF PcFits, Types, TypeOK
<1> DEFINE saw == [tasks[t].seen EXCEPT ![tasks[t].seq] = Failed]
<1>3. tasks'[t] = [tasks[t] EXCEPT !.pc = "finish", !.res = "ERROR", !.seen = saw] /\ Others(t)
  BY <1>2 DEF TxGiveUp, Others
<1>4. tasks[t].seen \in [Slots -> OutcomeType]
  BY <1>2 DEF Task
<1>5. \A k \in Slots : /\ k = tasks[t].seq => saw[k] = Failed
                       /\ k # tasks[t].seq => saw[k] = tasks[t].seen[k]
  BY <1>2, <1>4
<1> HIDE DEF saw
<1>6. tasks'[t].seen = saw /\ tasks'[t].pc = "finish" /\ tasks'[t].wf = tasks[t].wf
      /\ tasks'[t].version = tasks[t].version
  BY <1>2, <1>3 DEF Task
<1> QED
  BY <1>1, <1>2, <1>3, <1>5, <1>6, OutcomeTypes, RecordLog

LEMMA RecvCommitIs ==
    ASSUME Types, NEW t \in Tasks, RecvCommit(t)
    PROVE  /\ tasks[t].pc = "claim" /\ CurOp(t).op = "recv"
           /\ UNCHANGED <<outside, rows, streams, effects, faults>> /\ out' \in LogType
           /\ notes' = MarkConsumed(notes, tasks[t].pick)
           /\ Wrote(tasks[t].wf, tasks[t].seq, Entry(CurOp(t).name, Outcome("msg", tasks[t].pick)))
           /\ Outcome("msg", tasks[t].pick) \in OutcomeType
           /\ Went(t, Outcome("msg", tasks[t].pick), SlotsOf(CurOp(t)), CurOp(t).next)
<1> DEFINE o == Outcome("msg", tasks[t].pick)
<1>1. tasks[t].pc = "claim" /\ out' = Record(t, o) /\ Continue(t, o)
      /\ UNCHANGED <<outside, rows, streams, effects, faults>> /\ notes' = MarkConsumed(notes, tasks[t].pick)
  BY DEF RecvCommit, Run
<1>2. CurOp(t).op = "recv" /\ tasks[t] \in Task
  BY <1>1, TaskFacts DEF PcFits
<1>3. o \in OutcomeType
  BY <1>2, OutcomeTypes DEF Tags, Task
<1> HIDE DEF o
<1>4. Went(t, o, SlotsOf(CurOp(t)), CurOp(t).next)
  BY <1>1, <1>3, WentNext
<1>5. out' \in LogType /\ Wrote(tasks[t].wf, tasks[t].seq, Entry(CurOp(t).name, o))
  BY <1>1, <1>3, RecordLog
<1> QED
  BY <1>1, <1>2, <1>3, <1>4, <1>5 DEF o

LEMMA TxCommitIs ==
    ASSUME Types, NEW t \in Tasks, TxCommit(t)
    PROVE  /\ tasks[t].pc = "body" /\ CurOp(t).op = "tx"
           /\ UNCHANGED <<outside, rows, notes, streams, faults>> /\ out' \in LogType
           /\ Counted(tasks[t].wf, tasks[t].seq, 0)
           /\ \E o \in OutcomeType : /\ o.tag = "val"
                                     /\ Wrote(tasks[t].wf, tasks[t].seq, Entry(CurOp(t).name, o))
                                     /\ Went(t, o, SlotsOf(CurOp(t)), CurOp(t).next)
<1> DEFINE o == BodyValue(t)
<1>1. tasks[t].pc = "body" /\ out' = Record(t, o) /\ Continue(t, o)
      /\ UNCHANGED <<outside, rows, notes, streams, faults>> /\ effects' = Effect(t, 0)
  BY DEF TxCommit, Run
<1>2. CurOp(t).op = "tx" /\ tasks[t].wf \in Ids /\ tasks[t].seq \in Slots
  BY <1>1, TaskFacts DEF PcFits
<1>3. Counted(tasks[t].wf, tasks[t].seq, 0) /\ o \in OutcomeType /\ o.tag = "val"
  BY <1>1, EffectTypes
<1> HIDE DEF o
<1>5. Went(t, o, SlotsOf(CurOp(t)), CurOp(t).next)
  BY <1>1, <1>3, WentNext
<1>6. out' \in LogType /\ Wrote(tasks[t].wf, tasks[t].seq, Entry(CurOp(t).name, o))
  BY <1>1, <1>3, RecordLog
<1> QED
  BY <1>1, <1>2, <1>3, <1>5, <1>6

LEMMA TxCommitLostIs ==
    ASSUME Types, NEW t \in Tasks, TxCommitLost(t)
    PROVE  /\ tasks[t].pc = "body" /\ CurOp(t).op = "tx" /\ Hop(t, {"retry"}) /\ Fault("lost")
           /\ UNCHANGED <<outside, rows, notes, streams>> /\ out' \in LogType
           /\ Counted(tasks[t].wf, tasks[t].seq, 1)
           /\ \E o \in OutcomeType : o.tag = "val" /\ Wrote(tasks[t].wf, tasks[t].seq, Entry(CurOp(t).name, o))
<1> DEFINE o == BodyValue(t)
<1>1. tasks[t].pc = "body" /\ out' = Record(t, o) /\ Goto(t, "retry") /\ Fault("lost")
      /\ UNCHANGED <<outside, rows, notes, streams>> /\ effects' = Effect(t, 1)
  BY DEF TxCommitLost, Run
<1>2. CurOp(t).op = "tx" /\ tasks[t].wf \in Ids /\ tasks[t].seq \in Slots
  BY <1>1, TaskFacts DEF PcFits
<1>3. Counted(tasks[t].wf, tasks[t].seq, 1) /\ o \in OutcomeType /\ o.tag = "val"
  BY <1>1, EffectTypes
<1> HIDE DEF o
<1>5. Hop(t, {"retry"})
  BY <1>1, HopGoto
<1>6. out' \in LogType /\ Wrote(tasks[t].wf, tasks[t].seq, Entry(CurOp(t).name, o))
  BY <1>1, <1>3, RecordLog
<1> QED
  BY <1>1, <1>2, <1>3, <1>5, <1>6

LEMMA LinkIs ==
    ASSUME Types, NEW t \in Tasks, Link(t)
    PROVE  /\ tasks[t].pc = "link" /\ CurOp(t).op = "child"
           /\ LogOnly /\ out' \in LogType
           /\ Wrote(tasks[t].wf, tasks[t].seq, Entry(CurOp(t).name, Outcome("child", 0)))
           /\ Went(t, Outcome("child", 0), SlotsOf(CurOp(t)), CurOp(t).next)
<1>1. tasks[t].pc = "link" /\ LogOnly /\ Continue(t, Outcome("child", 0))
  BY DEF Link, Run, LogOnly
<1>2. CurOp(t).op = "child"
  BY <1>1, TaskFacts DEF PcFits
<1>3. Outcome("child", 0) \in OutcomeType
  BY OutcomeTypes DEF Tags
<1> QED
  BY <1>1, <1>2, <1>3, LinkLog, WentNext

LEMMA PatchMarkIs ==
    ASSUME Types, NEW t \in Tasks, PatchMark(t)
    PROVE  /\ tasks[t].pc = "mark" /\ CurOp(t).op = "patch"
           /\ LogOnly /\ out' \in LogType
           /\ Wrote(tasks[t].wf, tasks[t].seq, Entry(CurOp(t).name, Marker))
           /\ Went(t, Marker, 1, CurOp(t).next)
<1>1. tasks[t].pc = "mark" /\ LogOnly /\ ContinueAt(t, Marker, 1, CurOp(t).next)
  BY DEF PatchMark, Run, LogOnly
<1>2. CurOp(t).op = "patch" /\ CurOp(t).next \in Nat
  BY <1>1, TaskFacts DEF PcFits, Operation
<1>3. Went(t, Marker, 1, CurOp(t).next)
  BY <1>1, <1>2, OutcomeTypes, WentAt
<1> QED
  BY <1>1, <1>2, <1>3, LinkLog

LEMMA FixDeadlineIs ==
    ASSUME Types, NEW t \in Tasks, FixDeadline(t)
    PROVE  /\ tasks[t].pc = "fix" /\ CurOp(t).op \in Waiting \cup {"sleep"}
           /\ LogOnly /\ out' \in LogType /\ DeadlineSlot(t) \in Slots
           /\ Outcome("time", now + CurOp(t).wait) \in OutcomeType
           /\ Wrote(tasks[t].wf, DeadlineSlot(t), Entry("sleep", Outcome("time", now + CurOp(t).wait)))
           /\ \/ Hop(t, {"finish"}) /\ out'[tasks[t].wf][DeadlineSlot(t)].tag # "time"
              \/ /\ CurOp(t).op = "sleep" /\ Hop(t, {"sleeping"})
                 /\ tasks'[t].deadline = OutcomeOf(out'[tasks[t].wf][tasks[t].seq])
              \/ CurOp(t).op \in Waiting /\ Hop(t, {"expire", "subscribe"})
<1>1. tasks[t].pc = "fix" /\ LogOnly
  BY DEF FixDeadline, Run, LogOnly
<1>2. CurOp(t).op \in Waiting \cup {"sleep"} /\ DeadlineSlot(t) \in Slots
      /\ (CurOp(t).op = "sleep" => DeadlineSlot(t) = tasks[t].seq)
  BY <1>1, DeadlineLog
<1>3. /\ out' \in LogType /\ Outcome("time", now + CurOp(t).wait) \in OutcomeType
      /\ Wrote(tasks[t].wf, DeadlineSlot(t), Entry("sleep", Outcome("time", now + CurOp(t).wait)))
      /\ out'[tasks[t].wf][DeadlineSlot(t)] = FixLog(t)[DeadlineSlot(t)]
  BY FixLogIs
<1> DEFINE e == FixLog(t)[DeadlineSlot(t)]
<1>4. \/ e.tag # "time" /\ Return(t, "ERROR")
      \/ /\ CurOp(t).op = "sleep"
         /\ tasks' = [tasks EXCEPT ![t].pc = "sleeping", ![t].deadline = OutcomeOf(e)]
      \/ CurOp(t).op # "sleep" /\ CheckClock(t, OutcomeOf(e))
  BY DEF FixDeadline, FixLog
<1> HIDE DEF e
<1>5. ASSUME Return(t, "ERROR") PROVE Hop(t, {"finish"})
  BY <1>5, HopReturn
<1>6. ASSUME tasks' = [tasks EXCEPT ![t].pc = "sleeping", ![t].deadline = OutcomeOf(e)]
      PROVE  Hop(t, {"sleeping"}) /\ tasks'[t].deadline = OutcomeOf(e)
  BY <1>6, HopSleep
<1>7. ASSUME CheckClock(t, OutcomeOf(e)) PROVE Hop(t, {"expire", "subscribe"})
  BY <1>7, HopClock
<1> QED
  BY <1>1, <1>2, <1>3, <1>4, <1>5, <1>6, <1>7 DEF e

\* A message at the end of the table.
Note(dest, topic, key) == [dest |-> dest, topic |-> topic, key |-> key, created |-> now, consumed |-> FALSE]

LEMMA SendIs ==
    ASSUME Types, NEW t \in Tasks, Send(t)
    PROVE  /\ tasks[t].pc = "act" /\ CurOp(t).op = "send" /\ CurOp(t) \in Operation
           /\ UNCHANGED <<outside, rows, out, streams, effects, faults>>
           /\ \/ Hop(t, {"finish"}) /\ notes' = notes
              \/ Hop(t, {"record"}) /\ notes' = Append(notes, Note(CurOp(t).to, CurOp(t).topic, NoKey))
<1>1. /\ tasks[t].pc = "act" /\ CurOp(t).op = "send"
      /\ UNCHANGED <<outside, rows, out, streams, effects, faults>>
  BY DEF Send, Run
<1>2. CurOp(t) \in Operation
  BY <1>1, TaskFacts
<1>3. CASE Return(t, "ERROR") /\ notes' = notes
  BY <1>1, <1>2, <1>3, HopReturn
<1>4. CASE /\ notes' = insert_notification(notes, CurOp(t).to, CurOp(t).topic, NoKey, now)
           /\ tasks' = [tasks EXCEPT ![t].pc = "record", ![t].got = Null]
  <2>1. Hop(t, {"record"})
    BY <1>4, HopRecord
  <2>2. notes' = Append(notes, Note(CurOp(t).to, CurOp(t).topic, NoKey))
    BY <1>4 DEF insert_notification, Note
  <2> QED
    BY <1>1, <1>2, <2>1, <2>2
<1> QED
  BY <1>3, <1>4 DEF Send

LEMMA RecvSelectIs ==
    ASSUME Types, NEW t \in Tasks, RecvSelect(t)
    PROVE  /\ tasks[t].pc = "act" /\ CurOp(t).op = "recv" /\ Still /\ UNCHANGED faults
           /\ \/ /\ Hop(t, {"claim"})
                 /\ tasks'[t].pick \in OldestEntry(notes, tasks[t].wf, CurOp(t).topic)
              \/ Hop(t, {"deadline", "expire", "subscribe"})
<1>1. tasks[t].pc = "act" /\ CurOp(t).op = "recv" /\ Still /\ UNCHANGED faults
  BY DEF RecvSelect, Run, Still
<1>2. ASSUME NEW i \in OldestEntry(notes, tasks[t].wf, CurOp(t).topic),
             tasks' = [tasks EXCEPT ![t].pc = "claim", ![t].pick = i]
      PROVE  Hop(t, {"claim"}) /\ tasks'[t].pick \in OldestEntry(notes, tasks[t].wf, CurOp(t).topic)
  BY <1>2, HopPick
<1>3. ASSUME Miss(t) PROVE Hop(t, {"deadline", "expire", "subscribe"})
  BY <1>3, HopMiss
<1> QED
  BY <1>1, <1>2, <1>3 DEF RecvSelect

LEMMA GetEventIs ==
    ASSUME Types, NEW t \in Tasks, GetEvent(t)
    PROVE  /\ tasks[t].pc = "act" /\ CurOp(t).op = "getEvent" /\ Still /\ UNCHANGED faults
           /\ \/ Hop(t, {"record"}) /\ tasks'[t].got # Null
              \/ Hop(t, {"deadline", "expire", "subscribe"})
<1>1. tasks[t].pc = "act" /\ CurOp(t).op = "getEvent" /\ Still /\ UNCHANGED faults
  BY DEF GetEvent, Run, Still
<1> DEFINE o == get_event_value(events, CurOp(t).to)
<1>2. Miss(t) \/ (o # NoOutcome /\ tasks' = [tasks EXCEPT ![t].pc = "record", ![t].got = o])
  BY DEF GetEvent
<1>3. o # NoOutcome => o # Null
  BY DEF get_event_value, Outcome, Null
<1> HIDE DEF o
<1>4. ASSUME tasks' = [tasks EXCEPT ![t].pc = "record", ![t].got = o], o # NoOutcome
      PROVE  Hop(t, {"record"}) /\ tasks'[t].got # Null
  BY <1>3, <1>4, HopRecord
<1>5. ASSUME Miss(t) PROVE Hop(t, {"deadline", "expire", "subscribe"})
  BY <1>5, HopMiss
<1> QED
  BY <1>1, <1>2, <1>4, <1>5

LEMMA DeadlineKnownIs ==
    ASSUME Types, NEW t \in Tasks, DeadlineKnown(t)
    PROVE  /\ tasks[t].pc = "deadline" /\ CurOp(t).op \in Waiting /\ Still /\ UNCHANGED faults
           /\ DeadlineSlot(t) = tasks[t].seq + 1 /\ DeadlineSlot(t) \in Slots
           /\ \/ Hop(t, {"fix"}) \/ Hop(t, {"expire", "subscribe"})
              \/ /\ Hop(t, {"finish"})
                 /\ IsRecorded(Log(t)[DeadlineSlot(t)]) /\ Log(t)[DeadlineSlot(t)].name # "sleep"
<1>1. tasks[t].pc = "deadline" /\ Still /\ UNCHANGED faults
  BY DEF DeadlineKnown, Run, Still
<1>2. CurOp(t).op \in Waiting
  BY <1>1, TaskFacts DEF PcFits
<1>3. DeadlineSlot(t) = tasks[t].seq + 1 /\ DeadlineSlot(t) \in Slots
  BY <1>1, <1>2, DeadlineLog
<1> DEFINE entry == Log(t)[DeadlineSlot(t)]
<1>4. \/ Goto(t, "fix") \/ CheckClock(t, OutcomeOf(entry))
      \/ Return(t, "UNEXPECTED") /\ IsRecorded(entry) /\ entry.name # "sleep"
  BY DEF DeadlineKnown, Stored
<1> HIDE DEF entry
<1>5. ASSUME Goto(t, "fix") PROVE Hop(t, {"fix"})
  BY <1>5, HopGoto
<1>6. ASSUME CheckClock(t, OutcomeOf(entry)) PROVE Hop(t, {"expire", "subscribe"})
  BY <1>6, HopClock
<1>7. ASSUME Return(t, "UNEXPECTED") PROVE Hop(t, {"finish"})
  BY <1>7, HopReturn
<1> QED
  BY <1>1, <1>2, <1>3, <1>4, <1>5, <1>6, <1>7 DEF entry

LEMMA SleepIs ==
    ASSUME Types, NEW t \in Tasks, Sleep(t)
    PROVE  /\ tasks[t].pc = "sleeping" /\ CurOp(t).op = "sleep" /\ Still /\ UNCHANGED faults
           /\ Went(t, tasks[t].deadline, SlotsOf(CurOp(t)), CurOp(t).next)
<1>1. tasks[t].pc = "sleeping" /\ Still /\ UNCHANGED faults /\ Continue(t, tasks[t].deadline)
  BY DEF Sleep, Run, Still
<1>2. CurOp(t).op = "sleep" /\ tasks[t] \in Task
  BY <1>1, TaskFacts DEF PcFits
<1>3. tasks[t].deadline \in OutcomeType
  BY <1>2 DEF Task
<1> QED
  BY <1>1, <1>2, <1>3, WentNext

LEMMA StreamCheckIs ==
    ASSUME Types, NEW t \in Tasks, StreamCheck(t)
    PROVE  /\ tasks[t].pc = "act" /\ CurOp(t).op \in StreamOps /\ Still /\ UNCHANGED faults
           /\ \/ Hop(t, {"finish"}) /\ IsClosed(streams[tasks[t].wf])
              \/ /\ Hop(t, {"append"}) /\ ~IsClosed(streams[tasks[t].wf])
                 /\ tasks'[t].pick = Len(streams[tasks[t].wf])
<1>1. tasks[t].pc = "act" /\ CurOp(t).op \in StreamOps /\ Still /\ UNCHANGED faults
  BY DEF StreamCheck, Run, Still, StreamOps
<1> DEFINE n == Len(streams[tasks[t].wf])
<1>2. \/ Return(t, "ERROR") /\ IsClosed(streams[tasks[t].wf])
      \/ /\ ~IsClosed(streams[tasks[t].wf])
         /\ tasks' = [tasks EXCEPT ![t].pc = "append", ![t].pick = n]
  BY DEF StreamCheck
<1> HIDE DEF n
<1>3. ASSUME Return(t, "ERROR") PROVE Hop(t, {"finish"})
  BY <1>3, HopReturn
<1>4. ASSUME tasks' = [tasks EXCEPT ![t].pc = "append", ![t].pick = n]
      PROVE  Hop(t, {"append"}) /\ tasks'[t].pick = n
  BY <1>4, HopPick
<1> QED
  BY <1>1, <1>2, <1>3, <1>4 DEF n

LEMMA StreamAppendIs ==
    ASSUME Types, NEW t \in Tasks, StreamAppend(t)
    PROVE  /\ tasks[t].pc = "append" /\ CurOp(t).op \in StreamOps /\ CurOp(t) \in Operation
           /\ UNCHANGED <<outside, rows, out, notes, effects, faults>>
           /\ \/ Hop(t, {"finish"}) /\ streams' = streams /\ Len(streams[tasks[t].wf]) > tasks[t].pick
              \/ /\ Hop(t, {"record"})
                 /\ streams'[tasks[t].wf] = Append(streams[tasks[t].wf],
                                                   [val |-> StreamValue(CurOp(t)), slot |-> tasks[t].seq])
                 /\ \A x \in Ids \ {tasks[t].wf} : streams'[x] = streams[x]
<1>1. tasks[t].pc = "append" /\ UNCHANGED <<outside, rows, out, notes, effects, faults>>
  BY DEF StreamAppend, Run
<1>2. CurOp(t).op \in StreamOps /\ CurOp(t) \in Operation /\ tasks[t].wf \in Ids /\ tasks[t].seq \in Slots
  BY <1>1, TaskFacts DEF PcFits
<1>3. StreamValue(CurOp(t)) \in Nat
  BY <1>2 DEF StreamValue, CLOSED, Operation
<1>4. CASE /\ streams' = [streams EXCEPT ![tasks[t].wf] =
                             AppendEntry(streams[tasks[t].wf], StreamValue(CurOp(t)), tasks[t].seq)]
           /\ tasks' = [tasks EXCEPT ![t].pc = "record", ![t].got = Null]
  <2>1. Hop(t, {"record"})
    BY <1>4, HopRecord
  <2>2. /\ streams'[tasks[t].wf] = Append(streams[tasks[t].wf],
                                          [val |-> StreamValue(CurOp(t)), slot |-> tasks[t].seq])
        /\ \A x \in Ids \ {tasks[t].wf} : streams'[x] = streams[x]
    <3> DEFINE w == tasks[t].wf
               k == tasks[t].seq
               v == StreamValue(CurOp(t))
    <3>1. /\ w \in Ids /\ k \in Slots /\ v \in Nat
          /\ streams' = [streams EXCEPT ![w] = AppendEntry(streams[w], v, k)]
      BY <1>2, <1>3, <1>4
    <3> HIDE DEF w, k, v
    <3>2. /\ streams'[w] = Append(streams[w], [val |-> v, slot |-> k])
          /\ \A x \in Ids \ {w} : streams'[x] = streams[x]
      BY <3>1, StreamTypes
    <3> QED
      BY <3>2 DEF w, k, v
  <2> QED
    BY <1>1, <1>2, <2>1, <2>2
<1>5. CASE Return(t, "ERROR") /\ UNCHANGED streams /\ Len(streams[tasks[t].wf]) > tasks[t].pick
  BY <1>1, <1>2, <1>5, HopReturn
<1> QED
  BY <1>4, <1>5 DEF StreamAppend

LEMMA ChildLookupIs ==
    ASSUME Types, NEW t \in Tasks, ChildLookup(t)
    PROVE  /\ tasks[t].pc = "replay" /\ CurOp(t).op = "child" /\ Still /\ UNCHANGED faults
           /\ \/ Hop(t, {"spawn"}) /\ At(t).tag # "child"
              \/ Went(t, OutcomeOf(At(t)), SlotsOf(CurOp(t)), CurOp(t).next) /\ At(t).tag = "child"
              \/ Hop(t, {"finish"}) /\ At(t).name # CurOp(t).name /\ At(t).tag = "child"
<1>1. tasks[t].pc = "replay" /\ CurOp(t).op = "child" /\ Still /\ UNCHANGED faults
  BY DEF ChildLookup, Run, Still
<1>2. OutcomeOf(At(t)) \in OutcomeType /\ At(t) = Log(t)[tasks[t].seq] /\ OutcomeOf(At(t)).tag = At(t).tag
  BY <1>1, TaskFacts, EntryOutcome DEF At
<1>3. CASE At(t).tag = "child"
  <2>1. check_child_workflow(Log(t), tasks[t].seq) = OutcomeOf(At(t))
    BY <1>2, <1>3 DEF check_child_workflow
  <2>2. OutcomeOf(At(t)) # NoOutcome
    BY <1>2, <1>3 DEF NoOutcome, Outcome
  <2>3. \/ Continue(t, OutcomeOf(At(t)))
        \/ Return(t, "UNEXPECTED") /\ At(t).name # CurOp(t).name
    BY <2>1, <2>2 DEF ChildLookup
  <2>4. Return(t, "UNEXPECTED") => Hop(t, {"finish"})
    BY HopReturn
  <2> QED
    BY <1>1, <1>2, <1>3, <2>3, <2>4, WentNext
<1>4. CASE At(t).tag # "child"
  <2>1. check_child_workflow(Log(t), tasks[t].seq) = NoOutcome
    BY <1>2, <1>4 DEF check_child_workflow
  <2>2. Goto(t, "spawn")
    BY <2>1 DEF ChildLookup
  <2> QED
    BY <1>1, <1>4, <2>2, HopGoto
<1> QED
  BY <1>3, <1>4

LEMMA AwaitChildIs ==
    ASSUME Types, NEW t \in Tasks, AwaitChild(t)
    PROVE  /\ tasks[t].pc = "replay" /\ CurOp(t).op = "await" /\ Still /\ UNCHANGED faults
           /\ Hop(t, {"finish"}) \/ Went(t, NoOutcome, 0, CurOp(t).next)
<1>1. tasks[t].pc = "replay" /\ CurOp(t).op = "await" /\ Still /\ UNCHANGED faults
  BY DEF AwaitChild, Run, Still
<1>2. CurOp(t).next \in Nat
  BY <1>1, TaskFacts DEF Operation
<1>3. ContinueAt(t, NoOutcome, 0, CurOp(t).next) \/ Return(t, "ERROR")
  BY DEF AwaitChild
<1> QED
  BY <1>1, <1>2, <1>3, WentAt, HopReturn, OutcomeTypes

LEMMA PatchIs ==
    ASSUME Types, NEW t \in Tasks, PatchLookup(t) \/ deprecate_patch(t)
    PROVE  /\ tasks[t].pc = "replay" /\ CurOp(t).op \in PatchOps /\ Still /\ UNCHANGED faults
           /\ \/ Hop(t, {"mark"}) /\ ~IsRecorded(At(t))
              \/ Went(t, Marker, 1, CurOp(t).next) /\ At(t).name = CurOp(t).name
              \/ Went(t, NoOutcome, 0, CurOp(t).old)
              \/ Went(t, NoOutcome, 0, CurOp(t).next)
<1>1. tasks[t].pc = "replay" /\ CurOp(t).op \in PatchOps /\ Still /\ UNCHANGED faults
  BY DEF PatchLookup, deprecate_patch, Run, Still, PatchOps
<1>2. CurOp(t).next \in Nat /\ CurOp(t).old \in Nat /\ At(t) = Log(t)[tasks[t].seq]
  BY <1>1, TaskFacts DEF Operation, At
<1>3. \/ Goto(t, "mark") /\ ~IsRecorded(At(t))
      \/ ContinueAt(t, Marker, 1, CurOp(t).next) /\ At(t).name = CurOp(t).name
      \/ ContinueAt(t, NoOutcome, 0, CurOp(t).old)
      \/ ContinueAt(t, NoOutcome, 0, CurOp(t).next)
  BY <1>2 DEF PatchLookup, deprecate_patch, get_step_name
<1> QED
  BY <1>1, <1>2, <1>3, WentAt, HopGoto, OutcomeTypes

(***************************************************************************)
(* Mailboxes, in every scenario.  A message that is claimed but not yet    *)
(* marked had no unconsumed elder when it was selected, and nobody can put *)
(* one in front of it: messages are stamped by a clock that does not go    *)
(* back.                                                                   *)
(***************************************************************************)
Elder(j, i) ==
    notes[j].dest = notes[i].dest /\ notes[j].topic = notes[i].topic /\ notes[j].created < notes[i].created

Claims(t) ==
    /\ tasks[t].pick \in DOMAIN notes
    /\ notes[tasks[t].pick].dest = tasks[t].wf
    /\ \A j \in DOMAIN notes : Elder(j, tasks[t].pick) => notes[j].consumed

InBox(i, p) == notes[i].dest = p.to /\ notes[i].topic = p.topic

Keyed ==
    \A p \in sc.posts : p.key # NoKey =>
        \A i, j \in DOMAIN notes : InBox(i, p) /\ InBox(j, p) => i = j /\ notes[i].key = p.key

Mail ==
    /\ \A i \in DOMAIN notes : notes[i].created <= now
    /\ \A i, j \in DOMAIN notes : Elder(i, j) /\ notes[j].consumed => notes[i].consumed
    /\ \A t \in Tasks : tasks[t].pc = "claim" => Claims(t)
    /\ Keyed

\* What a step that selects no message does to those that have one.
NoNewClaims == \A u \in Tasks : tasks'[u].pc = "claim" => tasks'[u] = tasks[u]

LEMMA HopNoClaims ==
    ASSUME NEW t \in Tasks
    PROVE  /\ \A P : Hop(t, P) /\ "claim" \notin P => NoNewClaims
           /\ \A o, n, ip : Went(t, o, n, ip) => NoNewClaims
  BY DEF Hop, Went, NoNewClaims, Others

LEMMA SameMail ==
    ASSUME Types, Mail, NoNewClaims, UNCHANGED <<sc, notes>>, now' \in Nat, now' >= now
    PROVE  Mail'
<1>1. \A i \in DOMAIN notes : notes[i].created \in Nat /\ now \in Nat
  <2>1. notes \in Seq(Notification) /\ now \in Nat
    BY DEF Types, TypeOK
  <2>2. \A i \in DOMAIN notes : notes[i] \in Notification
    BY <2>1, LenProperties, ElementOfSeq
  <2> QED
    BY <2>1, <2>2 DEF Notification
<1>2. \A i \in DOMAIN notes' : notes'[i].created <= now'
  BY <1>1 DEF Mail
<1>3. \A t \in Tasks : tasks'[t].pc = "claim" => Claims(t)'
  <2> SUFFICES ASSUME NEW t \in Tasks, tasks'[t].pc = "claim" PROVE Claims(t)'
    OBVIOUS
  <2>1. tasks'[t] = tasks[t]
    BY DEF NoNewClaims
  <2>2. Claims(t)
    BY <2>1 DEF Mail
  <2> QED
    BY <2>1, <2>2 DEF Claims, Elder
<1> QED
  BY <1>2, <1>3 DEF Mail, Elder, Keyed, InBox

\* What a new message is like.
LEMMA NoteFacts ==
    ASSUME Types
    PROVE  /\ notes \in Seq(Notification) /\ Len(notes) \in Nat /\ DOMAIN notes = 1..Len(notes)
           /\ now \in Nat
           /\ \A i \in DOMAIN notes : /\ i \in Nat /\ notes[i] \in Notification /\ notes[i].created \in Nat
                                      /\ notes[i].consumed \in BOOLEAN
<1>1. notes \in Seq(Notification) /\ now \in Nat
  BY DEF Types, TypeOK
<1>2. Len(notes) \in Nat /\ DOMAIN notes = 1..Len(notes) /\ \A i \in DOMAIN notes : notes[i] \in Notification
  BY <1>1, LenProperties, ElementOfSeq
<1> QED
  BY <1>1, <1>2 DEF Notification

LEMMA AppendedNotes ==
    ASSUME Types, NEW dest \in Ids, NEW topic \in Topics, NEW key \in Keys \cup {NoKey},
           notes' = Append(notes, Note(dest, topic, key))
    PROVE  /\ DOMAIN notes' = DOMAIN notes \cup {Len(notes) + 1} /\ Len(notes) + 1 \notin DOMAIN notes
           /\ \A i \in DOMAIN notes : notes'[i] = notes[i]
           /\ notes'[Len(notes) + 1] = Note(dest, topic, key)
<1>1. Note(dest, topic, key) \in Notification
  BY NoteFacts DEF Note, Notification
<1>2. /\ notes' \in Seq(Notification) /\ Len(notes') = Len(notes) + 1
      /\ \A i \in 1..Len(notes) : notes'[i] = notes[i] /\ notes'[Len(notes) + 1] = Note(dest, topic, key)
      /\ notes'[Len(notes) + 1] = Note(dest, topic, key)
  BY <1>1, NoteFacts, AppendProperties
<1>3. DOMAIN notes' = 1..(Len(notes) + 1)
  BY <1>2, LenProperties
<1> QED
  BY <1>2, <1>3, NoteFacts

LEMMA NewMail ==
    ASSUME Types, Mail, NoNewClaims, UNCHANGED <<sc, now>>,
           NEW dest \in Ids, NEW topic \in Topics, NEW key \in Keys \cup {NoKey},
           notes' = Append(notes, Note(dest, topic, key)),
           \A p \in sc.posts : p.key # NoKey /\ dest = p.to /\ topic = p.topic =>
                /\ key = p.key
                /\ \A i \in DOMAIN notes : ~InBox(i, p)
    PROVE  Mail'
<1> DEFINE n == Len(notes) + 1
<1>1. /\ DOMAIN notes' = DOMAIN notes \cup {n} /\ n \notin DOMAIN notes
      /\ \A i \in DOMAIN notes : notes'[i] = notes[i]
      /\ notes'[n] = Note(dest, topic, key)
  BY AppendedNotes
<1>2. notes'[n].dest = dest /\ notes'[n].topic = topic /\ notes'[n].key = key /\ notes'[n].created = now
      /\ notes'[n].consumed = FALSE
  BY <1>1 DEF Note
<1>3. /\ now \in Nat /\ \A i \in DOMAIN notes : notes[i].created \in Nat /\ notes[i].created <= now
  BY NoteFacts DEF Mail
<1> HIDE DEF n
<1>4. \A i \in DOMAIN notes' : notes'[i].created <= now'
  BY <1>1, <1>2, <1>3
<1>5. \A i, j \in DOMAIN notes' : Elder(i, j)' /\ notes'[j].consumed => notes'[i].consumed
  <2> SUFFICES ASSUME NEW i \in DOMAIN notes', NEW j \in DOMAIN notes', Elder(i, j)', notes'[j].consumed
               PROVE  notes'[i].consumed
    OBVIOUS
  <2>1. j \in DOMAIN notes
    BY <1>1, <1>2
  <2>2. i \in DOMAIN notes
    BY <1>1, <1>2, <1>3, <2>1 DEF Elder
  <2> QED
    BY <1>1, <2>1, <2>2 DEF Elder, Mail
<1>6. \A t \in Tasks : tasks'[t].pc = "claim" => Claims(t)'
  <2> SUFFICES ASSUME NEW t \in Tasks, tasks'[t].pc = "claim" PROVE Claims(t)'
    OBVIOUS
  <2>1. tasks'[t] = tasks[t]
    BY DEF NoNewClaims
  <2>2. Claims(t)
    BY <2>1 DEF Mail
  <2>3. ASSUME NEW j \in DOMAIN notes', Elder(j, tasks[t].pick)' PROVE notes'[j].consumed
    <3>1. j \in DOMAIN notes
      BY <1>1, <1>2, <1>3, <2>1, <2>2, <2>3 DEF Elder, Claims
    <3> QED
      BY <1>1, <2>1, <2>2, <2>3, <3>1 DEF Elder, Claims
  <2> QED
    BY <1>1, <2>1, <2>2, <2>3 DEF Claims
<1>7. Keyed'
  <2> SUFFICES ASSUME NEW p \in sc.posts, p.key # NoKey,
                      NEW i \in DOMAIN notes', NEW j \in DOMAIN notes', InBox(i, p)', InBox(j, p)'
               PROVE  i = j /\ notes'[i].key = p.key
    BY DEF Keyed
  <2>1. CASE i = n
    BY <1>1, <1>2, <2>1 DEF InBox
  <2>2. CASE j = n
    BY <1>1, <1>2, <2>2 DEF InBox
  <2>3. CASE i # n /\ j # n
    BY <1>1, <2>3 DEF Mail, Keyed, InBox
  <2> QED
    BY <2>1, <2>2, <2>3
<1> QED
  BY <1>4, <1>5, <1>6, <1>7 DEF Mail

LEMMA SelectMail ==
    ASSUME Types, Mail, NEW t \in Tasks, RecvSelect(t)
    PROVE  Mail'
<1>1. tasks[t].pc = "act" /\ UNCHANGED <<sc, now, notes>>
  BY RecvSelectIs DEF Still, outside
<1>2. CASE Hop(t, {"deadline", "expire", "subscribe"})
  <2>1. NoNewClaims
    BY <1>2, HopNoClaims
  <2>2. now' \in Nat /\ now' >= now
    BY <1>1, NoteFacts
  <2> QED
    BY <1>1, <2>1, <2>2, SameMail
<1>3. CASE Hop(t, {"claim"}) /\ tasks'[t].pick \in OldestEntry(notes, tasks[t].wf, CurOp(t).topic)
  <2> DEFINE i == tasks'[t].pick
  <2>1. /\ i \in DOMAIN notes /\ notes[i].dest = tasks[t].wf /\ notes[i].topic = CurOp(t).topic
        /\ \A j \in DOMAIN notes :
             notes[j].dest = notes[i].dest /\ notes[j].topic = notes[i].topic /\ ~notes[j].consumed
               => notes[i].created <= notes[j].created
    BY <1>3 DEF OldestEntry, Unconsumed
  <2>2. \A j \in DOMAIN notes : Elder(j, i) => notes[j].consumed
    BY <2>1, NoteFacts DEF Elder
  <2>3. Claims(t)'
    BY <1>1, <1>3, <2>1, <2>2 DEF Claims, Elder, Hop
  <2>4. ASSUME NEW u \in Tasks \ {t}, tasks'[u].pc = "claim" PROVE Claims(u)'
    BY <1>1, <1>3, <2>4 DEF Claims, Elder, Hop, Others, Mail
  <2> QED
    BY <1>1, <2>3, <2>4 DEF Mail, Elder, Keyed, InBox
<1> QED
  BY <1>2, <1>3, RecvSelectIs

\* Marking the message that was claimed.
LEMMA MarkedNotes ==
    ASSUME Types, NEW p \in DOMAIN notes, notes' = MarkConsumed(notes, p)
    PROVE  /\ DOMAIN notes' = DOMAIN notes
           /\ \A i \in DOMAIN notes :
                /\ notes'[i].dest = notes[i].dest /\ notes'[i].topic = notes[i].topic
                /\ notes'[i].key = notes[i].key /\ notes'[i].created = notes[i].created
                /\ i # p => notes'[i].consumed = notes[i].consumed
           /\ notes'[p].consumed
<1> DEFINE e == [notes[p] EXCEPT !.consumed = TRUE]
<1>1. notes' = [notes EXCEPT ![p] = e]
  BY DEF MarkConsumed
<1>2. notes[p] \in Notification
  BY NoteFacts
<1>3. /\ e.dest = notes[p].dest /\ e.topic = notes[p].topic /\ e.key = notes[p].key
      /\ e.created = notes[p].created /\ e.consumed
  BY <1>2 DEF Notification
<1> HIDE DEF e
<1>4. DOMAIN notes' = DOMAIN notes /\ notes'[p] = e /\ \A i \in DOMAIN notes : i # p => notes'[i] = notes[i]
  BY <1>1, NoteFacts
<1> QED
  BY <1>3, <1>4

LEMMA CommitMail ==
    ASSUME Types, Mail, NEW t \in Tasks, RecvCommit(t)
    PROVE  Mail'
<1> DEFINE p == tasks[t].pick
<1>1. tasks[t].pc = "claim" /\ UNCHANGED <<sc, now>> /\ notes' = MarkConsumed(notes, p) /\ NoNewClaims
  BY RecvCommitIs, HopNoClaims DEF outside
<1>2. Claims(t)
  BY <1>1 DEF Mail
<1>3. /\ DOMAIN notes' = DOMAIN notes
      /\ \A i \in DOMAIN notes :
           /\ notes'[i].dest = notes[i].dest /\ notes'[i].topic = notes[i].topic
           /\ notes'[i].key = notes[i].key /\ notes'[i].created = notes[i].created
           /\ i # p => notes'[i].consumed = notes[i].consumed
      /\ notes'[p].consumed
  BY <1>1, <1>2, MarkedNotes DEF Claims
<1> HIDE DEF p
<1>4. \A i \in DOMAIN notes : notes[i].consumed => notes'[i].consumed
  BY <1>3
<1>5. \A i, j \in DOMAIN notes : Elder(i, j)' <=> Elder(i, j)
  BY <1>3 DEF Elder
<1>6. \A i, j \in DOMAIN notes' : Elder(i, j)' /\ notes'[j].consumed => notes'[i].consumed
  <2> SUFFICES ASSUME NEW i \in DOMAIN notes, NEW j \in DOMAIN notes, Elder(i, j), notes'[j].consumed
               PROVE  notes'[i].consumed
    BY <1>3, <1>5
  <2>1. CASE j = p
    BY <1>2, <1>4, <2>1 DEF Claims, p
  <2>2. CASE j # p
    BY <1>3, <1>4, <2>2 DEF Mail
  <2> QED
    BY <2>1, <2>2
<1>7. \A u \in Tasks : tasks'[u].pc = "claim" => Claims(u)'
  <2> SUFFICES ASSUME NEW u \in Tasks, tasks'[u].pc = "claim" PROVE Claims(u)'
    OBVIOUS
  <2>1. tasks'[u] = tasks[u]
    BY <1>1 DEF NoNewClaims
  <2>2. Claims(u)
    BY <2>1 DEF Mail
  <2> QED
    BY <1>3, <1>4, <1>5, <2>1, <2>2 DEF Claims
<1>8. \A i \in DOMAIN notes' : notes'[i].created <= now'
  BY <1>1, <1>3 DEF Mail
<1>9. Keyed'
  BY <1>1, <1>3 DEF Mail, Keyed, InBox
<1> QED
  BY <1>6, <1>7, <1>8, <1>9 DEF Mail

LEMMA SendMail ==
    ASSUME Types, Mail, NEW t \in Tasks, Send(t)
    PROVE  Mail'
<1>1. CurOp(t).op = "send" /\ CurOp(t) \in Operation /\ UNCHANGED <<sc, now>> /\ tasks[t].pc = "act"
  BY SendIs DEF outside
<1>2. NoNewClaims
  BY SendIs, HopNoClaims
<1>3. CASE notes' = notes
  BY <1>1, <1>2, <1>3, SameMail, NoteFacts
<1>4. CASE notes' = Append(notes, Note(CurOp(t).to, CurOp(t).topic, NoKey))
  <2>1. ASSUME NEW p \in sc.posts, p.key # NoKey, CurOp(t).to = p.to /\ CurOp(t).topic = p.topic
        PROVE  FALSE
    <3>1. KeyedApart(sc) /\ tasks[t].version \in DOMAIN sc.code /\ tasks[t].wf \in Ids
          /\ tasks[t].ip \in DOMAIN sc.code[tasks[t].version][tasks[t].wf]
      BY <1>1, TaskFacts, ScenarioFacts DEF Fit, CodeOf
    <3>2. \A v \in DOMAIN sc.code, w \in Ids : \A i \in DOMAIN sc.code[v][w] :
             ~(sc.code[v][w][i].op = "send" /\ sc.code[v][w][i].to = p.to
               /\ sc.code[v][w][i].topic = p.topic)
      BY <2>1, <3>1 DEF KeyedApart
    <3>3. ~(CurOp(t).op = "send" /\ CurOp(t).to = p.to /\ CurOp(t).topic = p.topic)
      BY <3>1, <3>2 DEF CurOp
    <3> QED
      BY <1>1, <2>1, <3>3
  <2>2. CurOp(t).to \in Ids /\ CurOp(t).topic \in Topics /\ NoKey \in Keys \cup {NoKey}
    BY <1>1 DEF Operation
  <2> QED
    BY <1>1, <1>2, <1>4, <2>1, <2>2, NewMail
<1> QED
  BY <1>3, <1>4, SendIs

LEMMA PostMail ==
    ASSUME Types, Mail, NEW q \in sc.posts, Post(q)
    PROVE  Mail'
<1>1. q.to \in Ids /\ q.topic \in Topics /\ q.key \in Keys \cup {NoKey} /\ KeyedApart(sc)
      /\ UNCHANGED <<sc, now, tasks>> /\ notes' = insert_notification(notes, q.to, q.topic, q.key, now)
  <2>1. sc \in Scenarios
    BY DEF Types, TypeOK
  <2> QED
    BY <2>1, ScenarioFacts DEF Post
<1>2. NoNewClaims
  BY <1>1 DEF NoNewClaims
<1>3. CASE q.key # NoKey /\ \E i \in DOMAIN notes : notes[i].key = q.key /\ notes[i].dest = q.to
  <2>1. notes' = notes
    BY <1>1, <1>3 DEF insert_notification
  <2> QED
    BY <1>1, <1>2, <2>1, SameMail, NoteFacts
<1>4. CASE ~(q.key # NoKey /\ \E i \in DOMAIN notes : notes[i].key = q.key /\ notes[i].dest = q.to)
  <2>1. notes' = Append(notes, Note(q.to, q.topic, q.key))
    BY <1>1, <1>4 DEF insert_notification, Note
  <2>2. ASSUME NEW p \in sc.posts, p.key # NoKey, q.to = p.to /\ q.topic = p.topic
        PROVE  q.key = p.key /\ \A i \in DOMAIN notes : ~InBox(i, p)
    <3>1. q = p
      BY <1>1, <2>2 DEF KeyedApart
    <3> QED
      BY <1>4, <2>2, <3>1 DEF Mail, Keyed, InBox
  <2> QED
    BY <1>1, <1>2, <2>1, <2>2, NewMail
<1> QED
  BY <1>3, <1>4

LEMMA TaskMail ==
    ASSUME Types, NEW t \in Tasks,
           \/ ReplayHit(t) \/ ReplayMiss(t) \/ Guard(t) \/ ChildLookup(t) \/ PatchLookup(t)
              \/ deprecate_patch(t) \/ AwaitChild(t)
           \/ Produce(t) \/ GetEvent(t) \/ StreamCheck(t)
           \/ RecordOutcome(t) \/ Expire(t) \/ TxGiveUp(t)
           \/ TxCommit(t) \/ Link(t) \/ PatchMark(t)
           \/ DeadlineKnown(t) \/ FixDeadline(t) \/ Sleep(t) \/ Subscribe(t) \/ WakeUp(t)
           \/ SetEvent(t) \/ StreamAppend(t)
           \/ conflict_retry_wait(t) \/ TxConflict(t) \/ TxCommitLost(t) \/ TxBodyFails(t)
    PROVE  NoNewClaims /\ UNCHANGED <<sc, notes, now>>
<1> USE HopNoClaims DEF outside
<1>1. CASE ReplayHit(t) \/ ReplayMiss(t) \/ ChildLookup(t) \/ AwaitChild(t)
  BY <1>1, ReplayHitIs, ReplayMissIs, ChildLookupIs, AwaitChildIs DEF Still
<1>2. CASE PatchLookup(t) \/ deprecate_patch(t)
  BY <1>2, PatchIs DEF Still
<1>3. CASE Guard(t) \/ Produce(t) \/ Subscribe(t) \/ WakeUp(t) \/ SetEvent(t)
  <2>1. \E P : "claim" \notin P /\ Hop(t, P)
    BY <1>3, PlainHops
  <2>2. Still
    BY <1>3, PlainHops
  <2> QED
    BY <2>1, <2>2 DEF Still
<1>4. CASE conflict_retry_wait(t) \/ TxConflict(t) \/ TxBodyFails(t)
  <2>1. \E P : "claim" \notin P /\ Hop(t, P)
    BY <1>4, TxHops
  <2>2. Still
    BY <1>4, TxHops
  <2> QED
    BY <2>1, <2>2 DEF Still
<1>5. CASE GetEvent(t) \/ StreamCheck(t) \/ DeadlineKnown(t) \/ Sleep(t)
  BY <1>5, GetEventIs, StreamCheckIs, DeadlineKnownIs, SleepIs DEF Still
<1>6. CASE RecordOutcome(t) \/ Expire(t) \/ Link(t) \/ PatchMark(t) \/ FixDeadline(t)
  BY <1>6, RecordOutcomeIs, ExpireIs, LinkIs, PatchMarkIs, FixDeadlineIs DEF LogOnly
<1>7. CASE TxGiveUp(t)
  BY <1>7, TxGiveUpIs DEF LogOnly, NoNewClaims, Others
<1>8. CASE TxCommit(t)
  BY <1>8, TxCommitIs
<1>9. CASE StreamAppend(t)
  BY <1>9, StreamAppendIs
<1>10. CASE TxCommitLost(t)
  BY <1>10, TxCommitLostIs
<1> QED
  BY <1>1, <1>2, <1>3, <1>4, <1>5, <1>6, <1>7, <1>8, <1>9, <1>10

\* Executions come and go.
LEMMA SpawnIs ==
    ASSUME Types, NEW t \in Tasks, NEW w \in Ids, Spawn(t, w)
    PROVE  /\ tasks[t].pc = "idle" /\ Others(t)
           /\ tasks'[t].pc \in {"replay", "finish"} /\ tasks'[t].wf = w /\ tasks'[t].version = version
           /\ tasks'[t].seq = 0 /\ tasks'[t].ip = 1
           /\ tasks'[t].pc = "finish" => tasks'[t].res = "SUCCESS"
           /\ tasks'[t].pc = "replay" => 1 \in DOMAIN sc.code[version][w]
           /\ \A k \in Slots : tasks'[t].seen[k] = NoOutcome
<1>1. tasks'[t] = NewTask(w) /\ Others(t) /\ tasks[t].pc = "idle"
  BY DEF Spawn, Others, Types, TypeOK
<1>2. /\ NewTask(w).pc \in {"replay", "finish"} /\ NewTask(w).wf = w
      /\ NewTask(w).version = version /\ NewTask(w).seq = 0 /\ NewTask(w).ip = 1
      /\ NewTask(w).seen = [k \in Slots |-> NoOutcome]
      /\ NewTask(w).pc = "finish" => NewTask(w).res = "SUCCESS"
      /\ NewTask(w).pc = "replay" => 1 \in DOMAIN sc.code[version][w]
  BY NewFits DEF Types
<1> QED
  BY <1>1, <1>2

\* The parent's task hops to link, and the child's, if it is another one, is new.
LEMMA SpawnedIs ==
    ASSUME Types, NEW t \in Tasks, NEW c \in Tasks, spawn_child(t, c)
    PROVE  /\ tasks[t].pc = "spawn" /\ CurOp(t).op = "child" /\ CurOp(t).to \in Ids
           /\ \A u \in Tasks \ {t, c} : tasks'[u] = tasks[u]
           /\ tasks'[t] = [tasks[t] EXCEPT !.pc = "link"]
           /\ tasks'[t].pc = "link"
           /\ tasks'[t].wf = tasks[t].wf /\ tasks'[t].version = tasks[t].version
           /\ tasks'[t].ip = tasks[t].ip /\ tasks'[t].seq = tasks[t].seq
           /\ tasks'[t].seen = tasks[t].seen
           /\ c # t => /\ tasks[c].pc = "idle"
                       /\ rows[CurOp(t).to] \in {"ABSENT", "PENDING"}
                       /\ tasks'[c].pc \in {"replay", "finish"} /\ tasks'[c].wf = CurOp(t).to
                       /\ tasks'[c].version = version
                       /\ tasks'[c].seq = 0 /\ tasks'[c].ip = 1
                       /\ tasks'[c].pc = "finish" => tasks'[c].res = "SUCCESS"
                       /\ tasks'[c].pc = "replay" => 1 \in DOMAIN sc.code[version][CurOp(t).to]
                       /\ \A k \in Slots : tasks'[c].seen[k] = NoOutcome
           /\ UNCHANGED <<sc, version, out, notes, events, streams, effects, recover, hub, reader,
                          posted, now, faults>>
<1> DEFINE a == [tasks[t] EXCEPT !.pc = "link"]
           b == NewTask(CurOp(t).to)
<1>1. /\ tasks[t].pc = "spawn" /\ CurOp(t).op = "child" /\ CurOp(t).to \in Ids /\ tasks[t] \in Task
      /\ UNCHANGED <<sc, version, out, notes, events, streams, effects, recover, hub, reader,
                     posted, now, faults>>
  BY SpawnChildIs
<1>2. /\ a.pc = "link" /\ a.wf = tasks[t].wf /\ a.version = tasks[t].version /\ a.ip = tasks[t].ip
      /\ a.seq = tasks[t].seq /\ a.seen = tasks[t].seen
  BY <1>1 DEF Task
<1>3. /\ b.pc \in {"replay", "finish"} /\ b.wf = CurOp(t).to /\ b.version = version /\ b.seq = 0 /\ b.ip = 1
      /\ (b.pc = "finish" => b.res = "SUCCESS")
      /\ (b.pc = "replay" => 1 \in DOMAIN sc.code[version][CurOp(t).to])
      /\ \A k \in Slots : b.seen[k] = NoOutcome
  BY <1>1, NewFits DEF Types
<1>4. \/ c = t /\ tasks' = [tasks EXCEPT ![t] = a]
      \/ /\ c # t /\ tasks[c].pc = "idle" /\ rows[CurOp(t).to] \in {"ABSENT", "PENDING"}
         /\ tasks' = [[tasks EXCEPT ![t] = a] EXCEPT ![c] = b]
  BY SpawnChildIs
<1>5. tasks \in [Tasks -> Task]
  BY DEF Types, TypeOK
<1>h. tasks'[t] = a => tasks'[t] = [tasks[t] EXCEPT !.pc = "link"]
  OBVIOUS
<1> HIDE DEF a, b
<1>6. /\ tasks'[t] = a /\ \A u \in Tasks \ {t, c} : tasks'[u] = tasks[u]
      /\ c # t => tasks'[c] = b /\ tasks[c].pc = "idle" /\ rows[CurOp(t).to] \in {"ABSENT", "PENDING"}
  BY <1>4, <1>5
<1> QED
  BY <1>1, <1>2, <1>3, <1>6, <1>h

LEMMA RestMail ==
    ASSUME Types,
           \/ \E t \in Tasks : Finish(t) \/ Recover(t) \/ \E c \in Tasks : spawn_child(t, c)
           \/ \E t \in Tasks, w \in Ids : Start(t, w) \/ Restart(t, w)
           \/ Crash \/ Deploy
           \/ \E w \in Ids : Cancel(w)
           \/ ListenerLost \/ Tick \/ ReadEntries \/ ReadStatus \/ Quiet
           \/ ListenerBack \/ (\E w \in Ids : Notify(w))
    PROVE  NoNewClaims /\ UNCHANGED <<sc, notes>> /\ now' \in Nat /\ now' >= now
<1>0. now \in Nat /\ tasks \in [Tasks -> Task]
  BY DEF Types, TypeOK
<1>1. ASSUME NEW t \in Tasks, Finish(t) PROVE NoNewClaims /\ UNCHANGED <<sc, notes, now>>
  <2>1. tasks' = [tasks EXCEPT ![t] = IdleTask] /\ UNCHANGED <<sc, notes, now>>
    BY <1>1 DEF Finish
  <2>2. \A u \in Tasks : tasks'[u] = tasks[u] \/ tasks'[u].pc = "idle"
    BY <1>0, <2>1 DEF IdleTask
  <2> QED
    BY <2>1, <2>2 DEF NoNewClaims
<1>2. ASSUME NEW t \in Tasks, NEW c \in Tasks, spawn_child(t, c)
      PROVE  NoNewClaims /\ UNCHANGED <<sc, notes, now>>
  <2>1. UNCHANGED <<sc, notes, now>> /\ tasks'[t].pc = "link" /\ \A u \in Tasks \ {t, c} : tasks'[u] = tasks[u]
    BY <1>2, SpawnedIs
  <2>2. c # t => tasks'[c].pc \in {"replay", "finish"}
    BY <1>2, SpawnedIs
  <2> QED
    BY <2>1, <2>2 DEF NoNewClaims
<1>3. ASSUME NEW t \in Tasks, NEW w \in Ids, Spawn(t, w) PROVE NoNewClaims
  BY <1>3, SpawnIs DEF NoNewClaims, Others
<1>4. ASSUME NEW t \in Tasks, Recover(t) PROVE NoNewClaims /\ UNCHANGED <<sc, notes, now>>
  BY <1>3, <1>4, RecoverIs DEF tables
<1>5. ASSUME NEW t \in Tasks, NEW w \in Ids, Start(t, w) \/ Restart(t, w)
      PROVE  NoNewClaims /\ UNCHANGED <<sc, notes, now>>
  BY <1>3, <1>5 DEF Start, Restart, tables
<1>6. CASE Crash \/ Deploy
  <2>1. \A u \in Tasks : tasks'[u].pc = "idle"
    BY <1>6, CrashIs DEF IdleTask
  <2> QED
    BY <1>0, <1>6, <2>1, CrashIs DEF NoNewClaims
<1>7. CASE ListenerBack \/ (\E w \in Ids : Notify(w))
  <2>1. \A u \in Tasks : tasks'[u] = tasks[u] \/ tasks'[u].pc = "act"
    <3>1. ASSUME NEW u \in Tasks, tasks'[u] = [tasks[u] EXCEPT !.pc = "act"] PROVE tasks'[u].pc = "act"
      BY <1>0, <3>1 DEF Task
    <3> QED
      BY <1>7, <3>1, ListenerIs
  <2> QED
    BY <1>0, <1>7, <2>1, ListenerIs DEF NoNewClaims, outside
<1>8. CASE (\E w \in Ids : Cancel(w)) \/ ListenerLost \/ ReadEntries \/ ReadStatus \/ Quiet
  BY <1>0, <1>8 DEF Cancel, ListenerLost, ReadEntries, ReadStatus, Quiet, vars, tables, outside, NoNewClaims
<1>9. CASE Tick
  BY <1>0, <1>9 DEF Tick, tables, NoNewClaims
<1> QED
  BY <1>0, <1>1, <1>2, <1>4, <1>5, <1>6, <1>7, <1>8, <1>9

LEMMA MailInit == Init => Mail
  BY DEF Init, Mail, IdleTask, Keyed

LEMMA MailNext == Types /\ Mail /\ [Next]_vars => Mail'
<1> SUFFICES ASSUME Types, Mail, [Next]_vars PROVE Mail'
  OBVIOUS
<1>1. CASE UNCHANGED vars
  <2>1. NoNewClaims /\ UNCHANGED <<sc, notes, now>>
    BY <1>1 DEF vars, tables, NoNewClaims
  <2> QED
    BY <2>1, SameMail, NoteFacts
<1>2. CASE Next
  <2>1. ASSUME NoNewClaims, UNCHANGED <<sc, notes>>, now' \in Nat, now' >= now PROVE Mail'
    BY <2>1, SameMail
  <2>2. ASSUME NoNewClaims, UNCHANGED <<sc, notes, now>> PROVE Mail'
    BY <2>1, <2>2, NoteFacts
  <2> QED
    BY <1>2, <2>1, <2>2, NextIs, TaskMail, RestMail, SelectMail, CommitMail, SendMail, PostMail, Zenon
<1> QED
  BY <1>1, <1>2

\* A set whose elements are all equal has at most one.
LEMMA AtMostOne ==
    ASSUME NEW S, \A x, y \in S : x = y
    PROVE  Cardinality(S) <= 1
<1>1. CASE S = {}
  BY <1>1, FS_EmptySet
<1>2. CASE S # {}
  <2>1. PICK x : x \in S
    BY <1>2
  <2>2. S = {x}
    BY <2>1
  <2> QED
    BY <2>2, FS_Singleton
<1> QED
  BY <1>1, <1>2

LEMMA MailOrder == Types /\ Mail => MailboxInOrder /\ KeyedOnce
<1> SUFFICES ASSUME Types, Mail PROVE MailboxInOrder /\ KeyedOnce
  OBVIOUS
<1>1. MailboxInOrder
  BY DEF Mail, MailboxInOrder, Elder
<1>2. KeyedOnce
  <2> SUFFICES ASSUME NEW p \in sc.posts, p.key # NoKey
               PROVE  Cardinality({i \in DOMAIN notes : notes[i].dest = p.to /\ notes[i].topic = p.topic}) <= 1
    BY DEF KeyedOnce
  <2> DEFINE S == {i \in DOMAIN notes : notes[i].dest = p.to /\ notes[i].topic = p.topic}
  <2>1. \A i, j \in S : i = j
    BY DEF Mail, Keyed, InBox
  <2> HIDE DEF S
  <2>2. Cardinality(S) <= 1
    BY <2>1, AtMostOne
  <2> QED
    BY <2>2 DEF S
<1> QED
  BY <1>1, <1>2

\* A mailbox is first in, first out, and holds a keyed message once, in every scenario: whatever
\* crashes, overlaps, upgrades and repeated sends there are.  (consume_notification,
\* insert_notification)
THEOREM MailboxCorrect == Spec => [](MailboxInOrder /\ KeyedOnce)
<1> QED
  BY MailOrder, TypesInit, TypesNext, MailInit, MailNext, PTL DEF Spec

(***************************************************************************)
(* What the operations promise across crashes, where no two executions of  *)
(* a workflow overlap and replay finds at a position the operation it      *)
(* expects there.                                                          *)
(***************************************************************************)
Alone ==
    \A t, u \in Tasks : Busy(t) /\ Busy(u) /\ tasks[t].wf = tasks[u].wf => t = u

Deterministic ==
    \A t \in Tasks :
        tasks[t].pc = "replay" /\ IsRecorded(At(t)) /\ CurOp(t).op \notin PatchOps \cup {"await"} =>
            /\ At(t).name = CurOp(t).name
            /\ CurOp(t).op = "child" => At(t).tag = "child"

\* What the function was given is in the log, except after the loss of a commit's answer.
Seen(t) ==
    \A k \in Slots : tasks[t].seen[k] # NoOutcome =>
        tasks[t].seen[k] = OutcomeOf(Log(t)[k]) \/ effects[tasks[t].wf][k].lost > 0

\* The body at k of w has taken effect, and the answer was lost every time.
InTx == {"body", "retry", "giveup"}
Unheard(w, k) ==
    out[w][k].name = "tx" /\ out[w][k].tag = "val" /\ effects[w][k].done <= effects[w][k].lost

UnheardNext(w, k) ==
    out'[w][k].name = "tx" /\ out'[w][k].tag = "val" /\ effects'[w][k].done <= effects'[w][k].lost

\* Past the lookup of a checkpoint there is none, except in a transaction that is repeated.
Ahead(t) ==
    tasks[t].pc \notin {"idle", "finish", "replay", "sleeping"} =>
        At(t) = Unrecorded \/ (tasks[t].pc \in InTx /\ Unheard(tasks[t].wf, tasks[t].seq))

\* A sleeper goes by what is recorded.
Asleep(t) == tasks[t].pc = "sleeping" => tasks[t].deadline = OutcomeOf(At(t))

\* Nobody else has taken the message that was claimed.
Unclaimed(t) == tasks[t].pc = "claim" => ~notes[tasks[t].pick].consumed

Sound(t) == Busy(t) => Seen(t) /\ Ahead(t) /\ Asleep(t) /\ Unclaimed(t)

PatchName(name) ==
    \E v \in DOMAIN sc.code, w \in Ids : \E i \in DOMAIN sc.code[v][w] :
        sc.code[v][w][i].op \in PatchOps /\ sc.code[v][w][i].name = name

\* Marker rows are those of patches.
Markers ==
    \A w \in Ids, k \in Slots :
        /\ PatchName(out[w][k].name) => OutcomeOf(out[w][k]) = Marker
        /\ out[w][k].tag = "marker" => PatchName(out[w][k].name)

IsReceipt(w, k, i) == out[w][k].tag = "msg" /\ out[w][k].val = i

\* A receipt is for a message that is consumed, a consumed message has one, and one only.
Receipted ==
    /\ \A w \in Ids, k \in Slots :
         out[w][k].tag = "msg" => out[w][k].val \in DOMAIN notes /\ notes[out[w][k].val].consumed
    /\ \A i \in DOMAIN notes : notes[i].consumed => \E w \in Ids, k \in Slots : IsReceipt(w, k, i)
    /\ \A w, x \in Ids, k, j \in Slots, i \in DOMAIN notes :
         IsReceipt(w, k, i) /\ IsReceipt(x, j, i) => w = x /\ k = j

Core == (\A t \in Tasks : Sound(t)) /\ Markers /\ Receipted /\ EffectsOnce

\* The names of operations are apart where Reserved says so.
LEMMA OpNames ==
    ASSUME Types
    PROVE  /\ ~PatchName("none") /\ ~PatchName("sleep") /\ ~PatchName("tx")
           /\ \A t \in Tasks : tasks[t].pc \notin {"idle", "finish"} =>
                /\ CurOp(t).op \in PatchOps => PatchName(CurOp(t).name)
                /\ CurOp(t).op \notin PatchOps => ~PatchName(CurOp(t).name)
                /\ CurOp(t).name # "none" /\ CurOp(t).name \in Names
                /\ CurOp(t).op = "tx" <=> CurOp(t).name = "tx"
                /\ CurOp(t).op = "sleep" <=> CurOp(t).name = "sleep"
                /\ CurOp(t).op = "writeStream" <=> CurOp(t).name = "writeStream"
                /\ CurOp(t).op = "writeStream" => CurOp(t).val # CLOSED
<1>1. Reserved(sc)
  BY ScenarioFacts DEF Types, TypeOK
<1>2. ~PatchName("none") /\ ~PatchName("sleep") /\ ~PatchName("tx")
  BY <1>1 DEF Reserved, PatchName, PatchOps
<1> SUFFICES ASSUME NEW t \in Tasks, tasks[t].pc \notin {"idle", "finish"}
             PROVE  /\ CurOp(t).op \in PatchOps => PatchName(CurOp(t).name)
                    /\ CurOp(t).op \notin PatchOps => ~PatchName(CurOp(t).name)
                    /\ CurOp(t).name # "none" /\ CurOp(t).name \in Names
                    /\ CurOp(t).op = "tx" <=> CurOp(t).name = "tx"
                    /\ CurOp(t).op = "sleep" <=> CurOp(t).name = "sleep"
                    /\ CurOp(t).op = "writeStream" <=> CurOp(t).name = "writeStream"
                    /\ CurOp(t).op = "writeStream" => CurOp(t).val # CLOSED
  BY <1>2
<1> DEFINE v == tasks[t].version
           w == tasks[t].wf
           i == tasks[t].ip
<1>3. v \in DOMAIN sc.code /\ w \in Ids /\ i \in DOMAIN sc.code[v][w] /\ CurOp(t) = sc.code[v][w][i]
      /\ CurOp(t).name \in Names
  BY TaskFacts DEF Fit, CodeOf, CurOp, Operation
<1> HIDE DEF v, w, i
<1>4. /\ CurOp(t).name # "none"
      /\ \A kind \in {"sleep", "tx", "writeStream"} : CurOp(t).op = kind <=> CurOp(t).name = kind
      /\ CurOp(t).op = "writeStream" => CurOp(t).val # CLOSED
  BY <1>1, <1>3 DEF Reserved
<1>5. CurOp(t).op \notin PatchOps => ~PatchName(CurOp(t).name)
  BY <1>1, <1>3 DEF Reserved, PatchName
<1>6. CurOp(t).op \in PatchOps => PatchName(CurOp(t).name)
  BY <1>3 DEF PatchName
<1> QED
  BY <1>3, <1>4, <1>5, <1>6

(***************************************************************************)
(* A step of a task disturbs no other task                                 *)
(***************************************************************************)
\* The log of w gains entries, and of the messages to w some are consumed.
Gained(w) ==
    /\ \A x \in Ids, j \in Slots : out'[x][j] # out[x][j] => x = w /\ out[x][j] = Unrecorded
    /\ \A i \in DOMAIN notes : /\ i \in DOMAIN notes'
                               /\ notes'[i].consumed # notes[i].consumed => notes[i].dest = w
    /\ \A x \in Ids, j \in Slots : effects'[x][j] # effects[x][j] => x = w
    /\ \A x \in Ids, j \in Slots : effects[x][j].lost > 0 => effects'[x][j].lost > 0

LEMMA OthersSound ==
    ASSUME Types, Mail, Alone, NEW t \in Tasks, Busy(t), NEW u \in Tasks \ {t}, Sound(u),
           tasks'[u] = tasks[u], Gained(tasks[t].wf)
    PROVE  Sound(u)'
<1> SUFFICES ASSUME Busy(u) PROVE Seen(u)' /\ Ahead(u)' /\ Asleep(u)' /\ Unclaimed(u)'
  BY DEF Sound, Busy
<1> DEFINE w == tasks[u].wf
<1>1. w \in Ids /\ w # tasks[t].wf /\ tasks'[u].wf = w
  BY DEF Alone, Busy, Types, Fit
<1>2. \A j \in Slots : out'[w][j] = out[w][j] /\ effects'[w][j] = effects[w][j]
  BY <1>1 DEF Gained
<1>3. tasks[u].pc # "finish" => tasks[u].seq \in Slots
  BY TaskFacts DEF Busy
<1>4. Seen(u)'
  BY <1>1, <1>2 DEF Sound, Seen, Log
<1>5. tasks[u].pc # "finish" => At(u)' = At(u)
  BY <1>1, <1>2, <1>3 DEF At, Log
<1>6. Ahead(u)' /\ Asleep(u)'
  BY <1>1, <1>2, <1>3, <1>5 DEF Sound, Ahead, Asleep, Unheard
<1>7. tasks[u].pc = "claim" => Claims(u)
  BY DEF Mail
<1>8. Unclaimed(u)'
  BY <1>1, <1>7 DEF Claims, Gained, Sound, Unclaimed
<1> QED
  BY <1>4, <1>6, <1>8

\* What the function saw before is still recorded.
LEMMA StillSeen ==
    ASSUME Types, NEW t \in Tasks, Busy(t), Seen(t), Gained(tasks[t].wf)
    PROVE  \A k \in Slots : tasks[t].seen[k] # NoOutcome =>
              \/ tasks[t].seen[k] = OutcomeOf(out'[tasks[t].wf][k])
              \/ effects'[tasks[t].wf][k].lost > 0
<1>1. tasks[t].wf \in Ids
  BY DEF Busy, Types, Fit
<1> QED
  BY <1>1, EntryOutcome DEF Seen, Log, Gained

LEMMA HopSound ==
    ASSUME Types, NEW t \in Tasks, Busy(t), Seen(t), Gained(tasks[t].wf), NEW P, Hop(t, P),
           tasks'[t].pc \notin {"finish", "replay", "sleeping"} =>
                \/ out'[tasks[t].wf][tasks[t].seq] = Unrecorded
                \/ tasks'[t].pc \in InTx /\ UnheardNext(tasks[t].wf, tasks[t].seq),
           tasks'[t].pc = "sleeping" => tasks'[t].deadline = OutcomeOf(out'[tasks[t].wf][tasks[t].seq]),
           tasks'[t].pc = "claim" => ~notes'[tasks'[t].pick].consumed
    PROVE  Sound(t)'
<1>1. tasks'[t].wf = tasks[t].wf /\ tasks'[t].seq = tasks[t].seq /\ tasks'[t].seen = tasks[t].seen
  BY DEF Hop
<1>2. Seen(t)'
  BY <1>1, StillSeen DEF Seen, Log
<1>3. Ahead(t)' /\ Asleep(t)'
  BY <1>1 DEF Ahead, Asleep, At, Log, Unheard, UnheardNext
<1>4. Unclaimed(t)'
  BY DEF Unclaimed
<1> QED
  BY <1>2, <1>3, <1>4 DEF Sound

\* The function sees at the task's position what is recorded there.
LEMMA NextSound ==
    ASSUME Types, NEW t \in Tasks, Busy(t), Seen(t), Gained(tasks[t].wf),
           tasks'[t].pc \in {"finish", "replay"}, tasks'[t].wf = tasks[t].wf,
           \A k \in Slots : \/ tasks'[t].seen[k] = tasks[t].seen[k]
                            \/ tasks'[t].seen[k] = OutcomeOf(out'[tasks[t].wf][k])
                            \/ effects'[tasks[t].wf][k].lost > 0
    PROVE  Sound(t)'
<1>1. Seen(t)'
  BY StillSeen DEF Seen, Log
<1>2. Ahead(t)' /\ Asleep(t)' /\ Unclaimed(t)'
  BY DEF Ahead, Asleep, Unclaimed
<1> QED
  BY <1>1, <1>2 DEF Sound

LEMMA WentSound ==
    ASSUME Types, NEW t \in Tasks, Busy(t), Seen(t), Gained(tasks[t].wf), NEW o, NEW n, NEW ip,
           Went(t, o, n, ip),
           n # 0 => \/ o = OutcomeOf(out'[tasks[t].wf][tasks[t].seq])
                    \/ effects'[tasks[t].wf][tasks[t].seq].lost > 0
    PROVE  Sound(t)'
<1>1. tasks'[t].pc \in {"finish", "replay"} /\ tasks'[t].wf = tasks[t].wf
  BY DEF Went
<1>2. \A k \in Slots : \/ tasks'[t].seen[k] = tasks[t].seen[k]
                       \/ tasks'[t].seen[k] = OutcomeOf(out'[tasks[t].wf][k])
                       \/ effects'[tasks[t].wf][k].lost > 0
  BY DEF Went
<1> QED
  BY <1>1, <1>2, NextSound

(***************************************************************************)
(* What a checkpoint does to the tables                                    *)
(***************************************************************************)
Books == Markers /\ Receipted /\ EffectsOnce

\* Entries that are neither receipts nor transactions, and are markers only if they are patches'.
Ordinary(e) ==
    /\ e.tag # "msg" /\ ~(e.name = "tx" /\ e.tag = "val")
    /\ PatchName(e.name) => OutcomeOf(e) = Marker
    /\ e.tag = "marker" => PatchName(e.name)

LEMMA SameBooks ==
    ASSUME Books, UNCHANGED <<sc, out, notes, effects>>
    PROVE  Books'
  BY DEF Books, Markers, PatchName, Receipted, IsReceipt, EffectsOnce

LEMMA MarkersWrote ==
    ASSUME Types, Markers, UNCHANGED sc, NEW w \in Ids, NEW k \in Slots, NEW e, Wrote(w, k, e),
           PatchName(e.name) => OutcomeOf(e) = Marker,
           e.tag = "marker" => PatchName(e.name)
    PROVE  Markers'
<1> SUFFICES ASSUME NEW x \in Ids, NEW j \in Slots
             PROVE  /\ PatchName(out'[x][j].name) => OutcomeOf(out'[x][j]) = Marker
                    /\ out'[x][j].tag = "marker" => PatchName(out'[x][j].name)
  BY DEF Markers, PatchName
<1>1. out'[x][j] = e \/ out'[x][j] = out[x][j]
  BY DEF Wrote
<1> QED
  BY <1>1 DEF Markers

LEMMA BooksWrote ==
    ASSUME Types, Books, UNCHANGED <<sc, notes, effects>>, NEW w \in Ids, NEW k \in Slots,
           NEW e, Ordinary(e), Wrote(w, k, e)
    PROVE  Books'
<1>1. Markers'
  BY MarkersWrote DEF Books, Ordinary
<1>2. \A x \in Ids, j \in Slots : \/ out'[x][j] = out[x][j]
                                  \/ out'[x][j] = e /\ out[x][j] = Unrecorded
  BY DEF Wrote
<1>3. Unrecorded.tag # "msg" /\ Unrecorded.tag # "val"
  BY DEF Unrecorded
<1>4. \A x \in Ids, j \in Slots :
        /\ \A i : IsReceipt(x, j, i)' <=> IsReceipt(x, j, i)
        /\ out'[x][j].tag = "msg" => out'[x][j] = out[x][j]
  BY <1>2, <1>3 DEF Ordinary, IsReceipt
<1>5. Receipted'
  BY <1>4 DEF Books, Receipted
<1>6. EffectsOnce'
  BY <1>2, <1>3 DEF Books, EffectsOnce, Ordinary
<1> QED
  BY <1>1, <1>5, <1>6 DEF Books

LEMMA BooksNoted ==
    ASSUME Types, Books, UNCHANGED <<sc, out, effects>>,
           NEW dest \in Ids, NEW topic \in Topics, NEW key \in Keys \cup {NoKey},
           notes' = Append(notes, Note(dest, topic, key))
    PROVE  Books' /\ \A i \in DOMAIN notes : i \in DOMAIN notes' /\ notes'[i] = notes[i]
<1> DEFINE n == Len(notes) + 1
<1>1. /\ DOMAIN notes' = DOMAIN notes \cup {n} /\ n \notin DOMAIN notes
      /\ \A i \in DOMAIN notes : notes'[i] = notes[i]
      /\ ~notes'[n].consumed
  BY AppendedNotes DEF Note
<1> HIDE DEF n
<1>2. \A i : \A w \in Ids, k \in Slots : IsReceipt(w, k, i)' <=> IsReceipt(w, k, i)
  BY DEF IsReceipt
<1>3. \A w \in Ids, k \in Slots : ~IsReceipt(w, k, n)
  BY <1>1 DEF Books, Receipted, IsReceipt
<1>4. Receipted'
  <2>1. \A w \in Ids, k \in Slots :
          out'[w][k].tag = "msg" => out'[w][k].val \in DOMAIN notes' /\ notes'[out'[w][k].val].consumed
    BY <1>1 DEF Books, Receipted
  <2>2. \A i \in DOMAIN notes' : notes'[i].consumed => \E w \in Ids, k \in Slots : IsReceipt(w, k, i)'
    BY <1>1, <1>2 DEF Books, Receipted
  <2>3. \A w, x \in Ids, k, j \in Slots, i \in DOMAIN notes' :
          IsReceipt(w, k, i)' /\ IsReceipt(x, j, i)' => w = x /\ k = j
    BY <1>1, <1>2, <1>3 DEF Books, Receipted
  <2> QED
    BY <2>1, <2>2, <2>3 DEF Receipted
<1> QED
  BY <1>1, <1>4 DEF Books, Markers, PatchName, EffectsOnce

\* consume_notification: the message that was claimed gets its receipt.
LEMMA BooksReceived ==
    ASSUME Types, Mail, Books, NEW t \in Tasks, Busy(t), Sound(t), RecvCommit(t)
    PROVE  Books' /\ Sound(t)' /\ Gained(tasks[t].wf)
<1> DEFINE w == tasks[t].wf
           k == tasks[t].seq
           p == tasks[t].pick
           e == Entry(CurOp(t).name, Outcome("msg", p))
<1>1. tasks[t].pc = "claim" /\ CurOp(t).op = "recv" /\ UNCHANGED <<sc, effects>>
      /\ notes' = MarkConsumed(notes, p) /\ Wrote(w, k, e)
      /\ Outcome("msg", p) \in OutcomeType
      /\ Went(t, Outcome("msg", p), SlotsOf(CurOp(t)), CurOp(t).next)
  BY RecvCommitIs DEF outside
<1>2. w \in Ids /\ k \in Slots /\ out[w][k] = Unrecorded /\ CurOp(t).name \in Names
      /\ ~PatchName(CurOp(t).name) /\ CurOp(t).name # "tx"
  BY <1>1, TaskFacts, OpNames DEF Sound, Ahead, PatchOps, InTx
<1>3. p \in DOMAIN notes /\ notes[p].dest = w /\ ~notes[p].consumed
  BY <1>1 DEF Mail, Claims, Sound, Unclaimed
<1>4. e.name = CurOp(t).name /\ e.tag = "msg" /\ e.val = p /\ OutcomeOf(e) = Outcome("msg", p)
  BY <1>1, <1>2, EntryOutcome DEF Outcome
<1>5. /\ DOMAIN notes' = DOMAIN notes /\ notes'[p].consumed
      /\ \A i \in DOMAIN notes : i # p => notes'[i].consumed = notes[i].consumed
  BY <1>1, <1>3, MarkedNotes
<1> HIDE DEF w, k, p, e
<1>6. out'[w][k] = e /\ \A x \in Ids, j \in Slots : (x # w \/ j # k) => out'[x][j] = out[x][j]
  BY <1>1, <1>2 DEF Wrote
<1>7. Gained(w)
  BY <1>1, <1>2, <1>3, <1>5, <1>6 DEF Gained
<1>8. Sound(t)'
  BY <1>1, <1>4, <1>6, <1>7, WentSound DEF Sound, w, k
<1>9. Markers'
  BY <1>1, <1>2, <1>4, MarkersWrote DEF Books
<1>10. EffectsOnce'
  <2> SUFFICES ASSUME NEW x \in Ids, NEW j \in Slots
               PROVE  IF out'[x][j].name = "tx" /\ out'[x][j].tag = "val"
                        THEN effects[x][j].done \in 1..(1 + effects[x][j].lost)
                        ELSE effects[x][j].done = 0
    BY <1>1 DEF EffectsOnce
  <2>1. IF out[x][j].name = "tx" /\ out[x][j].tag = "val"
          THEN effects[x][j].done \in 1..(1 + effects[x][j].lost)
          ELSE effects[x][j].done = 0
    BY DEF Books, EffectsOnce
  <2>2. CASE x = w /\ j = k
    BY <1>2, <1>4, <1>6, <2>1, <2>2 DEF Unrecorded
  <2>3. CASE x # w \/ j # k
    BY <1>6, <2>1, <2>3
  <2> QED
    BY <2>2, <2>3
<1>11. Receipted'
  <2>1. Unrecorded.tag # "msg"
    BY DEF Unrecorded
  <2>2. \A x \in Ids, j \in Slots : ~IsReceipt(x, j, p)
    BY <1>3 DEF Books, Receipted, IsReceipt
  <2>3. \A i : \A x \in Ids, j \in Slots :
          IsReceipt(x, j, i)' <=> (IsReceipt(x, j, i) \/ (x = w /\ j = k /\ i = p))
    BY <1>2, <1>4, <1>6, <2>1 DEF IsReceipt
  <2>4. \A x \in Ids, j \in Slots :
          out'[x][j].tag = "msg" => out'[x][j].val \in DOMAIN notes' /\ notes'[out'[x][j].val].consumed
    BY <1>3, <1>4, <1>5, <1>6 DEF Books, Receipted
  <2>5. \A i \in DOMAIN notes' : notes'[i].consumed => \E x \in Ids, j \in Slots : IsReceipt(x, j, i)'
    BY <1>2, <1>5, <2>3 DEF Books, Receipted
  <2>6. \A x, y \in Ids, j, l \in Slots, i \in DOMAIN notes' :
          IsReceipt(x, j, i)' /\ IsReceipt(y, l, i)' => x = y /\ j = l
    BY <1>5, <2>2, <2>3 DEF Books, Receipted
  <2> QED
    BY <2>4, <2>5, <2>6 DEF Receipted
<1> QED
  BY <1>7, <1>8, <1>9, <1>10, <1>11 DEF Books, w

\* run_transaction_step: the body takes effect together with its checkpoint, for the first time
\* or after commits whose answers were lost.
LEMMA BooksCounted ==
    ASSUME Types, Books, NEW w \in Ids, NEW k \in Slots, NEW n \in {0, 1}, UNCHANGED <<sc, notes>>,
           NEW e, e.name = "tx", e.tag = "val", ~PatchName("tx"), Wrote(w, k, e), Counted(w, k, n),
           out[w][k] = Unrecorded \/ Unheard(w, k)
    PROVE  /\ Books' /\ Gained(w)
           /\ out'[w][k] = e \/ effects'[w][k].lost > 0
           /\ n = 1 => UnheardNext(w, k)
<1>1. /\ out'[w][k] = IF out[w][k] = Unrecorded THEN e ELSE out[w][k]
      /\ \A x \in Ids, j \in Slots : (x # w \/ j # k) => out'[x][j] = out[x][j]
  BY DEF Wrote
<1>2. effects[w][k] \in EffectType
  BY DEF Types, TypeOK
<1>3. effects[w][k].done \in Nat /\ effects[w][k].lost \in Nat
  BY <1>2 DEF EffectType
<1>4. \A x \in Ids, j \in Slots : (x # w \/ j # k) => effects'[x][j] = effects[x][j]
  BY DEF Counted
<1>a. effects'[w][k] = [done |-> effects[w][k].done + 1, lost |-> effects[w][k].lost + n]
  BY DEF Counted
<1>5. effects'[w][k].done = effects[w][k].done + 1 /\ effects'[w][k].lost = effects[w][k].lost + n
  BY <1>a
<1>6. out[w][k] = Unrecorded => effects[w][k].done = 0
  BY DEF Books, EffectsOnce, Unrecorded
<1>7. Unheard(w, k) => effects[w][k].done \in 1..effects[w][k].lost /\ effects[w][k].lost > 0
  BY <1>3 DEF Books, EffectsOnce, Unheard
<1>8. out'[w][k].name = "tx" /\ out'[w][k].tag = "val"
  BY <1>1 DEF Unheard
<1>9. effects'[w][k].done \in 1..(1 + effects'[w][k].lost)
  BY <1>3, <1>5, <1>6, <1>7
<1>10. EffectsOnce'
  BY <1>1, <1>4, <1>8, <1>9 DEF Books, EffectsOnce
<1>11. Gained(w)
  BY <1>1, <1>3, <1>4, <1>5 DEF Gained
<1>12. Markers'
  BY MarkersWrote, Zenon DEF Books
<1>13. Receipted'
  <2>1. \A x \in Ids, j \in Slots :
          /\ \A i : IsReceipt(x, j, i)' <=> IsReceipt(x, j, i)
          /\ out'[x][j].tag = "msg" => out'[x][j] = out[x][j]
    BY <1>1 DEF IsReceipt, Unrecorded
  <2> QED
    BY <2>1 DEF Books, Receipted
<1>14. out'[w][k] = e \/ effects'[w][k].lost > 0
  BY <1>1, <1>3, <1>5, <1>7
<1>15. n = 1 => UnheardNext(w, k)
  BY <1>3, <1>5, <1>6, <1>7, <1>8 DEF UnheardNext
<1> QED
  BY <1>10, <1>11, <1>12, <1>13, <1>14, <1>15 DEF Books

LEMMA InBody ==
    ASSUME Types, NEW t \in Tasks, Busy(t), Sound(t), tasks[t].pc \in InTx, CurOp(t).op = "tx"
    PROVE  /\ tasks[t].wf \in Ids /\ tasks[t].seq \in Slots
           /\ CurOp(t).name = "tx" /\ "tx" \in Names /\ ~PatchName("tx")
           /\ out[tasks[t].wf][tasks[t].seq] = Unrecorded \/ Unheard(tasks[t].wf, tasks[t].seq)
  BY TaskFacts, OpNames DEF Sound, Ahead, PatchOps, InTx

LEMMA BooksCommitted ==
    ASSUME Types, Books, NEW t \in Tasks, Busy(t), Sound(t), TxCommit(t)
    PROVE  Books' /\ Sound(t)' /\ Gained(tasks[t].wf)
<1>1. tasks[t].pc = "body" /\ CurOp(t).op = "tx" /\ UNCHANGED <<sc, notes>>
      /\ Counted(tasks[t].wf, tasks[t].seq, 0)
  BY TxCommitIs DEF outside
<1>2. PICK o \in OutcomeType :
        /\ o.tag = "val" /\ Wrote(tasks[t].wf, tasks[t].seq, Entry(CurOp(t).name, o))
        /\ Went(t, o, SlotsOf(CurOp(t)), CurOp(t).next)
  BY TxCommitIs
<1> DEFINE e == Entry("tx", o)
<1>3. /\ tasks[t].wf \in Ids /\ tasks[t].seq \in Slots /\ CurOp(t).name = "tx" /\ "tx" \in Names
      /\ ~PatchName("tx")
      /\ out[tasks[t].wf][tasks[t].seq] = Unrecorded \/ Unheard(tasks[t].wf, tasks[t].seq)
  BY <1>1, InBody DEF InTx
<1>4. e.name = "tx" /\ e.tag = "val" /\ OutcomeOf(e) = o
  BY <1>2, <1>3, EntryOutcome
<1>5. Wrote(tasks[t].wf, tasks[t].seq, e)
  BY <1>2, <1>3
<1> HIDE DEF e
<1>6. /\ Books' /\ Gained(tasks[t].wf)
      /\ out'[tasks[t].wf][tasks[t].seq] = e \/ effects'[tasks[t].wf][tasks[t].seq].lost > 0
  BY <1>1, <1>3, <1>4, <1>5, BooksCounted
<1>7. Sound(t)'
  BY <1>2, <1>4, <1>6, WentSound DEF Sound
<1> QED
  BY <1>6, <1>7

LEMMA BooksRepeated ==
    ASSUME Types, Books, NEW t \in Tasks, Busy(t), Sound(t), TxCommitLost(t)
    PROVE  Books' /\ Sound(t)' /\ Gained(tasks[t].wf)
<1>1. tasks[t].pc = "body" /\ CurOp(t).op = "tx" /\ UNCHANGED <<sc, notes>>
      /\ Counted(tasks[t].wf, tasks[t].seq, 1) /\ Hop(t, {"retry"})
  BY TxCommitLostIs DEF outside
<1>2. PICK o \in OutcomeType : o.tag = "val" /\ Wrote(tasks[t].wf, tasks[t].seq, Entry(CurOp(t).name, o))
  BY TxCommitLostIs
<1> DEFINE e == Entry("tx", o)
<1>3. /\ tasks[t].wf \in Ids /\ tasks[t].seq \in Slots /\ CurOp(t).name = "tx" /\ "tx" \in Names
      /\ ~PatchName("tx")
      /\ out[tasks[t].wf][tasks[t].seq] = Unrecorded \/ Unheard(tasks[t].wf, tasks[t].seq)
  BY <1>1, InBody DEF InTx
<1>4. e.name = "tx" /\ e.tag = "val"
  BY <1>2, <1>3, EntryOutcome
<1>5. Wrote(tasks[t].wf, tasks[t].seq, e)
  BY <1>2, <1>3
<1> HIDE DEF e
<1>6. Books' /\ Gained(tasks[t].wf) /\ UnheardNext(tasks[t].wf, tasks[t].seq)
  BY <1>1, <1>3, <1>4, <1>5, BooksCounted
<1>7. tasks'[t].pc = "retry"
  BY <1>1 DEF Hop
<1>8. Sound(t)'
  BY <1>1, <1>6, <1>7, HopSound DEF Sound, InTx
<1> QED
  BY <1>6, <1>8

\* What holds after a step of t's own.
Kept(t) == Books' /\ Sound(t)' /\ Others(t) /\ Gained(tasks[t].wf)

LEMMA StillGained ==
    ASSUME Books, UNCHANGED <<sc, out, notes, effects>>
    PROVE  Books' /\ \A w \in Ids : Gained(w)
  BY SameBooks DEF Gained

\* A lookup goes past the checkpoint only if there is none.
LEMMA LookupSound ==
    ASSUME Types, Books, Deterministic, NEW t \in Tasks, Sound(t),
           \/ ReplayHit(t) \/ ReplayMiss(t) \/ ChildLookup(t) \/ PatchLookup(t)
           \/ deprecate_patch(t) \/ AwaitChild(t)
    PROVE  Kept(t)
<1>1. tasks[t].pc = "replay" /\ Still
  BY ReplayHitIs, ReplayMissIs, ChildLookupIs, PatchIs, AwaitChildIs
<1>2. tasks[t].wf \in Ids /\ tasks[t].seq \in Slots /\ At(t) = out[tasks[t].wf][tasks[t].seq]
      /\ Busy(t) /\ Seen(t) /\ UNCHANGED <<sc, out, notes, effects>>
  BY <1>1, TaskFacts DEF Busy, Sound, Still, outside
<1>3. Books' /\ Gained(tasks[t].wf)
  BY <1>2, StillGained
<1> SUFFICES Sound(t)' /\ Others(t)
  BY <1>3 DEF Kept
<1>4. At(t)' = At(t) => out'[tasks[t].wf][tasks[t].seq] = At(t)
  BY <1>2
<1>5. ASSUME NEW P, Hop(t, P), P \cap {"claim", "sleeping"} = {}, At(t) = Unrecorded \/ P = {"finish"}
      PROVE  Sound(t)' /\ Others(t)
  <2>1. tasks'[t].pc \in P
    BY <1>5 DEF Hop
  <2> QED
    BY <1>2, <1>3, <1>5, <2>1, HopSound DEF Hop
<1>6. ASSUME NEW n, NEW ip, Went(t, OutcomeOf(At(t)), n, ip) \/ (n = 0 /\ Went(t, NoOutcome, n, ip))
      PROVE  Sound(t)' /\ Others(t)
  <2>1. CASE Went(t, OutcomeOf(At(t)), n, ip)
    BY <1>2, <1>3, <2>1, WentSound DEF Went
  <2>2. CASE n = 0 /\ Went(t, NoOutcome, n, ip)
    BY <1>2, <1>3, <2>2, WentSound DEF Went
  <2> QED
    BY <1>6, <2>1, <2>2
<1>7. CASE ReplayHit(t)
  <2>1. CASE Hop(t, {"finish"})
    BY <1>5, <2>1
  <2>2. CASE Hop(t, {"sleeping"}) /\ tasks'[t].deadline = OutcomeOf(At(t))
    <3>1. tasks'[t].pc = "sleeping"
      BY <2>2 DEF Hop
    <3> QED
      BY <1>2, <1>3, <2>2, <3>1, HopSound DEF Hop
  <2>3. CASE Went(t, OutcomeOf(At(t)), SlotsOf(CurOp(t)), CurOp(t).next)
    BY <1>6, <2>3
  <2> QED
    BY <1>7, <2>1, <2>2, <2>3, ReplayHitIs
<1>8. CASE ReplayMiss(t)
  <2>1. /\ CurOp(t).op \notin HasOwnLookup /\ Hop(t, {"fix", "body", "act", "guard"})
        /\ ~IsRecorded(At(t)) \/ At(t).tag = "marker"
    BY <1>8, ReplayMissIs
  <2>2. CurOp(t).op \notin PatchOps \cup {"await"}
    BY <2>1 DEF HasOwnLookup, PatchOps
  <2>3. ~PatchName(CurOp(t).name)
    BY <1>1, <2>2, OpNames
  <2>4. IsRecorded(At(t)) => At(t).name = CurOp(t).name
    BY <1>1, <2>2 DEF Deterministic
  <2>5. At(t).tag = "marker" => PatchName(At(t).name)
    BY <1>2 DEF Books, Markers
  <2>6. At(t) = Unrecorded
    BY <2>1, <2>3, <2>4, <2>5 DEF IsRecorded
  <2> QED
    BY <1>5, <2>1, <2>6
<1>9. CASE ChildLookup(t)
  <2>1. CASE Hop(t, {"spawn"}) /\ At(t).tag # "child" /\ CurOp(t).op = "child"
    <3>1. At(t) = Unrecorded
      BY <1>1, <2>1 DEF Deterministic, PatchOps, IsRecorded
    <3> QED
      BY <1>5, <2>1, <3>1
  <2>2. CASE Went(t, OutcomeOf(At(t)), SlotsOf(CurOp(t)), CurOp(t).next)
    BY <1>6, <2>2
  <2>3. CASE Hop(t, {"finish"})
    BY <1>5, <2>3
  <2> QED
    BY <1>9, <2>1, <2>2, <2>3, ChildLookupIs
<1>10. CASE PatchLookup(t) \/ deprecate_patch(t)
  <2>1. CASE Hop(t, {"mark"}) /\ ~IsRecorded(At(t))
    BY <1>5, <2>1 DEF IsRecorded
  <2>2. CASE Went(t, Marker, 1, CurOp(t).next) /\ At(t).name = CurOp(t).name /\ CurOp(t).op \in PatchOps
    <3>1. PatchName(CurOp(t).name)
      BY <1>1, <2>2, OpNames
    <3>2. OutcomeOf(At(t)) = Marker
      BY <1>2, <2>2, <3>1 DEF Books, Markers
    <3> QED
      BY <1>6, <2>2, <3>2
  <2>3. CASE Went(t, NoOutcome, 0, CurOp(t).old) \/ Went(t, NoOutcome, 0, CurOp(t).next)
    BY <1>6, <2>3
  <2> QED
    BY <1>10, <2>1, <2>2, <2>3, PatchIs
<1>11. CASE AwaitChild(t)
  <2>1. CASE Hop(t, {"finish"})
    BY <1>5, <2>1
  <2>2. CASE Went(t, NoOutcome, 0, CurOp(t).next)
    BY <1>6, <2>2
  <2> QED
    BY <1>11, <2>1, <2>2, AwaitChildIs
<1> QED
  BY <1>7, <1>8, <1>9, <1>10, <1>11

\* The statements between the lookup and the checkpoint.
LEMMA HopsSound ==
    ASSUME Types, Books, NEW t \in Tasks, Sound(t),
           \/ Guard(t) \/ Produce(t) \/ Subscribe(t) \/ WakeUp(t) \/ SetEvent(t)
           \/ conflict_retry_wait(t) \/ TxConflict(t) \/ TxBodyFails(t)
           \/ GetEvent(t) \/ RecvSelect(t) \/ StreamCheck(t) \/ StreamAppend(t)
           \/ DeadlineKnown(t) \/ Sleep(t) \/ Send(t)
    PROVE  Kept(t)
<1>1. ASSUME tasks[t].pc \notin {"idle", "finish", "replay", "sleeping"},
             UNCHANGED <<sc, out, effects>>, Books', Gained(tasks[t].wf), NEW P, Hop(t, P),
             "sleeping" \notin P, tasks'[t].pc = "claim" => ~notes'[tasks'[t].pick].consumed,
             tasks[t].pc \in InTx => P \subseteq InTx \cup {"finish"}
      PROVE  Kept(t)
  <2>1. /\ At(t) = out'[tasks[t].wf][tasks[t].seq] /\ Busy(t) /\ Seen(t)
        /\ \/ At(t) = Unrecorded
           \/ tasks[t].pc \in InTx /\ UnheardNext(tasks[t].wf, tasks[t].seq)
    BY <1>1, TaskFacts DEF Sound, Busy, Ahead, Unheard, UnheardNext
  <2>2. tasks'[t].pc # "sleeping" /\ (tasks[t].pc \in InTx => tasks'[t].pc \in InTx \cup {"finish"})
    BY <1>1 DEF Hop
  <2>3. Sound(t)'
    BY <1>1, <2>1, <2>2, HopSound
  <2> QED
    BY <1>1, <2>3 DEF Kept, Hop
<1>2. ASSUME tasks[t].pc \notin {"idle", "finish", "replay", "sleeping"}, Still,
             NEW P, Hop(t, P), P \cap {"sleeping", "claim"} = {},
             tasks[t].pc \in InTx => P \subseteq InTx \cup {"finish"}
      PROVE  Kept(t)
  <2>1. UNCHANGED <<sc, out, notes, effects>> /\ tasks[t].wf \in Ids
    BY <1>2, TaskFacts DEF Still, outside
  <2>2. Books' /\ Gained(tasks[t].wf)
    BY <2>1, StillGained
  <2>3. tasks'[t].pc # "claim" /\ "sleeping" \notin P
    BY <1>2 DEF Hop
  <2> QED
    BY <1>1, <1>2, <2>1, <2>2, <2>3
<1>3. CASE Guard(t) \/ Produce(t) \/ Subscribe(t) \/ WakeUp(t) \/ SetEvent(t)
  <2>1. /\ tasks[t].pc \notin {"idle", "finish", "replay", "sleeping"} /\ Still
        /\ Hop(t, {"finish", "act"}) \/ Hop(t, {"record"}) \/ Hop(t, {"wait"}) \/ Hop(t, {"act"})
        /\ tasks[t].pc \notin InTx
    BY <1>3, PlainHops DEF InTx
  <2> QED
    BY <1>2, <2>1
<1>4. CASE conflict_retry_wait(t) \/ TxConflict(t) \/ TxBodyFails(t)
  <2>1. /\ tasks[t].pc \notin {"idle", "finish", "replay", "sleeping"} /\ Still
        /\ Hop(t, {"finish", "body"}) \/ Hop(t, {"retry"}) \/ Hop(t, {"body", "giveup"})
    BY <1>4, TxHops
  <2> QED
    BY <1>2, <2>1 DEF InTx
<1>5. CASE GetEvent(t) \/ DeadlineKnown(t) \/ StreamCheck(t)
  <2>1. /\ tasks[t].pc \notin {"idle", "finish", "replay", "sleeping"} /\ Still
        /\ \/ Hop(t, {"record"}) \/ Hop(t, {"deadline", "expire", "subscribe"})
           \/ Hop(t, {"fix"}) \/ Hop(t, {"expire", "subscribe"}) \/ Hop(t, {"finish"})
           \/ Hop(t, {"append"})
        /\ tasks[t].pc \notin InTx
    BY <1>5, GetEventIs, DeadlineKnownIs, StreamCheckIs DEF InTx
  <2> QED
    BY <1>2, <2>1
<1>6. CASE RecvSelect(t)
  <2>1. tasks[t].pc = "act" /\ Still /\ tasks[t].pc \notin InTx
    BY <1>6, RecvSelectIs DEF InTx
  <2>2. CASE Hop(t, {"deadline", "expire", "subscribe"})
    BY <1>2, <2>1, <2>2
  <2>3. CASE Hop(t, {"claim"}) /\ tasks'[t].pick \in OldestEntry(notes, tasks[t].wf, CurOp(t).topic)
    <3>1. ~notes[tasks'[t].pick].consumed
      BY <2>3 DEF OldestEntry, Unconsumed
    <3>2. UNCHANGED <<sc, out, notes, effects>> /\ tasks[t].wf \in Ids
      BY <2>1, TaskFacts DEF Still, outside
    <3>3. Books' /\ Gained(tasks[t].wf)
      BY <3>2, StillGained
    <3> QED
      BY <1>1, <2>1, <2>3, <3>1, <3>2, <3>3
  <2> QED
    BY <1>6, <2>2, <2>3, RecvSelectIs
<1>7. CASE StreamAppend(t)
  <2>1. /\ tasks[t].pc = "append" /\ UNCHANGED <<sc, out, notes, effects>>
        /\ Hop(t, {"finish"}) \/ Hop(t, {"record"})
        /\ tasks[t].pc \notin InTx
    BY <1>7, StreamAppendIs DEF outside, InTx
  <2>2. tasks[t].wf \in Ids
    BY <2>1, TaskFacts
  <2>3. Books' /\ Gained(tasks[t].wf)
    BY <2>1, <2>2, StillGained
  <2>4. tasks'[t].pc # "claim"
    BY <2>1 DEF Hop
  <2> QED
    BY <1>1, <2>1, <2>3, <2>4
<1>8. CASE Sleep(t)
  <2>1. /\ tasks[t].pc = "sleeping" /\ UNCHANGED <<sc, out, notes, effects>>
        /\ Went(t, tasks[t].deadline, SlotsOf(CurOp(t)), CurOp(t).next)
    BY <1>8, SleepIs DEF Still, outside
  <2>2. tasks[t].wf \in Ids /\ Busy(t) /\ Seen(t) /\ tasks[t].deadline = OutcomeOf(At(t))
        /\ At(t) = out'[tasks[t].wf][tasks[t].seq]
    BY <2>1, TaskFacts DEF Sound, Busy, Asleep
  <2>3. Books' /\ Gained(tasks[t].wf)
    BY <2>1, <2>2, StillGained
  <2>4. Sound(t)'
    BY <2>1, <2>2, <2>3, WentSound
  <2> QED
    BY <2>1, <2>3, <2>4 DEF Kept, Went
<1>9. CASE Send(t)
  <2>1. tasks[t].pc = "act" /\ UNCHANGED <<sc, out, effects>> /\ CurOp(t) \in Operation
        /\ tasks[t].pc \notin InTx
    BY <1>9, SendIs DEF outside, InTx
  <2>2. tasks[t].wf \in Ids
    BY <2>1, TaskFacts
  <2>3. CASE Hop(t, {"finish"}) /\ notes' = notes
    <3>1. Books' /\ Gained(tasks[t].wf) /\ tasks'[t].pc # "claim"
      BY <2>1, <2>2, <2>3, StillGained DEF Hop
    <3> QED
      BY <1>1, <2>1, <2>3, <3>1
  <2>4. CASE Hop(t, {"record"}) /\ notes' = Append(notes, Note(CurOp(t).to, CurOp(t).topic, NoKey))
    <3>1. CurOp(t).to \in Ids /\ CurOp(t).topic \in Topics /\ NoKey \in Keys \cup {NoKey}
      BY <2>1 DEF Operation
    <3>2. Books' /\ \A i \in DOMAIN notes : i \in DOMAIN notes' /\ notes'[i] = notes[i]
      BY <2>1, <2>4, <3>1, BooksNoted
    <3>3. Gained(tasks[t].wf) /\ tasks'[t].pc # "claim"
      BY <2>1, <2>4, <3>2 DEF Gained, Hop
    <3> QED
      BY <1>1, <2>1, <2>4, <3>2, <3>3
  <2> QED
    BY <1>9, <2>3, <2>4, SendIs
<1> QED
  BY <1>3, <1>4, <1>5, <1>6, <1>7, <1>8, <1>9

\* Checkpoints.
LEMMA CheckpointSound ==
    ASSUME Types, Books, NEW t \in Tasks, Sound(t),
           \/ RecordOutcome(t) \/ Expire(t) \/ TxGiveUp(t) \/ Link(t) \/ PatchMark(t) \/ FixDeadline(t)
    PROVE  Kept(t)
<1> DEFINE w == tasks[t].wf
           k == tasks[t].seq
<1>1. tasks[t].pc \in {"record", "expire", "giveup", "link", "mark", "fix"} /\ LogOnly
  BY RecordOutcomeIs, ExpireIs, TxGiveUpIs, LinkIs, PatchMarkIs, FixDeadlineIs
<1>2. /\ w \in Ids /\ k \in Slots /\ CurOp(t).name \in Names /\ Busy(t) /\ Seen(t)
      /\ out[w][k] = Unrecorded \/ (tasks[t].pc = "giveup" /\ Unheard(w, k))
      /\ UNCHANGED <<sc, notes, effects>>
  BY <1>1, TaskFacts, OpNames DEF Sound, Ahead, Busy, LogOnly, outside, InTx
<1>3. ASSUME NEW j \in Slots, NEW e, Wrote(w, j, e), Ordinary(e) PROVE Books' /\ Gained(w)
  BY <1>2, <1>3, BooksWrote DEF Wrote, Gained
<1>4. ASSUME NEW o \in OutcomeType, Wrote(w, k, Entry(CurOp(t).name, o)), out[w][k] = Unrecorded
      PROVE  OutcomeOf(out'[w][k]) = o
  BY <1>2, <1>4, EntryOutcome DEF Wrote
<1>5. ASSUME NEW o \in OutcomeType, o.tag \notin {"msg", "marker"},
             CurOp(t).op \notin PatchOps, CurOp(t).op = "tx" => o.tag # "val"
      PROVE  Ordinary(Entry(CurOp(t).name, o))
  <2>1. ~PatchName(CurOp(t).name) /\ (CurOp(t).name = "tx" => CurOp(t).op = "tx")
    BY <1>1, <1>5, OpNames
  <2> QED
    BY <1>2, <1>5, <2>1, EntryOutcome DEF Ordinary
<1>6. ASSUME NEW o, NEW n, NEW ip, Went(t, o, n, ip), Books', Gained(w), o = OutcomeOf(out'[w][k])
      PROVE  Kept(t)
  <2>1. Sound(t)'
    BY <1>2, <1>6, WentSound
  <2> QED
    BY <1>6, <2>1 DEF Kept, Went
<1>7. ASSUME Hop(t, {"finish"}), Books', Gained(w) PROVE Kept(t)
  <2>1. tasks'[t].pc = "finish"
    BY <1>7 DEF Hop
  <2>2. Sound(t)'
    BY <1>2, <1>7, <2>1, HopSound
  <2> QED
    BY <1>7, <2>2 DEF Kept, Hop
<1>o. Outcome("child", 0) \in OutcomeType /\ Outcome("child", 0).tag = "child"
      /\ Null.tag = "null" /\ Failed.tag = "fail" /\ Marker.tag = "marker"
  BY OutcomeTypes DEF Outcome, Tags, Null, Failed, Marker
<1>8. CASE RecordOutcome(t)
  <2>1. /\ CurOp(t).op \in Recorded /\ tasks[t].got \in OutcomeType /\ tasks[t].got.tag \in {"val", "null"}
        /\ Wrote(w, k, Entry(CurOp(t).name, tasks[t].got))
        /\ \/ Hop(t, {"finish"})
           \/ Went(t, OutcomeOf(out'[w][k]), SlotsOf(CurOp(t)), CurOp(t).next)
    BY <1>8, RecordOutcomeIs
  <2>2. Ordinary(Entry(CurOp(t).name, tasks[t].got))
    BY <1>5, <2>1 DEF Recorded, PatchOps, StreamOps
  <2>3. Books' /\ Gained(w)
    BY <1>2, <1>3, <2>1, <2>2
  <2> QED
    BY <1>6, <1>7, <2>1, <2>3
<1>9. CASE Expire(t)
  <2>1. /\ CurOp(t).op \in Waiting /\ Wrote(w, k, Entry(CurOp(t).name, Null))
        /\ Went(t, Null, SlotsOf(CurOp(t)), CurOp(t).next) /\ out[w][k] = Unrecorded
    BY <1>2, <1>9, ExpireIs
  <2>2. Ordinary(Entry(CurOp(t).name, Null))
    BY <1>5, <1>o, <2>1, OutcomeTypes DEF Waiting, PatchOps
  <2>3. Books' /\ Gained(w) /\ OutcomeOf(out'[w][k]) = Null
    BY <1>2, <1>3, <1>4, <2>1, <2>2, OutcomeTypes
  <2> QED
    BY <1>6, <2>1, <2>3
<1>10. CASE TxGiveUp(t)
  <2>1. /\ CurOp(t).op = "tx" /\ Wrote(w, k, Entry(CurOp(t).name, Failed))
        /\ Others(t) /\ tasks'[t].pc = "finish" /\ tasks'[t].wf = tasks[t].wf
        /\ \A j \in Slots : /\ j = k => tasks'[t].seen[j] = Failed
                            /\ j # k => tasks'[t].seen[j] = tasks[t].seen[j]
    BY <1>10, TxGiveUpIs
  <2>2. Ordinary(Entry(CurOp(t).name, Failed))
    BY <1>5, <1>o, <2>1, OutcomeTypes DEF PatchOps
  <2>3. Books' /\ Gained(w) /\ (out[w][k] = Unrecorded => OutcomeOf(out'[w][k]) = Failed)
    BY <1>2, <1>3, <1>4, <2>1, <2>2, OutcomeTypes
  <2>5. Unheard(w, k) => effects'[w][k].lost > 0
    <3>1. effects[w][k] \in EffectType
      BY <1>2 DEF Types, TypeOK
    <3> QED
      BY <1>2, <3>1 DEF Books, EffectsOnce, Unheard, EffectType
  <2>4. Sound(t)'
    BY <1>2, <2>1, <2>3, <2>5, NextSound
  <2> QED
    BY <2>1, <2>3, <2>4 DEF Kept
<1>11. CASE Link(t)
  <2>1. /\ CurOp(t).op = "child" /\ Wrote(w, k, Entry(CurOp(t).name, Outcome("child", 0)))
        /\ Went(t, Outcome("child", 0), SlotsOf(CurOp(t)), CurOp(t).next)
        /\ out[w][k] = Unrecorded
    BY <1>2, <1>11, LinkIs
  <2>2. Ordinary(Entry(CurOp(t).name, Outcome("child", 0)))
    BY <1>5, <1>o, <2>1 DEF PatchOps
  <2>3. Books' /\ Gained(w) /\ OutcomeOf(out'[w][k]) = Outcome("child", 0)
    BY <1>2, <1>3, <1>4, <1>o, <2>1, <2>2
  <2> QED
    BY <1>6, <2>1, <2>3
<1>12. CASE PatchMark(t)
  <2>1. /\ CurOp(t).op = "patch" /\ Wrote(w, k, Entry(CurOp(t).name, Marker))
        /\ Went(t, Marker, 1, CurOp(t).next) /\ out[w][k] = Unrecorded
    BY <1>2, <1>12, PatchMarkIs
  <2>2. PatchName(CurOp(t).name) /\ CurOp(t).name # "tx"
    BY <1>1, <2>1, OpNames DEF PatchOps
  <2>3. Ordinary(Entry(CurOp(t).name, Marker))
    BY <1>2, <1>o, <2>2, EntryOutcome, OutcomeTypes DEF Ordinary
  <2>4. Books' /\ Gained(w) /\ OutcomeOf(out'[w][k]) = Marker
    BY <1>2, <1>3, <1>4, <2>1, <2>3, OutcomeTypes
  <2> QED
    BY <1>6, <2>1, <2>4
<1>13. CASE FixDeadline(t)
  <2> DEFINE o == Outcome("time", now + CurOp(t).wait)
             j == DeadlineSlot(t)
  <2>1. /\ j \in Slots /\ o \in OutcomeType /\ Wrote(w, j, Entry("sleep", o))
        /\ \/ Hop(t, {"finish"})
           \/ CurOp(t).op = "sleep" /\ Hop(t, {"sleeping"}) /\ tasks'[t].deadline = OutcomeOf(out'[w][k])
           \/ CurOp(t).op \in Waiting /\ Hop(t, {"expire", "subscribe"})
        /\ out[w][k] = Unrecorded
    BY <1>2, <1>13, FixDeadlineIs
  <2>2. CurOp(t).op \in Waiting => j # k
    BY <1>2 DEF DeadlineSlot, Waiting, Slots
  <2>3. o.tag = "time"
    BY DEF Outcome
  <2> HIDE DEF o, j
  <2>4. Ordinary(Entry("sleep", o))
    BY <2>1, <2>3, OpNames, EntryOutcome, OperationsAssumption DEF Ordinary
  <2>5. Books' /\ Gained(w)
    BY <1>3, <2>1, <2>4
  <2>6. CASE Hop(t, {"finish"})
    BY <1>7, <2>5, <2>6
  <2>7. CASE Hop(t, {"sleeping"}) /\ tasks'[t].deadline = OutcomeOf(out'[w][k])
    <3>1. tasks'[t].pc = "sleeping"
      BY <2>7 DEF Hop
    <3>2. Sound(t)'
      BY <1>2, <2>5, <2>7, <3>1, HopSound
    <3> QED
      BY <2>5, <2>7, <3>2 DEF Kept, Hop
  <2>8. CASE CurOp(t).op \in Waiting /\ Hop(t, {"expire", "subscribe"})
    <3>1. tasks'[t].pc \in {"expire", "subscribe"}
      BY <2>8 DEF Hop
    <3>2. out'[w][k] = Unrecorded
      BY <1>2, <2>1, <2>2, <2>8 DEF Wrote
    <3>3. Sound(t)'
      BY <1>2, <2>5, <2>8, <3>1, <3>2, HopSound
    <3> QED
      BY <2>5, <2>8, <3>3 DEF Kept, Hop
  <2> QED
    BY <2>1, <2>6, <2>7, <2>8
<1> QED
  BY <1>8, <1>9, <1>10, <1>11, <1>12, <1>13

(***************************************************************************)
(* Steps that are not a statement of a function.  To each task they do one *)
(* of these.                                                               *)
(***************************************************************************)
\* It begins.
Fresh(u) ==
    /\ tasks'[u].pc \in {"replay", "finish"}
    /\ tasks'[u].pc = "finish" => tasks'[u].res = "SUCCESS"
    /\ tasks'[u].wf \in Ids /\ tasks'[u].version = version /\ tasks'[u].seq = 0 /\ tasks'[u].ip = 1
    /\ tasks'[u].pc = "replay" => 1 \in DOMAIN sc.code[version][tasks'[u].wf]
    /\ \A k \in Slots : tasks'[u].seen[k] = NoOutcome

\* It is woken up, or goes from creating a child to linking it.
Pushed(u) ==
    /\ <<tasks[u].pc, tasks'[u].pc>> \in {<<"wait", "act">>, <<"spawn", "link">>}
    /\ tasks'[u].wf = tasks[u].wf /\ tasks'[u].version = tasks[u].version
    /\ tasks'[u].ip = tasks[u].ip /\ tasks'[u].seq = tasks[u].seq /\ tasks'[u].seen = tasks[u].seen

Calm(u) == tasks'[u] = tasks[u] \/ tasks'[u].pc = "idle" \/ Fresh(u) \/ Pushed(u)

LEMMA SpawnCalm ==
    ASSUME Types, NEW t \in Tasks, NEW w \in Ids, Spawn(t, w)
    PROVE  /\ \A u \in Tasks : Calm(u)
           /\ tasks[t].pc = "idle" /\ Others(t) /\ Fresh(t) /\ tasks'[t].wf = w
<1>1. Others(t) /\ Fresh(t) /\ tasks'[t].wf = w /\ tasks[t].pc = "idle"
  BY SpawnIs DEF Fresh
<1> QED
  BY <1>1 DEF Calm, Others

LEMMA ChildFresh ==
    ASSUME Types, NEW t \in Tasks, NEW c \in Tasks, c # t, spawn_child(t, c)
    PROVE  Fresh(c) /\ tasks'[c].wf = CurOp(t).to
<1> DEFINE x == CurOp(t).to
           a == [tasks[t] EXCEPT !.pc = "link"]
           b == NewTask(x)
<1>1. x \in Ids /\ tasks \in [Tasks -> Task]
  BY SpawnChildIs DEF Types, TypeOK
<1>2. tasks' = [[tasks EXCEPT ![t] = a] EXCEPT ![c] = b]
  BY SpawnChildIs
<1> HIDE DEF a, x
<1>3. /\ b.pc \in {"replay", "finish"} /\ b.wf = x /\ b.version = version /\ b.seq = 0 /\ b.ip = 1
      /\ (b.pc = "finish" => b.res = "SUCCESS")
      /\ (b.pc = "replay" => 1 \in DOMAIN sc.code[version][x])
      /\ \A k \in Slots : b.seen[k] = NoOutcome
  BY <1>1, NewFits DEF Types
<1> HIDE DEF b
<1>4. tasks'[c] = b
  BY <1>1, <1>2
<1> QED
  BY <1>1, <1>3, <1>4 DEF Fresh, x

LEMMA RestCalm ==
    ASSUME Types,
           \/ \E t \in Tasks : Finish(t) \/ Recover(t) \/ \E c \in Tasks : spawn_child(t, c)
           \/ \E t \in Tasks, w \in Ids : Start(t, w) \/ Restart(t, w)
           \/ Crash \/ Deploy
           \/ \E w \in Ids : Cancel(w)
           \/ ListenerLost \/ Tick \/ ReadEntries \/ ReadStatus \/ Quiet
           \/ ListenerBack \/ (\E w \in Ids : Notify(w))
    PROVE  (\A u \in Tasks : Calm(u)) /\ UNCHANGED <<sc, out, notes, streams, effects>>
<1>0. tasks \in [Tasks -> Task]
  BY DEF Types, TypeOK
<1>1. ASSUME NEW t \in Tasks, Finish(t)
      PROVE  (\A u \in Tasks : Calm(u)) /\ UNCHANGED <<sc, out, notes, streams, effects>>
  <2>1. tasks' = [tasks EXCEPT ![t] = IdleTask] /\ UNCHANGED <<sc, out, notes, streams, effects>>
    BY <1>1, FinishIs
  <2>2. \A u \in Tasks : tasks'[u] = tasks[u] \/ tasks'[u].pc = "idle"
    BY <1>0, <2>1 DEF IdleTask
  <2> QED
    BY <2>1, <2>2 DEF Calm
<1>2. ASSUME NEW t \in Tasks, NEW c \in Tasks, spawn_child(t, c)
      PROVE  (\A u \in Tasks : Calm(u)) /\ UNCHANGED <<sc, out, notes, streams, effects>>
  <2>1. UNCHANGED <<sc, out, notes, streams, effects>> /\ \A u \in Tasks \ {t, c} : tasks'[u] = tasks[u]
    BY <1>2, SpawnedIs, Zenon
  <2>2. Pushed(t)
    BY <1>2, SpawnedIs DEF Pushed
  <2>3. c # t => Fresh(c)
    BY <1>2, ChildFresh
  <2> QED
    BY <2>1, <2>2, <2>3 DEF Calm
<1>4. ASSUME NEW t \in Tasks, Recover(t)
      PROVE  (\A u \in Tasks : Calm(u)) /\ UNCHANGED <<sc, out, notes, streams, effects>>
  BY <1>4, RecoverIs, SpawnCalm DEF tables
<1>5. ASSUME NEW t \in Tasks, NEW w \in Ids, Start(t, w) \/ Restart(t, w)
      PROVE  (\A u \in Tasks : Calm(u)) /\ UNCHANGED <<sc, out, notes, streams, effects>>
  BY <1>5, SpawnCalm DEF Start, Restart, tables
<1>6. CASE Crash \/ Deploy
  <2>1. \A u \in Tasks : tasks'[u].pc = "idle"
    BY <1>6, CrashIs DEF IdleTask
  <2> QED
    BY <1>6, <2>1, CrashIs DEF Calm
<1>7. CASE ListenerBack \/ (\E w \in Ids : Notify(w))
  <2>1. ASSUME NEW u \in Tasks, tasks[u].pc = "wait", tasks'[u] = [tasks[u] EXCEPT !.pc = "act"]
        PROVE  Pushed(u)
    <3>1. tasks[u] \in Task
      BY <1>0
    <3> QED
      BY <2>1, <3>1 DEF Pushed, Task
  <2> QED
    BY <1>7, <2>1, ListenerIs DEF Calm, outside
<1>8. CASE (\E w \in Ids : Cancel(w)) \/ ListenerLost \/ ReadEntries \/ ReadStatus \/ Quiet \/ Tick
  BY <1>8 DEF Cancel, ListenerLost, ReadEntries, ReadStatus, Quiet, Tick, vars, tables, outside, Calm
<1> QED
  BY <1>1, <1>2, <1>4, <1>5, <1>6, <1>7, <1>8

LEMMA CalmSound ==
    ASSUME Types, Mail, NEW u \in Tasks, Calm(u), Sound(u), UNCHANGED <<out, effects>>,
           \A i \in DOMAIN notes : i \in DOMAIN notes' /\ notes'[i] = notes[i]
    PROVE  Sound(u)'
<1>1. CASE tasks'[u] = tasks[u]
  <2>1. tasks[u].pc = "claim" => tasks[u].pick \in DOMAIN notes
    BY DEF Mail, Claims
  <2> QED
    BY <1>1, <2>1 DEF Sound, Busy, Seen, Ahead, Asleep, Unclaimed, At, Log, Unheard
<1>2. CASE tasks'[u].pc = "idle"
  BY <1>2 DEF Sound, Busy
<1>3. CASE Fresh(u)
  BY <1>3 DEF Fresh, Sound, Seen, Ahead, Asleep, Unclaimed
<1>4. CASE Pushed(u)
  BY <1>4 DEF Pushed, Sound, Busy, Seen, Ahead, Asleep, Unclaimed, At, Log, InTx
<1> QED
  BY <1>1, <1>2, <1>3, <1>4 DEF Calm

LEMMA CoreRest ==
    ASSUME Types, Mail, Core, \A u \in Tasks : Calm(u), UNCHANGED <<sc, out, notes, effects>>
    PROVE  Core'
<1>1. \A u \in Tasks : Sound(u)'
  BY CalmSound DEF Core
<1>2. Books'
  BY SameBooks DEF Core, Books
<1> QED
  BY <1>1, <1>2 DEF Core, Books

LEMMA CorePost ==
    ASSUME Types, Mail, Core, NEW p \in sc.posts, Post(p)
    PROVE  Core'
<1>1. p.to \in Ids /\ p.topic \in Topics /\ p.key \in Keys \cup {NoKey}
  BY ScenarioFacts DEF Types, TypeOK
<1>2. UNCHANGED <<sc, out, effects, tasks>> /\ notes' = insert_notification(notes, p.to, p.topic, p.key, now)
  BY DEF Post
<1>3. notes' = notes \/ notes' = Append(notes, Note(p.to, p.topic, p.key))
  BY <1>2 DEF insert_notification, Note
<1>4. Books
  BY DEF Core, Books
<1>5. Books' /\ \A i \in DOMAIN notes : i \in DOMAIN notes' /\ notes'[i] = notes[i]
  BY <1>1, <1>2, <1>3, <1>4, SameBooks, BooksNoted
<1>6. \A u \in Tasks : Sound(u)'
  BY <1>2, <1>5, CalmSound DEF Core, Calm
<1> QED
  BY <1>5, <1>6 DEF Core, Books

LEMMA CoreTask ==
    ASSUME Types, Mail, Core, Alone, NEW t \in Tasks, tasks[t].pc # "idle", Kept(t)
    PROVE  Core'
<1>1. Busy(t)
  BY DEF Busy
<1>2. \A u \in Tasks \ {t} : Sound(u)'
  BY <1>1, OthersSound DEF Kept, Others, Core
<1> QED
  BY <1>2 DEF Kept, Core, Books

LEMMA CoreInit == Init => Core
<1> SUFFICES ASSUME Init PROVE Core
  OBVIOUS
<1>1. Types
  BY TypesInit
<1>2. \A w \in Ids, k \in Slots : out[w][k] = Unrecorded /\ effects[w][k].done = 0
  BY DEF Init
<1>3. Unrecorded.name = "none" /\ Unrecorded.tag = "none"
  BY DEF Unrecorded
<1>4. Markers
  BY <1>1, <1>2, <1>3, OpNames DEF Markers
<1>5. Receipted
  BY <1>2, <1>3 DEF Receipted, Init, IsReceipt
<1>6. EffectsOnce
  BY <1>2, <1>3 DEF EffectsOnce
<1>7. \A t \in Tasks : Sound(t)
  BY DEF Init, Sound, Busy, IdleTask
<1> QED
  BY <1>4, <1>5, <1>6, <1>7 DEF Core

LEMMA CoreNext == Types /\ Mail /\ Alone /\ Deterministic /\ Core /\ [Next]_vars => Core'
<1> SUFFICES ASSUME Types, Mail, Alone, Deterministic, Core, [Next]_vars PROVE Core'
  OBVIOUS
<1>1. Books /\ \A t \in Tasks : Sound(t)
  BY DEF Core, Books
<1>2. CASE UNCHANGED vars
  BY <1>2, CoreRest DEF vars, tables, Calm
<1>3. ASSUME NEW t \in Tasks,
             \/ ReplayHit(t) \/ ReplayMiss(t) \/ ChildLookup(t) \/ PatchLookup(t)
             \/ deprecate_patch(t) \/ AwaitChild(t)
      PROVE  Core'
  <2>1. Kept(t) /\ tasks[t].pc = "replay"
    BY <1>1, <1>3, LookupSound, ReplayHitIs, ReplayMissIs, ChildLookupIs, PatchIs, AwaitChildIs
  <2> QED
    BY <2>1, CoreTask
<1>4. ASSUME NEW t \in Tasks,
             \/ Guard(t) \/ Produce(t) \/ Subscribe(t) \/ WakeUp(t) \/ SetEvent(t)
             \/ conflict_retry_wait(t) \/ TxConflict(t) \/ TxBodyFails(t)
             \/ GetEvent(t) \/ RecvSelect(t) \/ StreamCheck(t) \/ StreamAppend(t)
             \/ DeadlineKnown(t) \/ Sleep(t) \/ Send(t)
      PROVE  Core'
  <2>1. tasks[t].pc # "idle"
    BY <1>4 DEF Guard, Produce, Subscribe, WakeUp, SetEvent, conflict_retry_wait, TxConflict,
                TxBodyFails, GetEvent, RecvSelect, StreamCheck, StreamAppend, DeadlineKnown, Sleep,
                Send, Run
  <2>2. Kept(t)
    BY <1>1, <1>4, HopsSound
  <2> QED
    BY <2>1, <2>2, CoreTask
<1>5. ASSUME NEW t \in Tasks,
             \/ RecordOutcome(t) \/ Expire(t) \/ TxGiveUp(t) \/ Link(t) \/ PatchMark(t) \/ FixDeadline(t)
      PROVE  Core'
  <2>1. tasks[t].pc # "idle"
    BY <1>5 DEF RecordOutcome, Expire, TxGiveUp, Link, PatchMark, FixDeadline, Run
  <2>2. Kept(t)
    BY <1>1, <1>5, CheckpointSound
  <2> QED
    BY <2>1, <2>2, CoreTask
<1>6. ASSUME NEW t \in Tasks, RecvCommit(t) \/ TxCommit(t) \/ TxCommitLost(t) PROVE Core'
  <2>1. tasks[t].pc # "idle" /\ Others(t) /\ Busy(t)
    BY <1>6, RecvCommitIs, TxCommitIs, TxCommitLostIs DEF Went, Hop, Busy
  <2>2. Kept(t)
    BY <1>1, <1>6, <2>1, BooksReceived, BooksCommitted, BooksRepeated DEF Kept
  <2> QED
    BY <2>1, <2>2, CoreTask
<1>7. ASSUME (\A u \in Tasks : Calm(u)) /\ UNCHANGED <<sc, out, notes, streams, effects>> PROVE Core'
  BY <1>7, CoreRest
<1>8. CASE Next
  BY <1>3, <1>4, <1>5, <1>6, <1>7, <1>8, NextIs, RestCalm, CorePost, Zenon
<1> QED
  BY <1>2, <1>8

LEMMA CoreReceipts ==
    ASSUME Types, Receipted
    PROVE  ConsumedOnce
<1> SUFFICES ASSUME NEW i \in DOMAIN notes
             PROVE  /\ Cardinality(Receipts(i)) <= IF notes[i].consumed THEN 1 ELSE 0
                    /\ notes[i].consumed => Receipts(i) # {}
  BY DEF ConsumedOnce
<1>1. \A w \in Ids, k \in Slots : OutcomeOf(out[w][k]) = Outcome("msg", i) <=> IsReceipt(w, k, i)
  <2> TAKE w \in Ids, k \in Slots
  <2>1. out[w][k] \in EntryType
    BY TableTypes DEF Types, LogType
  <2>2. OutcomeOf(out[w][k]).tag = out[w][k].tag /\ OutcomeOf(out[w][k]).val = out[w][k].val
    BY <2>1, EntryOutcome
  <2> QED
    BY <2>2 DEF IsReceipt, OutcomeOf, Outcome
<1>2. CASE notes[i].consumed
  <2>1. PICK w \in Ids, k \in Slots : IsReceipt(w, k, i)
    BY <1>2 DEF Receipted
  <2>2. \A x \in Ids, j \in Slots : IsReceipt(x, j, i) => x = w /\ j = k
    BY <2>1 DEF Receipted
  <2>3. Receipts(i) = {<<w, k>>}
    BY <1>1, <2>1, <2>2 DEF Receipts
  <2>4. Cardinality({<<w, k>>}) = 1
    BY FS_Singleton
  <2> QED
    BY <1>2, <2>3, <2>4
<1>3. CASE ~notes[i].consumed
  <2>1. \A x \in Ids, j \in Slots : ~IsReceipt(x, j, i)
    BY <1>3 DEF Receipted, IsReceipt
  <2>2. Receipts(i) = {}
    BY <1>1, <2>1 DEF Receipts
  <2> QED
    BY <1>3, <2>2, FS_EmptySet
<1> QED
  BY <1>2, <1>3

LEMMA CoreIsEnough == Types /\ Mail /\ Core => ObservedIsRecorded /\ Delivery /\ EffectsOnce
<1> SUFFICES ASSUME Types, Mail, Core PROVE ObservedIsRecorded /\ Delivery /\ EffectsOnce
  OBVIOUS
<1>1. ObservedIsRecorded
  BY DEF Core, Sound, Seen, ObservedIsRecorded
<1>2. Delivery
  BY CoreReceipts, MailOrder DEF Core, Delivery
<1> QED
  BY <1>1, <1>2 DEF Core

\* As long as no two executions of a workflow overlap, and replay finds at a position the operation
\* it expects there, every function is given what the log holds, every consumed message has exactly
\* one receipt, and a transaction takes effect exactly once, or at most once more for every commit
\* whose answer was lost, whatever crashes, upgrades, patches and lost notifications there are.  (replay_or_guard, record_step_result, consume_notification,
\* run_transaction_step)
THEOREM OnceWhileAlone ==
    Spec /\ []Alone /\ []Deterministic => [](ObservedIsRecorded /\ Delivery /\ EffectsOnce)
<1> QED
  BY TypesInit, TypesNext, MailInit, MailNext, CoreInit, CoreNext, CoreIsEnough, PTL DEF Spec
=============================================================================
