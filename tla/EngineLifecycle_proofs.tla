----------------------- MODULE EngineLifecycle_proofs -----------------------
(***************************************************************************)
(* Proofs about launch, shutdown, recovery and the schedules, for every    *)
(* fleet, set of scenarios, cron expression, operator script and number of *)
(* faults.                                                                 *)
(***************************************************************************)
EXTENDS EngineLifecycle, WellFoundedInduction, TLAPS

USE DEF history

(***************************************************************************)
(* The values of the variables, given the cron instants C of the scenario. *)
(***************************************************************************)
ProcType(C) ==
    [pc : Launching \cup {"down", "up", "draining", "stopped"}, deactivated : BOOLEAN,
     dispatching : BOOLEAN, update : BOOLEAN, claim : C \cup {NoTick}, drained : BOOLEAN]
SchedType(C) == [id : Nat, status : {"ABSENT", "ACTIVE", "PAUSED"}, last : C \cup {NoTick}]
RowType ==
    [status : {"NONE", "ENQUEUED", "PENDING", "SUCCESS"}, owner : Engines \cup {NoEngine},
     queued : BOOLEAN]
ReconType ==
    {r \in [pc : {"off", "idle", "fill", "install"}, id : Nat, slot : Slots \cup {0}, target : Nat] :
        r.id # NoId => r.slot \in Slots}
LoopType(C) ==
    {l \in [pc : {"off", "top", "sleep", "launch", "stamp"}, id : Nat, next : C \cup {NoTick},
            created : BOOLEAN, stop : BOOLEAN, cancelled : BOOLEAN] :
        l.pc \in {"sleep", "launch", "stamp"} => l.next \in C}
FillType(C) ==
    {f \in [pc : {"off", "persist", "launch"}, todo : SUBSET C, cur : C \cup {NoTick},
            created : BOOLEAN] :
        f.pc = "launch" => f.cur \in C}
RecoveryType(C) == [todo : SUBSET C, cur : C \cup {NoTick}, cancelled : BOOLEAN]

(***************************************************************************)
(* TypeOK, and what the actions rely on besides: a loop that fires has an  *)
(* instant, a backfill that launches has one, an installed loop has a slot.*)
(***************************************************************************)
TypeInv ==
    /\ sc \in Scenarios
    /\ now \in 0 .. sc.horizon
    /\ proc \in [Engines -> ProcType(sc.cron)]
    /\ registry \in [versions : Seq(Nat), config : Nat]
    /\ sched \in SchedType(sc.cron)
    /\ ticks \in [sc.cron -> RowType]
    /\ born \in Seq(sc.cron)
    /\ recon \in [Engines -> ReconType]
    /\ loops \in [Engines -> [Slots -> LoopType(sc.cron)]]
    /\ fills \in [Engines -> [Filler -> FillType(sc.cron)]]
    /\ recovery \in [Engines -> RecoveryType(sc.cron)]
    /\ runs \in [Engines -> [sc.cron -> Nat]]
    /\ launched \in [sc.cron -> Nat]
    /\ orphans \subseteq sc.cron /\ doubled \subseteq sc.cron
    /\ calls \in 0 .. Len(sc.calls)
    /\ faults \in [FaultKinds -> Nat]

LEMMA TypeInvImplies == TypeInv => TypeOK
  BY DEF TypeInv, TypeOK, ProcType, SchedType, RowType, ReconType, LoopType, FillType, RecoveryType

\* The least of a nonempty set of instants is one of them.
LEMMA MinOf == ASSUME NEW S, S \subseteq Nat, S # {} PROVE Min(S) \in S
<1> DEFINE Less == {p \in Nat \X Nat : p[1] < p[2]}
<1>1. IsWellFoundedOn(Less, Nat)
  BY NatLessThanWellFounded, Zenon DEF OpToRel
<1>2. \A x, y \in Nat : <<y, x>> \in Less <=> y < x
  OBVIOUS
<1> HIDE DEF Less
<1>3. \E x \in S : \A y \in S : ~(<<y, x>> \in Less)
  BY <1>1, WFMin
<1>4. \E x \in S : \A y \in S : x <= y
  <2>1. PICK x \in S : \A y \in S : ~(<<y, x>> \in Less)
    BY <1>3
  <2>2. ASSUME NEW y \in S PROVE x <= y
    <3>1. x \in Nat /\ y \in Nat /\ ~(y < x)
      BY <1>2, <2>1
    <3> QED
      BY <3>1
  <2> QED
    BY <2>2
<1> QED
  BY <1>4 DEF Min

\* The idle values, and what a loop or a backfill starts with.
LEMMA IdleTypes ==
    ASSUME NEW C, C \subseteq Nat \ {NoTick}
    PROVE  /\ NoProc \in ProcType(C) /\ NoRecon \in ReconType /\ NoLoop \in LoopType(C)
           /\ NoFill \in FillType(C) /\ NoRecovery \in RecoveryType(C) /\ NoRow \in RowType
           /\ \A S \in SUBSET C : StartFill(S) \in FillType(C)
           /\ \A n \in Nat : [NoLoop EXCEPT !.pc = "top", !.id = n] \in LoopType(C)
           /\ \A n \in Nat, pc \in {"idle", "fill", "install"} :
                 [NoRecon EXCEPT !.pc = pc, !.target = n] \in ReconType
           /\ [NoRecon EXCEPT !.pc = "idle"] \in ReconType
           /\ \A S \in SUBSET C : [NoRecovery EXCEPT !.todo = S] \in RecoveryType(C)
  BY DEF ProcType, ReconType, LoopType, FillType, RecoveryType, RowType, NoProc, NoRecon, NoLoop,
         NoFill, NoRecovery, NoRow, StartFill, NoTick, NoId, Launching

\* A process table entry, a row, a loop and a backfill as the actions change them.
LEMMA ChangeTypes ==
    ASSUME NEW C, C \subseteq Nat \ {NoTick}
    PROVE  /\ \A p \in ProcType(C), pc \in Launching \cup {"up", "draining", "stopped"} :
                 /\ [p EXCEPT !.pc = pc] \in ProcType(C)
                 /\ \A b \in BOOLEAN : /\ [p EXCEPT !.pc = pc, !.update = b] \in ProcType(C)
                                       /\ [p EXCEPT !.pc = pc, !.dispatching = b] \in ProcType(C)
                                       /\ [p EXCEPT !.pc = pc, !.drained = b] \in ProcType(C)
                 /\ [Aborted(p) EXCEPT !.pc = pc] \in ProcType(C)
           /\ \A p \in ProcType(C) : [Aborted(p) EXCEPT !.deactivated = TRUE] \in ProcType(C)
           /\ \A p \in ProcType(C), t \in C \cup {NoTick} : [p EXCEPT !.claim = t] \in ProcType(C)
           /\ \A r \in RowType, s \in {"ENQUEUED", "PENDING", "SUCCESS"}, e \in Engines :
                 /\ [r EXCEPT !.status = s] \in RowType
                 /\ [r EXCEPT !.status = s, !.owner = e] \in RowType
           /\ \A r \in ReconType : [r EXCEPT !.pc = "install"] \in ReconType
<1>1. ASSUME NEW p \in ProcType(C), NEW pc \in Launching \cup {"up", "draining", "stopped"}
      PROVE  /\ [p EXCEPT !.pc = pc] \in ProcType(C)
             /\ \A b \in BOOLEAN : /\ [p EXCEPT !.pc = pc, !.update = b] \in ProcType(C)
                                   /\ [p EXCEPT !.pc = pc, !.dispatching = b] \in ProcType(C)
                                   /\ [p EXCEPT !.pc = pc, !.drained = b] \in ProcType(C)
  BY <1>1 DEF ProcType
<1>2. ASSUME NEW p \in ProcType(C)
      PROVE  /\ [Aborted(p) EXCEPT !.deactivated = TRUE] \in ProcType(C)
             /\ \A pc \in Launching \cup {"up", "draining", "stopped"} :
                   [Aborted(p) EXCEPT !.pc = pc] \in ProcType(C)
             /\ \A t \in C \cup {NoTick} : [p EXCEPT !.claim = t] \in ProcType(C)
  BY <1>2 DEF ProcType, Aborted
<1>3. \A r \in RowType, s \in {"ENQUEUED", "PENDING", "SUCCESS"}, e \in Engines :
         /\ [r EXCEPT !.status = s] \in RowType
         /\ [r EXCEPT !.status = s, !.owner = e] \in RowType
  BY DEF RowType
<1>4. \A r \in ReconType : [r EXCEPT !.pc = "install"] \in ReconType
  BY DEF ReconType
<1> QED
  BY <1>1, <1>2, <1>3, <1>4

(***************************************************************************)
(* Type correctness, one step per action.                                  *)
(***************************************************************************)
LEMMA Cron == ASSUME sc \in Scenarios PROVE sc.cron \subseteq Nat \ {NoTick}
  BY ScenarioAssumption

\* A fault is spent, or none is.
LEMMA SpendType ==
    ASSUME TypeInv, NEW kind \in FaultKinds, Spend(kind)
    PROVE  faults' \in [FaultKinds -> Nat]
<1>1. faults[kind] \in Nat /\ faults[kind] > 0
  BY DEF TypeInv, Spend
<1>2. faults[kind] - 1 \in Nat
  BY <1>1
<1> QED
  BY <1>2 DEF TypeInv, Spend

\* What an insert and a launch of a tick do to the rows and the runs.
LEMMA TickTypes ==
    ASSUME TypeInv, sc' = sc, NEW e \in Engines \cup {NoEngine}, NEW t \in sc.cron, NEW b \in BOOLEAN
    PROVE  /\ persist_scheduled_tick(e, t, b) =>
                 ticks' \in [sc.cron -> RowType] /\ born' \in Seq(sc.cron)
           /\ e \in Engines /\ launch_scheduled_tick(e, t, b) =>
                 runs' \in [Engines -> [sc.cron -> Nat]] /\ launched' \in [sc.cron -> Nat]
<1>1. [status |-> IF b THEN "ENQUEUED" ELSE "PENDING", owner |-> IF b THEN NoEngine ELSE e,
       queued |-> b] \in RowType
  BY DEF RowType
<1>2. Append(born, t) \in Seq(sc.cron)
  BY DEF TypeInv
<1>3. persist_scheduled_tick(e, t, b) =>
         ticks' \in [sc.cron -> RowType] /\ born' \in Seq(sc.cron)
  BY <1>1, <1>2 DEF persist_scheduled_tick, TypeInv, rows
<1>4. ASSUME e \in Engines, launch_scheduled_tick(e, t, b)
      PROVE  runs' \in [Engines -> [sc.cron -> Nat]] /\ launched' \in [sc.cron -> Nat]
  <2>1. runs[e][t] + 1 \in Nat /\ launched[t] + 1 \in Nat
    BY <1>4 DEF TypeInv
  <2>2. CASE b /\ ~sc.queued
    <3>1. runs' = [runs EXCEPT ![e][t] = @ + 1] /\ launched' = [launched EXCEPT ![t] = @ + 1]
      BY <1>4, <2>2 DEF launch_scheduled_tick
    <3>2. runs' \in [Engines -> [sc.cron -> Nat]]
      BY <1>4, <2>1, <3>1 DEF TypeInv
    <3> QED
      BY <2>1, <3>1, <3>2 DEF TypeInv
  <2>3. CASE ~(b /\ ~sc.queued)
    BY <1>4, <2>3 DEF launch_scheduled_tick, TypeInv
  <2> QED
    BY <2>2, <2>3
<1> QED
  BY <1>3, <1>4

\* What an insert that fails does.
LEMMA FailTypes ==
    ASSUME TypeInv, sc' = sc, NEW e \in Engines, NEW t \in sc.cron, PersistFails(e, t)
    PROVE  /\ faults' \in [FaultKinds -> Nat] /\ orphans' \subseteq sc.cron
           /\ ticks' \in [sc.cron -> RowType] /\ born' \in Seq(sc.cron)
<1>1. sc.queued \in BOOLEAN /\ "outage" \in FaultKinds
  BY ScenarioAssumption DEF TypeInv, FaultKinds
<1>2. faults' \in [FaultKinds -> Nat] /\ orphans' \subseteq sc.cron
  BY <1>1, SpendType DEF PersistFails, TypeInv
<1>3. ticks' \in [sc.cron -> RowType] /\ born' \in Seq(sc.cron)
  BY <1>1, TickTypes DEF PersistFails, TypeInv, rows
<1> QED
  BY <1>2, <1>3

LEMMA TypeLaunch == ASSUME TypeInv, NEW e \in Engines, Launch(e) PROVE TypeInv'
<1>c. sc \in Scenarios /\ sc.cron \subseteq Nat \ {NoTick} /\ proc[e] \in ProcType(sc.cron)
  BY Cron DEF TypeInv
<1>p. \A pc \in Launching \cup {"up", "draining", "stopped"} :
         [proc EXCEPT ![e].pc = pc] \in [Engines -> ProcType(sc.cron)]
  BY <1>c, ChangeTypes DEF TypeInv
<1>o. "outage" \in FaultKinds
  BY DEF FaultKinds
<1>v. sc.version[e] \in Nat
  BY <1>c, ScenarioAssumption
<1>1. CASE LaunchBegins(e)
  <2>1. [proc EXCEPT ![e].pc = "version", ![e].drained = FALSE] \in [Engines -> ProcType(sc.cron)]
    BY <1>c, ChangeTypes DEF TypeInv, Launching
  <2> QED
    BY <1>1, <2>1 DEF TypeInv, LaunchBegins, rows
<1>2. CASE create_application_version(e)
  <2>1. registry' \in [versions : Seq(Nat), config : Nat]
    <3>1. Append(registry.versions, sc.version[e]) \in Seq(Nat)
      BY <1>v DEF TypeInv
    <3> QED
      BY <1>2, <3>1 DEF create_application_version, TypeInv
  <2>2. faults' \in [FaultKinds -> Nat]
    BY <1>2, <1>o, SpendType DEF create_application_version, TypeInv
  <2> QED
    BY <1>2, <1>p, <2>1, <2>2 DEF TypeInv, create_application_version, Goto, Launching, rows
<1>3. CASE get_latest_application_version(e)
  <2>1. \A b \in BOOLEAN : [proc EXCEPT ![e].pc = "queues", ![e].update = b] \in
                              [Engines -> ProcType(sc.cron)]
    BY <1>c, ChangeTypes DEF TypeInv, Launching
  <2>2. proc' \in [Engines -> ProcType(sc.cron)]
    BY <1>3, <2>1 DEF get_latest_application_version
  <2>3. faults' \in [FaultKinds -> Nat]
    BY <1>3, <1>o, SpendType DEF get_latest_application_version, TypeInv
  <2> QED
    BY <1>3, <2>2, <2>3 DEF TypeInv, get_latest_application_version, rows
<1>4. CASE upsert_queue(e)
  <2>1. registry' \in [versions : Seq(Nat), config : Nat]
    BY <1>4, <1>v DEF upsert_queue, TypeInv
  <2> QED
    BY <1>4, <1>p, <2>1 DEF TypeInv, upsert_queue, Goto, Launching, rows
<1>5. ASSUME NEW S \in SUBSET sc.cron, Spawn(e, S) PROVE TypeInv'
  <2>1. proc' \in [Engines -> ProcType(sc.cron)]
    BY <1>5, <1>c, ChangeTypes DEF Spawn, TypeInv
  <2>2. recon' \in [Engines -> ReconType]
    BY <1>5, <1>c, IdleTypes DEF Spawn, TypeInv
  <2>3. recovery' \in [Engines -> RecoveryType(sc.cron)]
    BY <1>5, <1>c, IdleTypes DEF Spawn, TypeInv
  <2>4. runs' \in [Engines -> [sc.cron -> Nat]]
    <3>1. \A t \in sc.cron : Alive(e, t) \in Nat
      BY DEF Alive, TypeInv
    <3> QED
      BY <1>5, <3>1 DEF Spawn, TypeInv
  <2>5. orphans' \subseteq sc.cron /\ doubled' \subseteq sc.cron
    BY <1>5 DEF Spawn, TypeInv
  <2> QED
    BY <1>5, <2>1, <2>2, <2>3, <2>4, <2>5 DEF TypeInv, Spawn, rows
<1>6. CASE SpawnTasks(e)
  BY <1>5, <1>6 DEF SpawnTasks
<1>7. CASE LaunchFails(e)
  <2>1. faults' \in [FaultKinds -> Nat]
    BY <1>7, <1>o, SpendType DEF LaunchFails
  <2> QED
    BY <1>7, <1>p, <2>1 DEF TypeInv, LaunchFails, Goto, rows
<1> QED
  BY <1>1, <1>2, <1>3, <1>4, <1>6, <1>7 DEF Launch

LEMMA TypeStop ==
    ASSUME TypeInv, NEW e \in Engines,
           deactivate(e) \/ shutdown(e) \/ DrainEnds(e) \/ Exit(e) \/ Crash(e)
    PROVE  TypeInv'
<1>c. sc \in Scenarios /\ sc.cron \subseteq Nat \ {NoTick} /\ proc[e] \in ProcType(sc.cron)
  BY Cron DEF TypeInv
<1>k. FaultKinds = {"crash", "shutdown", "deactivate", "outage"}
  BY DEF FaultKinds
<1>a. ASSUME AbortReconciler(e)
      PROVE  recon' \in [Engines -> ReconType] /\ fills' \in [Engines -> [Filler -> FillType(sc.cron)]]
  BY <1>a, <1>c, IdleTypes DEF AbortReconciler, TypeInv, Filler
<1>1. CASE deactivate(e)
  <2>1. proc' \in [Engines -> ProcType(sc.cron)]
    BY <1>1, <1>c, ChangeTypes DEF deactivate, TypeInv
  <2>2. faults' \in [FaultKinds -> Nat]
    BY <1>1, <1>k, SpendType DEF deactivate
  <2> QED
    BY <1>1, <1>a, <2>1, <2>2 DEF TypeInv, deactivate, rows
<1>2. CASE shutdown(e)
  <2>0. Stopping(e)
    BY <1>2 DEF shutdown, Retire
  <2>1. proc' \in [Engines -> ProcType(sc.cron)]
    BY <2>0, <1>c, ChangeTypes DEF Stopping, TypeInv
  <2>2. faults' \in [FaultKinds -> Nat]
    BY <1>2, <1>k, SpendType DEF shutdown, Retire, TypeInv
  <2>3. loops' \in [Engines -> [Slots -> LoopType(sc.cron)]]
    <3>1. ASSUME NEW k \in Slots
          PROVE  [loops[e][k] EXCEPT !.cancelled = loops[e][k].pc # "off"] \in LoopType(sc.cron)
      <4>1. PICK b \in BOOLEAN : b = (loops[e][k].pc # "off")
        OBVIOUS
      <4>2. loops[e][k] \in LoopType(sc.cron)
        BY DEF TypeInv
      <4>3. [loops[e][k] EXCEPT !.cancelled = b] \in LoopType(sc.cron)
        BY <4>2 DEF LoopType
      <4> QED
        BY <4>1, <4>3
    <3> QED
      BY <2>0, <3>1 DEF Stopping, TypeInv
  <2>4. recovery' \in [Engines -> RecoveryType(sc.cron)]
    BY <2>0 DEF Stopping, TypeInv, RecoveryType
  <2> QED
    BY <2>0, <1>a, <2>1, <2>2, <2>3, <2>4 DEF TypeInv, Stopping, rows
<1>3. CASE DrainEnds(e)
  <2>1. proc' \in [Engines -> ProcType(sc.cron)]
    <3>1. PICK b \in BOOLEAN : b = Idle(e)
      BY DEF Idle
    <3> QED
      BY <1>3, <1>c, <3>1, ChangeTypes DEF DrainEnds, TypeInv
  <2> QED
    BY <1>3, <2>1 DEF TypeInv, DrainEnds, rows
<1>4. CASE Exit(e) \/ Crash(e)
  <2>1. Die(e)
    BY <1>4 DEF Exit, Crash
  <2>2. faults' \in [FaultKinds -> Nat]
    BY <1>4, <1>k, SpendType DEF Exit, Crash, TypeInv
  <2>3. /\ proc' \in [Engines -> ProcType(sc.cron)] /\ recon' \in [Engines -> ReconType]
        /\ recovery' \in [Engines -> RecoveryType(sc.cron)]
    BY <2>1, <1>c, IdleTypes DEF Die, TypeInv
  <2>4. /\ loops' \in [Engines -> [Slots -> LoopType(sc.cron)]]
        /\ fills' \in [Engines -> [Filler -> FillType(sc.cron)]]
        /\ runs' \in [Engines -> [sc.cron -> Nat]]
    BY <2>1, <1>c, IdleTypes DEF Die, TypeInv
  <2> QED
    BY <2>1, <2>2, <2>3, <2>4 DEF TypeInv, Die, rows
<1> QED
  BY <1>1, <1>2, <1>3, <1>4

LEMMA TypeWork ==
    ASSUME TypeInv, NEW e \in Engines,
           Recover(e) \/ Dispatch(e) \/ \E t \in sc.cron : RunEnds(e, t)
    PROVE  TypeInv'
<1>c. sc \in Scenarios /\ sc.cron \subseteq Nat \ {NoTick} /\ proc[e] \in ProcType(sc.cron)
  BY Cron DEF TypeInv
<1>t. \A t \in sc.cron, s \in {"ENQUEUED", "PENDING", "SUCCESS"} :
         /\ [ticks EXCEPT ![t].status = s] \in [sc.cron -> RowType]
         /\ [ticks EXCEPT ![t].status = s, ![t].owner = e] \in [sc.cron -> RowType]
  <2> SUFFICES ASSUME NEW t \in sc.cron, NEW s \in {"ENQUEUED", "PENDING", "SUCCESS"}
               PROVE  /\ [ticks EXCEPT ![t].status = s] \in [sc.cron -> RowType]
                      /\ [ticks EXCEPT ![t].status = s, ![t].owner = e] \in [sc.cron -> RowType]
    OBVIOUS
  <2>1. /\ [ticks[t] EXCEPT !.status = s] \in RowType
        /\ [ticks[t] EXCEPT !.status = s, !.owner = e] \in RowType
    BY <1>c, ChangeTypes DEF TypeInv
  <2> QED
    BY <2>1 DEF TypeInv
<1>r. \A S \in SUBSET sc.cron, u \in sc.cron \cup {NoTick} :
         [recovery EXCEPT ![e].todo = S, ![e].cur = u] \in [Engines -> RecoveryType(sc.cron)]
  BY DEF TypeInv, RecoveryType
<1>1. CASE RecoverNext(e)
  <2>1. PICK t \in sc.cron :
           /\ recovery' = [recovery EXCEPT ![e].todo = @ \ {t},
                                           ![e].cur = IF ticks[t].queued THEN NoTick ELSE t]
           /\ ticks' = IF ticks[t].queued THEN [ticks EXCEPT ![t].status = "ENQUEUED"] ELSE ticks
    BY <1>1 DEF RecoverNext
  <2>2. recovery' \in [Engines -> RecoveryType(sc.cron)]
    <3>1. recovery[e].todo \ {t} \in SUBSET sc.cron
      BY DEF TypeInv, RecoveryType
    <3> QED
      BY <1>r, <2>1, <3>1
  <2>3. ticks' \in [sc.cron -> RowType]
    BY <1>t, <2>1 DEF TypeInv
  <2> QED
    BY <1>1, <2>2, <2>3 DEF TypeInv, RecoverNext
<1>2. CASE RecoverRunEnds(e)
  <2>1. recovery[e].cur \in sc.cron
    BY <1>2 DEF RecoverRunEnds, TypeInv, RecoveryType
  <2>2. recovery' \in [Engines -> RecoveryType(sc.cron)]
    BY <1>2 DEF RecoverRunEnds, TypeInv, RecoveryType
  <2> QED
    BY <1>2, <1>t, <2>1, <2>2 DEF TypeInv, RecoverRunEnds
<1>3. CASE RecoverBreaks(e)
  <2>0. recovery[e] \in RecoveryType(sc.cron)
    BY DEF TypeInv
  <2>1. [recovery[e] EXCEPT !.todo = {}] \in RecoveryType(sc.cron)
    BY <2>0 DEF RecoveryType
  <2>2. recovery' \in [Engines -> RecoveryType(sc.cron)]
    BY <1>3, <2>1 DEF RecoverBreaks, TypeInv
  <2> QED
    BY <1>3, <2>2 DEF TypeInv, RecoverBreaks, rows
<1>4. CASE Claim(e)
  <2>1. PICK t \in sc.cron :
           /\ ticks' = [ticks EXCEPT ![t].status = "PENDING", ![t].owner = e]
           /\ proc' = [proc EXCEPT ![e].claim = t]
    BY <1>4 DEF Claim
  <2>2. proc' \in [Engines -> ProcType(sc.cron)]
    BY <1>c, <2>1, ChangeTypes DEF TypeInv
  <2>3. ticks' \in [sc.cron -> RowType]
    BY <1>t, <2>1
  <2> QED
    BY <1>4, <2>2, <2>3 DEF TypeInv, Claim
<1>5. CASE StartClaimed(e)
  <2>1. proc' \in [Engines -> ProcType(sc.cron)]
    BY <1>5, <1>c, ChangeTypes DEF TypeInv, StartClaimed
  <2>2. runs' \in [Engines -> [sc.cron -> Nat]]
    <3>1. PICK t \in sc.cron : t = proc[e].claim
      BY <1>5, <1>c DEF StartClaimed, ProcType
    <3>2. runs[e][t] + 1 \in Nat
      BY DEF TypeInv
    <3> QED
      BY <1>5, <3>1, <3>2 DEF TypeInv, StartClaimed
  <2> QED
    BY <1>5, <2>1, <2>2 DEF TypeInv, StartClaimed, rows
<1>6. ASSUME NEW t \in sc.cron, RunEnds(e, t) PROVE TypeInv'
  <2>1. runs[e][t] \in Nat /\ runs[e][t] > 0
    BY <1>6 DEF RunEnds, TypeInv
  <2>2. runs' \in [Engines -> [sc.cron -> Nat]]
    <3>1. runs[e][t] - 1 \in Nat
      BY <2>1
    <3> QED
      BY <1>6, <3>1 DEF TypeInv, RunEnds
  <2> QED
    BY <1>6, <1>t, <2>2 DEF TypeInv, RunEnds
<1>7. CASE RecoverFails(e)
  <2>1. PICK t \in sc.cron :
           \/ UNCHANGED ticks /\ orphans' = orphans \cup recovery[e].todo
           \/ /\ ticks' = [ticks EXCEPT ![t].status = "ENQUEUED"]
              /\ orphans' = orphans \cup (recovery[e].todo \ {t})
    BY <1>7 DEF RecoverFails
  <2>2. recovery[e] \in RecoveryType(sc.cron) /\ recovery[e].todo \subseteq sc.cron
    BY DEF TypeInv, RecoveryType
  <2>3. [recovery[e] EXCEPT !.todo = {}] \in RecoveryType(sc.cron)
    BY <2>2 DEF RecoveryType
  <2>4. recovery' \in [Engines -> RecoveryType(sc.cron)]
    BY <1>7, <2>3 DEF RecoverFails, TypeInv
  <2>5. ticks' \in [sc.cron -> RowType] /\ orphans' \subseteq sc.cron
    BY <1>t, <2>1, <2>2 DEF TypeInv
  <2>6. faults' \in [FaultKinds -> Nat]
    BY <1>7, SpendType DEF RecoverFails, FaultKinds
  <2> QED
    BY <1>7, <2>4, <2>5, <2>6 DEF TypeInv, RecoverFails
<1> QED
  BY <1>1, <1>2, <1>3, <1>4, <1>5, <1>6, <1>7 DEF Recover, Dispatch

LEMMA TypeFill == ASSUME TypeInv, NEW e \in Engines, NEW w \in Filler, Fill(e, w) PROVE TypeInv'
<1>c. sc \in Scenarios /\ sc.cron \subseteq Nat \ {NoTick} /\ fills[e][w] \in FillType(sc.cron)
  BY Cron DEF TypeInv
<1>q. sc.queued \in BOOLEAN /\ "outage" \in FaultKinds
  BY <1>c, ScenarioAssumption DEF FaultKinds
<1>o. ASSUME FillOver(e, w)
      PROVE  recon' \in [Engines -> ReconType] /\ fills' \in [Engines -> [Filler -> FillType(sc.cron)]]
  <2>1. fills' \in [Engines -> [Filler -> FillType(sc.cron)]]
    BY <1>o, <1>c, IdleTypes DEF FillOver, TypeInv
  <2>2. recon[e] \in ReconType
    BY DEF TypeInv
  <2>3. [recon EXCEPT ![e].pc = "install"] \in [Engines -> ReconType]
    BY <1>c, <2>2, ChangeTypes DEF TypeInv
  <2> QED
    BY <1>o, <2>1, <2>3 DEF FillOver, TypeInv
<1>1. CASE FillPersists(e, w)
  <2>1. PICK t \in sc.cron : t = Min(fills[e][w].todo)
    BY <1>1, <1>c, MinOf DEF FillPersists, FillType
  <2>2. CASE /\ persist_scheduled_tick(e, t, sc.queued)
             /\ fills' = [fills EXCEPT ![e][w] = [pc |-> "launch", todo |-> fills[e][w].todo \ {t},
                                                  cur |-> t, created |-> IsFirst(t)]]
             /\ UNCHANGED <<recon, orphans, faults>>
    <3>1. IsFirst(t) \in BOOLEAN
      BY DEF IsFirst
    <3>2. fills' \in [Engines -> [Filler -> FillType(sc.cron)]]
      <4>1. PICK b \in BOOLEAN : b = IsFirst(t)
        BY <3>1
      <4>2. [pc |-> "launch", todo |-> fills[e][w].todo \ {t}, cur |-> t, created |-> b]
               \in FillType(sc.cron)
        BY <1>c DEF FillType
      <4> QED
        BY <2>2, <4>1, <4>2 DEF TypeInv
    <3>3. ticks' \in [sc.cron -> RowType] /\ born' \in Seq(sc.cron)
      BY <1>1, <1>q, <2>2, TickTypes DEF FillPersists
    <3> QED
      BY <1>1, <2>2, <3>2, <3>3 DEF TypeInv, FillPersists
  <2>3. CASE PersistFails(e, t) /\ FillOver(e, w)
    <3>1. /\ faults' \in [FaultKinds -> Nat] /\ orphans' \subseteq sc.cron
          /\ ticks' \in [sc.cron -> RowType] /\ born' \in Seq(sc.cron)
      BY <1>1, <2>3, FailTypes DEF FillPersists
    <3> QED
      BY <1>1, <1>o, <2>3, <3>1 DEF TypeInv, FillPersists
  <2> QED
    BY <1>1, <2>1, <2>2, <2>3 DEF FillPersists
<1>2. CASE FillLaunches(e, w)
  <2>1. fills[e][w].cur \in sc.cron /\ fills[e][w].created \in BOOLEAN
    BY <1>2, <1>c DEF FillLaunches, FillType
  <2>2. fills' \in [Engines -> [Filler -> FillType(sc.cron)]]
    <3>1. [fills[e][w] EXCEPT !.pc = "persist", !.cur = NoTick, !.created = FALSE] \in FillType(sc.cron)
      BY <1>c DEF FillType
    <3> QED
      BY <1>2, <3>1 DEF FillLaunches, TypeInv
  <2>3. runs' \in [Engines -> [sc.cron -> Nat]] /\ launched' \in [sc.cron -> Nat]
    BY <1>2, <2>1, TickTypes DEF FillLaunches
  <2> QED
    BY <1>2, <2>2, <2>3 DEF TypeInv, FillLaunches, rows
<1>3. CASE FillEnds(e, w)
  BY <1>3, <1>o DEF TypeInv, FillEnds, rows
<1> QED
  BY <1>1, <1>2, <1>3 DEF Fill

LEMMA TypeReconcile == ASSUME TypeInv, NEW e \in Engines, Reconciler(e) PROVE TypeInv'
<1>c. sc \in Scenarios /\ sc.cron \subseteq Nat \ {NoTick} /\ recon[e] \in ReconType
  BY Cron DEF TypeInv
<1>d. Desired \in Nat
  BY DEF Desired, TypeInv, SchedType, MacroId, NoId
<1>1. CASE Reconcile(e)
  <2>1. loops' \in [Engines -> [Slots -> LoopType(sc.cron)]]
    <3>1. CASE recon[e].id = NoId
      BY <1>1, <3>1 DEF Reconcile, TypeInv
    <3>2. CASE recon[e].id # NoId
      <4>1. PICK k \in Slots : k = recon[e].slot
        BY <1>c, <3>2 DEF ReconType
      <4>2. [loops[e][k] EXCEPT !.stop = loops[e][k].pc # "off"] \in LoopType(sc.cron)
        <5>1. PICK b \in BOOLEAN : b = (loops[e][k].pc # "off")
          OBVIOUS
        <5>2. loops[e][k] \in LoopType(sc.cron)
          BY DEF TypeInv
        <5>3. [loops[e][k] EXCEPT !.stop = b] \in LoopType(sc.cron)
          BY <5>2 DEF LoopType
        <5> QED
          BY <5>1, <5>3
      <4>3. loops' = [loops EXCEPT ![e][k].stop = loops[e][k].pc # "off"]
        BY <1>1, <3>2, <4>1 DEF Reconcile
      <4> QED
        BY <4>2, <4>3 DEF TypeInv
    <3> QED
      BY <3>1, <3>2
  <2>2. PICK pc \in {"idle", "fill", "install"} :
           /\ recon' = [recon EXCEPT ![e] = [NoRecon EXCEPT !.pc = pc, !.target = Desired]]
           /\ fills' = IF pc # "fill" THEN fills
                       ELSE [fills EXCEPT ![e]["reconciler"] =
                                 StartFill(cron_ticks_between(sched.last + 1))]
    BY <1>1 DEF Reconcile
  <2>3. recon' \in [Engines -> ReconType]
    BY <1>c, <1>d, <2>2, IdleTypes DEF TypeInv
  <2>4. fills' \in [Engines -> [Filler -> FillType(sc.cron)]]
    <3>1. StartFill(cron_ticks_between(sched.last + 1)) \in FillType(sc.cron)
      BY <1>c, IdleTypes DEF cron_ticks_between
    <3> QED
      BY <2>2, <3>1 DEF TypeInv, Filler
  <2> QED
    BY <1>1, <2>1, <2>3, <2>4 DEF TypeInv, Reconcile, rows
<1>2. CASE Install(e)
  <2>1. PICK k \in Slots :
        /\ loops' = [loops EXCEPT ![e][k] = [NoLoop EXCEPT !.pc = "top", !.id = recon[e].target]]
        /\ recon' = [recon EXCEPT ![e] = [pc |-> "idle", id |-> recon[e].target, slot |-> k,
                                          target |-> NoId]]
    BY <1>2 DEF Install
  <2>2. recon[e].target \in Nat
    BY <1>c DEF ReconType
  <2>3. loops' \in [Engines -> [Slots -> LoopType(sc.cron)]]
    BY <1>c, <2>1, <2>2, IdleTypes DEF TypeInv
  <2>4. [pc |-> "idle", id |-> recon[e].target, slot |-> k, target |-> NoId] \in ReconType
    BY <2>2 DEF ReconType, NoId
  <2>5. recon' \in [Engines -> ReconType]
    BY <2>1, <2>4 DEF TypeInv
  <2> QED
    BY <1>2, <2>3, <2>5 DEF TypeInv, Install, rows
<1> QED
  BY <1>1, <1>2 DEF Reconciler

LEMMA TypeLoop == ASSUME TypeInv, NEW e \in Engines, NEW k \in Slots, Loop(e, k) PROVE TypeInv'
<1>c. sc \in Scenarios /\ sc.cron \subseteq Nat \ {NoTick} /\ loops[e][k] \in LoopType(sc.cron)
  BY Cron DEF TypeInv
<1>q. sc.queued \in BOOLEAN /\ "outage" \in FaultKinds
  BY <1>c, ScenarioAssumption DEF FaultKinds
<1>l. ASSUME NEW l \in LoopType(sc.cron), loops' = [loops EXCEPT ![e][k] = l], sc' = sc
      PROVE  loops' \in [Engines -> [Slots -> LoopType(sc.cron)]]
  BY <1>l DEF TypeInv
<1>1. CASE LoopTop(e, k)
  <2>1. next_cron_instant \in sc.cron \cup {NoTick}
    <3> DEFINE later == {c \in sc.cron : c > now}
    <3>1. later \subseteq Nat /\ later \subseteq sc.cron
      BY <1>c
    <3>2. later # {} => Min(later) \in later
      BY <3>1, MinOf
    <3> QED
      BY <3>1, <3>2 DEF next_cron_instant
  <2>2. PICK n \in sc.cron \cup {NoTick} : n = next_cron_instant
    BY <2>1
  <2>3. NoLoop \in LoopType(sc.cron)
    BY <1>c, IdleTypes
  <2>4. n # NoTick => [loops[e][k] EXCEPT !.pc = "sleep", !.next = n] \in LoopType(sc.cron)
    BY <1>c DEF LoopType
  <2>5. loops' = [loops EXCEPT ![e][k] =
            IF loops[e][k].stop \/ loops[e][k].cancelled \/ n = NoTick THEN NoLoop
            ELSE [loops[e][k] EXCEPT !.pc = "sleep", !.next = n]]
    BY <1>1, <2>2 DEF LoopTop
  <2>6. loops' \in [Engines -> [Slots -> LoopType(sc.cron)]]
    BY <2>3, <2>4, <2>5 DEF TypeInv
  <2> QED
    BY <1>1, <2>6 DEF TypeInv, LoopTop, rows
<1>2. CASE LoopStops(e, k)
  <2>1. loops' \in [Engines -> [Slots -> LoopType(sc.cron)]]
    BY <1>2, <1>c, <1>l, IdleTypes DEF LoopStops
  <2> QED
    BY <1>2, <2>1 DEF TypeInv, LoopStops, rows
<1>3. CASE LoopFires(e, k)
  <2>1. PICK t \in sc.cron : t = loops[e][k].next
    BY <1>3, <1>c DEF LoopFires, LoopType
  <2>2. CASE /\ persist_scheduled_tick(e, t, sc.queued)
             /\ loops' = [loops EXCEPT ![e][k].pc = "launch", ![e][k].created = IsFirst(t)]
             /\ UNCHANGED <<orphans, faults>>
    <3>1. PICK b \in BOOLEAN : b = IsFirst(t)
      BY DEF IsFirst
    <3>2. [loops[e][k] EXCEPT !.pc = "launch", !.created = b] \in LoopType(sc.cron)
      BY <1>c, <2>1 DEF LoopType
    <3>3. loops' \in [Engines -> [Slots -> LoopType(sc.cron)]]
      BY <2>2, <3>1, <3>2 DEF TypeInv
    <3>4. ticks' \in [sc.cron -> RowType] /\ born' \in Seq(sc.cron)
      BY <1>3, <1>q, <2>2, TickTypes DEF LoopFires
    <3> QED
      BY <1>3, <2>2, <3>3, <3>4 DEF TypeInv, LoopFires
  <2>3. CASE PersistFails(e, t) /\ LoopMoves(e, k, "stamp")
    <3>1. /\ faults' \in [FaultKinds -> Nat] /\ orphans' \subseteq sc.cron
          /\ ticks' \in [sc.cron -> RowType] /\ born' \in Seq(sc.cron)
      BY <1>3, <2>3, FailTypes DEF LoopFires
    <3>2. [loops[e][k] EXCEPT !.pc = "stamp"] \in LoopType(sc.cron)
      BY <1>c, <2>1 DEF LoopType
    <3>3. loops' \in [Engines -> [Slots -> LoopType(sc.cron)]]
      BY <2>3, <3>2 DEF TypeInv, LoopMoves
    <3> QED
      BY <1>3, <2>3, <3>1, <3>3 DEF TypeInv, LoopFires
  <2> QED
    BY <1>3, <2>1, <2>2, <2>3 DEF LoopFires
<1>4. CASE LoopLaunches(e, k)
  <2>1. loops[e][k].next \in sc.cron /\ loops[e][k].created \in BOOLEAN
    BY <1>4, <1>c DEF LoopLaunches, LoopType
  <2>2. [loops[e][k] EXCEPT !.pc = "stamp"] \in LoopType(sc.cron)
    BY <1>c, <2>1 DEF LoopType
  <2>3. loops' \in [Engines -> [Slots -> LoopType(sc.cron)]]
    BY <1>4, <2>2 DEF TypeInv, LoopMoves, LoopLaunches
  <2>4. runs' \in [Engines -> [sc.cron -> Nat]] /\ launched' \in [sc.cron -> Nat]
    BY <1>4, <2>1, TickTypes DEF LoopLaunches
  <2> QED
    BY <1>4, <2>3, <2>4 DEF TypeInv, LoopLaunches, rows
<1>5. CASE set_schedule_last_fired(e, k)
  <2>1. [loops[e][k] EXCEPT !.pc = "top", !.next = NoTick, !.created = FALSE] \in LoopType(sc.cron)
    BY <1>c DEF LoopType
  <2>2. loops' \in [Engines -> [Slots -> LoopType(sc.cron)]]
    BY <1>5, <2>1 DEF TypeInv, set_schedule_last_fired
  <2>3. sched' \in SchedType(sc.cron)
    BY <1>5, <1>c DEF TypeInv, set_schedule_last_fired, SchedType, LoopType
  <2> QED
    BY <1>5, <2>2, <2>3 DEF TypeInv, set_schedule_last_fired, rows
<1> QED
  BY <1>1, <1>2, <1>3, <1>4, <1>5 DEF Loop

LEMMA TypeOperator == ASSUME TypeInv, Operator PROVE TypeInv'
<1>c. sc \in Scenarios /\ sc.cron \subseteq Nat \ {NoTick}
  BY Cron DEF TypeInv
<1>1. calls' \in 0 .. Len(sc.calls)
  <2>1. calls \in Nat /\ calls < Len(sc.calls) /\ Len(sc.calls) \in Nat
    BY <1>c, ScenarioAssumption DEF TypeInv, Operator
  <2> QED
    BY <2>1 DEF Operator
<1>2. CASE UNCHANGED <<rows, fills>> /\ sched' \in SchedType(sc.cron)
  BY <1>1, <1>2 DEF Operator, TypeInv, rows
<1>3. ASSUME NEW e \in Engines, backfill_schedule(e) PROVE TypeInv'
  <2>1. StartFill(cron_ticks_between(0)) \in FillType(sc.cron)
    BY <1>c, IdleTypes DEF cron_ticks_between
  <2>2. fills' \in [Engines -> [Filler -> FillType(sc.cron)]]
    BY <1>3, <2>1 DEF backfill_schedule, TypeInv, Filler
  <2> QED
    BY <1>1, <1>3, <2>2 DEF Operator, TypeInv, backfill_schedule, rows
<1>4. ASSUME NEW t \in sc.cron, ClientBackfills(t) PROVE TypeInv'
  <2>1. ticks' \in [sc.cron -> RowType] /\ born' \in Seq(sc.cron)
    BY <1>4, TickTypes DEF ClientBackfills, Operator
  <2> QED
    BY <1>1, <1>4, <2>1 DEF Operator, TypeInv, ClientBackfills
<1>5. CASE create_schedule \/ apply_schedules \/ delete_schedule
           \/ set_schedule_status("PAUSED") \/ set_schedule_status("ACTIVE")
  <2>1. sched' \in SchedType(sc.cron)
    <3>1. CASE create_schedule \/ apply_schedules
      BY <3>1 DEF create_schedule, apply_schedules, Create, TypeInv, SchedType
    <3>2. CASE delete_schedule
      BY <3>2 DEF delete_schedule, TypeInv, SchedType
    <3>3. CASE set_schedule_status("PAUSED") \/ set_schedule_status("ACTIVE")
      BY <3>3 DEF set_schedule_status, TypeInv, SchedType
    <3> QED
      BY <1>5, <3>1, <3>2, <3>3
  <2>2. UNCHANGED <<rows, fills>>
    BY <1>5 DEF create_schedule, apply_schedules, delete_schedule, set_schedule_status
  <2> QED
    BY <1>2, <2>1, <2>2
<1> QED
  BY <1>3, <1>4, <1>5 DEF Operator

LEMMA TypeStep == ASSUME TypeInv, [Next]_vars PROVE TypeInv'
<1>1. CASE Tick
  <2>1. now \in Nat /\ now < sc.horizon /\ sc.horizon \in Nat
    BY <1>1, ScenarioAssumption DEF Tick, TypeInv
  <2>2. now' \in 0 .. sc.horizon
    BY <1>1, <2>1 DEF Tick
  <2> QED
    BY <1>1, <2>2 DEF Tick, TypeInv, process, rows
<1>2. CASE UNCHANGED vars
  BY <1>2 DEF TypeInv, vars, process, rows
<1> QED
  BY <1>1, <1>2, TypeLaunch, TypeStop, TypeWork, TypeReconcile, TypeLoop, TypeFill, TypeOperator
  DEF Next, Quiet

\* The scenario is picked once.
LEMMA ScenarioKept == [Next]_vars => sc' = sc
<1>1. ASSUME NEW e \in Engines, Launch(e) PROVE sc' = sc
  BY <1>1 DEF Launch, LaunchBegins, create_application_version, upsert_queue, SpawnTasks, Spawn,
              get_latest_application_version, LaunchFails
<1>2. ASSUME NEW e \in Engines,
             \/ deactivate(e) \/ shutdown(e) \/ DrainEnds(e) \/ Exit(e) \/ Crash(e)
             \/ Recover(e) \/ Dispatch(e) \/ Reconciler(e) \/ \E t \in sc.cron : RunEnds(e, t)
      PROVE  sc' = sc
  BY <1>2 DEF deactivate, shutdown, Retire, Stopping, DrainEnds, Exit, Crash, Die, Recover, RecoverNext,
              RecoverFails, RecoverRunEnds, RecoverBreaks, Dispatch, Claim, StartClaimed, Reconciler,
              Reconcile, Install, RunEnds
<1>3. ASSUME NEW e \in Engines, NEW k \in Slots, Loop(e, k) PROVE sc' = sc
  BY <1>3 DEF Loop, LoopTop, LoopStops, LoopFires, LoopLaunches, set_schedule_last_fired
<1>4. ASSUME NEW e \in Engines, NEW w \in Filler, Fill(e, w) PROVE sc' = sc
  BY <1>4 DEF Fill, FillPersists, FillLaunches, FillEnds
<1>5. CASE Operator \/ Tick \/ UNCHANGED vars
  BY <1>5 DEF Operator, Tick, vars
<1> QED
  BY <1>1, <1>2, <1>3, <1>4, <1>5 DEF Next, Quiet

LEMMA TypeInit == Init => TypeInv
<1> SUFFICES ASSUME Init PROVE TypeInv
  OBVIOUS
<1>c. sc \in Scenarios /\ sc.cron \subseteq Nat \ {NoTick}
  BY Cron DEF Init
<1>1. sc.horizon \in Nat /\ sc.calls \in Seq(Calls) /\ sc.faults \in [FaultKinds -> Nat]
  BY <1>c, ScenarioAssumption
<1>2. now \in 0 .. sc.horizon /\ calls \in 0 .. Len(sc.calls)
  BY <1>1 DEF Init
<1>3. registry \in [versions : Seq(Nat), config : Nat] /\ born \in Seq(sc.cron)
  BY DEF Init
<1>4. sched \in SchedType(sc.cron)
  BY DEF Init, SchedType, MacroId
<1> QED
  BY <1>c, <1>1, <1>2, <1>3, <1>4, IdleTypes DEF Init, TypeInv

(***************************************************************************)
(* Every variable keeps its type.                                          *)
(***************************************************************************)
THEOREM TypeCorrect == Spec => []TypeOK
<1>1. TypeInv /\ [Next]_vars => TypeInv'
  BY TypeStep
<1> QED
  BY <1>1, TypeInit, TypeInvImplies, PTL DEF Spec

(***************************************************************************)
(* A tick is started once.  Between the insert of a tick's row and the     *)
(* start of its run the one whose insert created the row owes the start.   *)
(* No two owe the same one, nobody owes one that was started or one whose  *)
(* row does not exist, and a row never goes away.                          *)
(***************************************************************************)
Owed(t) ==
    \/ \E e \in Engines, k \in Slots : LoopOwes(e, k, t)
    \/ \E e \in Engines, w \in Filler : FillOwes(e, w, t)

OneOwes(t) ==
    /\ \A e, d \in Engines, k, j \in Slots :
          LoopOwes(e, k, t) /\ LoopOwes(d, j, t) => e = d /\ k = j
    /\ \A e, d \in Engines, w, v \in Filler :
          FillOwes(e, w, t) /\ FillOwes(d, v, t) => e = d /\ w = v
    /\ \A e, d \in Engines, k \in Slots, w \in Filler : ~(LoopOwes(e, k, t) /\ FillOwes(d, w, t))

StartedOnce(t) ==
    /\ launched[t] <= 1
    /\ ticks[t].status = "NONE" => launched[t] = 0 /\ ~Owed(t)
    /\ Owed(t) => launched[t] = 0
    /\ OneOwes(t)

OnceInv == \A t \in sc.cron : StartedOnce(t)

\* Nobody comes to owe t, and a row that exists stays.
Settled(t) ==
    /\ \A e \in Engines, k \in Slots : LoopOwes(e, k, t)' => LoopOwes(e, k, t)
    /\ \A e \in Engines, w \in Filler : FillOwes(e, w, t)' => FillOwes(e, w, t)
    /\ ticks'[t].status = "NONE" => ticks[t].status = "NONE"

LEMMA SettledOnce ==
    ASSUME NEW t \in sc.cron, StartedOnce(t), Settled(t), launched'[t] = launched[t]
    PROVE  StartedOnce(t)'
<1>1. Owed(t)' => Owed(t)
  BY DEF Owed, Settled
<1>2. OneOwes(t)'
  BY DEF StartedOnce, OneOwes, Settled
<1> QED
  BY <1>1, <1>2 DEF StartedOnce, Settled

\* The one who owes t starts it, and then owes nothing.
LEMMA StartOnce ==
    ASSUME NEW t \in sc.cron, StartedOnce(t), Settled(t), ~Owed(t)', Owed(t),
           launched'[t] = launched[t] + 1
    PROVE  StartedOnce(t)'
<1>1. launched[t] = 0 /\ ticks[t].status # "NONE"
  BY DEF StartedOnce
<1>2. OneOwes(t)'
  BY DEF OneOwes, Owed
<1> QED
  BY <1>1, <1>2 DEF StartedOnce, Settled

\* Only the loops and backfills change who owes what.
LEMMA OnceQuiet ==
    ASSUME TypeInv, OnceInv, sc' = sc, launched' = launched,
           \A t \in sc.cron : ticks'[t].status = "NONE" => ticks[t].status = "NONE",
           \A e \in Engines, k \in Slots : \/ loops'[e][k].pc # "launch"
                                           \/ /\ loops'[e][k].pc = loops[e][k].pc
                                              /\ loops'[e][k].created = loops[e][k].created
                                              /\ loops'[e][k].next = loops[e][k].next,
           \A e \in Engines, w \in Filler : fills'[e][w].pc # "launch" \/ fills'[e][w] = fills[e][w]
    PROVE  OnceInv'
<1> SUFFICES ASSUME NEW t \in sc.cron PROVE StartedOnce(t)'
  BY DEF OnceInv
<1>1. \A e \in Engines, k \in Slots : LoopOwes(e, k, t)' => LoopOwes(e, k, t)
  BY DEF LoopOwes
<1>2. \A e \in Engines, w \in Filler : FillOwes(e, w, t)' => FillOwes(e, w, t)
  BY DEF FillOwes
<1>3. Settled(t)
  BY <1>1, <1>2 DEF Settled
<1> QED
  BY <1>3, SettledOnce DEF OnceInv

\* An insert never takes a row away, and creates it if there was none.
LEMMA PersistKeeps ==
    ASSUME TypeInv, NEW e \in Engines \cup {NoEngine}, NEW t \in sc.cron, NEW b \in BOOLEAN,
           persist_scheduled_tick(e, t, b)
    PROVE  /\ ticks'[t].status # "NONE"
           /\ \A u \in sc.cron \ {t} : ticks'[u] = ticks[u]
           /\ ~IsFirst(t) => ticks' = ticks
           /\ IsFirst(t) => ticks'[t] = [status |-> IF b THEN "ENQUEUED" ELSE "PENDING",
                                         owner |-> IF b THEN NoEngine ELSE e, queued |-> b]
  BY DEF persist_scheduled_tick, IsFirst, TypeInv, rows

\* An insert that fails leaves the row as it was, or creates it.
LEMMA FailKeeps ==
    ASSUME TypeInv, NEW e \in Engines, NEW t \in sc.cron, PersistFails(e, t)
    PROVE  /\ \A u \in sc.cron \ {t} : ticks'[u] = ticks[u]
           /\ ~IsFirst(t) => ticks' = ticks
           /\ \A u \in sc.cron : ticks'[u].status = "NONE" => ticks[u].status = "NONE"
<1>1. sc.queued \in BOOLEAN
  BY ScenarioAssumption DEF TypeInv
<1>2. CASE UNCHANGED rows
  BY <1>2 DEF rows
<1>3. CASE persist_scheduled_tick(e, t, sc.queued)
  BY <1>1, <1>3, PersistKeeps
<1> QED
  BY <1>2, <1>3 DEF PersistFails

LEMMA OnceLoop == ASSUME TypeInv, OnceInv, NEW e \in Engines, NEW k \in Slots, Loop(e, k) PROVE OnceInv'
<1>l. loops[e][k] \in LoopType(sc.cron) /\ loops \in [Engines -> [Slots -> LoopType(sc.cron)]]
  BY DEF TypeInv
<1>o. ASSUME NEW l, loops' = [loops EXCEPT ![e][k] = l]
      PROVE  /\ loops'[e][k] = l
             /\ \A d \in Engines, j \in Slots : d # e \/ j # k => loops'[d][j] = loops[d][j]
  BY <1>o, <1>l
<1>1. CASE LoopTop(e, k) \/ LoopStops(e, k) \/ set_schedule_last_fired(e, k)
  <2>1. PICK l : loops' = [loops EXCEPT ![e][k] = l] /\ l.pc # "launch"
    <3>1. NoLoop.pc # "launch"
      BY DEF NoLoop
    <3>2. \A n : [loops[e][k] EXCEPT !.pc = "sleep", !.next = n].pc # "launch"
      BY <1>l DEF LoopType
    <3>3. [loops[e][k] EXCEPT !.pc = "top", !.next = NoTick, !.created = FALSE].pc # "launch"
      BY <1>l DEF LoopType
    <3>4. CASE LoopTop(e, k)
      BY <3>1, <3>2, <3>4 DEF LoopTop
    <3>5. CASE LoopStops(e, k)
      BY <3>1, <3>5 DEF LoopStops
    <3>6. CASE set_schedule_last_fired(e, k)
      BY <3>3, <3>6 DEF set_schedule_last_fired
    <3> QED
      BY <1>1, <3>4, <3>5, <3>6
  <2>2. sc' = sc /\ launched' = launched /\ ticks' = ticks /\ fills' = fills
    BY <1>1 DEF LoopTop, LoopStops, set_schedule_last_fired, rows
  <2> QED
    BY <1>o, <2>1, <2>2, OnceQuiet
<1>2. CASE LoopFires(e, k)
  <2>1. PICK t \in sc.cron : t = loops[e][k].next
    BY <1>2, <1>l DEF LoopFires, LoopType
  <2>2. sc' = sc /\ launched' = launched /\ fills' = fills
    BY <1>2 DEF LoopFires
  <2>3. CASE PersistFails(e, t) /\ LoopMoves(e, k, "stamp")
    <3>1. loops' = [loops EXCEPT ![e][k] = [loops[e][k] EXCEPT !.pc = "stamp"]]
      BY <2>3 DEF LoopMoves
    <3>2. [loops[e][k] EXCEPT !.pc = "stamp"].pc # "launch"
      BY <1>l DEF LoopType
    <3>3. \A u \in sc.cron : ticks'[u].status = "NONE" => ticks[u].status = "NONE"
      BY <2>3, FailKeeps
    <3> QED
      BY <1>o, <2>2, <3>1, <3>2, <3>3, OnceQuiet
  <2>4. CASE /\ persist_scheduled_tick(e, t, sc.queued)
             /\ loops' = [loops EXCEPT ![e][k].pc = "launch", ![e][k].created = IsFirst(t)]
    <3>0. sc.queued \in BOOLEAN
      BY ScenarioAssumption DEF TypeInv
    <3>1. /\ ticks'[t].status # "NONE" /\ \A u \in sc.cron \ {t} : ticks'[u] = ticks[u]
          /\ ~IsFirst(t) => ticks' = ticks
      BY <2>4, <3>0, PersistKeeps
    <3>2. /\ loops'[e][k].created = TRUE => IsFirst(t)
          /\ loops'[e][k].next = t
          /\ \A d \in Engines, j \in Slots : d # e \/ j # k => loops'[d][j] = loops[d][j]
      <4>1. PICK b \in BOOLEAN : b = IsFirst(t)
        BY DEF IsFirst
      <4>2. loops' = [loops EXCEPT ![e][k] = [loops[e][k] EXCEPT !.pc = "launch", !.created = b]]
        BY <1>l, <2>4, <4>1
      <4>3. LET l == [loops[e][k] EXCEPT !.pc = "launch", !.created = b]
            IN  l.created = b /\ l.next = t
        BY <1>l, <2>1 DEF LoopType
      <4> QED
        BY <1>o, <4>1, <4>2, <4>3
    <3>3. \A d \in Engines, w \in Filler, u \in sc.cron : FillOwes(d, w, u)' <=> FillOwes(d, w, u)
      BY <2>2 DEF FillOwes
    <3>4. \A d \in Engines, j \in Slots, u \in sc.cron :
             d # e \/ j # k => (LoopOwes(d, j, u)' <=> LoopOwes(d, j, u))
      BY <3>2 DEF LoopOwes
    <3>5. \A u \in sc.cron : LoopOwes(e, k, u)' => u = t /\ IsFirst(t)
      BY <3>2 DEF LoopOwes
    <3> SUFFICES ASSUME NEW u \in sc.cron PROVE StartedOnce(u)'
      BY <2>2 DEF OnceInv
    <3>6. CASE u # t \/ ~IsFirst(t)
      <4>1. Settled(u)
        BY <3>1, <3>3, <3>4, <3>5, <3>6 DEF Settled
      <4> QED
        BY <2>2, <4>1, SettledOnce DEF OnceInv
    <3>7. CASE u = t /\ IsFirst(t)
      <4>1. launched[t] = 0 /\ ~Owed(t)
        BY <3>7 DEF IsFirst, OnceInv, StartedOnce
      <4>2. /\ \A d \in Engines, w \in Filler : ~FillOwes(d, w, t)'
            /\ \A d \in Engines, j \in Slots : LoopOwes(d, j, t)' => d = e /\ j = k
        BY <3>3, <3>4, <4>1 DEF Owed
      <4>3. OneOwes(t)'
        BY <4>2 DEF OneOwes
      <4> QED
        BY <2>2, <3>1, <3>7, <4>1, <4>3 DEF StartedOnce
    <3> QED
      BY <3>6, <3>7
  <2> QED
    BY <1>2, <2>1, <2>3, <2>4 DEF LoopFires
<1>3. CASE LoopLaunches(e, k)
  <2>1. PICK t \in sc.cron : t = loops[e][k].next
    BY <1>3, <1>l DEF LoopLaunches, LoopType
  <2>2. sc' = sc /\ ticks' = ticks /\ fills' = fills
    BY <1>3 DEF LoopLaunches, rows
  <2>3. /\ loops'[e][k].pc # "launch"
        /\ \A d \in Engines, j \in Slots : d # e \/ j # k => loops'[d][j] = loops[d][j]
    <3>1. loops' = [loops EXCEPT ![e][k] = [loops[e][k] EXCEPT !.pc = "stamp"]]
      BY <1>3 DEF LoopMoves, LoopLaunches
    <3>2. [loops[e][k] EXCEPT !.pc = "stamp"].pc # "launch"
      BY <1>l DEF LoopType
    <3> QED
      BY <1>o, <3>1, <3>2
  <2>4. CASE ~(loops[e][k].created /\ ~sc.queued)
    BY <1>3, <2>2, <2>3, <2>4, OnceQuiet DEF LoopLaunches, launch_scheduled_tick
  <2>5. CASE loops[e][k].created /\ ~sc.queued
    <3>1. launched' = [launched EXCEPT ![t] = launched[t] + 1]
      BY <1>3, <2>1, <2>5 DEF LoopLaunches, launch_scheduled_tick
    <3>2. LoopOwes(e, k, t)
      BY <1>3, <1>l, <2>1, <2>5 DEF LoopLaunches, LoopOwes, LoopType
    <3>3. \A d \in Engines, w \in Filler, u \in sc.cron : FillOwes(d, w, u)' <=> FillOwes(d, w, u)
      BY <2>2 DEF FillOwes
    <3>4. \A d \in Engines, j \in Slots, u \in sc.cron :
             d # e \/ j # k => (LoopOwes(d, j, u)' <=> LoopOwes(d, j, u))
      BY <2>3 DEF LoopOwes
    <3>5. \A u \in sc.cron : ~LoopOwes(e, k, u)'
      BY <2>3 DEF LoopOwes
    <3> SUFFICES ASSUME NEW u \in sc.cron PROVE StartedOnce(u)'
      BY <2>2 DEF OnceInv
    <3>6. Settled(u)
      BY <2>2, <3>3, <3>4, <3>5 DEF Settled
    <3>7. CASE u # t
      <4>1. launched'[u] = launched[u]
        BY <3>1, <3>7 DEF TypeInv
      <4> QED
        BY <3>6, <4>1, SettledOnce DEF OnceInv
    <3>8. CASE u = t
      <4>1. launched'[t] = launched[t] + 1
        BY <3>1 DEF TypeInv
      <4>2. Owed(t) /\ OneOwes(t)
        BY <3>2 DEF Owed, OnceInv, StartedOnce
      <4>3. ~Owed(t)'
        BY <3>2, <3>3, <3>4, <3>5, <4>2 DEF Owed, OneOwes
      <4> QED
        BY <3>6, <3>8, <4>1, <4>2, <4>3, StartOnce DEF OnceInv
    <3> QED
      BY <3>7, <3>8
  <2> QED
    BY <2>4, <2>5
<1> QED
  BY <1>1, <1>2, <1>3 DEF Loop

LEMMA OnceFill == ASSUME TypeInv, OnceInv, NEW e \in Engines, NEW w \in Filler, Fill(e, w) PROVE OnceInv'
<1>f. fills[e][w] \in FillType(sc.cron) /\ fills \in [Engines -> [Filler -> FillType(sc.cron)]]
  BY DEF TypeInv
<1>o. ASSUME NEW f, fills' = [fills EXCEPT ![e][w] = f]
      PROVE  /\ fills'[e][w] = f
             /\ \A d \in Engines, v \in Filler : d # e \/ v # w => fills'[d][v] = fills[d][v]
  BY <1>o, <1>f
<1>1. ASSUME FillOver(e, w), UNCHANGED <<sc, launched, loops>>,
             \A u \in sc.cron : ticks'[u].status = "NONE" => ticks[u].status = "NONE"
      PROVE  OnceInv'
  <2>1. NoFill.pc # "launch"
    BY DEF NoFill
  <2> QED
    BY <1>1, <1>o, <2>1, OnceQuiet DEF FillOver
<1>2. CASE FillPersists(e, w)
  <2>1. PICK t \in sc.cron : t = Min(fills[e][w].todo)
    BY <1>2, <1>f, MinOf, Cron DEF FillPersists, FillType, TypeInv
  <2>2. sc' = sc /\ launched' = launched /\ loops' = loops
    BY <1>2 DEF FillPersists
  <2>3. CASE PersistFails(e, t) /\ FillOver(e, w)
    BY <1>1, <2>2, <2>3, FailKeeps
  <2>4. CASE /\ persist_scheduled_tick(e, t, sc.queued)
             /\ fills' = [fills EXCEPT ![e][w] = [pc |-> "launch", todo |-> fills[e][w].todo \ {t},
                                                  cur |-> t, created |-> IsFirst(t)]]
    <3>0. sc.queued \in BOOLEAN
      BY ScenarioAssumption DEF TypeInv
    <3>1. /\ ticks'[t].status # "NONE" /\ \A u \in sc.cron \ {t} : ticks'[u] = ticks[u]
          /\ ~IsFirst(t) => ticks' = ticks
      BY <2>4, <3>0, PersistKeeps
    <3>2. /\ fills'[e][w].created = TRUE => IsFirst(t)
          /\ fills'[e][w].cur = t
          /\ \A d \in Engines, v \in Filler : d # e \/ v # w => fills'[d][v] = fills[d][v]
      <4>1. PICK b \in BOOLEAN : b = IsFirst(t)
        BY DEF IsFirst
      <4>2. PICK f : f = [pc |-> "launch", todo |-> fills[e][w].todo \ {t}, cur |-> t, created |-> b]
        OBVIOUS
      <4>3. fills' = [fills EXCEPT ![e][w] = f]
        BY <2>4, <4>1, <4>2
      <4>4. f.created = b /\ f.cur = t
        BY <4>2
      <4> QED
        BY <1>o, <4>1, <4>3, <4>4
    <3>3. \A d \in Engines, k \in Slots, u \in sc.cron : LoopOwes(d, k, u)' <=> LoopOwes(d, k, u)
      BY <2>2 DEF LoopOwes
    <3>4. \A d \in Engines, v \in Filler, u \in sc.cron :
             d # e \/ v # w => (FillOwes(d, v, u)' <=> FillOwes(d, v, u))
      BY <3>2 DEF FillOwes
    <3>5. \A u \in sc.cron : FillOwes(e, w, u)' => u = t /\ IsFirst(t)
      BY <3>2 DEF FillOwes
    <3> SUFFICES ASSUME NEW u \in sc.cron PROVE StartedOnce(u)'
      BY <2>2 DEF OnceInv
    <3>6. CASE u # t \/ ~IsFirst(t)
      <4>1. Settled(u)
        BY <3>1, <3>3, <3>4, <3>5, <3>6 DEF Settled
      <4> QED
        BY <2>2, <4>1, SettledOnce DEF OnceInv
    <3>7. CASE u = t /\ IsFirst(t)
      <4>1. launched[t] = 0 /\ ~Owed(t)
        BY <3>7 DEF IsFirst, OnceInv, StartedOnce
      <4>2. /\ \A d \in Engines, k \in Slots : ~LoopOwes(d, k, t)'
            /\ \A d \in Engines, v \in Filler : FillOwes(d, v, t)' => d = e /\ v = w
        BY <3>3, <3>4, <4>1 DEF Owed
      <4>3. OneOwes(t)'
        BY <4>2 DEF OneOwes
      <4> QED
        BY <2>2, <3>1, <3>7, <4>1, <4>3 DEF StartedOnce
    <3> QED
      BY <3>6, <3>7
  <2> QED
    BY <1>2, <2>1, <2>3, <2>4 DEF FillPersists
<1>3. CASE FillLaunches(e, w)
  <2>1. PICK t \in sc.cron : t = fills[e][w].cur
    BY <1>3, <1>f DEF FillLaunches, FillType
  <2>2. sc' = sc /\ ticks' = ticks /\ loops' = loops
    BY <1>3 DEF FillLaunches, rows
  <2>3. /\ fills'[e][w].pc # "launch"
        /\ \A d \in Engines, v \in Filler : d # e \/ v # w => fills'[d][v] = fills[d][v]
    <3>1. [fills[e][w] EXCEPT !.pc = "persist", !.cur = NoTick, !.created = FALSE].pc # "launch"
      BY <1>f DEF FillType
    <3> QED
      BY <1>3, <1>o, <3>1 DEF FillLaunches
  <2>4. CASE ~(fills[e][w].created /\ ~sc.queued)
    BY <1>3, <2>2, <2>3, <2>4, OnceQuiet DEF FillLaunches, launch_scheduled_tick
  <2>5. CASE fills[e][w].created /\ ~sc.queued
    <3>1. launched' = [launched EXCEPT ![t] = launched[t] + 1]
      BY <1>3, <2>1, <2>5 DEF FillLaunches, launch_scheduled_tick
    <3>2. FillOwes(e, w, t)
      BY <1>3, <1>f, <2>1, <2>5 DEF FillLaunches, FillOwes, FillType
    <3>3. \A d \in Engines, k \in Slots, u \in sc.cron : LoopOwes(d, k, u)' <=> LoopOwes(d, k, u)
      BY <2>2 DEF LoopOwes
    <3>4. \A d \in Engines, v \in Filler, u \in sc.cron :
             d # e \/ v # w => (FillOwes(d, v, u)' <=> FillOwes(d, v, u))
      BY <2>3 DEF FillOwes
    <3>5. \A u \in sc.cron : ~FillOwes(e, w, u)'
      BY <2>3 DEF FillOwes
    <3> SUFFICES ASSUME NEW u \in sc.cron PROVE StartedOnce(u)'
      BY <2>2 DEF OnceInv
    <3>6. Settled(u)
      BY <2>2, <3>3, <3>4, <3>5 DEF Settled
    <3>7. CASE u # t
      <4>1. launched'[u] = launched[u]
        BY <3>1, <3>7 DEF TypeInv
      <4> QED
        BY <3>6, <4>1, SettledOnce DEF OnceInv
    <3>8. CASE u = t
      <4>1. launched'[t] = launched[t] + 1
        BY <3>1 DEF TypeInv
      <4>2. Owed(t) /\ OneOwes(t)
        BY <3>2 DEF Owed, OnceInv, StartedOnce
      <4>3. ~Owed(t)'
        BY <3>2, <3>3, <3>4, <3>5, <4>2 DEF Owed, OneOwes
      <4> QED
        BY <3>6, <3>8, <4>1, <4>2, <4>3, StartOnce DEF OnceInv
    <3> QED
      BY <3>7, <3>8
  <2> QED
    BY <2>4, <2>5
<1>4. CASE FillEnds(e, w)
  BY <1>1, <1>4 DEF FillEnds, rows
<1> QED
  BY <1>2, <1>3, <1>4 DEF Fill

\* A pass of the reconciler sets stop flags only.
LEMMA ReconcileLoops ==
    ASSUME TypeInv, NEW e \in Engines, Reconcile(e), NEW d \in Engines, NEW k \in Slots
    PROVE  /\ loops'[d][k].pc = loops[d][k].pc
           /\ loops'[d][k].created = loops[d][k].created
           /\ loops'[d][k].next = loops[d][k].next
<1>1. CASE loops' = loops
  BY <1>1
<1>2. CASE recon[e].id # NoId
  <2>1. PICK j \in Slots : j = recon[e].slot
    BY <1>2 DEF ReconType, TypeInv
  <2>2. loops' = [loops EXCEPT ![e][j].stop = loops[e][j].pc # "off"]
    BY <1>2, <2>1 DEF Reconcile
  <2>3. loops[d][k] \in LoopType(sc.cron)
    BY DEF TypeInv
  <2>4. CASE d # e \/ k # j
    BY <2>2, <2>4 DEF TypeInv
  <2>5. CASE d = e /\ k = j
    <3>1. loops'[e][k] = [loops[e][k] EXCEPT !.stop = loops[e][k].pc # "off"]
      BY <2>2, <2>5 DEF TypeInv
    <3> QED
      BY <2>3, <2>5, <3>1 DEF LoopType
  <2> QED
    BY <2>4, <2>5
<1> QED
  BY <1>1, <1>2 DEF Reconcile

\* deactivate and shutdown leave the loops where they are.
LEMMA StopLoops ==
    ASSUME TypeInv, NEW e \in Engines, deactivate(e) \/ shutdown(e) \/ DrainEnds(e),
           NEW d \in Engines, NEW k \in Slots
    PROVE  /\ loops'[d][k].pc = loops[d][k].pc
           /\ loops'[d][k].created = loops[d][k].created
           /\ loops'[d][k].next = loops[d][k].next
<1>1. CASE loops' = loops
  BY <1>1
<1>2. CASE loops' = [loops EXCEPT ![e] =
                [j \in Slots |-> [loops[e][j] EXCEPT !.cancelled = loops[e][j].pc # "off"]]]
  <2>1. loops[d][k] \in LoopType(sc.cron)
    BY DEF TypeInv
  <2>2. CASE d # e
    BY <1>2, <2>2 DEF TypeInv
  <2>3. CASE d = e
    <3>1. loops'[e][k] = [loops[e][k] EXCEPT !.cancelled = loops[e][k].pc # "off"]
      BY <1>2 DEF TypeInv
    <3> QED
      BY <2>1, <2>3, <3>1 DEF LoopType
  <2> QED
    BY <2>2, <2>3
<1> QED
  BY <1>1, <1>2 DEF deactivate, shutdown, Retire, Stopping, DrainEnds

LEMMA OnceStep == ASSUME TypeInv, OnceInv, [Next]_vars PROVE OnceInv'
<1>q. ASSUME UNCHANGED <<sc, launched, ticks, loops, fills>> PROVE OnceInv'
  BY <1>q, OnceQuiet
<1>s. \A t \in sc.cron : ticks[t] \in RowType
  BY DEF TypeInv
<1>1. ASSUME NEW e \in Engines, Launch(e) \/ DrainEnds(e) \/ StartClaimed(e) \/ RecoverBreaks(e)
      PROVE  OnceInv'
  BY <1>1, <1>q DEF Launch, LaunchBegins, create_application_version, get_latest_application_version,
                    upsert_queue, SpawnTasks, Spawn, LaunchFails, DrainEnds, StartClaimed, RecoverBreaks,
                    rows
<1>2. ASSUME NEW e \in Engines, deactivate(e) \/ shutdown(e) PROVE OnceInv'
  <2>1. UNCHANGED <<sc, launched, ticks>> /\ AbortReconciler(e)
    BY <1>2 DEF deactivate, shutdown, Retire, Stopping, rows
  <2>2. \A d \in Engines, w \in Filler : fills'[d][w].pc # "launch" \/ fills'[d][w] = fills[d][w]
    BY <2>1 DEF AbortReconciler, TypeInv, NoFill
  <2>3. ASSUME NEW d \in Engines, NEW k \in Slots
        PROVE  /\ loops'[d][k].pc = loops[d][k].pc
               /\ loops'[d][k].created = loops[d][k].created
               /\ loops'[d][k].next = loops[d][k].next
    BY <1>2, StopLoops
  <2> QED
    BY <2>1, <2>2, <2>3, OnceQuiet
<1>3. ASSUME NEW e \in Engines, Exit(e) \/ Crash(e) PROVE OnceInv'
  <2>1. Die(e)
    BY <1>3 DEF Exit, Crash
  <2>2. \A d \in Engines, w \in Filler : fills'[d][w].pc # "launch" \/ fills'[d][w] = fills[d][w]
    BY <2>1 DEF Die, TypeInv, NoFill
  <2>3. \A d \in Engines, k \in Slots : loops'[d][k].pc # "launch" \/ loops'[d][k] = loops[d][k]
    BY <2>1 DEF Die, TypeInv, NoLoop
  <2> QED
    BY <2>1, <2>2, <2>3, OnceQuiet DEF Die, rows
<1>4. ASSUME NEW e \in Engines,
             \/ RecoverNext(e) \/ RecoverFails(e) \/ RecoverRunEnds(e) \/ Claim(e)
             \/ \E t \in sc.cron : RunEnds(e, t)
      PROVE  OnceInv'
  <2>1. UNCHANGED <<sc, launched, loops, fills>>
    BY <1>4 DEF RecoverNext, RecoverFails, RecoverRunEnds, Claim, RunEnds
  <2>2. ASSUME NEW t \in sc.cron PROVE ticks'[t].status = "NONE" => ticks[t].status = "NONE"
    <3>1. \A u \in sc.cron, s \in {"ENQUEUED", "PENDING", "SUCCESS"} :
             /\ [ticks EXCEPT ![u].status = s][t].status = "NONE" => ticks[t].status = "NONE"
             /\ [ticks EXCEPT ![u].status = s, ![u].owner = e][t].status = "NONE"
                   => ticks[t].status = "NONE"
      BY <1>s DEF TypeInv, RowType
    <3>2. recovery[e].cur # NoTick => recovery[e].cur \in sc.cron
      BY DEF TypeInv, RecoveryType
    <3>3. CASE RecoverNext(e)
      BY <3>1, <3>3 DEF RecoverNext
    <3>4. CASE RecoverRunEnds(e)
      BY <3>1, <3>2, <3>4 DEF RecoverRunEnds
    <3>5. CASE Claim(e)
      <4>1. PICK u \in sc.cron : ticks' = [ticks EXCEPT ![u].status = "PENDING", ![u].owner = e]
        BY <3>5 DEF Claim
      <4> QED
        BY <3>1, <4>1
    <3>6. ASSUME NEW u \in sc.cron, RunEnds(e, u) PROVE ticks'[t].status = "NONE" => ticks[t].status = "NONE"
      BY <3>1, <3>6 DEF RunEnds
    <3>7. CASE RecoverFails(e)
      <4>1. PICK u \in sc.cron : ticks' = ticks \/ ticks' = [ticks EXCEPT ![u].status = "ENQUEUED"]
        BY <3>7 DEF RecoverFails
      <4>2. CASE ticks' = ticks
        BY <4>2
      <4>3. CASE ticks' = [ticks EXCEPT ![u].status = "ENQUEUED"]
        BY <3>1, <4>3
      <4> QED
        BY <4>1, <4>2, <4>3
    <3> QED
      BY <1>4, <3>3, <3>4, <3>5, <3>6, <3>7
  <2> QED
    BY <2>1, <2>2, OnceQuiet
<1>5. ASSUME NEW e \in Engines, Reconcile(e) PROVE OnceInv'
  <2>1. UNCHANGED <<sc, launched, ticks>>
    BY <1>5 DEF Reconcile, rows
  <2>2. \A d \in Engines, w \in Filler : fills'[d][w].pc # "launch" \/ fills'[d][w] = fills[d][w]
    <3>1. \A S : StartFill(S).pc # "launch"
      BY DEF StartFill, NoFill
    <3> QED
      BY <1>5, <3>1 DEF Reconcile, TypeInv
  <2>3. ASSUME NEW d \in Engines, NEW k \in Slots
        PROVE  /\ loops'[d][k].pc = loops[d][k].pc
               /\ loops'[d][k].created = loops[d][k].created
               /\ loops'[d][k].next = loops[d][k].next
    BY <1>5, ReconcileLoops
  <2> QED
    BY <2>1, <2>2, <2>3, OnceQuiet
<1>6. ASSUME NEW e \in Engines, Install(e) PROVE OnceInv'
  <2>1. PICK k \in Slots :
           loops' = [loops EXCEPT ![e][k] = [NoLoop EXCEPT !.pc = "top", !.id = recon[e].target]]
    BY <1>6 DEF Install
  <2>2. [NoLoop EXCEPT !.pc = "top", !.id = recon[e].target].pc # "launch"
    BY DEF NoLoop
  <2>3. \A d \in Engines, j \in Slots : loops'[d][j].pc # "launch" \/ loops'[d][j] = loops[d][j]
    BY <2>1, <2>2 DEF TypeInv
  <2> QED
    BY <1>6, <2>3, OnceQuiet DEF Install, rows
<1>7. CASE Operator
  <2>1. UNCHANGED <<sc, launched, loops>>
    BY <1>7 DEF Operator
  <2>2. CASE UNCHANGED <<rows, fills>>
    BY <1>q, <2>1, <2>2 DEF rows
  <2>3. ASSUME NEW e \in Engines, backfill_schedule(e) PROVE OnceInv'
    <3>1. \A S : StartFill(S).pc # "launch"
      BY DEF StartFill, NoFill
    <3>2. \A d \in Engines, w \in Filler : fills'[d][w].pc # "launch" \/ fills'[d][w] = fills[d][w]
      BY <2>3, <3>1 DEF backfill_schedule, TypeInv
    <3> QED
      BY <2>1, <2>3, <3>2, OnceQuiet DEF backfill_schedule, rows
  <2>4. ASSUME NEW t \in sc.cron, ClientBackfills(t) PROVE OnceInv'
    <3>1. \A u \in sc.cron : ticks'[u].status = "NONE" => ticks[u].status = "NONE"
      BY <2>4, PersistKeeps DEF ClientBackfills
    <3> QED
      BY <2>1, <2>4, <3>1, OnceQuiet DEF ClientBackfills
  <2> QED
    BY <1>7, <2>2, <2>3, <2>4
    DEF Operator, create_schedule, apply_schedules, delete_schedule, set_schedule_status
<1>8. CASE Tick \/ UNCHANGED vars
  BY <1>8, <1>q DEF Tick, vars, process, rows
<1> QED
  BY <1>1, <1>2, <1>3, <1>4, <1>5, <1>6, <1>7, <1>8, OnceLoop, OnceFill
  DEF Next, Recover, Dispatch, Reconciler, Quiet

LEMMA OnceInit == Init => OnceInv
<1> SUFFICES ASSUME Init, NEW t \in sc.cron PROVE StartedOnce(t)
  BY DEF OnceInv
<1>1. launched[t] = 0
  BY DEF Init
<1>2. /\ \A e \in Engines, k \in Slots : ~LoopOwes(e, k, t)
      /\ \A e \in Engines, w \in Filler : ~FillOwes(e, w, t)
  BY DEF Init, LoopOwes, FillOwes, NoLoop, NoFill
<1> QED
  BY <1>1, <1>2 DEF StartedOnce, Owed, OneOwes

(***************************************************************************)
(* Each tick is started at most once, whatever loops, backfills, crashes   *)
(* and relaunches there are, in however many processes.                    *)
(***************************************************************************)
THEOREM StartsOnce == Spec => []TickOnce
<1>1. Init => OnceInv
  BY OnceInit
<1>2. TypeInv /\ [Next]_vars => TypeInv'
  BY TypeStep
<1>3. TypeInv /\ OnceInv /\ [Next]_vars => OnceInv'
  BY OnceStep
<1>4. OnceInv => TickOnce
  BY DEF OnceInv, StartedOnce, TickOnce
<1> QED
  BY <1>1, <1>2, <1>3, <1>4, TypeInit, PTL DEF Spec

(***************************************************************************)
(* The queue configuration.  When launches do not overlap, one process at  *)
(* a time is between registering its version and writing the queue row.    *)
(***************************************************************************)
Steady == ~sc.overlap /\ sc.faults["outage"] = 0

OneLaunch ==
    Steady => \A e, d \in Engines : proc[e].pc \in Launching /\ proc[d].pc \in Launching => e = d

Configured(e) ==
    /\ proc[e].pc \notin {"down", "version"} => Contains(registry.versions, sc.version[e])
    /\ proc[e].pc = "queues" => (proc[e].update = TRUE <=> Last(registry.versions) = sc.version[e])
    /\ proc[e].pc \in {"snapshot", "up", "draining", "stopped"}
          /\ Last(registry.versions) = sc.version[e]
       => registry.config = sc.version[e]

ConfigInv == Steady => faults["outage"] = 0 /\ \A e \in Engines : Configured(e)

\* A step of process e that neither registers, looks up nor configures.
KeepsConfig(e) ==
    \/ proc'[e].pc = proc[e].pc /\ proc'[e].update = proc[e].update
    \/ proc'[e].pc = "down"
    \/ proc[e].pc \in {"snapshot", "up", "draining"} /\ proc'[e].pc \in {"up", "draining", "stopped"}

LEMMA SpendOther ==
    ASSUME TypeInv, NEW kind \in FaultKinds, Spend(kind), faults["outage"] = 0
    PROVE  kind # "outage" /\ faults'["outage"] = 0
  BY DEF Spend, TypeInv, FaultKinds

LEMMA ConfigQuiet ==
    ASSUME TypeInv, OneLaunch, ConfigInv, sc' = sc, registry' = registry,
           faults' = faults \/ \E kind \in FaultKinds : Spend(kind),
           \A e \in Engines : KeepsConfig(e)
    PROVE  OneLaunch' /\ ConfigInv'
<1>1. OneLaunch'
  <2>1. \A e \in Engines : proc'[e].pc \in Launching => proc[e].pc \in Launching
    BY DEF KeepsConfig, Launching
  <2> QED
    BY <2>1 DEF OneLaunch, Steady
<1>2. ConfigInv'
  <2> SUFFICES ASSUME Steady PROVE faults'["outage"] = 0 /\ \A e \in Engines : Configured(e)'
    BY DEF ConfigInv, Steady
  <2>1. faults["outage"] = 0
    BY DEF ConfigInv
  <2>2. faults'["outage"] = 0
    BY <2>1, SpendOther
  <2>3. ASSUME NEW e \in Engines PROVE Configured(e)'
    BY DEF ConfigInv, Configured, KeepsConfig
  <2> QED
    BY <2>2, <2>3
<1> QED
  BY <1>1, <1>2

\* What registering a version does to the list of versions.
LEMMA Registered ==
    ASSUME NEW s \in Seq(Nat), NEW v \in Nat
    PROVE  /\ Last(Append(s, v)) = v
           /\ Contains(Append(s, v), v)
           /\ \A u : Contains(s, u) => Contains(Append(s, v), u)
           /\ Contains(s, v) => s # <<>>
<1>1. /\ Len(Append(s, v)) = Len(s) + 1 /\ Append(s, v)[Len(s) + 1] = v
      /\ \A i \in 1 .. Len(s) : Append(s, v)[i] = s[i]
  OBVIOUS
<1>2. Len(s) \in Nat
  OBVIOUS
<1>3. Last(Append(s, v)) = v
  BY <1>1 DEF Last
<1>4. Contains(Append(s, v), v)
  BY <1>1, <1>2 DEF Contains
<1>5. ASSUME NEW u, Contains(s, u) PROVE Contains(Append(s, v), u)
  <2>1. PICK i \in 1 .. Len(s) : s[i] = u
    BY <1>5 DEF Contains
  <2>2. i \in 1 .. Len(Append(s, v)) /\ Append(s, v)[i] = u
    BY <1>1, <1>2, <2>1
  <2> QED
    BY <2>2 DEF Contains
<1>6. Contains(s, v) => s # <<>>
  BY DEF Contains
<1> QED
  BY <1>3, <1>4, <1>5, <1>6

LEMMA ConfigLaunch ==
    ASSUME TypeInv, OneLaunch, ConfigInv, NEW e \in Engines, Launch(e)
    PROVE  OneLaunch' /\ ConfigInv'
<1>p. /\ proc \in [Engines -> ProcType(sc.cron)] /\ proc[e] \in ProcType(sc.cron)
      /\ registry \in [versions : Seq(Nat), config : Nat] /\ registry.versions \in Seq(Nat)
  BY DEF TypeInv
<1>v. \A d \in Engines : sc.version[d] \in Nat \ {0}
  BY ScenarioAssumption DEF TypeInv
<1>s. sc' = sc /\ (Steady' <=> Steady)
  BY DEF Launch, LaunchBegins, create_application_version, get_latest_application_version,
         upsert_queue, SpawnTasks, Spawn, LaunchFails, Steady
<1>o. ASSUME NEW p, proc' = [proc EXCEPT ![e] = p]
      PROVE  proc'[e] = p /\ \A d \in Engines \ {e} : proc'[d] = proc[d]
  BY <1>o, <1>p
<1>1. CASE LaunchBegins(e)
  <2>1. /\ proc'[e].pc = "version" /\ \A d \in Engines \ {e} : proc'[d] = proc[d]
        /\ registry' = registry /\ faults' = faults
    BY <1>1, <1>p DEF LaunchBegins, ProcType
  <2>2. OneLaunch'
    BY <1>1, <1>s, <2>1 DEF OneLaunch, LaunchBegins, Steady
  <2>3. ASSUME Steady, NEW d \in Engines PROVE Configured(d)'
    <3>1. CASE d = e
      BY <2>1, <3>1 DEF Configured
    <3>2. CASE d # e
      BY <1>s, <2>1, <2>3, <3>2 DEF ConfigInv, Configured
    <3> QED
      BY <3>1, <3>2
  <2>4. ConfigInv'
    BY <1>s, <2>1, <2>3 DEF ConfigInv
  <2> QED
    BY <2>2, <2>4
<1>2. CASE create_application_version(e)
  <2>1. /\ proc'[e].pc = "latest" /\ proc[e].pc = "version"
        /\ \A d \in Engines \ {e} : proc'[d] = proc[d]
    BY <1>2, <1>p DEF create_application_version, Goto, ProcType
  <2>2. OneLaunch'
    BY <1>s, <2>1 DEF OneLaunch, Launching
  <2>3. ASSUME Steady PROVE faults'["outage"] = 0 /\ \A d \in Engines : Configured(d)'
    <3>1. faults["outage"] = 0 /\ \A d \in Engines : Configured(d)
      BY <2>3 DEF ConfigInv
    <3>2. /\ faults' = faults
          /\ registry' = IF Contains(registry.versions, sc.version[e]) THEN registry
                         ELSE [registry EXCEPT !.versions = Append(registry.versions, sc.version[e])]
      BY <1>2, <3>1 DEF create_application_version, Spend
    <3>3. \A d \in Engines \ {e} : proc[d].pc \notin Launching
      BY <2>1, <2>3 DEF OneLaunch, Launching
    <3>4. CASE Contains(registry.versions, sc.version[e])
      <4>1. registry' = registry
        BY <3>2, <3>4
      <4>2. Configured(e)'
        BY <1>s, <2>1, <3>4, <4>1 DEF Configured
      <4>3. \A d \in Engines \ {e} : Configured(d)'
        BY <1>s, <2>1, <3>1, <4>1 DEF Configured
      <4> QED
        BY <3>1, <3>2, <4>2, <4>3
    <3>5. CASE ~Contains(registry.versions, sc.version[e])
      <4>1. /\ registry'.versions = Append(registry.versions, sc.version[e])
            /\ registry'.config = registry.config
        BY <1>p, <3>2, <3>5
      <4>2. /\ Last(registry'.versions) = sc.version[e]
            /\ Contains(registry'.versions, sc.version[e])
            /\ \A u : Contains(registry.versions, u) => Contains(registry'.versions, u)
        BY <1>p, <1>v, <4>1, Registered
      <4>3. Configured(e)'
        BY <1>s, <2>1, <4>2 DEF Configured
      <4>4. ASSUME NEW d \in Engines \ {e} PROVE Configured(d)'
        <5>1. proc'[d] = proc[d] /\ Configured(d) /\ proc[d].pc # "queues"
          BY <2>1, <3>1, <3>3 DEF Launching
        <5>2. proc[d].pc \notin {"down", "version"} => sc.version[d] # sc.version[e]
          BY <3>5, <5>1 DEF Configured
        <5> QED
          BY <1>s, <4>1, <4>2, <5>1, <5>2 DEF Configured
      <4> QED
        BY <3>1, <3>2, <4>3, <4>4
    <3> QED
      BY <3>4, <3>5
  <2> QED
    BY <1>s, <2>2, <2>3 DEF ConfigInv
<1>3. CASE get_latest_application_version(e)
  <2>1. /\ proc'[e].pc = "queues" /\ proc[e].pc = "latest"
        /\ \A d \in Engines \ {e} : proc'[d] = proc[d]
        /\ registry' = registry
    BY <1>3, <1>p DEF get_latest_application_version, ProcType
  <2>2. OneLaunch'
    BY <1>s, <2>1 DEF OneLaunch, Launching
  <2>3. ASSUME Steady PROVE faults'["outage"] = 0 /\ \A d \in Engines : Configured(d)'
    <3>1. faults["outage"] = 0 /\ \A d \in Engines : Configured(d)
      BY <2>3 DEF ConfigInv
    <3>2. PICK b \in BOOLEAN : b = (\/ registry.versions = <<>>
                                    \/ Last(registry.versions) = sc.version[e])
      OBVIOUS
    <3>3. /\ faults' = faults
          /\ proc' = [proc EXCEPT ![e].pc = "queues", ![e].update = b]
      BY <1>3, <3>1, <3>2 DEF get_latest_application_version, Spend
    <3>4. proc'[e].update = b
      BY <1>p, <3>3 DEF ProcType
    <3>5. Contains(registry.versions, sc.version[e]) /\ registry.versions # <<>>
      BY <1>p, <1>v, <2>1, <3>1, Registered DEF Configured
    <3>6. Configured(e)'
      BY <1>s, <2>1, <3>2, <3>4, <3>5 DEF Configured
    <3>7. \A d \in Engines \ {e} : Configured(d)'
      BY <1>s, <2>1, <3>1 DEF Configured
    <3> QED
      BY <3>1, <3>3, <3>6, <3>7
  <2> QED
    BY <1>s, <2>2, <2>3 DEF ConfigInv
<1>4. CASE upsert_queue(e)
  <2>1. /\ proc'[e].pc = "snapshot" /\ proc[e].pc = "queues"
        /\ \A d \in Engines \ {e} : proc'[d] = proc[d]
        /\ faults' = faults
    BY <1>4, <1>p DEF upsert_queue, Goto, ProcType
  <2>2. OneLaunch'
    BY <1>s, <2>1 DEF OneLaunch, Launching
  <2>3. ASSUME Steady PROVE faults'["outage"] = 0 /\ \A d \in Engines : Configured(d)'
    <3>1. faults["outage"] = 0 /\ \A d \in Engines : Configured(d)
      BY <2>3 DEF ConfigInv
    <3>2. \A d \in Engines \ {e} : proc[d].pc \notin Launching
      BY <2>1, <2>3 DEF OneLaunch, Launching
    <3>3. registry'.versions = registry.versions
      BY <1>4, <1>p DEF upsert_queue
    <3>4. CASE Last(registry.versions) = sc.version[e]
      <4>1. registry'.config = sc.version[e]
        BY <1>4, <1>p, <2>1, <3>1, <3>4 DEF upsert_queue, Configured, ProcType
      <4>2. Configured(e)'
        BY <1>s, <2>1, <3>1, <3>3, <4>1 DEF Configured
      <4>3. \A d \in Engines \ {e} : Configured(d)'
        BY <1>s, <2>1, <3>1, <3>2, <3>3, <3>4, <4>1 DEF Configured, Launching
      <4> QED
        BY <2>1, <3>1, <4>2, <4>3
    <3>5. CASE Last(registry.versions) # sc.version[e]
      <4>1. registry.config # 0 => registry'.config = registry.config
        BY <1>4, <1>p, <2>1, <3>1, <3>5 DEF upsert_queue, Configured, ProcType
      <4>2. Configured(e)'
        BY <1>s, <2>1, <3>1, <3>3, <3>5 DEF Configured
      <4>3. ASSUME NEW d \in Engines \ {e} PROVE Configured(d)'
        <5>1. proc'[d] = proc[d] /\ Configured(d) /\ sc.version[d] # 0 /\ proc[d].pc # "queues"
          BY <1>v, <2>1, <3>1, <3>2 DEF Launching
        <5> QED
          BY <1>s, <3>3, <4>1, <5>1 DEF Configured
      <4> QED
        BY <2>1, <3>1, <4>2, <4>3
    <3> QED
      BY <3>4, <3>5
  <2> QED
    BY <1>s, <2>2, <2>3 DEF ConfigInv
<1>5. CASE SpawnTasks(e) \/ LaunchFails(e)
  <2>1. /\ proc[e].pc = "snapshot" /\ proc'[e].pc \in {"up", "stopped"}
        /\ \A d \in Engines \ {e} : proc'[d] = proc[d]
    <3>1. CASE SpawnTasks(e)
      BY <1>p, <3>1 DEF SpawnTasks, Spawn, ProcType
    <3>2. CASE LaunchFails(e)
      BY <1>p, <3>2 DEF LaunchFails, Goto, ProcType
    <3> QED
      BY <1>5, <3>1, <3>2
  <2>2. \A d \in Engines : KeepsConfig(d)
    BY <2>1 DEF KeepsConfig
  <2>3. registry' = registry /\ (faults' = faults \/ \E kind \in FaultKinds : Spend(kind))
    BY <1>5 DEF SpawnTasks, Spawn, LaunchFails, FaultKinds
  <2> QED
    BY <1>s, <2>2, <2>3, ConfigQuiet
<1> QED
  BY <1>1, <1>2, <1>3, <1>4, <1>5 DEF Launch

LEMMA ConfigStep ==
    ASSUME TypeInv, OneLaunch, ConfigInv, [Next]_vars
    PROVE  OneLaunch' /\ ConfigInv'
<1>p. proc \in [Engines -> ProcType(sc.cron)] /\ \A e \in Engines : proc[e] \in ProcType(sc.cron)
  BY DEF TypeInv
<1>k. "outage" \in FaultKinds /\ "crash" \in FaultKinds /\ "shutdown" \in FaultKinds
      /\ "deactivate" \in FaultKinds
  BY DEF FaultKinds
<1>q. ASSUME proc' = proc, sc' = sc, registry' = registry,
             faults' = faults \/ Spend("outage")
      PROVE  OneLaunch' /\ ConfigInv'
  BY <1>q, <1>k, ConfigQuiet DEF KeepsConfig
<1>1. ASSUME NEW e \in Engines, deactivate(e) \/ shutdown(e) PROVE OneLaunch' /\ ConfigInv'
  <2>1. /\ sc' = sc /\ registry' = registry
        /\ faults' = faults \/ \E kind \in FaultKinds : Spend(kind)
    BY <1>1, <1>k DEF deactivate, shutdown, Retire, Stopping
  <2>2. /\ \A d \in Engines \ {e} : proc'[d] = proc[d]
        /\ proc'[e].update = proc[e].update
        /\ proc'[e].pc = proc[e].pc \/ (proc[e].pc = "up" /\ proc'[e].pc = "draining")
    <3>1. CASE deactivate(e)
      BY <1>p, <3>1 DEF deactivate, Aborted, ProcType
    <3>2. CASE shutdown(e)
      BY <1>p, <3>2 DEF shutdown, Retire, Stopping, Aborted, ProcType
    <3> QED
      BY <1>1, <3>1, <3>2
  <2> QED
    BY <2>1, <2>2, ConfigQuiet DEF KeepsConfig
<1>2. ASSUME NEW e \in Engines, DrainEnds(e) \/ Exit(e) \/ Crash(e) PROVE OneLaunch' /\ ConfigInv'
  <2>1. /\ sc' = sc /\ registry' = registry
        /\ faults' = faults \/ \E kind \in FaultKinds : Spend(kind)
    BY <1>2, <1>k DEF DrainEnds, Exit, Crash, Die
  <2>2. /\ \A d \in Engines \ {e} : proc'[d] = proc[d]
        /\ proc'[e].pc = "down" \/ (proc[e].pc = "draining" /\ proc'[e].pc = "stopped")
    BY <1>2, <1>p DEF DrainEnds, Exit, Crash, Die, Goto, ProcType, NoProc
  <2> QED
    BY <2>1, <2>2, ConfigQuiet DEF KeepsConfig
<1>3. ASSUME NEW e \in Engines, Claim(e) \/ StartClaimed(e) PROVE OneLaunch' /\ ConfigInv'
  <2>1. sc' = sc /\ registry' = registry /\ faults' = faults
    BY <1>3 DEF Claim, StartClaimed
  <2>2. PICK t : proc' = [proc EXCEPT ![e].claim = t]
    BY <1>3 DEF Claim, StartClaimed
  <2>3. /\ \A d \in Engines \ {e} : proc'[d] = proc[d]
        /\ proc'[e].update = proc[e].update /\ proc'[e].pc = proc[e].pc
    BY <1>p, <2>2 DEF ProcType
  <2> QED
    BY <2>1, <2>3, ConfigQuiet DEF KeepsConfig
<1>4. ASSUME NEW e \in Engines, Recover(e) \/ Reconciler(e) \/ \E t \in sc.cron : RunEnds(e, t)
      PROVE  OneLaunch' /\ ConfigInv'
  BY <1>4, <1>q DEF Recover, RecoverNext, RecoverFails, RecoverRunEnds, RecoverBreaks, Reconciler,
                    Reconcile, Install, RunEnds
<1>5. ASSUME NEW e \in Engines, NEW k \in Slots, Loop(e, k) PROVE OneLaunch' /\ ConfigInv'
  BY <1>5, <1>q DEF Loop, LoopTop, LoopStops, LoopFires, LoopLaunches, set_schedule_last_fired,
                    PersistFails
<1>6. ASSUME NEW e \in Engines, NEW w \in Filler, Fill(e, w) PROVE OneLaunch' /\ ConfigInv'
  BY <1>6, <1>q DEF Fill, FillPersists, FillLaunches, FillEnds, PersistFails
<1>7. CASE Operator \/ Tick \/ UNCHANGED vars
  BY <1>7, <1>q DEF Operator, Tick, vars, process
<1> QED
  BY <1>1, <1>2, <1>3, <1>4, <1>5, <1>6, <1>7, ConfigLaunch DEF Next, Dispatch, Quiet

(***************************************************************************)
(* When processes launch one after the other and the database answers, the *)
(* queue row holds the configuration of the newest registered version      *)
(* whenever one of its executors is up: create_application_version,        *)
(* get_latest_application_version and upsert_queue of launch.              *)
(***************************************************************************)
THEOREM NewestConfig == Spec => []NewestConfigKept
<1>1. Init => OneLaunch /\ ConfigInv
  BY DEF Init, OneLaunch, ConfigInv, Configured, Steady, NoProc, Launching
<1>2. TypeInv /\ [Next]_vars => TypeInv'
  BY TypeStep
<1>3. TypeInv /\ OneLaunch /\ ConfigInv /\ [Next]_vars => OneLaunch' /\ ConfigInv'
  BY ConfigStep
<1>4. ConfigInv => NewestConfigKept
  BY DEF ConfigInv, Configured, Steady, NewestConfigKept
<1> QED
  BY <1>1, <1>2, <1>3, <1>4, TypeInit, PTL DEF Spec

(***************************************************************************)
(* Custody of a tick: a process has a run of it, its recovery task runs it *)
(* or has it on its list, its dispatcher has claimed it, or one of its     *)
(* loops and backfills has created its row and is about to start it.  Only *)
(* the process that the row names as its executor has custody, and in one  *)
(* of these ways only, unless a launch recovered what its process had.     *)
(***************************************************************************)
Kinds == {"run", "cur", "todo", "claim", "owed"}

Holds(e, t, kind) ==
    \/ kind = "run" /\ runs[e][t] > 0
    \/ kind = "cur" /\ recovery[e].cur = t
    \/ kind = "todo" /\ t \in recovery[e].todo
    \/ kind = "claim" /\ proc[e].claim = t
    \/ kind = "owed" /\ Token(e, t)

Mine(e, t) == ticks[t].status = "PENDING" /\ ticks[t].owner = e

InCustody(e, t) ==
    /\ runs[e][t] <= 1
    /\ \A kind \in Kinds : Holds(e, t, kind) =>
          Mine(e, t) /\ \A other \in Kinds : Holds(e, t, other) => other = kind

CustodyInv == \A e \in Engines, t \in sc.cron \ doubled : InCustody(e, t)

\* A step that gives process e nothing of t and, if e has it, leaves its row.
LEMMA Undisturbed ==
    ASSUME NEW e \in Engines, NEW t \in sc.cron, InCustody(e, t),
           runs'[e][t] = runs[e][t],
           recovery'[e].cur = t => recovery[e].cur = t,
           t \in recovery'[e].todo => t \in recovery[e].todo,
           proc'[e].claim = t => proc[e].claim = t,
           Token(e, t)' => Token(e, t),
           ~Mine(e, t) \/ ticks'[t] = ticks[t]
    PROVE  InCustody(e, t)'
<1>1. \A kind \in Kinds : Holds(e, t, kind)' => Holds(e, t, kind)
  BY DEF Holds
<1>2. (\E kind \in Kinds : Holds(e, t, kind)') => Mine(e, t)'
  BY <1>1 DEF InCustody, Mine
<1> QED
  BY <1>1, <1>2 DEF InCustody

\* One way of holding t is left, or none.
LEMMA HoldsOne ==
    ASSUME NEW e \in Engines, NEW t \in sc.cron, NEW kind \in Kinds, runs'[e][t] <= 1,
           \A other \in Kinds : Holds(e, t, other)' => other = kind /\ Mine(e, t)'
    PROVE  InCustody(e, t)'
  BY DEF InCustody

LEMMA HoldsNone ==
    ASSUME NEW e \in Engines, NEW t \in sc.cron, runs'[e][t] <= 1,
           \A kind \in Kinds : ~Holds(e, t, kind)'
    PROVE  InCustody(e, t)'
  BY DEF InCustody

\* Who owes t changes only with the loops and backfills.
LEMMA TokenKept ==
    ASSUME NEW e \in Engines, NEW t \in sc.cron, sc' = sc,
           \A k \in Slots : \/ loops'[e][k].pc # "launch"
                            \/ /\ loops'[e][k].pc = loops[e][k].pc
                               /\ loops'[e][k].created = loops[e][k].created
                               /\ loops'[e][k].next = loops[e][k].next,
           \A w \in Filler : fills'[e][w].pc # "launch" \/ fills'[e][w] = fills[e][w]
    PROVE  Token(e, t)' => Token(e, t)
<1>1. \A k \in Slots : LoopOwes(e, k, t)' => LoopOwes(e, k, t)
  BY DEF LoopOwes
<1>2. \A w \in Filler : FillOwes(e, w, t)' => FillOwes(e, w, t)
  BY DEF FillOwes
<1> QED
  BY <1>1, <1>2 DEF Token

\* The steps that leave runs, recovery, claims and rows alone.
LEMMA CustodyQuiet ==
    ASSUME CustodyInv, UNCHANGED <<sc, runs, recovery, ticks, doubled>>,
           \A e \in Engines : proc'[e].claim = proc[e].claim \/ proc'[e].claim = NoTick,
           sc \in Scenarios,
           \A e \in Engines, t \in sc.cron : Token(e, t)' => Token(e, t)
    PROVE  CustodyInv'
<1> SUFFICES ASSUME NEW e \in Engines, NEW t \in sc.cron \ doubled PROVE InCustody(e, t)'
  BY DEF CustodyInv
<1>1. t # NoTick
  BY Cron
<1>2. InCustody(e, t)
  BY DEF CustodyInv
<1>3. proc'[e].claim = t => proc[e].claim = t
  BY <1>1
<1> QED
  BY <1>2, <1>3, Undisturbed

\* A launch that recovers S.  What it does not recover it keeps, in the same
\* way or as a run; of the rest only what it did not have is not doubled.
LEMMA CustodySpawn ==
    ASSUME TypeInv, CustodyInv, NEW e \in Engines, NEW S \in SUBSET sc.cron, Spawn(e, S),
           \A t \in S : Mine(e, t)
    PROVE  CustodyInv'
<1>t. /\ proc \in [Engines -> ProcType(sc.cron)] /\ proc[e] \in ProcType(sc.cron)
      /\ recovery \in [Engines -> RecoveryType(sc.cron)]
      /\ runs \in [Engines -> [sc.cron -> Nat]]
      /\ sc \in Scenarios /\ sc.cron \subseteq Nat \ {NoTick}
      /\ {"todo", "run"} \subseteq Kinds
  BY Cron DEF TypeInv, Kinds
<1>u. /\ UNCHANGED <<sc, loops, fills, ticks>>
      /\ doubled' = doubled \cup {t \in S : Has(e, t)}
  BY DEF Spawn, rows
<1>k. /\ \A d \in Engines, t \in sc.cron : Token(d, t)' <=> Token(d, t)
      /\ \A d \in Engines, t \in sc.cron : Mine(d, t)' <=> Mine(d, t)
  BY <1>u DEF Token, LoopOwes, FillOwes, Mine
<1>p. /\ proc'[e].claim = proc[e].claim
      /\ recovery'[e].todo = S /\ recovery'[e].cur = NoTick
      /\ \A t \in sc.cron : runs'[e][t] = Alive(e, t)
  <2>1. proc'[e].claim = proc[e].claim
    BY <1>t DEF Spawn, ProcType
  <2>2. recovery'[e].todo = S /\ recovery'[e].cur = NoTick
    BY <1>t DEF Spawn, NoRecovery
  <2>3. \A t \in sc.cron : runs'[e][t] = Alive(e, t)
    BY <1>t DEF Spawn
  <2> QED
    BY <2>1, <2>2, <2>3
<1>1. ASSUME NEW d \in Engines \ {e}, NEW t \in sc.cron \ doubled PROVE InCustody(d, t)'
  <2>1. proc'[d] = proc[d] /\ recovery'[d] = recovery[d] /\ runs'[d] = runs[d]
    BY <1>t DEF Spawn
  <2>2. InCustody(d, t)
    BY DEF CustodyInv
  <2> QED
    <3>1. runs'[d][t] = runs[d][t] /\ recovery'[d] = recovery[d] /\ proc'[d] = proc[d]
      BY <2>1
    <3>2. (Token(d, t)' => Token(d, t)) /\ ticks'[t] = ticks[t]
      BY <1>u, <1>k
    <3> QED
      BY <2>2, <3>1, <3>2, Undisturbed
<1>2. ASSUME NEW t \in sc.cron \ doubled' PROVE InCustody(e, t)'
  <2>0. InCustody(e, t) /\ t # NoTick /\ runs[e][t] \in Nat
    BY <1>t, <1>u DEF CustodyInv
  <2>1. CASE t \in S
    <3>1. ~Has(e, t)
      BY <1>u, <2>1
    <3>2. runs'[e][t] = 0
      BY <1>p, <2>0, <3>1 DEF Has, Alive
    <3>3. \A kind \in Kinds : Holds(e, t, kind)' => kind = "todo" /\ Mine(e, t)'
      BY <1>k, <1>p, <2>0, <2>1, <3>1, <3>2 DEF Holds, Has
    <3> QED
      BY <1>t, <3>2, <3>3, HoldsOne
  <2>2. CASE t \notin S
    <3>1. ~(Holds(e, t, "run") /\ Holds(e, t, "cur"))
      BY <2>0 DEF InCustody, Kinds
    <3>2. /\ runs'[e][t] <= 1
          /\ runs'[e][t] > 0 => Holds(e, t, "run") \/ Holds(e, t, "cur")
      BY <1>p, <2>0, <3>1 DEF Alive, Holds, InCustody
    <3>3. /\ Holds(e, t, "run")' => Holds(e, t, "run") \/ Holds(e, t, "cur")
          /\ ~Holds(e, t, "cur")' /\ ~Holds(e, t, "todo")'
          /\ Holds(e, t, "claim")' => Holds(e, t, "claim")
          /\ Holds(e, t, "owed")' => Holds(e, t, "owed")
      <4>1. Holds(e, t, "run")' => Holds(e, t, "run") \/ Holds(e, t, "cur")
        BY <3>2 DEF Holds
      <4>2. ~Holds(e, t, "cur")' /\ ~Holds(e, t, "todo")'
        BY <1>p, <2>0, <2>2 DEF Holds
      <4>3. Holds(e, t, "claim")' => Holds(e, t, "claim")
        BY <1>p DEF Holds
      <4>4. Holds(e, t, "owed")' => Holds(e, t, "owed")
        BY <1>k DEF Holds
      <4> QED
        BY <4>1, <4>2, <4>3, <4>4
    <3>4. ASSUME NEW a \in Kinds, Holds(e, t, a)'
          PROVE  \E b \in Kinds : Holds(e, t, b) /\ (b = a \/ (a = "run" /\ b = "cur"))
      BY <3>3, <3>4 DEF Kinds
    <3>5. ASSUME NEW a \in Kinds, Holds(e, t, a)' PROVE Mine(e, t)'
      BY <1>k, <2>0, <3>4, <3>5 DEF InCustody
    <3>6. ASSUME NEW a \in Kinds, Holds(e, t, a)', NEW c \in Kinds, Holds(e, t, c)' PROVE a = c
      <4>1. PICK x \in Kinds : Holds(e, t, x) /\ (x = a \/ (a = "run" /\ x = "cur"))
        BY <3>4, <3>6
      <4>2. PICK y \in Kinds : Holds(e, t, y) /\ (y = c \/ (c = "run" /\ y = "cur"))
        BY <3>4, <3>6
      <4>3. x = y
        BY <2>0, <4>1, <4>2 DEF InCustody
      <4>4. a # "cur" /\ c # "cur"
        BY <3>3, <3>6
      <4> QED
        BY <4>1, <4>2, <4>3, <4>4
    <3> QED
      BY <3>2, <3>5, <3>6 DEF InCustody
  <2> QED
    BY <2>1, <2>2
<1> QED
  BY <1>u, <1>1, <1>2 DEF CustodyInv

LEMMA CustodyLaunch ==
    ASSUME TypeInv, CustodyInv, NEW e \in Engines, Launch(e)
    PROVE  CustodyInv'
<1>1. CASE SpawnTasks(e)
  <2>1. PICK S \in SUBSET sc.cron : Spawn(e, S) /\ \A t \in S : Mine(e, t)
    BY <1>1 DEF SpawnTasks, Mine
  <2> QED
    BY <2>1, CustodySpawn
<1>2. CASE ~SpawnTasks(e)
  <2>t. proc \in [Engines -> ProcType(sc.cron)] /\ proc[e] \in ProcType(sc.cron) /\ sc \in Scenarios
    BY DEF TypeInv
  <2>1. UNCHANGED <<sc, loops, fills, runs, ticks, recovery, doubled>>
    BY <1>2 DEF Launch, LaunchBegins, create_application_version, get_latest_application_version,
                upsert_queue, LaunchFails, rows
  <2>2. \A d \in Engines \ {e} : proc'[d] = proc[d]
    BY <1>2, <2>t DEF Launch, LaunchBegins, create_application_version,
                      get_latest_application_version, upsert_queue, LaunchFails, Goto
  <2>3. proc'[e].claim = proc[e].claim
    BY <1>2, <2>t DEF Launch, LaunchBegins, create_application_version,
                      get_latest_application_version, upsert_queue, LaunchFails, Goto, ProcType
  <2>4. \A d \in Engines, t \in sc.cron : Token(d, t)' => Token(d, t)
    BY <2>1 DEF Token, LoopOwes, FillOwes
  <2>5. \A d \in Engines : proc'[d].claim = proc[d].claim \/ proc'[d].claim = NoTick
    BY <2>2, <2>3
  <2> QED
    BY <2>t, <2>1, <2>4, <2>5, CustodyQuiet
<1> QED
  BY <1>1, <1>2

LEMMA CustodyStop ==
    ASSUME TypeInv, CustodyInv, NEW e \in Engines,
           deactivate(e) \/ shutdown(e) \/ DrainEnds(e) \/ Exit(e) \/ Crash(e)
    PROVE  CustodyInv'
<1>t. /\ proc \in [Engines -> ProcType(sc.cron)] /\ proc[e] \in ProcType(sc.cron)
      /\ recovery \in [Engines -> RecoveryType(sc.cron)] /\ recovery[e] \in RecoveryType(sc.cron)
      /\ runs \in [Engines -> [sc.cron -> Nat]]
      /\ loops \in [Engines -> [Slots -> LoopType(sc.cron)]]
      /\ fills \in [Engines -> [Filler -> FillType(sc.cron)]]
      /\ sc \in Scenarios /\ sc.cron \subseteq Nat \ {NoTick}
  BY Cron DEF TypeInv
<1>c. \A d \in Engines, t \in sc.cron \ doubled : InCustody(d, t)
  BY DEF CustodyInv
<1>1. CASE Exit(e) \/ Crash(e)
  <2>1. Die(e) /\ UNCHANGED <<sc, ticks, doubled>>
    BY <1>1 DEF Exit, Crash, Die, rows
  <2>2. ASSUME NEW d \in Engines \ {e}, NEW t \in sc.cron \ doubled PROVE InCustody(d, t)'
    <3>1. /\ proc'[d] = proc[d] /\ recovery'[d] = recovery[d] /\ runs'[d] = runs[d]
          /\ loops'[d] = loops[d] /\ fills'[d] = fills[d]
      BY <1>t, <2>1 DEF Die
    <3>2. Token(d, t)' => Token(d, t)
      BY <2>1, <3>1, TokenKept
    <3> QED
      BY <1>c, <2>1, <3>1, <3>2, Undisturbed
  <2>3. ASSUME NEW t \in sc.cron \ doubled PROVE InCustody(e, t)'
    <3>1. runs'[e][t] = 0 /\ recovery'[e] = NoRecovery /\ proc'[e] = NoProc
      BY <1>t, <2>1 DEF Die
    <3>2. /\ \A k \in Slots : ~LoopOwes(e, k, t)'
          /\ \A w \in Filler : ~FillOwes(e, w, t)'
      BY <1>t, <2>1 DEF Die, LoopOwes, FillOwes, NoLoop, NoFill
    <3>3. \A kind \in Kinds : ~Holds(e, t, kind)'
      BY <1>t, <3>1, <3>2 DEF Holds, Token, NoRecovery, NoProc
    <3> QED
      BY <3>1, <3>3, HoldsNone
  <2> QED
    BY <2>1, <2>2, <2>3 DEF CustodyInv
<1>2. CASE deactivate(e) \/ shutdown(e) \/ DrainEnds(e)
  <2>1. UNCHANGED <<sc, ticks, runs, doubled>>
    BY <1>2 DEF deactivate, shutdown, Retire, Stopping, DrainEnds, rows
  <2>2. /\ \A d \in Engines \ {e} : proc'[d] = proc[d]
        /\ proc'[e].claim = proc[e].claim \/ proc'[e].claim = NoTick
    <3>1. CASE deactivate(e)
      BY <1>t, <3>1 DEF deactivate, Aborted, ProcType
    <3>2. CASE shutdown(e)
      <4>1. proc' = [proc EXCEPT ![e] = [Aborted(proc[e]) EXCEPT !.pc = "draining"]]
        BY <3>2 DEF shutdown, Retire, Stopping
      <4>2. ASSUME NEW p \in ProcType(sc.cron)
            PROVE  [Aborted(p) EXCEPT !.pc = "draining"].claim = NoTick
        BY DEF Aborted, ProcType
      <4> QED
        BY <1>t, <4>1, <4>2
    <3>3. CASE DrainEnds(e)
      BY <1>t, <3>3 DEF DrainEnds, ProcType
    <3> QED
      BY <1>2, <3>1, <3>2, <3>3
  <2>3. \A d \in Engines : recovery'[d].todo = recovery[d].todo /\ recovery'[d].cur = recovery[d].cur
    <3>1. CASE recovery' = recovery
      BY <3>1
    <3>2. CASE recovery' = [recovery EXCEPT ![e].cancelled = TRUE]
      BY <1>t, <3>2 DEF RecoveryType
    <3> QED
      BY <1>2, <3>1, <3>2 DEF deactivate, shutdown, Retire, Stopping, DrainEnds
  <2>4. ASSUME NEW d \in Engines, NEW k \in Slots
        PROVE  /\ loops'[d][k].pc = loops[d][k].pc
               /\ loops'[d][k].created = loops[d][k].created
               /\ loops'[d][k].next = loops[d][k].next
    BY <1>2, StopLoops
  <2>5. \A d \in Engines, w \in Filler : fills'[d][w].pc # "launch" \/ fills'[d][w] = fills[d][w]
    BY <1>2, <1>t DEF deactivate, shutdown, Retire, Stopping, DrainEnds, AbortReconciler, NoFill
  <2>6. ASSUME NEW d \in Engines, NEW t \in sc.cron \ doubled PROVE InCustody(d, t)'
    <3>1. Token(d, t)' => Token(d, t)
      BY <2>1, <2>4, <2>5, TokenKept
    <3>2. proc'[d].claim = t => proc[d].claim = t
      BY <1>t, <2>2
    <3> QED
      BY <1>c, <2>1, <2>3, <3>1, <3>2, Undisturbed
  <2> QED
    BY <2>1, <2>6 DEF CustodyInv
<1> QED
  BY <1>1, <1>2

\* A change of the row of t, and of what process e holds of it: everything
\* else is undisturbed.
LEMMA CustodyElsewhere ==
    ASSUME TypeInv, CustodyInv, NEW e \in Engines, NEW t \in sc.cron, UNCHANGED <<sc, doubled>>,
           t \notin doubled => \A d \in Engines \ {e} : ~Mine(d, t) \/ ticks'[t] = ticks[t],
           \A u \in sc.cron \ {t} : ticks'[u] = ticks[u],
           \A d \in Engines, u \in sc.cron : d # e \/ u # t =>
              /\ runs'[d][u] = runs[d][u]
              /\ recovery'[d].cur = u => recovery[d].cur = u
              /\ u \in recovery'[d].todo => u \in recovery[d].todo
              /\ proc'[d].claim = u => proc[d].claim = u
              /\ Token(d, u)' => Token(d, u),
           t \notin doubled => InCustody(e, t)'
    PROVE  CustodyInv'
<1> SUFFICES ASSUME NEW d \in Engines, NEW u \in sc.cron \ doubled PROVE InCustody(d, u)'
  BY DEF CustodyInv
<1>1. InCustody(d, u)
  BY DEF CustodyInv
<1>2. CASE d # e \/ u # t
  <2>1. ~Mine(d, u) \/ ticks'[u] = ticks[u]
    BY <1>2
  <2> QED
    BY <1>1, <1>2, <2>1, Undisturbed
<1>3. CASE d = e /\ u = t
  BY <1>3
<1> QED
  BY <1>2, <1>3

\* The one process that holds t.
LEMMA SoleHolder ==
    ASSUME CustodyInv, NEW e \in Engines, NEW t \in sc.cron \ doubled, NEW kind \in Kinds,
           Holds(e, t, kind)
    PROVE  /\ Mine(e, t)
           /\ \A other \in Kinds : Holds(e, t, other) => other = kind
           /\ \A d \in Engines \ {e} : ~Mine(d, t)
  BY DEF CustodyInv, InCustody, Mine

LEMMA CustodyRecover ==
    ASSUME TypeInv, CustodyInv, NEW e \in Engines, Recover(e) PROVE CustodyInv'
<1>t. /\ recovery \in [Engines -> RecoveryType(sc.cron)] /\ recovery[e] \in RecoveryType(sc.cron)
      /\ ticks \in [sc.cron -> RowType]
      /\ sc \in Scenarios /\ sc.cron \subseteq Nat \ {NoTick}
      /\ {"todo", "cur"} \subseteq Kinds
  BY Cron DEF TypeInv, Kinds
<1>c. \A d \in Engines, t \in sc.cron \ doubled : InCustody(d, t)
  BY DEF CustodyInv
<1>u. UNCHANGED <<sc, proc, loops, fills, runs, doubled>>
  BY DEF Recover, RecoverNext, RecoverFails, RecoverRunEnds, RecoverBreaks
<1>k. \A d \in Engines, t \in sc.cron : Token(d, t)' <=> Token(d, t)
  BY <1>u DEF Token, LoopOwes, FillOwes
<1>r. \A d \in Engines, t \in sc.cron \ doubled : runs'[d][t] <= 1
  BY <1>u, <1>c DEF InCustody
<1>q. ASSUME NEW t \in sc.cron, t \in recovery[e].todo, ticks' = [ticks EXCEPT ![t].status = "ENQUEUED"],
             recovery'[e].cur = NoTick,
             t \notin recovery'[e].todo, recovery'[e].todo \subseteq recovery[e].todo,
             \A d \in Engines \ {e} : recovery'[d] = recovery[d]
      PROVE  CustodyInv'
  <2>1. Holds(e, t, "todo")
    BY <1>q DEF Holds
  <2>2. \A u \in sc.cron \ {t} : ticks'[u] = ticks[u]
    BY <1>t, <1>q
  <2>3. ASSUME t \notin doubled
        PROVE  InCustody(e, t)' /\ \A d \in Engines \ {e} : ~Mine(d, t)
    <3>1. /\ \A other \in Kinds : Holds(e, t, other) => other = "todo"
          /\ \A d \in Engines \ {e} : ~Mine(d, t)
      BY <1>t, <2>1, <2>3, SoleHolder
    <3>2. \A kind \in Kinds : ~Holds(e, t, kind)'
      BY <1>k, <1>t, <1>u, <1>q, <3>1 DEF Holds, Kinds
    <3> QED
      BY <1>r, <2>3, <3>1, <3>2, HoldsNone
  <2> QED
    BY <1>k, <1>t, <1>u, <1>q, <2>2, <2>3, CustodyElsewhere
<1>d. ASSUME ticks' = ticks,
             \A d \in Engines : /\ recovery'[d].cur = recovery[d].cur
                                /\ recovery'[d].todo \subseteq recovery[d].todo
      PROVE  CustodyInv'
  <2>1. ASSUME NEW d \in Engines, NEW t \in sc.cron \ doubled PROVE InCustody(d, t)'
    BY <1>c, <1>d, <1>k, <1>u, Undisturbed
  <2> QED
    BY <1>u, <2>1 DEF CustodyInv
<1>1. CASE RecoverNext(e)
  <2>1. PICK t \in sc.cron :
           /\ t \in recovery[e].todo
           /\ recovery' = [recovery EXCEPT ![e].todo = recovery[e].todo \ {t},
                                           ![e].cur = IF ticks[t].queued THEN NoTick ELSE t]
           /\ ticks' = IF ticks[t].queued THEN [ticks EXCEPT ![t].status = "ENQUEUED"] ELSE ticks
    BY <1>1 DEF RecoverNext, IsOldest
  <2>2. Holds(e, t, "todo")
    BY <2>1 DEF Holds
  <2>3. /\ recovery'[e].todo = recovery[e].todo \ {t}
        /\ recovery'[e].cur = IF ticks[t].queued THEN NoTick ELSE t
        /\ \A d \in Engines \ {e} : recovery'[d] = recovery[d]
    BY <1>t, <2>1 DEF RecoveryType
  <2>4. CASE ticks[t].queued
    <3>1. /\ ticks' = [ticks EXCEPT ![t].status = "ENQUEUED"] /\ recovery'[e].cur = NoTick
          /\ t \notin recovery'[e].todo /\ recovery'[e].todo \subseteq recovery[e].todo
      BY <2>1, <2>3, <2>4
    <3> QED
      BY <1>q, <2>1, <2>3, <3>1
  <2>5. CASE ~ticks[t].queued
    <3>1. ticks' = ticks /\ recovery'[e].cur = t
      BY <2>1, <2>3, <2>5
    <3>2. ASSUME t \notin doubled PROVE InCustody(e, t)'
      <4>1. Mine(e, t) /\ \A other \in Kinds : Holds(e, t, other) => other = "todo"
        BY <1>t, <2>2, <3>2, SoleHolder
      <4>2. Mine(e, t)'
        BY <3>1, <4>1 DEF Mine
      <4>3. \A kind \in Kinds : Holds(e, t, kind)' => kind = "cur" /\ Mine(e, t)'
        BY <1>k, <1>u, <2>3, <4>1, <4>2 DEF Holds, Kinds
      <4> QED
        BY <1>r, <1>t, <3>2, <4>3, HoldsOne
    <3> QED
      BY <1>k, <1>t, <1>u, <2>3, <3>1, <3>2, CustodyElsewhere
  <2> QED
    BY <2>4, <2>5
<1>2. CASE RecoverRunEnds(e)
  <2>1. PICK t \in sc.cron : t = recovery[e].cur
    BY <1>2, <1>t DEF RecoverRunEnds, RecoveryType
  <2>2. Holds(e, t, "cur")
    BY <2>1 DEF Holds
  <2>3. /\ recovery'[e].todo = recovery[e].todo /\ recovery'[e].cur = NoTick
        /\ \A d \in Engines \ {e} : recovery'[d] = recovery[d]
    BY <1>2, <1>t DEF RecoverRunEnds, RecoveryType
  <2>4. \A u \in sc.cron \ {t} : ticks'[u] = ticks[u]
    BY <1>2, <1>t, <2>1 DEF RecoverRunEnds
  <2>5. ASSUME t \notin doubled
        PROVE  InCustody(e, t)' /\ \A d \in Engines \ {e} : ~Mine(d, t)
    <3>1. /\ \A other \in Kinds : Holds(e, t, other) => other = "cur"
          /\ \A d \in Engines \ {e} : ~Mine(d, t)
      BY <1>t, <2>2, <2>5, SoleHolder
    <3>2. \A kind \in Kinds : ~Holds(e, t, kind)'
      BY <1>k, <1>t, <1>u, <2>3, <3>1 DEF Holds, Kinds
    <3> QED
      BY <1>r, <2>5, <3>1, <3>2, HoldsNone
  <2> QED
    BY <1>k, <1>t, <1>u, <2>3, <2>4, <2>5, CustodyElsewhere
<1>3. CASE RecoverBreaks(e)
  <2>1. ticks' = ticks
    BY <1>3 DEF RecoverBreaks, rows
  <2>2. \A d \in Engines : recovery'[d].cur = recovery[d].cur /\ recovery'[d].todo \subseteq recovery[d].todo
    BY <1>3, <1>t DEF RecoverBreaks, RecoveryType
  <2> QED
    BY <1>d, <2>1, <2>2
<1>4. CASE RecoverFails(e)
  <2>1. PICK t \in sc.cron :
           /\ t \in recovery[e].todo
           /\ ticks' = ticks \/ ticks' = [ticks EXCEPT ![t].status = "ENQUEUED"]
    BY <1>4 DEF RecoverFails, IsOldest
  <2>2. /\ recovery'[e].todo = {} /\ recovery'[e].cur = recovery[e].cur /\ recovery[e].cur = NoTick
        /\ \A d \in Engines \ {e} : recovery'[d] = recovery[d]
    BY <1>4, <1>t DEF RecoverFails, RecoveryType
  <2>3. CASE ticks' = ticks
    BY <1>d, <2>2, <2>3
  <2>4. CASE ticks' = [ticks EXCEPT ![t].status = "ENQUEUED"]
    BY <1>q, <2>1, <2>2, <2>4
  <2> QED
    BY <2>1, <2>3, <2>4
<1> QED
  BY <1>1, <1>2, <1>3, <1>4 DEF Recover

LEMMA CustodyDispatch ==
    ASSUME TypeInv, CustodyInv, NEW e \in Engines, Dispatch(e) \/ \E t \in sc.cron : RunEnds(e, t)
    PROVE  CustodyInv'
<1>t. /\ proc \in [Engines -> ProcType(sc.cron)] /\ proc[e] \in ProcType(sc.cron)
      /\ ticks \in [sc.cron -> RowType]
      /\ runs \in [Engines -> [sc.cron -> Nat]]
      /\ sc \in Scenarios /\ sc.cron \subseteq Nat \ {NoTick}
      /\ {"claim", "run"} \subseteq Kinds
  BY Cron DEF TypeInv, Kinds
<1>c. \A d \in Engines, t \in sc.cron \ doubled : InCustody(d, t)
  BY DEF CustodyInv
<1>u. UNCHANGED <<sc, recovery, loops, fills, doubled>>
  BY DEF Dispatch, Claim, StartClaimed, RunEnds
<1>k. \A d \in Engines, t \in sc.cron : Token(d, t)' <=> Token(d, t)
  BY <1>u DEF Token, LoopOwes, FillOwes
<1>1. CASE Claim(e)
  <2>1. PICK t \in sc.cron :
           /\ ticks[t].status = "ENQUEUED"
           /\ ticks' = [ticks EXCEPT ![t].status = "PENDING", ![t].owner = e]
           /\ proc' = [proc EXCEPT ![e].claim = t]
    BY <1>1 DEF Claim, IsOldest
  <2>2. /\ proc'[e].claim = t
        /\ \A d \in Engines \ {e} : proc'[d] = proc[d]
    BY <1>t, <2>1 DEF ProcType
  <2>3. /\ ticks'[t].status = "PENDING" /\ ticks'[t].owner = e
        /\ \A u \in sc.cron \ {t} : ticks'[u] = ticks[u]
    BY <1>t, <2>1 DEF RowType
  <2>4. \A d \in Engines : ~Mine(d, t)
    BY <2>1 DEF Mine
  <2>5. runs' = runs /\ Mine(e, t)'
    BY <1>1, <2>3 DEF Claim, Mine
  <2>6. ASSUME t \notin doubled PROVE InCustody(e, t)'
    <3>1. \A kind \in Kinds : ~Holds(e, t, kind)
      BY <1>c, <2>4, <2>6 DEF InCustody
    <3>2. \A kind \in Kinds : Holds(e, t, kind)' => kind = "claim"
      BY <1>k, <1>u, <2>5, <3>1 DEF Holds, Kinds
    <3>3. runs'[e][t] <= 1
      BY <1>c, <2>5, <2>6 DEF InCustody
    <3> QED
      BY <1>t, <2>5, <3>2, <3>3, HoldsOne
  <2> QED
    BY <1>k, <1>u, <2>2, <2>3, <2>4, <2>5, <2>6, CustodyElsewhere
<1>2. CASE StartClaimed(e)
  <2>1. PICK t \in sc.cron : t = proc[e].claim
    BY <1>2, <1>t DEF StartClaimed, ProcType
  <2>2. /\ proc'[e].claim = NoTick
        /\ \A d \in Engines \ {e} : proc'[d] = proc[d]
    BY <1>2, <1>t DEF StartClaimed, ProcType
  <2>3. ticks' = ticks
    BY <1>2 DEF StartClaimed, rows
  <2>4. /\ runs'[e][t] = runs[e][t] + 1
        /\ \A d \in Engines, u \in sc.cron : d # e \/ u # t => runs'[d][u] = runs[d][u]
    BY <1>2, <1>t, <2>1 DEF StartClaimed
  <2>5. Holds(e, t, "claim")
    BY <2>1 DEF Holds
  <2>6. ASSUME t \notin doubled PROVE InCustody(e, t)'
    <3>1. Mine(e, t) /\ \A other \in Kinds : Holds(e, t, other) => other = "claim"
      BY <1>t, <2>5, <2>6, SoleHolder
    <3>2. runs[e][t] = 0
      <4>1. ~Holds(e, t, "run")
        BY <1>t, <3>1
      <4>2. runs[e][t] \in Nat
        BY <1>t
      <4> QED
        BY <4>1, <4>2 DEF Holds
    <3>3. Mine(e, t)' /\ runs'[e][t] <= 1
      BY <2>3, <2>4, <3>1, <3>2 DEF Mine
    <3>4. \A kind \in Kinds : Holds(e, t, kind)' => kind = "run"
      BY <1>k, <1>t, <1>u, <2>2, <3>1 DEF Holds, Kinds
    <3> QED
      BY <1>t, <3>3, <3>4, HoldsOne
  <2> QED
    BY <1>k, <1>t, <1>u, <2>2, <2>3, <2>4, <2>6, CustodyElsewhere
<1>3. ASSUME NEW t \in sc.cron, RunEnds(e, t) PROVE CustodyInv'
  <2>1. proc' = proc /\ \A u \in sc.cron \ {t} : ticks'[u] = ticks[u]
    BY <1>3, <1>t DEF RunEnds
  <2>2. Holds(e, t, "run")
    BY <1>3 DEF RunEnds, Holds
  <2>3. /\ runs'[e][t] = runs[e][t] - 1
        /\ \A d \in Engines, u \in sc.cron : d # e \/ u # t => runs'[d][u] = runs[d][u]
    BY <1>3, <1>t DEF RunEnds
  <2>4. ASSUME t \notin doubled
        PROVE  InCustody(e, t)' /\ \A d \in Engines \ {e} : ~Mine(d, t)
    <3>1. /\ \A other \in Kinds : Holds(e, t, other) => other = "run"
          /\ \A d \in Engines \ {e} : ~Mine(d, t)
      BY <1>t, <2>2, <2>4, SoleHolder
    <3>2. runs'[e][t] = 0
      <4>1. runs[e][t] \in Nat /\ runs[e][t] > 0 /\ runs[e][t] <= 1
        BY <1>3, <1>c, <1>t, <2>4 DEF RunEnds, InCustody
      <4> QED
        BY <2>3, <4>1
    <3>3. \A kind \in Kinds : ~Holds(e, t, kind)'
      BY <1>k, <1>u, <2>1, <3>1, <3>2 DEF Holds, Kinds
    <3> QED
      BY <3>1, <3>2, <3>3, HoldsNone
  <2> QED
    BY <1>k, <1>u, <2>1, <2>3, <2>4, CustodyElsewhere
<1> QED
  BY <1>1, <1>2, <1>3 DEF Dispatch

\* Persisting a direct tick gives it to the process whose insert created it.
LEMMA CustodyPersists ==
    ASSUME TypeInv, CustodyInv, NEW e \in Engines, NEW t \in sc.cron,
           persist_scheduled_tick(e, t, sc.queued), UNCHANGED <<sc, proc, recovery, runs, doubled>>,
           \A d \in Engines, u \in sc.cron :
              d # e \/ u # t \/ ~IsFirst(t) => (Token(d, u)' => Token(d, u))
    PROVE  CustodyInv'
<1>c. \A d \in Engines, u \in sc.cron \ doubled : InCustody(d, u)
  BY DEF CustodyInv
<1>b. sc.queued \in BOOLEAN
  BY ScenarioAssumption DEF TypeInv
<1>1. /\ \A u \in sc.cron \ {t} : ticks'[u] = ticks[u]
      /\ ~IsFirst(t) => ticks' = ticks
      /\ IsFirst(t) => ticks'[t] = [status |-> IF sc.queued THEN "ENQUEUED" ELSE "PENDING",
                                    owner |-> IF sc.queued THEN NoEngine ELSE e,
                                    queued |-> sc.queued]
  BY <1>b, PersistKeeps
<1>2. CASE ~IsFirst(t)
  <2>1. ASSUME NEW d \in Engines, NEW u \in sc.cron \ doubled PROVE InCustody(d, u)'
    BY <1>c, <1>1, <1>2, Undisturbed
  <2> QED
    BY <2>1 DEF CustodyInv
<1>3. CASE IsFirst(t)
  <2>1. \A d \in Engines : ~Mine(d, t)
    BY <1>3 DEF IsFirst, Mine
  <2>2. Token(e, t)' => Mine(e, t)'
    <3>1. CASE sc.queued = TRUE
      BY <3>1 DEF Token
    <3>2. CASE sc.queued = FALSE
      <4>1. ticks'[t].status = "PENDING" /\ ticks'[t].owner = e
        BY <1>1, <1>3, <3>2
      <4> QED
        BY <4>1 DEF Mine
    <3> QED
      BY <1>b, <3>1, <3>2
  <2>3. ASSUME t \notin doubled PROVE InCustody(e, t)'
    <3>1. \A kind \in Kinds : ~Holds(e, t, kind)
      BY <1>c, <2>1, <2>3 DEF InCustody
    <3>2. \A kind \in Kinds : Holds(e, t, kind)' => kind = "owed" /\ Token(e, t)'
      BY <3>1 DEF Holds, Kinds
    <3>3. runs'[e][t] <= 1 /\ "owed" \in Kinds
      BY <1>c, <2>3 DEF InCustody, Kinds
    <3> QED
      BY <2>2, <3>2, <3>3, HoldsOne
  <2> QED
    BY <1>1, <1>3, <2>1, <2>3, CustodyElsewhere
<1> QED
  BY <1>2, <1>3

\* Starting it turns what the loop or backfill owes into a run.
LEMMA CustodyLaunches ==
    ASSUME TypeInv, CustodyInv, NEW e \in Engines, NEW t \in sc.cron,
           UNCHANGED <<sc, proc, recovery, ticks, doubled>>,
           runs' = [runs EXCEPT ![e][t] = runs[e][t] + 1],
           \A d \in Engines, u \in sc.cron : Token(d, u)' => Token(d, u),
           Token(e, t), ~Token(e, t)'
    PROVE  CustodyInv'
<1>k. {"owed", "run"} \subseteq Kinds
  BY DEF Kinds
<1>1. Holds(e, t, "owed")
  BY DEF Holds
<1>2. /\ runs'[e][t] = runs[e][t] + 1
      /\ \A d \in Engines, u \in sc.cron : d # e \/ u # t => runs'[d][u] = runs[d][u]
  BY DEF TypeInv
<1>3. ASSUME t \notin doubled PROVE InCustody(e, t)'
  <2>1. Mine(e, t) /\ \A other \in Kinds : Holds(e, t, other) => other = "owed"
    BY <1>k, <1>1, <1>3, SoleHolder
  <2>2. runs[e][t] = 0
    <3>1. ~Holds(e, t, "run")
      BY <1>k, <2>1
    <3>2. runs[e][t] \in Nat
      BY DEF TypeInv
    <3> QED
      BY <3>1, <3>2 DEF Holds
  <2>3. Mine(e, t)' /\ runs'[e][t] <= 1
    BY <1>2, <2>1, <2>2 DEF Mine
  <2>4. \A kind \in Kinds : Holds(e, t, kind)' => kind = "run"
    BY <2>1 DEF Holds, Kinds
  <2> QED
    BY <1>k, <2>3, <2>4, HoldsOne
<1> QED
  BY <1>2, <1>3, CustodyElsewhere

LEMMA CustodyLoop ==
    ASSUME TypeInv, OnceInv, CustodyInv, NEW e \in Engines, NEW k \in Slots, Loop(e, k)
    PROVE  CustodyInv'
<1>l. loops[e][k] \in LoopType(sc.cron) /\ loops \in [Engines -> [Slots -> LoopType(sc.cron)]]
  BY DEF TypeInv
<1>o. ASSUME NEW l, loops' = [loops EXCEPT ![e][k] = l]
      PROVE  /\ loops'[e][k] = l
             /\ \A d \in Engines, j \in Slots : d # e \/ j # k => loops'[d][j] = loops[d][j]
  BY <1>o, <1>l
<1>s. /\ UNCHANGED <<sc, proc, recovery, fills, doubled>> /\ sc \in Scenarios
      /\ loops[e][k].pc # "off"
  BY DEF Loop, LoopTop, LoopStops, LoopFires, LoopLaunches, set_schedule_last_fired, TypeInv
<1>w. ASSUME NEW l, loops' = [loops EXCEPT ![e][k] = l], l.pc # "launch" \/ l.created # TRUE
      PROVE  \A d \in Engines, u \in sc.cron : Token(d, u)' => Token(d, u)
  <2>0. /\ loops'[e][k] = l
       /\ \A d \in Engines, j \in Slots : d # e \/ j # k => loops'[d][j] = loops[d][j]
    BY <1>w, <1>o
  <2>1. \A d \in Engines, j \in Slots, u \in sc.cron : LoopOwes(d, j, u)' => LoopOwes(d, j, u)
    BY <1>w, <2>0 DEF LoopOwes
  <2>2. \A d \in Engines, w \in Filler, u \in sc.cron : FillOwes(d, w, u)' => FillOwes(d, w, u)
    BY <1>s DEF FillOwes
  <2> QED
    BY <1>s, <2>1, <2>2 DEF Token
<1>q. ASSUME runs' = runs, ticks' = ticks,
             NEW l, loops' = [loops EXCEPT ![e][k] = l],
             l.pc # "launch" \/ l.created # TRUE
      PROVE  CustodyInv'
  BY <1>q, <1>s, <1>w, CustodyQuiet
<1>1. CASE LoopTop(e, k) \/ LoopStops(e, k) \/ set_schedule_last_fired(e, k)
  <2>1. runs' = runs /\ ticks' = ticks
    BY <1>1 DEF LoopTop, LoopStops, set_schedule_last_fired, rows
  <2>2. PICK l : loops' = [loops EXCEPT ![e][k] = l] /\ l.pc # "launch"
    <3>1. NoLoop.pc # "launch"
      BY DEF NoLoop
    <3>2. \A i : [loops[e][k] EXCEPT !.pc = "sleep", !.next = i].pc # "launch"
      BY <1>l DEF LoopType
    <3>3. [loops[e][k] EXCEPT !.pc = "top", !.next = NoTick, !.created = FALSE].pc # "launch"
      BY <1>l DEF LoopType
    <3>4. CASE LoopTop(e, k)
      BY <3>1, <3>2, <3>4 DEF LoopTop
    <3>5. CASE LoopStops(e, k)
      BY <3>1, <3>5 DEF LoopStops
    <3>6. CASE set_schedule_last_fired(e, k)
      BY <3>3, <3>6 DEF set_schedule_last_fired
    <3> QED
      BY <1>1, <3>4, <3>5, <3>6
  <2> QED
    BY <1>q, <2>1, <2>2
<1>2. CASE LoopFires(e, k)
  <2>1. PICK t \in sc.cron : t = loops[e][k].next
    BY <1>2, <1>l DEF LoopFires, LoopType
  <2>2. runs' = runs
    BY <1>2 DEF LoopFires
  <2>3. CASE PersistFails(e, t) /\ LoopMoves(e, k, "stamp")
    <3>1. loops' = [loops EXCEPT ![e][k] = [loops[e][k] EXCEPT !.pc = "stamp"]]
      BY <2>3 DEF LoopMoves
    <3>2. [loops[e][k] EXCEPT !.pc = "stamp"].pc # "launch"
      BY <1>l DEF LoopType
    <3>3. CASE UNCHANGED rows
      BY <1>q, <2>2, <3>1, <3>2, <3>3 DEF rows
    <3>4. CASE persist_scheduled_tick(e, t, sc.queued)
      BY <1>s, <1>w, <2>2, <3>1, <3>2, <3>4, CustodyPersists
    <3> QED
      BY <2>3, <3>3, <3>4 DEF PersistFails
  <2>4. CASE /\ persist_scheduled_tick(e, t, sc.queued)
             /\ loops' = [loops EXCEPT ![e][k].pc = "launch", ![e][k].created = IsFirst(t)]
    <3>1. PICK b \in BOOLEAN : b = IsFirst(t)
      BY DEF IsFirst
    <3>2. loops' = [loops EXCEPT ![e][k] = [loops[e][k] EXCEPT !.pc = "launch", !.created = b]]
      BY <1>l, <2>4, <3>1
    <3>3. LET l == [loops[e][k] EXCEPT !.pc = "launch", !.created = b]
          IN  l.created = b /\ l.next = t
      BY <1>l, <2>1 DEF LoopType
    <3>4. /\ loops'[e][k].created = b /\ loops'[e][k].next = t
          /\ \A d \in Engines, j \in Slots : d # e \/ j # k => loops'[d][j] = loops[d][j]
      BY <1>o, <3>2, <3>3
    <3>5. \A d \in Engines, j \in Slots, u \in sc.cron :
             LoopOwes(d, j, u)' => LoopOwes(d, j, u) \/ (d = e /\ u = t /\ IsFirst(t))
      BY <3>1, <3>4 DEF LoopOwes
    <3>6. \A d \in Engines, w \in Filler, u \in sc.cron : FillOwes(d, w, u)' => FillOwes(d, w, u)
      BY <1>s DEF FillOwes
    <3>7. \A d \in Engines, u \in sc.cron :
             d # e \/ u # t \/ ~IsFirst(t) => (Token(d, u)' => Token(d, u))
      BY <1>s, <3>5, <3>6 DEF Token
    <3> QED
      BY <1>s, <2>2, <2>4, <3>7, CustodyPersists
  <2> QED
    BY <1>2, <2>1, <2>3, <2>4 DEF LoopFires
<1>3. CASE LoopLaunches(e, k)
  <2>1. PICK t \in sc.cron : t = loops[e][k].next
    BY <1>3, <1>l DEF LoopLaunches, LoopType
  <2>2. PICK l : loops' = [loops EXCEPT ![e][k] = l] /\ l.pc # "launch"
    <3>1. loops' = [loops EXCEPT ![e][k] = [loops[e][k] EXCEPT !.pc = "stamp"]]
      BY <1>3 DEF LoopMoves, LoopLaunches
    <3>2. [loops[e][k] EXCEPT !.pc = "stamp"].pc # "launch"
      BY <1>l DEF LoopType
    <3> QED
      BY <3>1, <3>2
  <2>3. ticks' = ticks
    BY <1>3 DEF LoopLaunches, rows
  <2>4. CASE ~(loops[e][k].created /\ ~sc.queued)
    BY <1>3, <1>q, <2>2, <2>3, <2>4 DEF LoopLaunches, launch_scheduled_tick
  <2>5. CASE loops[e][k].created /\ ~sc.queued
    <3>0. /\ loops'[e][k] = l
         /\ \A d \in Engines, j \in Slots : d # e \/ j # k => loops'[d][j] = loops[d][j]
      BY <1>o, <2>2
    <3>1. runs' = [runs EXCEPT ![e][t] = runs[e][t] + 1]
      BY <1>3, <2>1, <2>5 DEF LoopLaunches, launch_scheduled_tick
    <3>2. LoopOwes(e, k, t)
      BY <1>3, <1>l, <2>1, <2>5 DEF LoopLaunches, LoopOwes, LoopType
    <3>3. \A d \in Engines, w \in Filler, u \in sc.cron : FillOwes(d, w, u)' <=> FillOwes(d, w, u)
      BY <1>s DEF FillOwes
    <3>4. \A d \in Engines, j \in Slots, u \in sc.cron :
             /\ LoopOwes(d, j, u)' => LoopOwes(d, j, u)
             /\ ~LoopOwes(e, k, u)'
      BY <2>2, <3>0 DEF LoopOwes
    <3>5. OneOwes(t)
      BY DEF OnceInv, StartedOnce
    <3>6. Token(e, t) /\ ~Token(e, t)'
      <4>1. sc.queued = FALSE
        BY <1>s, <2>5, ScenarioAssumption
      <4>2. /\ \A j \in Slots : ~LoopOwes(e, j, t)'
            /\ \A w \in Filler : ~FillOwes(e, w, t)'
        BY <3>2, <3>3, <3>4, <3>5 DEF OneOwes
      <4> QED
        BY <3>2, <4>1, <4>2 DEF Token
    <3>7. \A d \in Engines, u \in sc.cron : Token(d, u)' => Token(d, u)
      BY <1>s, <3>3, <3>4 DEF Token
    <3> QED
      BY <1>s, <2>3, <3>1, <3>6, <3>7, CustodyLaunches
  <2> QED
    BY <2>4, <2>5
<1> QED
  BY <1>1, <1>2, <1>3 DEF Loop

LEMMA CustodyFill ==
    ASSUME TypeInv, OnceInv, CustodyInv, NEW e \in Engines, NEW w \in Filler, Fill(e, w)
    PROVE  CustodyInv'
<1>f. fills[e][w] \in FillType(sc.cron) /\ fills \in [Engines -> [Filler -> FillType(sc.cron)]]
  BY DEF TypeInv
<1>o. ASSUME NEW f, fills' = [fills EXCEPT ![e][w] = f]
      PROVE  /\ fills'[e][w] = f
             /\ \A d \in Engines, v \in Filler : d # e \/ v # w => fills'[d][v] = fills[d][v]
  BY <1>o, <1>f
<1>s. /\ UNCHANGED <<sc, proc, recovery, loops, doubled>> /\ sc \in Scenarios
      /\ fills[e][w].pc # "off"
  BY DEF Fill, FillPersists, FillLaunches, FillEnds, TypeInv
<1>w. ASSUME NEW f, fills' = [fills EXCEPT ![e][w] = f], f.pc # "launch" \/ f.created # TRUE
      PROVE  \A d \in Engines, u \in sc.cron : Token(d, u)' => Token(d, u)
  <2>0. /\ fills'[e][w] = f
       /\ \A d \in Engines, v \in Filler : d # e \/ v # w => fills'[d][v] = fills[d][v]
    BY <1>w, <1>o
  <2>1. \A d \in Engines, v \in Filler, u \in sc.cron : FillOwes(d, v, u)' => FillOwes(d, v, u)
    BY <1>w, <2>0 DEF FillOwes
  <2>2. \A d \in Engines, k \in Slots, u \in sc.cron : LoopOwes(d, k, u)' => LoopOwes(d, k, u)
    BY <1>s DEF LoopOwes
  <2> QED
    BY <1>s, <2>1, <2>2 DEF Token
<1>q. ASSUME runs' = runs, ticks' = ticks,
             NEW f, fills' = [fills EXCEPT ![e][w] = f],
             f.pc # "launch" \/ f.created # TRUE
      PROVE  CustodyInv'
  BY <1>q, <1>s, <1>w, CustodyQuiet
<1>1. ASSUME FillOver(e, w), runs' = runs, ticks' = ticks PROVE CustodyInv'
  <2>1. NoFill.pc # "launch"
    BY DEF NoFill
  <2> QED
    BY <1>1, <1>q, <2>1 DEF FillOver
<1>2. CASE FillPersists(e, w)
  <2>1. PICK t \in sc.cron : t = Min(fills[e][w].todo)
    BY <1>2, <1>f, MinOf, Cron DEF FillPersists, FillType, TypeInv
  <2>2. runs' = runs
    BY <1>2 DEF FillPersists
  <2>3. CASE PersistFails(e, t) /\ FillOver(e, w)
    <3>1. CASE UNCHANGED rows
      BY <1>1, <2>2, <2>3, <3>1 DEF rows
    <3>2. CASE persist_scheduled_tick(e, t, sc.queued)
      <4>1. fills' = [fills EXCEPT ![e][w] = NoFill] /\ NoFill.pc # "launch"
        BY <2>3 DEF FillOver, NoFill
      <4> QED
        BY <1>s, <1>w, <2>2, <3>2, <4>1, CustodyPersists
    <3> QED
      BY <2>3, <3>1, <3>2 DEF PersistFails
  <2>4. CASE /\ persist_scheduled_tick(e, t, sc.queued)
             /\ fills' = [fills EXCEPT ![e][w] = [pc |-> "launch", todo |-> fills[e][w].todo \ {t},
                                                  cur |-> t, created |-> IsFirst(t)]]
    <3>1. PICK b \in BOOLEAN : b = IsFirst(t)
      BY DEF IsFirst
    <3>2. PICK f : f = [pc |-> "launch", todo |-> fills[e][w].todo \ {t}, cur |-> t, created |-> b]
      OBVIOUS
    <3>3. fills' = [fills EXCEPT ![e][w] = f]
      BY <2>4, <3>1, <3>2
    <3>4. f.created = b /\ f.cur = t
      BY <3>2
    <3>5. \A d \in Engines, v \in Filler, u \in sc.cron :
             FillOwes(d, v, u)' => FillOwes(d, v, u) \/ (d = e /\ u = t /\ IsFirst(t))
      BY <1>o, <3>1, <3>3, <3>4 DEF FillOwes
    <3>6. \A d \in Engines, k \in Slots, u \in sc.cron : LoopOwes(d, k, u)' => LoopOwes(d, k, u)
      BY <1>s DEF LoopOwes
    <3>7. \A d \in Engines, u \in sc.cron :
             d # e \/ u # t \/ ~IsFirst(t) => (Token(d, u)' => Token(d, u))
      BY <1>s, <3>5, <3>6 DEF Token
    <3> QED
      BY <1>s, <2>2, <2>4, <3>7, CustodyPersists
  <2> QED
    BY <1>2, <2>1, <2>3, <2>4 DEF FillPersists
<1>3. CASE FillLaunches(e, w)
  <2>1. PICK t \in sc.cron : t = fills[e][w].cur
    BY <1>3, <1>f DEF FillLaunches, FillType
  <2>2. PICK f : fills' = [fills EXCEPT ![e][w] = f] /\ f.pc # "launch"
    <3>1. [fills[e][w] EXCEPT !.pc = "persist", !.cur = NoTick, !.created = FALSE].pc # "launch"
      BY <1>f DEF FillType
    <3> QED
      BY <1>3, <3>1 DEF FillLaunches
  <2>3. ticks' = ticks
    BY <1>3 DEF FillLaunches, rows
  <2>4. CASE ~(fills[e][w].created /\ ~sc.queued)
    BY <1>3, <1>q, <2>2, <2>3, <2>4 DEF FillLaunches, launch_scheduled_tick
  <2>5. CASE fills[e][w].created /\ ~sc.queued
    <3>0. /\ fills'[e][w] = f
         /\ \A d \in Engines, v \in Filler : d # e \/ v # w => fills'[d][v] = fills[d][v]
      BY <1>o, <2>2
    <3>1. runs' = [runs EXCEPT ![e][t] = runs[e][t] + 1]
      BY <1>3, <2>1, <2>5 DEF FillLaunches, launch_scheduled_tick
    <3>2. FillOwes(e, w, t)
      BY <1>3, <1>f, <2>1, <2>5 DEF FillLaunches, FillOwes, FillType
    <3>3. \A d \in Engines, k \in Slots, u \in sc.cron : LoopOwes(d, k, u)' <=> LoopOwes(d, k, u)
      BY <1>s DEF LoopOwes
    <3>4. \A d \in Engines, v \in Filler, u \in sc.cron :
             /\ FillOwes(d, v, u)' => FillOwes(d, v, u)
             /\ ~FillOwes(e, w, u)'
      BY <2>2, <3>0 DEF FillOwes
    <3>5. OneOwes(t)
      BY DEF OnceInv, StartedOnce
    <3>6. Token(e, t) /\ ~Token(e, t)'
      <4>1. sc.queued = FALSE
        BY <1>s, <2>5, ScenarioAssumption
      <4>2. /\ \A k \in Slots : ~LoopOwes(e, k, t)'
            /\ \A v \in Filler : ~FillOwes(e, v, t)'
        BY <3>2, <3>3, <3>4, <3>5 DEF OneOwes
      <4> QED
        BY <3>2, <4>1, <4>2 DEF Token
    <3>7. \A d \in Engines, u \in sc.cron : Token(d, u)' => Token(d, u)
      BY <1>s, <3>3, <3>4 DEF Token
    <3> QED
      BY <1>s, <2>3, <3>1, <3>6, <3>7, CustodyLaunches
  <2> QED
    BY <2>4, <2>5
<1>4. CASE FillEnds(e, w)
  BY <1>1, <1>4 DEF FillEnds, rows
<1> QED
  BY <1>2, <1>3, <1>4 DEF Fill

LEMMA CustodyStep ==
    ASSUME TypeInv, OnceInv, CustodyInv, [Next]_vars
    PROVE  CustodyInv'
<1>t. sc \in Scenarios /\ sc.cron \subseteq Nat \ {NoTick}
  BY Cron DEF TypeInv
<1>q. ASSUME UNCHANGED <<sc, proc, recovery, runs, ticks, doubled>>,
             \A e \in Engines, t \in sc.cron : Token(e, t)' => Token(e, t)
      PROVE  CustodyInv'
  BY <1>q, <1>t, CustodyQuiet
<1>k. ASSUME sc' = sc, loops' = loops,
             \A d \in Engines, w \in Filler : fills'[d][w].pc # "launch" \/ fills'[d][w] = fills[d][w]
      PROVE  \A e \in Engines, t \in sc.cron : Token(e, t)' => Token(e, t)
  BY <1>k, TokenKept
<1>1. ASSUME NEW e \in Engines, Reconcile(e) PROVE CustodyInv'
  <2>1. UNCHANGED <<sc, proc, recovery, runs, ticks, doubled>>
    BY <1>1 DEF Reconcile, rows
  <2>2. \A d \in Engines, w \in Filler : fills'[d][w].pc # "launch" \/ fills'[d][w] = fills[d][w]
    <3>1. \A S : StartFill(S).pc # "launch"
      BY DEF StartFill, NoFill
    <3> QED
      BY <1>1, <3>1 DEF Reconcile, TypeInv
  <2>3. ASSUME NEW d \in Engines, NEW k \in Slots
        PROVE  /\ loops'[d][k].pc = loops[d][k].pc
               /\ loops'[d][k].created = loops[d][k].created
               /\ loops'[d][k].next = loops[d][k].next
    BY <1>1, ReconcileLoops
  <2> QED
    BY <1>q, <2>1, <2>2, <2>3, TokenKept
<1>2. ASSUME NEW e \in Engines, Install(e) PROVE CustodyInv'
  <2>1. PICK k \in Slots :
           loops' = [loops EXCEPT ![e][k] = [NoLoop EXCEPT !.pc = "top", !.id = recon[e].target]]
    BY <1>2 DEF Install
  <2>2. [NoLoop EXCEPT !.pc = "top", !.id = recon[e].target].pc # "launch"
    BY DEF NoLoop
  <2>3. \A d \in Engines, j \in Slots : loops'[d][j].pc # "launch" \/ loops'[d][j] = loops[d][j]
    BY <2>1, <2>2 DEF TypeInv
  <2>4. UNCHANGED <<sc, proc, recovery, runs, ticks, fills, doubled>>
    BY <1>2 DEF Install, rows
  <2> QED
    BY <1>q, <2>3, <2>4, TokenKept
<1>3. CASE Operator
  <2>1. UNCHANGED <<sc, proc, recovery, runs, loops, doubled>>
    BY <1>3 DEF Operator
  <2>2. CASE UNCHANGED <<rows, fills>>
    BY <1>q, <1>k, <2>1, <2>2 DEF rows
  <2>3. ASSUME NEW e \in Engines, backfill_schedule(e) PROVE CustodyInv'
    <3>1. \A S : StartFill(S).pc # "launch"
      BY DEF StartFill, NoFill
    <3>2. \A d \in Engines, w \in Filler : fills'[d][w].pc # "launch" \/ fills'[d][w] = fills[d][w]
      BY <2>3, <3>1 DEF backfill_schedule, TypeInv
    <3> QED
      BY <1>k, <1>q, <2>1, <2>3, <3>2 DEF backfill_schedule, rows
  <2>4. ASSUME NEW t \in sc.cron, ClientBackfills(t) PROVE CustodyInv'
    <3>1. /\ \A u \in sc.cron \ {t} : ticks'[u] = ticks[u]
          /\ ~IsFirst(t) => ticks' = ticks
      BY <2>4, PersistKeeps DEF ClientBackfills
    <3>2. \A d \in Engines, u \in sc.cron : Token(d, u)' => Token(d, u)
      BY <1>k, <2>1, <2>4 DEF ClientBackfills
    <3>3. ASSUME NEW d \in Engines, NEW u \in sc.cron \ doubled PROVE InCustody(d, u)'
      <4>1. ~Mine(d, u) \/ ticks'[u] = ticks[u]
        BY <2>1, <3>1 DEF IsFirst, Mine
      <4>2. InCustody(d, u)
        BY DEF CustodyInv
      <4> QED
        BY <2>1, <3>2, <4>1, <4>2, Undisturbed
    <3> QED
      BY <2>1, <3>3 DEF CustodyInv
  <2> QED
    BY <1>3, <2>2, <2>3, <2>4
    DEF Operator, create_schedule, apply_schedules, delete_schedule, set_schedule_status
<1>4. CASE Tick \/ UNCHANGED vars
  BY <1>4, <1>k, <1>q DEF Tick, vars, process, rows
<1> QED
  BY <1>1, <1>2, <1>3, <1>4, CustodyLaunch, CustodyStop, CustodyRecover, CustodyDispatch, CustodyLoop,
     CustodyFill
  DEF Next, Reconciler, Quiet

(***************************************************************************)
(* No two runs of one tick are alive at the same time, in one process or   *)
(* in two, for every tick that no launch recovered while its own process   *)
(* still had it: between run_to_completion of a launched tick, the         *)
(* dispatchers and the recovery at launch there is always one executor     *)
(* that has the row.                                                       *)
(***************************************************************************)
THEOREM OneRun == Spec => []NoOverlap
<1>1. Init => CustodyInv
  <2> SUFFICES ASSUME Init, NEW e \in Engines, NEW t \in sc.cron \ doubled PROVE InCustody(e, t)
    BY DEF CustodyInv
  <2>1. runs[e][t] = 0 /\ recovery[e] = NoRecovery /\ proc[e] = NoProc /\ t # NoTick
    BY Cron DEF Init
  <2>2. ~Token(e, t)
    BY DEF Init, Token, LoopOwes, FillOwes, NoLoop, NoFill
  <2>3. \A kind \in Kinds : ~Holds(e, t, kind)
    BY <2>1, <2>2 DEF Holds, NoRecovery, NoProc
  <2> QED
    BY <2>1, <2>3 DEF InCustody
<1>2. TypeInv /\ [Next]_vars => TypeInv'
  BY TypeStep
<1>3. TypeInv /\ OnceInv /\ [Next]_vars => OnceInv'
  BY OnceStep
<1>4. TypeInv /\ OnceInv /\ CustodyInv /\ [Next]_vars => CustodyInv'
  BY CustodyStep
<1>5. TypeInv /\ CustodyInv => NoOverlap
  <2> SUFFICES ASSUME TypeInv, CustodyInv, NEW t \in sc.cron \ doubled, NEW e \in Engines
               PROVE  /\ Alive(e, t) <= 1
                      /\ Alive(e, t) = 1 => \A d \in Engines \ {e} : Alive(d, t) = 0
    BY DEF NoOverlap
  <2>k. {"run", "cur"} \subseteq Kinds
    BY DEF Kinds
  <2>1. ASSUME NEW d \in Engines
        PROVE  Alive(d, t) <= 1 /\ (Alive(d, t) = 0 \/ Mine(d, t))
    <3>1. InCustody(d, t) /\ runs[d][t] \in Nat
      BY DEF CustodyInv, TypeInv
    <3>2. ~(Holds(d, t, "run") /\ Holds(d, t, "cur"))
      BY <2>k, <3>1 DEF InCustody
    <3>3. Holds(d, t, "run") \/ Holds(d, t, "cur") => Mine(d, t)
      BY <2>k, <3>1 DEF InCustody
    <3>4. /\ Holds(d, t, "run") <=> runs[d][t] > 0
          /\ Holds(d, t, "cur") <=> recovery[d].cur = t
      BY DEF Holds
    <3>5. runs[d][t] <= 1
      BY <3>1 DEF InCustody
    <3> QED
      BY <3>1, <3>2, <3>3, <3>4, <3>5 DEF Alive
  <2>2. \A d \in Engines \ {e} : Mine(e, t) => ~Mine(d, t)
    BY DEF Mine
  <2> QED
    BY <2>1, <2>2
<1>6. Init => OnceInv
  BY OnceInit
<1> QED
  BY <1>1, <1>2, <1>3, <1>4, <1>5, <1>6, TypeInit, PTL DEF Spec

(***************************************************************************)
(* A drained process.  Whoever is about to start a tick has created a row  *)
(* that is not on a queue; outside of "up" nothing is claimed; and when a  *)
(* process has drained, its recovery is over and what runs is not on a     *)
(* queue.                                                                  *)
(***************************************************************************)
Direct(t) == ticks[t].status # "NONE" /\ ticks[t].queued = FALSE

Drained(e) ==
    /\ proc[e].pc # "up" => proc[e].dispatching = FALSE /\ proc[e].claim = NoTick
    /\ proc[e].pc \in Launching => proc[e].drained = FALSE
    /\ \A t \in sc.cron : Token(e, t) => Direct(t)
    /\ proc[e].pc = "stopped" /\ proc[e].drained = TRUE =>
          /\ recovery[e].todo = {} /\ recovery[e].cur = NoTick
          /\ \A t \in sc.cron : runs[e][t] > 0 => Direct(t)

DrainInv == \A e \in Engines : Drained(e)

\* A row that is not on a queue stays one.
LEMMA DirectKept ==
    ASSUME TypeInv, [Next]_vars, NEW t \in sc.cron, Direct(t)
    PROVE  Direct(t)'
<1>r. ticks \in [sc.cron -> RowType] /\ sc \in Scenarios /\ sc.queued \in BOOLEAN
  BY ScenarioAssumption DEF TypeInv
<1>w. \A u \in sc.cron, s \in {"ENQUEUED", "PENDING", "SUCCESS"}, e \in Engines :
         /\ ticks' = [ticks EXCEPT ![u].status = s] => Direct(t)'
         /\ ticks' = [ticks EXCEPT ![u].status = s, ![u].owner = e] => Direct(t)'
  BY <1>r DEF Direct, RowType
<1>q. ticks' = ticks => Direct(t)'
  BY DEF Direct
<1>p. ASSUME NEW e \in Engines \cup {NoEngine}, NEW u \in sc.cron, NEW b \in BOOLEAN,
             persist_scheduled_tick(e, u, b)
      PROVE  Direct(t)'
  <2>1. \A x \in sc.cron \ {u} : ticks'[x] = ticks[x]
    BY <1>p, PersistKeeps
  <2>2. ~IsFirst(u) => ticks' = ticks
    BY <1>p, PersistKeeps
  <2> QED
    BY <2>1, <2>2 DEF Direct, IsFirst
<1>1. ASSUME NEW e \in Engines,
             \/ Launch(e) \/ deactivate(e) \/ shutdown(e) \/ DrainEnds(e) \/ Exit(e) \/ Crash(e)
             \/ Reconciler(e) \/ RecoverBreaks(e) \/ StartClaimed(e)
      PROVE  Direct(t)'
  <2>1. CASE Launch(e)
    BY <1>q, <2>1 DEF Launch, LaunchBegins, create_application_version, upsert_queue, SpawnTasks,
                      get_latest_application_version, Spawn, LaunchFails, rows
  <2> QED
    BY <1>1, <1>q, <2>1 DEF deactivate, shutdown, Retire, Stopping, DrainEnds, Exit, Crash, Die,
                            Reconciler, Reconcile, Install, RecoverBreaks, StartClaimed, rows
<1>2. ASSUME NEW e \in Engines, RecoverNext(e) \/ RecoverFails(e) \/ RecoverRunEnds(e) PROVE Direct(t)'
  <2>1. recovery[e].cur # NoTick => recovery[e].cur \in sc.cron
    BY DEF TypeInv, RecoveryType
  <2>2. \/ ticks' = ticks
        \/ \E u \in sc.cron : \/ ticks' = [ticks EXCEPT ![u].status = "ENQUEUED"]
                             \/ ticks' = [ticks EXCEPT ![u].status = "SUCCESS"]
    BY <1>2, <2>1 DEF RecoverNext, RecoverFails, RecoverRunEnds
  <2> QED
    BY <1>q, <1>w, <2>2
<1>3. ASSUME NEW e \in Engines, Claim(e) \/ \E u \in sc.cron : RunEnds(e, u) PROVE Direct(t)'
  <2>1. \E u \in sc.cron : \/ ticks' = [ticks EXCEPT ![u].status = "PENDING", ![u].owner = e]
                          \/ ticks' = [ticks EXCEPT ![u].status = "SUCCESS"]
    BY <1>3 DEF Claim, RunEnds
  <2> QED
    BY <1>w, <2>1
<1>f. ASSUME NEW e \in Engines, NEW u \in sc.cron, PersistFails(e, u) PROVE Direct(t)'
  BY <1>f, <1>p, <1>q, <1>r DEF PersistFails, rows
<1>4. ASSUME NEW e \in Engines, NEW k \in Slots, Loop(e, k) PROVE Direct(t)'
  <2>1. CASE LoopFires(e, k)
    <3>1. PICK u \in sc.cron : u = loops[e][k].next
      BY <2>1 DEF LoopFires, TypeInv, LoopType
    <3> QED
      BY <1>f, <1>p, <1>r, <2>1, <3>1 DEF LoopFires
  <2> QED
    BY <1>4, <1>q, <2>1 DEF Loop, LoopTop, LoopStops, LoopLaunches, set_schedule_last_fired, rows
<1>5. ASSUME NEW e \in Engines, NEW w \in Filler, Fill(e, w) PROVE Direct(t)'
  <2>1. CASE FillPersists(e, w)
    <3>0. fills[e][w] \in FillType(sc.cron)
      BY DEF TypeInv
    <3>1. PICK u \in sc.cron : u = Min(fills[e][w].todo)
      BY <1>r, <2>1, <3>0, MinOf, Cron DEF FillPersists, FillType
    <3> QED
      BY <1>f, <1>p, <1>r, <2>1, <3>1 DEF FillPersists
  <2> QED
    BY <1>5, <1>q, <2>1 DEF Fill, FillLaunches, FillEnds, rows
<1>6. CASE Operator
  <2>1. CASE ticks' = ticks
    BY <1>q, <2>1
  <2>2. ASSUME NEW u \in sc.cron, ClientBackfills(u) PROVE Direct(t)'
    BY <1>p, <2>2 DEF ClientBackfills
  <2> QED
    BY <1>6, <2>1, <2>2 DEF Operator, create_schedule, apply_schedules, delete_schedule,
                            set_schedule_status, backfill_schedule, rows
<1>7. CASE Tick \/ UNCHANGED vars
  BY <1>7, <1>q DEF Tick, vars, rows
<1> QED
  BY <1>1, <1>2, <1>3, <1>4, <1>5, <1>6, <1>7 DEF Next, Recover, Dispatch, Quiet

\* Whoever comes to owe the start of a tick has just created its row.
LEMMA TokenFrom ==
    ASSUME TypeInv, [Next]_vars, NEW e \in Engines, NEW t \in sc.cron, Token(e, t)'
    PROVE  Token(e, t) \/ Direct(t)'
<1>r. sc \in Scenarios /\ sc.queued \in BOOLEAN /\ sc' = sc
  <2>1. sc' = sc
    BY ScenarioKept
  <2> QED
    BY <2>1, ScenarioAssumption DEF TypeInv
<1>f. sc.queued = FALSE
  BY <1>r DEF Token
<1>q. ASSUME loops' = loops,
             \A w \in Filler : fills'[e][w].pc # "launch" \/ fills'[e][w] = fills[e][w]
      PROVE  Token(e, t)
  BY <1>q, <1>r, TokenKept
<1>p. ASSUME NEW d \in Engines, NEW u \in sc.cron, persist_scheduled_tick(d, u, sc.queued), IsFirst(u)
      PROVE  Direct(u)'
  <2>1. ticks'[u] = [status |-> "PENDING", owner |-> d, queued |-> FALSE]
    BY <1>f, <1>p, PersistKeeps
  <2> QED
    BY <2>1 DEF Direct
<1>1. ASSUME NEW d \in Engines, Launch(d) \/ DrainEnds(d) \/ Recover(d) \/ Dispatch(d)
                               \/ \E u \in sc.cron : RunEnds(d, u)
      PROVE  Token(e, t)
  <2>1. UNCHANGED <<loops, fills>>
    <3>1. CASE Launch(d)
      BY <3>1 DEF Launch, LaunchBegins, create_application_version, upsert_queue, SpawnTasks,
                  get_latest_application_version, Spawn, LaunchFails
    <3> QED
      BY <1>1, <3>1 DEF DrainEnds, Recover, RecoverNext, RecoverFails, RecoverRunEnds, RecoverBreaks,
                        Dispatch, Claim, StartClaimed, RunEnds
  <2> QED
    BY <1>q, <2>1
<1>2. ASSUME NEW d \in Engines, deactivate(d) \/ shutdown(d) PROVE Token(e, t)
  <2>1. ASSUME NEW k \in Slots
        PROVE  /\ loops'[e][k].pc = loops[e][k].pc
               /\ loops'[e][k].created = loops[e][k].created
               /\ loops'[e][k].next = loops[e][k].next
    BY <1>2, StopLoops
  <2>2. \A w \in Filler : fills'[e][w].pc # "launch" \/ fills'[e][w] = fills[e][w]
    BY <1>2 DEF deactivate, shutdown, Retire, Stopping, AbortReconciler, TypeInv, NoFill
  <2> QED
    BY <1>r, <2>1, <2>2, TokenKept
<1>3. ASSUME NEW d \in Engines, Exit(d) \/ Crash(d) PROVE Token(e, t)
  <2>1. Die(d)
    BY <1>3 DEF Exit, Crash
  <2>2. \A w \in Filler : fills'[e][w].pc # "launch" \/ fills'[e][w] = fills[e][w]
    BY <2>1 DEF Die, TypeInv, NoFill
  <2>3. \A k \in Slots : loops'[e][k].pc # "launch" \/ loops'[e][k] = loops[e][k]
    BY <2>1 DEF Die, TypeInv, NoLoop
  <2> QED
    BY <1>r, <2>2, <2>3, TokenKept
<1>4. ASSUME NEW d \in Engines, Reconciler(d) PROVE Token(e, t)
  <2>1. CASE Reconcile(d)
    <3>1. \A S : StartFill(S).pc # "launch"
      BY DEF StartFill, NoFill
    <3>2. \A w \in Filler : fills'[e][w].pc # "launch" \/ fills'[e][w] = fills[e][w]
      BY <2>1, <3>1 DEF Reconcile, TypeInv
    <3>3. ASSUME NEW k \in Slots
          PROVE  /\ loops'[e][k].pc = loops[e][k].pc
                 /\ loops'[e][k].created = loops[e][k].created
                 /\ loops'[e][k].next = loops[e][k].next
      BY <2>1, ReconcileLoops
    <3> QED
      BY <1>r, <3>2, <3>3, TokenKept
  <2>2. CASE Install(d)
    <3>1. PICK k \in Slots :
             loops' = [loops EXCEPT ![d][k] = [NoLoop EXCEPT !.pc = "top", !.id = recon[d].target]]
      BY <2>2 DEF Install
    <3>2. [NoLoop EXCEPT !.pc = "top", !.id = recon[d].target].pc # "launch"
      BY DEF NoLoop
    <3>3. \A j \in Slots : loops'[e][j].pc # "launch" \/ loops'[e][j] = loops[e][j]
      BY <3>1, <3>2 DEF TypeInv
    <3> QED
      BY <1>r, <2>2, <3>3, TokenKept DEF Install
  <2> QED
    BY <1>4, <2>1, <2>2 DEF Reconciler
<1>5. ASSUME NEW d \in Engines, NEW k \in Slots, Loop(d, k) PROVE Token(e, t) \/ Direct(t)'
  <2>l. loops[d][k] \in LoopType(sc.cron) /\ loops \in [Engines -> [Slots -> LoopType(sc.cron)]]
    BY DEF TypeInv
  <2>f. fills' = fills
    BY <1>5 DEF Loop, LoopTop, LoopStops, LoopFires, LoopLaunches, set_schedule_last_fired
  <2>o. ASSUME NEW l, loops' = [loops EXCEPT ![d][k] = l], l.pc # "launch" \/ l.created # TRUE
        PROVE  Token(e, t)
    <3>1. /\ loops'[d][k] = l
          /\ \A c \in Engines, j \in Slots : c # d \/ j # k => loops'[c][j] = loops[c][j]
      BY <2>o, <2>l
    <3>2. \A j \in Slots : LoopOwes(e, j, t)' => LoopOwes(e, j, t)
      BY <2>o, <3>1 DEF LoopOwes
    <3>3. \A w \in Filler : FillOwes(e, w, t)' => FillOwes(e, w, t)
      BY <2>f DEF FillOwes
    <3> QED
      BY <1>r, <3>2, <3>3 DEF Token
  <2>p. \A i : /\ [loops[d][k] EXCEPT !.pc = "sleep", !.next = i].pc # "launch"
              /\ [loops[d][k] EXCEPT !.pc = "top", !.next = i, !.created = FALSE].pc # "launch"
              /\ [loops[d][k] EXCEPT !.pc = "stamp"].pc # "launch"
              /\ NoLoop.pc # "launch"
    BY <2>l DEF LoopType, NoLoop
  <2>1. CASE LoopTop(d, k)
    BY <2>1, <2>o, <2>p DEF LoopTop
  <2>2. CASE LoopStops(d, k)
    BY <2>2, <2>o, <2>p DEF LoopStops
  <2>3. CASE set_schedule_last_fired(d, k)
    BY <2>3, <2>o, <2>p DEF set_schedule_last_fired
  <2>m. LoopMoves(d, k, "stamp") => loops' = [loops EXCEPT ![d][k] = [loops[d][k] EXCEPT !.pc = "stamp"]]
    BY DEF LoopMoves
  <2>4. CASE LoopLaunches(d, k)
    BY <2>4, <2>m, <2>o, <2>p DEF LoopLaunches
  <2>5. CASE LoopFires(d, k)
    <3>1. PICK u \in sc.cron : u = loops[d][k].next
      BY <2>5, <2>l DEF LoopFires, LoopType
    <3>2. CASE PersistFails(d, u) /\ LoopMoves(d, k, "stamp")
      BY <3>2, <2>m, <2>o, <2>p
    <3>3. CASE /\ persist_scheduled_tick(d, u, sc.queued)
               /\ loops' = [loops EXCEPT ![d][k].pc = "launch", ![d][k].created = IsFirst(u)]
      <4>1. PICK b \in BOOLEAN : b = IsFirst(u)
        BY DEF IsFirst
      <4>2. loops' = [loops EXCEPT ![d][k] = [loops[d][k] EXCEPT !.pc = "launch", !.created = b]]
        BY <2>l, <3>3, <4>1
      <4>3. LET l == [loops[d][k] EXCEPT !.pc = "launch", !.created = b]
            IN  l.created = b /\ l.next = u
        BY <2>l, <3>1 DEF LoopType
      <4>4. CASE b = FALSE
        BY <2>o, <4>2, <4>3, <4>4
      <4>5. CASE b = TRUE
        <5>1. Direct(u)'
          BY <1>p, <3>3, <4>1, <4>5
        <5>2. CASE t = u
          BY <5>1, <5>2
        <5>3. CASE t # u
          <6>1. /\ loops'[d][k].next = u
                /\ \A c \in Engines, j \in Slots : c # d \/ j # k => loops'[c][j] = loops[c][j]
            BY <2>l, <4>2, <4>3
          <6>2. \A j \in Slots : LoopOwes(e, j, t)' => LoopOwes(e, j, t)
            BY <5>3, <6>1 DEF LoopOwes
          <6>3. \A w \in Filler : FillOwes(e, w, t)' => FillOwes(e, w, t)
            BY <2>f DEF FillOwes
          <6> QED
            BY <1>r, <6>2, <6>3 DEF Token
        <5> QED
          BY <5>2, <5>3
      <4> QED
        BY <4>4, <4>5
    <3> QED
      BY <2>5, <3>1, <3>2, <3>3 DEF LoopFires
  <2> QED
    BY <1>5, <2>1, <2>2, <2>3, <2>4, <2>5 DEF Loop
<1>6. ASSUME NEW d \in Engines, NEW v \in Filler, Fill(d, v) PROVE Token(e, t) \/ Direct(t)'
  <2>l. fills[d][v] \in FillType(sc.cron) /\ fills \in [Engines -> [Filler -> FillType(sc.cron)]]
    BY DEF TypeInv
  <2>f. loops' = loops
    BY <1>6 DEF Fill, FillPersists, FillLaunches, FillEnds
  <2>o. ASSUME NEW f, fills' = [fills EXCEPT ![d][v] = f],
               f.pc # "launch" \/ f.created # TRUE \/ f.cur # t
        PROVE  Token(e, t)
    <3>1. /\ fills'[d][v] = f
          /\ \A c \in Engines, w \in Filler : c # d \/ w # v => fills'[c][w] = fills[c][w]
      BY <2>o, <2>l
    <3>2. \A w \in Filler : FillOwes(e, w, t)' => FillOwes(e, w, t)
      BY <2>o, <3>1 DEF FillOwes
    <3>3. \A k \in Slots : LoopOwes(e, k, t)' => LoopOwes(e, k, t)
      BY <2>f DEF LoopOwes
    <3> QED
      BY <1>r, <3>2, <3>3 DEF Token
  <2>n. FillOver(d, v) => Token(e, t)
    <3>1. NoFill.pc # "launch"
      BY DEF NoFill
    <3> QED
      BY <2>o, <3>1 DEF FillOver
  <2>1. CASE FillLaunches(d, v)
    <3>1. [fills[d][v] EXCEPT !.pc = "persist", !.cur = NoTick, !.created = FALSE].pc # "launch"
      BY <2>l DEF FillType
    <3> QED
      BY <2>1, <2>o, <3>1 DEF FillLaunches
  <2>2. CASE FillPersists(d, v)
    <3>1. PICK u \in sc.cron : u = Min(fills[d][v].todo)
      BY <2>2, <2>l, MinOf, Cron DEF FillPersists, FillType, TypeInv
    <3>2. CASE /\ persist_scheduled_tick(d, u, sc.queued)
               /\ fills' = [fills EXCEPT ![d][v] = [pc |-> "launch", todo |-> fills[d][v].todo \ {u},
                                                    cur |-> u, created |-> IsFirst(u)]]
      <4>1. PICK b \in BOOLEAN : b = IsFirst(u)
        BY DEF IsFirst
      <4>2. PICK f : f = [pc |-> "launch", todo |-> fills[d][v].todo \ {u}, cur |-> u, created |-> b]
        OBVIOUS
      <4>3. fills' = [fills EXCEPT ![d][v] = f] /\ f.created = b /\ f.cur = u
        BY <3>2, <4>1, <4>2
      <4>4. CASE b = FALSE \/ t # u
        BY <2>o, <4>3, <4>4
      <4>5. CASE b = TRUE /\ t = u
        BY <1>p, <3>2, <4>1, <4>5
      <4> QED
        BY <4>4, <4>5
    <3> QED
      BY <2>2, <2>n, <3>1, <3>2 DEF FillPersists
  <2> QED
    BY <1>6, <2>1, <2>2, <2>n DEF Fill, FillEnds
<1>7. CASE Operator
  <2>1. loops' = loops
    BY <1>7 DEF Operator
  <2>2. ASSUME NEW d \in Engines, backfill_schedule(d) PROVE Token(e, t)
    <3>1. \A S : StartFill(S).pc # "launch"
      BY DEF StartFill, NoFill
    <3>2. \A w \in Filler : fills'[e][w].pc # "launch" \/ fills'[e][w] = fills[e][w]
      BY <2>2, <3>1 DEF backfill_schedule, TypeInv
    <3> QED
      BY <1>q, <2>1, <3>2
  <2>3. CASE fills' = fills
    BY <1>q, <2>1, <2>3
  <2> QED
    BY <1>7, <2>2, <2>3
    DEF Operator, create_schedule, apply_schedules, delete_schedule, set_schedule_status, ClientBackfills
<1>8. CASE Tick \/ UNCHANGED vars
  BY <1>8, <1>q DEF Tick, vars, process
<1> QED
  BY <1>1, <1>2, <1>3, <1>4, <1>5, <1>6, <1>7, <1>8 DEF Next, Quiet

\* A process stays as it is but for the runs of direct ticks, which come and go.
LEMMA DrainQuiet ==
    ASSUME TypeInv, [Next]_vars, NEW e \in Engines, Drained(e),
           proc'[e].pc = proc[e].pc, proc'[e].drained = proc[e].drained,
           proc[e].pc # "up" => /\ proc'[e].dispatching = proc[e].dispatching
                                /\ proc'[e].claim = proc[e].claim,
           proc[e].pc = "stopped" /\ proc[e].drained = TRUE =>
              recovery'[e].todo \subseteq recovery[e].todo /\ recovery'[e].cur = recovery[e].cur,
           \A t \in sc.cron : \/ runs'[e][t] > 0 => runs[e][t] > 0
                              \/ Token(e, t)
                              \/ proc[e].pc # "stopped"
    PROVE  Drained(e)'
<1>1. sc' = sc
  BY ScenarioKept
<1>2. \A t \in sc.cron : Direct(t) => Direct(t)'
  BY DirectKept
<1>3. \A t \in sc.cron : Token(e, t)' => Token(e, t) \/ Direct(t)'
  BY TokenFrom
<1>4. \A t \in sc.cron : Token(e, t)' => Direct(t)'
  BY <1>2, <1>3 DEF Drained
<1>5. ASSUME proc[e].pc = "stopped", proc[e].drained = TRUE
      PROVE  /\ recovery'[e].todo = {} /\ recovery'[e].cur = NoTick
             /\ \A t \in sc.cron : runs'[e][t] > 0 => Direct(t)'
  BY <1>2, <1>5 DEF Drained
<1> QED
  BY <1>1, <1>4, <1>5 DEF Drained

\* A process elsewhere in its life: nothing is claimed.
LEMMA DrainMoves ==
    ASSUME TypeInv, [Next]_vars, NEW e \in Engines, Drained(e),
           proc'[e].pc # "up" => proc'[e].dispatching = FALSE /\ proc'[e].claim = NoTick,
           proc'[e].pc # "stopped" \/ proc'[e].drained # TRUE,
           proc'[e].pc \in Launching => proc'[e].drained = FALSE
    PROVE  Drained(e)'
<1>1. sc' = sc
  BY ScenarioKept
<1>2. \A t \in sc.cron : Direct(t) => Direct(t)'
  BY DirectKept
<1>3. \A t \in sc.cron : Token(e, t)' => Token(e, t) \/ Direct(t)'
  BY TokenFrom
<1>4. \A t \in sc.cron : Token(e, t)' => Direct(t)'
  BY <1>2, <1>3 DEF Drained
<1> QED
  BY <1>1, <1>4 DEF Drained

LEMMA DrainStep == ASSUME TypeInv, DrainInv, [Next]_vars PROVE DrainInv'
<1>t. /\ proc \in [Engines -> ProcType(sc.cron)] /\ \A e \in Engines : proc[e] \in ProcType(sc.cron)
      /\ recovery \in [Engines -> RecoveryType(sc.cron)]
      /\ runs \in [Engines -> [sc.cron -> Nat]]
  BY DEF TypeInv
<1>h. \A e \in Engines : Drained(e)
  BY DEF DrainInv
<1>x. \A e \in Engines :
         /\ proc[e].pc # "up" => proc[e].dispatching = FALSE /\ proc[e].claim = NoTick
         /\ proc[e].pc \in Launching => proc[e].drained = FALSE
  BY <1>h DEF Drained
<1>o. ASSUME NEW e \in Engines, proc'[e] = proc[e], recovery'[e] = recovery[e], runs'[e] = runs[e]
      PROVE  Drained(e)'
  BY <1>h, <1>o, DrainQuiet
<1>q. ASSUME UNCHANGED <<proc, recovery, runs>> PROVE DrainInv'
  BY <1>q, <1>o DEF DrainInv
<1>1. ASSUME NEW e \in Engines, Launch(e) PROVE DrainInv'
  <2>1. ASSUME NEW d \in Engines \ {e} PROVE Drained(d)'
    <3>1. proc'[d] = proc[d] /\ recovery'[d] = recovery[d] /\ runs'[d] = runs[d]
      BY <1>t, <1>1 DEF Launch, LaunchBegins, create_application_version, upsert_queue, SpawnTasks, Goto,
                        get_latest_application_version, Spawn, LaunchFails
    <3> QED
      BY <1>o, <3>1
  <2>2. Drained(e)'
    <3>1. CASE SpawnTasks(e)
      <4>1. proc'[e].pc = "up"
        BY <1>t, <3>1 DEF SpawnTasks, Spawn, ProcType
      <4> QED
        BY <1>h, <4>1, DrainMoves DEF Launching
    <3>2. CASE LaunchBegins(e)
      <4>1. /\ proc[e].pc # "up" /\ proc'[e].pc = "version"
            /\ proc'[e].dispatching = proc[e].dispatching /\ proc'[e].claim = proc[e].claim
            /\ proc'[e].drained = FALSE
        BY <1>t, <3>2 DEF LaunchBegins, ProcType
      <4> QED
        BY <1>h, <1>x, <4>1, DrainMoves
    <3>3. CASE \/ create_application_version(e) \/ get_latest_application_version(e)
               \/ upsert_queue(e)
      <4>1. /\ proc[e].pc \in Launching /\ proc'[e].pc \in Launching
            /\ proc'[e].dispatching = proc[e].dispatching /\ proc'[e].claim = proc[e].claim
            /\ proc'[e].drained = proc[e].drained
        BY <1>t, <3>3 DEF create_application_version, get_latest_application_version, upsert_queue, Goto,
                          ProcType, Launching
      <4> QED
        <5>1. proc[e].pc # "up" /\ proc'[e].pc # "stopped"
          BY <4>1 DEF Launching
        <5> QED
          BY <1>h, <1>x, <4>1, <5>1, DrainMoves
    <3>4. CASE LaunchFails(e)
      <4>1. /\ proc[e].pc = "snapshot" /\ proc'[e].pc = "stopped"
            /\ proc'[e].dispatching = proc[e].dispatching /\ proc'[e].claim = proc[e].claim
            /\ proc'[e].drained = proc[e].drained
        BY <1>t, <3>4 DEF LaunchFails, Goto, ProcType
      <4>2. proc[e].drained = FALSE
        BY <1>x, <4>1 DEF Launching
      <4> QED
        BY <1>h, <1>x, <4>1, <4>2, DrainMoves
    <3> QED
      BY <1>1, <3>1, <3>2, <3>3, <3>4 DEF Launch
  <2> QED
    BY <2>1, <2>2 DEF DrainInv
<1>2. ASSUME NEW e \in Engines,
             deactivate(e) \/ shutdown(e) \/ DrainEnds(e) \/ Exit(e) \/ Crash(e)
      PROVE  DrainInv'
  <2>1. ASSUME NEW d \in Engines \ {e} PROVE Drained(d)'
    <3>1. proc'[d] = proc[d] /\ recovery'[d] = recovery[d] /\ runs'[d] = runs[d]
      BY <1>t, <1>2 DEF deactivate, shutdown, Retire, Stopping, DrainEnds, Exit, Crash, Die
    <3> QED
      BY <1>o, <3>1
  <2>2. Drained(e)'
    <3>1. CASE deactivate(e)
      <4>1. /\ proc'[e].pc = proc[e].pc /\ proc'[e].dispatching = FALSE /\ proc'[e].claim = NoTick
            /\ proc[e].pc \in Launching \cup {"up"} /\ proc'[e].drained = proc[e].drained
        BY <1>t, <3>1 DEF deactivate, Aborted, ProcType
      <4> QED
        BY <1>h, <1>x, <4>1, DrainMoves DEF Launching
    <3>2. CASE shutdown(e)
      <4>1. proc' = [proc EXCEPT ![e] = [Aborted(proc[e]) EXCEPT !.pc = "draining"]]
        BY <3>2 DEF shutdown, Retire, Stopping
      <4>2. proc'[e].pc = "draining" /\ proc'[e].dispatching = FALSE /\ proc'[e].claim = NoTick
        BY <1>t, <4>1 DEF Aborted, ProcType
      <4> QED
        BY <1>h, <4>2, DrainMoves DEF Launching
    <3>3. CASE DrainEnds(e)
      <4>1. PICK b \in BOOLEAN : b = Idle(e)
        BY DEF Idle
      <4>2. /\ proc[e].pc = "draining" /\ proc'[e].pc = "stopped" /\ proc'[e].drained = b
            /\ proc'[e].dispatching = proc[e].dispatching /\ proc'[e].claim = proc[e].claim
        BY <1>t, <3>3, <4>1 DEF DrainEnds, ProcType
      <4>3. CASE b = FALSE
        BY <1>h, <1>x, <4>2, <4>3, DrainMoves
      <4>4. CASE b = TRUE
        <5>1. /\ recovery'[e].todo = {} /\ recovery'[e].cur = NoTick
              /\ \A t \in sc.cron : runs'[e][t] = 0
          BY <3>3, <4>1, <4>4 DEF DrainEnds, Idle
        <5>2. UNCHANGED <<sc, loops, fills, ticks>>
          BY <3>3 DEF DrainEnds, rows
        <5>3. \A t \in sc.cron : Token(e, t)' => Direct(t)'
          BY <1>h, <5>2 DEF Drained, Direct, Token, LoopOwes, FillOwes
        <5> QED
          BY <1>x, <4>2, <5>1, <5>2, <5>3 DEF Drained, Launching
      <4> QED
        BY <4>3, <4>4
    <3>4. CASE Exit(e) \/ Crash(e)
      <4>1. proc'[e] = NoProc
        BY <1>t, <3>4 DEF Exit, Crash, Die
      <4>2. /\ proc'[e].pc = "down" /\ proc'[e].dispatching = FALSE /\ proc'[e].claim = NoTick
            /\ proc'[e].pc \notin Launching
        BY <4>1 DEF NoProc, Launching
      <4> QED
        BY <1>h, <4>2, DrainMoves
    <3> QED
      BY <1>2, <3>1, <3>2, <3>3, <3>4
  <2> QED
    BY <2>1, <2>2 DEF DrainInv
<1>3. ASSUME NEW e \in Engines, Recover(e) PROVE DrainInv'
  <2>1. UNCHANGED <<proc, runs>>
    BY <1>3 DEF Recover, RecoverNext, RecoverFails, RecoverRunEnds, RecoverBreaks
  <2>2. \A d \in Engines \ {e} : recovery'[d] = recovery[d]
    BY <1>3, <1>t DEF Recover, RecoverNext, RecoverFails, RecoverRunEnds, RecoverBreaks
  <2>3. recovery[e].todo # {} \/ recovery[e].cur # NoTick
    BY <1>3 DEF Recover, RecoverNext, RecoverFails, RecoverRunEnds, RecoverBreaks, IsOldest
  <2>4. ~(proc[e].pc = "stopped" /\ proc[e].drained = TRUE)
    BY <1>h, <2>3 DEF Drained
  <2>5. Drained(e)'
    BY <1>h, <2>1, <2>4, DrainQuiet
  <2>6. \A d \in Engines \ {e} : Drained(d)'
    BY <1>o, <2>1, <2>2
  <2> QED
    BY <2>5, <2>6 DEF DrainInv
<1>4. ASSUME NEW e \in Engines, Dispatch(e) PROVE DrainInv'
  <2>1. /\ \A d \in Engines \ {e} : proc'[d] = proc[d] /\ recovery'[d] = recovery[d] /\ runs'[d] = runs[d]
        /\ proc'[e].pc = proc[e].pc /\ proc'[e].dispatching = proc[e].dispatching
        /\ proc'[e].drained = proc[e].drained
    <3>1. CASE Claim(e)
      <4>1. PICK t \in sc.cron : proc' = [proc EXCEPT ![e].claim = t]
        BY <3>1 DEF Claim
      <4>2. recovery' = recovery /\ runs' = runs
        BY <3>1 DEF Claim
      <4> QED
        BY <1>t, <4>1, <4>2 DEF ProcType
    <3>2. CASE StartClaimed(e)
      BY <1>t, <3>2 DEF StartClaimed, ProcType
    <3> QED
      BY <1>4, <3>1, <3>2 DEF Dispatch
  <2>2. proc[e].pc = "up"
    BY <1>x, <1>4 DEF Dispatch, Claim, StartClaimed
  <2>3. Drained(e)'
    BY <1>h, <2>1, <2>2, DrainMoves DEF Launching
  <2> QED
    BY <1>o, <2>1, <2>3 DEF DrainInv
<1>5. ASSUME NEW e \in Engines, NEW t \in sc.cron, RunEnds(e, t) PROVE DrainInv'
  <2>1. /\ UNCHANGED <<proc, recovery>> /\ \A d \in Engines \ {e} : runs'[d] = runs[d]
        /\ \A u \in sc.cron : runs'[e][u] > 0 => runs[e][u] > 0
    BY <1>5, <1>t DEF RunEnds
  <2>2. Drained(e)'
    BY <1>h, <2>1, DrainQuiet
  <2> QED
    BY <1>o, <2>1, <2>2 DEF DrainInv
<1>l. ASSUME NEW e \in Engines, NEW t \in sc.cron, NEW b \in BOOLEAN, launch_scheduled_tick(e, t, b),
             UNCHANGED <<proc, recovery>>, b /\ ~sc.queued => Token(e, t)
      PROVE  DrainInv'
  <2>1. CASE ~(b /\ ~sc.queued)
    BY <1>q, <1>l, <2>1 DEF launch_scheduled_tick
  <2>2. CASE b /\ ~sc.queued
    <3>1. /\ \A d \in Engines \ {e} : runs'[d] = runs[d]
          /\ \A u \in sc.cron \ {t} : runs'[e][u] = runs[e][u]
      BY <1>l, <1>t, <2>2 DEF launch_scheduled_tick
    <3>2. Drained(e)'
      BY <1>h, <1>l, <2>2, <3>1, DrainQuiet
    <3> QED
      BY <1>o, <1>l, <3>1, <3>2 DEF DrainInv
  <2> QED
    BY <2>1, <2>2
<1>b. sc.queued \in BOOLEAN
  BY ScenarioAssumption DEF TypeInv
<1>6. ASSUME NEW e \in Engines, NEW k \in Slots, Loop(e, k) PROVE DrainInv'
  <2>1. CASE LoopLaunches(e, k)
    <3>1. loops[e][k] \in LoopType(sc.cron) /\ loops[e][k].pc = "launch"
      BY <2>1 DEF LoopLaunches, TypeInv
    <3>2. loops[e][k].next \in sc.cron /\ loops[e][k].created \in BOOLEAN
      BY <3>1 DEF LoopType
    <3>3. loops[e][k].created /\ ~sc.queued => Token(e, loops[e][k].next)
      BY <1>b, <3>1, <3>2 DEF Token, LoopOwes
    <3> QED
      BY <1>l, <2>1, <3>2, <3>3 DEF LoopLaunches
  <2> QED
    BY <1>6, <1>q, <2>1 DEF Loop, LoopTop, LoopStops, LoopFires, set_schedule_last_fired
<1>7. ASSUME NEW e \in Engines, NEW w \in Filler, Fill(e, w) PROVE DrainInv'
  <2>1. CASE FillLaunches(e, w)
    <3>1. fills[e][w] \in FillType(sc.cron) /\ fills[e][w].pc = "launch"
      BY <2>1 DEF FillLaunches, TypeInv
    <3>2. fills[e][w].cur \in sc.cron /\ fills[e][w].created \in BOOLEAN
      BY <3>1 DEF FillType
    <3>3. fills[e][w].created /\ ~sc.queued => Token(e, fills[e][w].cur)
      BY <1>b, <3>1, <3>2 DEF Token, FillOwes
    <3> QED
      BY <1>l, <2>1, <3>2, <3>3 DEF FillLaunches
  <2> QED
    BY <1>7, <1>q, <2>1 DEF Fill, FillPersists, FillEnds
<1>8. CASE \/ \E e \in Engines : Reconciler(e)
           \/ Operator \/ Tick \/ UNCHANGED vars
  BY <1>8, <1>q DEF Reconciler, Reconcile, Install, Operator, Tick, vars, process
<1> QED
  BY <1>1, <1>2, <1>3, <1>4, <1>5, <1>6, <1>7, <1>8 DEF Next, Quiet

(***************************************************************************)
(* After a shutdown that saw every tracked task end, nothing of the queues *)
(* and of recovery is alive in the process until it is launched again: the *)
(* abort of the dispatchers in shutdown, the cancelled recovery loop, and  *)
(* launch_scheduled_tick, the one call that is not stopped by either.      *)
(***************************************************************************)
THEOREM DrainedForGood == Spec => []DrainIsFinal
<1>1. Init => DrainInv
  BY DEF Init, DrainInv, Drained, NoProc, NoLoop, NoFill, Token, LoopOwes, FillOwes
<1>2. TypeInv /\ [Next]_vars => TypeInv'
  BY TypeStep
<1>3. TypeInv /\ DrainInv /\ [Next]_vars => DrainInv'
  BY DrainStep
<1>4. TypeInv /\ DrainInv => DrainIsFinal
  <2> SUFFICES ASSUME TypeInv, DrainInv, NEW e \in Engines, proc[e].pc = "stopped", proc[e].drained
               PROVE  /\ recovery[e].todo = {} /\ recovery[e].cur = NoTick /\ proc[e].claim = NoTick
                      /\ \A t \in sc.cron : runs[e][t] > 0 => ~ticks[t].queued
    BY DEF DrainIsFinal
  <2>1. proc[e].drained = TRUE
    BY DEF TypeInv, ProcType
  <2> QED
    BY <2>1 DEF DrainInv, Drained, Direct
<1> QED
  BY <1>1, <1>2, <1>3, <1>4, TypeInit, PTL DEF Spec
=============================================================================
