---------------------------- MODULE PromptProofs ----------------------------
(***************************************************************************)
(* Theorems about deliveries that are prompt (PromptSpec): the claim is a  *)
(* lock, an outcome is final, and only a record that was lost makes an     *)
(* execution be delivered again.                                           *)
(***************************************************************************)
EXTENDS DeliveryProofs

LEMMA PromptIsNext == [PromptNext]_vars => [Next]_vars
BY DEF PromptNext, Next

(* The clock stops for a delivery that runs.                               *)
LEMMA PromptClock == [PromptNext]_vars => now' = now \/ Prompt'
BY DEF PromptNext, SchedulerStep, TaskProgress, TaskFault, ListActions, QueueAction, StartAction,
   MarkTriggered, LoadExecution, PrepareDelivery, ClaimExecution, ClaimFrom, Execute,
   RecordFailure, RecordSuccess, Release, LoopProgress, LoopFault, BeginTick, ResetStale,
   ScanOverdue, TriggerWill, SpawnProcessWill, QueryRetries, DispatchRetry, OwnerStep,
   HandleUnlock, CliCreateWill, HandleCreateWill, HandleActivateWill, HandlePauseWill,
   HandleCheckinWill, HandleArchiveWill, HandleAddAction, Restart, env, schedVars, vars

LEMMA TruthUnderPrompt == PromptSpec => [](TypeOK /\ FiredOnce /\ Truth)
BY PromptIsNext, InitType, NextType, InitFired, NextFired, InitTruth, NextTruth, PTL DEF PromptSpec

(* Delivering(s, e): between the claim of e and the record of its end.     *)
Delivering(s, e) == tasks[s].pc \in DeliveryPc /\ tasks[s].exec = e

Exclusive == ExclusiveDelivery /\ Prompt

LEMMA DeliveringRow ==
    ASSUME TypeOK, Exclusive, Truth, NEW s \in Slots, NEW e, Delivering(s, e)
    PROVE  /\ e \in ExecIds /\ execs[e].status = "IN_PROGRESS" /\ ~Stale(e) /\ HasContent(e)
           /\ \A t \in Slots : Delivering(t, e) => t = s
<1>1. tasks[s].pc \in RetryPc
  BY DEF Delivering, DeliveryPc, RetryPc
<1>2. e \in ExecIds
  BY <1>1, OperandsType DEF Delivering, TypeOK
<1>3. HasContent(e)
  BY DEF Truth, TaskTruth, Delivering
<1> QED BY <1>2, <1>3 DEF Exclusive, ExclusiveDelivery, Prompt, Delivering

(* A step that leaves the executions that are delivered alone, and lets no *)
(* one deliver.                                                            *)
LEMMA ExclusiveStays ==
    ASSUME TypeOK, Exclusive, Truth, now' = now \/ Prompt',
           \A s \in Slots : tasks'[s].pc \in DeliveryPc =>
              Delivering(s, tasks'[s].exec) /\ execs'[tasks'[s].exec] = execs[tasks'[s].exec]
    PROVE  Exclusive'
<1>1. ASSUME NEW s \in Slots, tasks'[s].pc \in DeliveryPc
      PROVE  /\ execs'[tasks'[s].exec].status = "IN_PROGRESS"
             /\ ~Stale(tasks[s].exec)
             /\ tasks[s].exec = tasks'[s].exec
             /\ \A t \in Slots \ {s} : tasks'[t].pc \in DeliveryPc => tasks'[t].exec # tasks'[s].exec
  BY <1>1, DeliveringRow DEF Delivering
<1>2. ExclusiveDelivery'
  BY <1>1 DEF ExclusiveDelivery
<1>3. Prompt'
  BY <1>1 DEF Prompt, Stale
<1> QED BY <1>2, <1>3 DEF Exclusive

LEMMA NextExclusive ==
    ASSUME TypeOK, FiredOnce, Truth, Exclusive, [PromptNext]_vars
    PROVE  Exclusive'
<1>1. now' = now \/ Prompt'
  BY PromptClock
<1>2. Effect
  BY PromptIsNext, NextEffect
<1>3. \A s \in Slots : tasks[s].pc \in DeliveryPc =>
        Delivering(s, tasks[s].exec) /\ execs[tasks[s].exec].status = "IN_PROGRESS"
  BY DeliveringRow DEF Delivering
<1>4. CASE Quiet
  BY <1>1, <1>3, <1>4, ExclusiveStays DEF Quiet, Lets, OwnPc, RetryPc, DeliveryPc
<1>5. CASE Resets
  BY <1>1, <1>3, <1>5, ExclusiveStays, DeliveringRow DEF Resets
<1>6. ASSUME NEW s \in Slots, NEW e \in ExecIds, Queues(s, e)
      PROVE  Exclusive'
  <2>1. ASSUME NEW t \in Slots, tasks'[t].pc \in DeliveryPc
        PROVE  Delivering(t, tasks'[t].exec) /\ execs'[tasks'[t].exec] = execs[tasks'[t].exec]
    <3>1. tasks'[t] = tasks[t]
      BY <1>6, <2>1 DEF Queues, DeliveryPc
    <3>2. Delivering(t, tasks[t].exec) /\ tasks[t].exec \in ExecIds /\ tasks[t].exec # e
      BY <1>3, <1>6, <2>1, <3>1, DeliveringRow DEF Queues
    <3> QED BY <1>6, <3>1, <3>2 DEF Queues
  <2> QED BY <1>1, <2>1, ExclusiveStays
<1>7. ASSUME NEW f \in Slots, NEW e \in ExecIds, Dispatches(f, e)
      PROVE  Exclusive'
  BY <1>1, <1>3, <1>7, ExclusiveStays DEF Dispatches, Takes, DeliveryPc
<1>8. ASSUME NEW s \in Slots, NEW f \in Slots, NEW e \in ExecIds, Hands(s, f, e)
      PROVE  Exclusive'
  BY <1>1, <1>3, <1>8, ExclusiveStays DEF Hands, Takes, OwnPc, RetryPc, DeliveryPc
<1>9. ASSUME NEW s \in Slots, WorkEffect(s)
      PROVE  Exclusive'
  <2> DEFINE e == tasks[s].exec
  <2>1. /\ e \in ExecIds /\ tasks'[s].exec = e
        /\ \A t \in Slots \ {s} : tasks'[t] = tasks[t]
        /\ \A f \in ExecIds \ {e} : execs'[f] = execs[f]
        /\ now' = now
    BY <1>9 DEF WorkEffect, Loads, Prepares, GivesUp, Claims, Delivers, Fails, Completes, Works
  <2>2. ASSUME NEW t \in Slots \ {s}, tasks'[t].pc \in DeliveryPc, ~Delivering(t, e)
        PROVE  Delivering(t, tasks'[t].exec) /\ execs'[tasks'[t].exec] = execs[tasks'[t].exec]
    BY <1>3, <2>1, <2>2, DeliveringRow DEF Delivering
  <2>3. CASE Loads(s) \/ Prepares(s)
    <3>1. UNCHANGED execs /\ tasks'[s].pc \notin DeliveryPc
      BY <2>3 DEF Loads, Prepares, Works, DeliveryPc
    <3> QED BY <1>1, <1>3, <2>1, <3>1, ExclusiveStays
  <2>4. CASE GivesUp(s)
    <3>1. tasks'[s].pc \notin DeliveryPc /\ ~HasContent(e)
      BY <2>4 DEF GivesUp, Works, DeliveryPc
    <3>2. \A t \in Slots : ~Delivering(t, e)
      BY <3>1, DeliveringRow
    <3> QED BY <1>1, <2>2, <3>1, <3>2, ExclusiveStays
  <2>5. CASE Claims(s)
    <3>1. \A t \in Slots : ~Delivering(t, e)
      BY <2>5, DeliveringRow DEF Claims, Row
    <3>2. \A t \in Slots \ {s} : tasks'[t].pc \in DeliveryPc =>
            /\ tasks'[t] = tasks[t] /\ tasks[t].exec # e /\ tasks[t].exec \in ExecIds
            /\ execs'[tasks[t].exec] = execs[tasks[t].exec]
            /\ execs[tasks[t].exec].status = "IN_PROGRESS" /\ ~Stale(tasks[t].exec)
            /\ \A u \in Slots : Delivering(u, tasks[t].exec) => u = t
      BY <1>3, <2>1, <3>1, DeliveringRow DEF Delivering
    <3>3. ExclusiveDelivery'
      BY <2>1, <2>5, <3>2 DEF ExclusiveDelivery, Claims, Delivering
    <3>4. ~Stale(e)'
      BY <2>1, <2>5, SchedulerAssumption DEF Claims, Stale, TypeOK, EnvOK
    <3>5. Prompt'
      BY <2>1, <3>2, <3>4 DEF Prompt, Stale
    <3> QED BY <3>3, <3>5 DEF Exclusive
  <2>6. CASE Delivers(s)
    <3>1. Delivering(s, e) /\ UNCHANGED execs
      BY <2>6 DEF Delivers, Works, Delivering, DeliveryPc
    <3> QED BY <1>1, <1>3, <2>1, <3>1, ExclusiveStays
  <2>7. CASE Fails(s) \/ Completes(s)
    <3>1. tasks'[s].pc \notin DeliveryPc /\ Delivering(s, e)
      BY <2>7 DEF Fails, Completes, Works, Delivering, DeliveryPc
    <3>2. \A t \in Slots \ {s} : ~Delivering(t, e)
      BY <3>1, DeliveringRow
    <3> QED BY <1>1, <2>2, <3>1, <3>2, ExclusiveStays
  <2> QED BY <1>9, <2>3, <2>4, <2>5, <2>6, <2>7 DEF WorkEffect
<1> QED BY <1>2, <1>4, <1>5, <1>6, <1>7, <1>8, <1>9 DEF Effect

LEMMA ExclusiveHolds == PromptSpec => [](TypeOK /\ FiredOnce /\ Truth /\ Exclusive)
<1>1. Init => Exclusive
  BY DEF Init, SchedulerInit, NoTask, DeliveryPc, Exclusive, ExclusiveDelivery, Prompt
<1> QED BY <1>1, PromptIsNext, InitType, NextType, InitFired, NextFired, InitTruth, NextTruth,
           NextExclusive, PTL DEF PromptSpec

(* While deliveries are prompt one goroutine at most delivers an execution *)
(* (retryAction against tick).                                             *)
THEOREM DeliveryIsExclusive == PromptSpec => []ExclusiveDelivery
BY ExclusiveHolds, PTL DEF Exclusive
----------------------------------------------------------------------------
(* A prompt step takes no execution out of COMPLETED or EXHAUSTED.         *)
LEMMA NextFinal ==
    ASSUME TypeOK, FiredOnce, Truth, Exclusive, [PromptNext]_vars,
           NEW e \in ExecIds, execs[e].status \in {"COMPLETED", "EXHAUSTED"}
    PROVE  execs'[e].status = execs[e].status
<1>1. Effect
  BY PromptIsNext, NextEffect
<1>2. CASE Quiet \/ Resets \/ (\E f \in Slots, x \in ExecIds : Dispatches(f, x))
           \/ (\E s, f \in Slots, x \in ExecIds : Hands(s, f, x))
  BY <1>2 DEF Quiet, Resets, Stale, Dispatches, Hands, Takes
<1>3. ASSUME NEW s \in Slots, NEW x \in ExecIds, Queues(s, x)
      PROVE  execs'[e].status = execs[e].status
  BY <1>3 DEF Queues
<1>4. ASSUME NEW s \in Slots, WorkEffect(s)
      PROVE  execs'[e].status = execs[e].status
  <2>1. ASSUME tasks[s].exec # e
        PROVE  execs'[e].status = execs[e].status
    BY <1>4, <2>1
       DEF WorkEffect, Loads, Prepares, GivesUp, Claims, Delivers, Fails, Completes, Works
  <2>2. CASE tasks[s].exec = e
    <3>1. CASE Loads(s) \/ Prepares(s) \/ Delivers(s)
      BY <3>1 DEF Loads, Prepares, Delivers
    <3>2. CASE GivesUp(s)
      <4>1. Recorded(e) /\ ~HasContent(e) /\ tasks[s].pc = "prepare"
        BY <2>2, <3>2 DEF GivesUp, Works
      <4>2. RowTruth(e) /\ TaskTruth(s)
        BY DEF Truth
      <4>3. execs[e].status = "EXHAUSTED" /\ execs[e].attempt = 1 /\ execs[e].attempt >= MaxRetries
        BY <4>1, <4>2 DEF RowTruth
      <4>4. tasks[s].attempt = 1
        BY <2>2, <4>1, <4>2 DEF TaskTruth
      <4> QED BY <2>2, <3>2, <4>3, <4>4 DEF GivesUp, Outcome
    <3>3. CASE Claims(s)
      BY <2>2, <3>3 DEF Claims, Row
    <3>4. CASE Fails(s) \/ Completes(s)
      <4>1. Delivering(s, e)
        BY <2>2, <3>4 DEF Fails, Completes, Works, Delivering, DeliveryPc
      <4> QED BY <4>1, DeliveringRow
    <3> QED BY <1>4, <3>1, <3>2, <3>3, <3>4 DEF WorkEffect
  <2> QED BY <2>1, <2>2
<1> QED BY <1>1, <1>2, <1>3, <1>4 DEF Effect

(* While deliveries are prompt COMPLETED and EXHAUSTED are final           *)
(* (MarkCompleted, FailExecution, tick).                                   *)
THEOREM OutcomesAreFinal == PromptSpec => OutcomeIsFinal
<1>1. TypeOK /\ FiredOnce /\ Truth /\ Exclusive /\ [PromptNext]_vars =>
        \A e \in ExecIds : execs[e].status \in {"COMPLETED", "EXHAUSTED"} =>
            execs'[e].status = execs[e].status
  BY NextFinal
<1> QED BY <1>1, ExclusiveHolds, PTL DEF PromptSpec, OutcomeIsFinal

(* While deliveries are prompt what the design document asks of retries    *)
(* holds: an execution that was delivered is skipped for ever.             *)
THEOREM CompletedIsSkippedWhenPrompt == PromptSpec => CompletedIsSkipped
<1>1. TypeOK /\ FiredOnce /\ Truth /\ Exclusive /\ [PromptNext]_vars =>
        \A e \in ExecIds : execs[e].status = "COMPLETED" => execs'[e].status = "COMPLETED"
  BY NextFinal
<1> QED BY <1>1, ExclusiveHolds, PTL DEF PromptSpec, CompletedIsSkipped
----------------------------------------------------------------------------
(* Nobody has a delivery of e on record, or is about to write one.         *)
Open(e) ==
    /\ execs[e].status # "COMPLETED"
    /\ \A s \in Slots : tasks[s].pc = "complete" => tasks[s].exec # e

(* Every delivery of e but the one on record was paid for with a loss.     *)
Counted(e) ==
    /\ sent[e] <= 1 + faults + crashes
    /\ Open(e) => sent[e] <= faults + crashes

LEMMA CountedStays ==
    ASSUME TypeOK, [Next]_vars, NEW e \in ExecIds, Counted(e), sent'[e] = sent[e],
           Open(e)' => Open(e)
    PROVE  Counted(e)'
<1>1. /\ sent[e] \in Nat /\ faults \in Nat /\ crashes \in Nat
      /\ faults' \in Nat /\ crashes' \in Nat /\ faults' >= faults /\ crashes' >= crashes
  BY NextCounters DEF TypeOK, EnvOK, HistoryOK
<1>2. sent'[e] <= 1 + faults' + crashes'
  BY <1>1 DEF Counted
<1>3. Open(e)' => sent'[e] <= faults' + crashes'
  BY <1>1 DEF Counted
<1> QED BY <1>2, <1>3 DEF Counted

LEMMA NextCounted ==
    ASSUME TypeOK, FiredOnce, Truth, Exclusive, [PromptNext]_vars,
           NEW e \in ExecIds, Counted(e)
    PROVE  Counted(e)'
<1>1. Effect /\ [Next]_vars
  BY PromptIsNext, NextEffect
<1>2. /\ sent[e] \in Nat /\ faults \in Nat /\ crashes \in Nat
      /\ faults' \in Nat /\ crashes' \in Nat /\ faults' >= faults /\ crashes' >= crashes
  BY <1>1, NextCounters DEF TypeOK, EnvOK, HistoryOK
<1>3. CASE Quiet
  <2>1. CASE Open(e)' => Open(e)
    BY <1>1, <1>3, <2>1, CountedStays DEF Quiet
  <2>2. CASE Open(e)' /\ ~Open(e)
    <3>1. PICK s \in Slots : tasks[s].pc = "complete" /\ tasks[s].exec = e
      BY <1>3, <2>2 DEF Open, Quiet
    <3>2. tasks'[s] # tasks[s]
      BY <2>2, <3>1 DEF Open
    <3>3. faults' > faults \/ crashes' > crashes
      BY <1>3, <3>1, <3>2 DEF Quiet, Lets, DeliveryPc
    <3>4. sent'[e] = sent[e] /\ sent[e] <= 1 + faults + crashes
      BY <1>3 DEF Quiet, Counted
    <3>5. sent'[e] <= faults' + crashes' /\ sent'[e] <= 1 + faults' + crashes'
      BY <1>2, <3>3, <3>4
    <3> QED BY <1>2, <3>5 DEF Counted
  <2> QED BY <2>1, <2>2
<1>4. CASE Resets
  <2>1. execs[e].status = "COMPLETED" => execs'[e].status = "COMPLETED"
    BY <1>4 DEF Resets, Stale
  <2> QED BY <1>1, <1>4, <2>1, CountedStays DEF Resets, Open
<1>5. ASSUME NEW s \in Slots, NEW x \in ExecIds, Queues(s, x)
      PROVE  Counted(e)'
  <2>1. execs[e].status = "COMPLETED" => execs'[e].status = "COMPLETED"
    BY <1>5 DEF Queues
  <2>2. \A t \in Slots : tasks[t].pc = "complete" => tasks'[t] = tasks[t]
    BY <1>5 DEF Queues
  <2> QED BY <1>1, <1>5, <2>1, <2>2, CountedStays DEF Queues, Open
<1>6. ASSUME NEW s \in Slots, NEW f \in Slots, NEW x \in ExecIds,
             Dispatches(f, x) \/ Hands(s, f, x)
      PROVE  Counted(e)'
  <2>1. UNCHANGED <<execs, sent>>
    BY <1>6 DEF Dispatches, Hands, Takes
  <2>2. \A t \in Slots : tasks[t].pc = "complete" => tasks'[t] = tasks[t]
    BY <1>6 DEF Dispatches, Hands, Takes
  <2> QED BY <1>1, <2>1, <2>2, CountedStays DEF Open
<1>7. ASSUME NEW s \in Slots, WorkEffect(s)
      PROVE  Counted(e)'
  <2>1. \A t \in Slots \ {s} : tasks'[t] = tasks[t]
    BY <1>7 DEF WorkEffect, Loads, Prepares, GivesUp, Claims, Delivers, Fails, Completes, Works
  <2>2. CASE tasks[s].exec # e
    <3>1. execs'[e] = execs[e] /\ sent'[e] = sent[e]
      BY <1>7, <2>2
         DEF WorkEffect, Loads, Prepares, GivesUp, Claims, Delivers, Fails, Completes, Works
    <3>2. Open(e)' => Open(e)
      BY <2>1, <2>2, <3>1 DEF Open
    <3> QED BY <1>1, <3>1, <3>2, CountedStays
  <2>3. CASE tasks[s].exec = e
    <3>1. CASE Loads(s) \/ Prepares(s) \/ Claims(s)
      <4>1. /\ sent'[e] = sent[e] /\ tasks[s].pc # "complete"
            /\ execs[e].status = "COMPLETED" => execs'[e].status = "COMPLETED"
        BY <2>3, <3>1 DEF Loads, Prepares, Claims, Works, Row
      <4> QED BY <1>1, <2>1, <4>1, CountedStays DEF Open
    <3>2. CASE GivesUp(s)
      <4>1. sent'[e] = sent[e] /\ Recorded(e) /\ ~HasContent(e)
        BY <2>3, <3>2 DEF GivesUp, Works
      <4>2. sent'[e] = 0
        BY <4>1 DEF Truth, RowTruth
      <4> QED BY <1>2, <4>2 DEF Counted
    <3>3. CASE Fails(s)
      <4>1. Delivering(s, e) /\ sent'[e] = sent[e] /\ tasks[s].pc # "complete"
        BY <2>3, <3>3 DEF Fails, Works, Delivering, DeliveryPc
      <4>2. execs[e].status # "COMPLETED"
        BY <4>1, DeliveringRow
      <4> QED BY <1>1, <2>1, <4>1, <4>2, CountedStays DEF Open
    <3>4. CASE Delivers(s)
      <4>1. Delivering(s, e) /\ tasks[s].pc = "execute"
        BY <2>3, <3>4 DEF Delivers, Works, Delivering, DeliveryPc
      <4>2. Open(e)
        BY <4>1, DeliveringRow DEF Open, Delivering, DeliveryPc
      <4>3. CASE sent'[e] = sent[e]
        BY <1>1, <4>2, <4>3, CountedStays
      <4>4. CASE Works(s, "execute", "complete") /\ sent'[e] = sent[e] + 1
        <5>1. ~Open(e)'
          BY <2>3, <4>4 DEF Open, Works
        <5>2. sent'[e] <= 1 + faults' + crashes'
          BY <1>2, <4>2, <4>4 DEF Counted
        <5> QED BY <5>1, <5>2 DEF Counted
      <4> QED BY <2>3, <3>4, <4>3, <4>4 DEF Delivers
    <3>5. CASE Completes(s)
      <4>1. sent'[e] = sent[e] /\ ~Open(e)'
        BY <2>3, <3>5 DEF Completes, Open
      <4> QED BY <1>1, <4>1, CountedStays
    <3> QED BY <1>7, <3>1, <3>2, <3>3, <3>4, <3>5 DEF WorkEffect
  <2> QED BY <2>2, <2>3
<1> QED BY <1>1, <1>3, <1>4, <1>5, <1>6, <1>7 DEF Effect

(* While deliveries are prompt each delivery but one was paid for with a   *)
(* record that a failed statement or a restart lost (retryAction, tick).   *)
THEOREM RepeatsAreAlwaysLosses == PromptSpec => []RepeatsAreLosses
<1> DEFINE CountedInv == \A e \in ExecIds : Counted(e)
<1>1. Init => CountedInv
  BY DEF Init, SchedulerInit, Counted
<1>2. TypeOK /\ FiredOnce /\ Truth /\ Exclusive /\ [PromptNext]_vars /\ CountedInv => CountedInv'
  BY NextCounted
<1>3. CountedInv => RepeatsAreLosses
  BY DEF Counted, RepeatsAreLosses
<1> HIDE DEF CountedInv
<1> QED BY <1>1, <1>2, <1>3, ExclusiveHolds, PTL DEF PromptSpec
----------------------------------------------------------------------------
(* The stage of an execution, step by step.                                *)
StageFcn == [e \in ExecIds |-> Stage(e)]

(* Nobody begins or ends to deliver e, and its row keeps its status.       *)
SameStage(e) ==
    /\ execs'[e].status = execs[e].status
    /\ \A s \in Slots : Delivering(s, e) => tasks'[s] = tasks[s]
    /\ \A s \in Slots : Delivering(s, e)' => tasks'[s] = tasks[s]

LEMMA StageStays ==
    ASSUME NEW e \in ExecIds, SameStage(e)
    PROVE  Stage(e)' = Stage(e)
<1>1. \A pc \in DeliveryPc : DeliveredAt(e, pc)' <=> DeliveredAt(e, pc)
  BY DEF SameStage, Delivering, DeliveredAt
<1> QED BY <1>1 DEF SameStage, Stage, DeliveryPc

LEMMA StageOfRow ==
    ASSUME TypeOK, NEW e \in ExecIds
    PROVE  /\ execs[e].status = "ABSENT" <=> Stage(e) = "none"
           /\ execs[e].status \in {"QUEUED", "FAILED"} <=> Stage(e) = "open"
           /\ execs[e].status = "COMPLETED" <=> Stage(e) = "done"
           /\ execs[e].status = "EXHAUSTED" <=> Stage(e) = "over"
           /\ execs[e].status = "IN_PROGRESS" <=>
                Stage(e) \in {"running", "made", "missed", "lost"}
<1>1. execs[e].status \in ExecStatus
  BY DEF TypeOK, ExecsOK, ExecRow
<1> QED BY <1>1 DEF Stage, ExecStatus

(* The goroutine that delivers an execution tells its stage.               *)
LEMMA StageOfDelivery ==
    ASSUME TypeOK, Exclusive, Truth, NEW e \in ExecIds
    PROVE  /\ \A s \in Slots : Delivering(s, e) =>
                Stage(e) = CASE tasks[s].pc = "execute"  -> "running"
                             [] tasks[s].pc = "complete" -> "made"
                             [] tasks[s].pc = "fail"     -> "missed"
           /\ (\A s \in Slots : ~Delivering(s, e)) => Stage(e) \notin {"running", "made", "missed"}
<1>1. ASSUME NEW s \in Slots, Delivering(s, e)
      PROVE  Stage(e) = CASE tasks[s].pc = "execute"  -> "running"
                          [] tasks[s].pc = "complete" -> "made"
                          [] tasks[s].pc = "fail"     -> "missed"
  <2>1. execs[e].status = "IN_PROGRESS" /\ \A t \in Slots : Delivering(t, e) => t = s
    BY <1>1, DeliveringRow
  <2>2. \A pc \in DeliveryPc : DeliveredAt(e, pc) <=> tasks[s].pc = pc
    BY <1>1, <2>1 DEF DeliveredAt, Delivering
  <2>3. tasks[s].pc \in DeliveryPc
    BY <1>1 DEF Delivering
  <2> QED BY <2>1, <2>2, <2>3 DEF Stage, DeliveryPc
<1>2. ASSUME \A s \in Slots : ~Delivering(s, e)
      PROVE  Stage(e) \notin {"running", "made", "missed"}
  <2>1. \A pc \in DeliveryPc : ~DeliveredAt(e, pc)
    BY <1>2 DEF DeliveredAt, Delivering
  <2>2. execs[e].status \in ExecStatus
    BY DEF TypeOK, ExecsOK, ExecRow
  <2> QED BY <2>1, <2>2 DEF Stage, DeliveryPc, ExecStatus
<1> QED BY <1>1, <1>2

LEMMA StageMoves ==
    ASSUME NEW e \in ExecIds, NEW from, NEW to, Stage(e) = from, Stage(e)' = to,
           \A x \in ExecIds \ {e} : Stage(x)' = Stage(x),
           UNCHANGED <<faults, crashes>>
    PROVE  DLV!Move(e, from, to)
<1>1. StageFcn' = [StageFcn EXCEPT ![e] = to]
  BY DEF StageFcn
<1> QED BY <1>1 DEF StageFcn, DLV!Move

DLVvars == <<StageFcn, tried, sent, faults + crashes>>

LEMMA StageStutters ==
    ASSUME \A e \in ExecIds : Stage(e)' = Stage(e), UNCHANGED <<tried, sent, faults, crashes>>
    PROVE  UNCHANGED DLVvars
BY DEF DLVvars, StageFcn

LEMMA CountedOnce ==
    ASSUME NEW f \in [ExecIds -> Nat], NEW g \in [ExecIds -> Nat], NEW e \in ExecIds,
           g[e] = f[e] + 1, \A x \in ExecIds \ {e} : g[x] = f[x]
    PROVE  g = [f EXCEPT ![e] = @ + 1]
OBVIOUS

(* A statement that fails, or the end of the process.                      *)
LEMMA QuietMaps ==
    ASSUME TypeOK, Exclusive, Truth, Quiet, faults \in Nat, crashes \in Nat,
           \/ UNCHANGED <<faults, crashes>>
           \/ faults' = faults + 1 /\ crashes' = crashes
           \/ crashes' = crashes + 1 /\ faults' = faults
    PROVE  [DLV!Next]_DLVvars
<1> DEFINE S == {e \in ExecIds : \E s \in Slots : Delivering(s, e) /\ tasks'[s] # tasks[s]}
<1>1. \A s \in Slots : tasks'[s] = tasks[s] \/ tasks'[s].pc \notin DeliveryPc
  BY DEF Quiet, Lets, OwnPc, RetryPc, DeliveryPc
<1>2. ASSUME NEW e \in ExecIds, e \notin S
      PROVE  Stage(e)' = Stage(e)
  <2>1. SameStage(e)
    BY <1>1, <1>2 DEF SameStage, Delivering, Quiet
  <2> QED BY <2>1, StageStays
<1>3. ASSUME NEW e \in S
      PROVE  Stage(e) \in {"running", "made", "missed"} /\ Stage(e)' = "lost"
  <2>1. PICK s \in Slots : Delivering(s, e) /\ tasks'[s] # tasks[s]
    BY <1>3
  <2>2. e \in ExecIds /\ execs[e].status = "IN_PROGRESS" /\ \A t \in Slots : Delivering(t, e) => t = s
    BY <2>1, DeliveringRow
  <2>3. Stage(e) \in {"running", "made", "missed"}
    BY <2>1, <2>2, StageOfDelivery DEF Delivering, DeliveryPc
  <2>4. execs'[e].status = "IN_PROGRESS"
    BY <2>2 DEF Quiet
  <2>5. \A pc \in DeliveryPc : ~DeliveredAt(e, pc)'
    BY <1>1, <2>1, <2>2 DEF DeliveredAt, Delivering
  <2>6. Stage(e)' = "lost"
    BY <2>4, <2>5 DEF Stage, DeliveryPc
  <2> QED BY <2>3, <2>6
<1>4. UNCHANGED <<tried, sent>>
  BY DEF Quiet
<1>5. CASE UNCHANGED <<faults, crashes>>
  <2>1. S = {}
    BY <1>1, <1>5 DEF Quiet, Lets, Delivering
  <2> QED BY <1>2, <1>4, <1>5, <2>1, StageStutters
<1>6. CASE ~UNCHANGED <<faults, crashes>>
  <2>1. (faults + crashes)' = faults + crashes + 1
    BY <1>6
  <2>2. S \in SUBSET ExecIds
    OBVIOUS
  <2>3. \A e \in S : StageFcn[e] \in {"running", "made", "missed"}
    BY <1>3 DEF StageFcn
  <2>4. StageFcn' = [e \in ExecIds |-> IF e \in S THEN "lost" ELSE StageFcn[e]]
    BY <1>2, <1>3 DEF StageFcn
  <2> HIDE DEF S
  <2>5. DLV!Lose(S)
    BY <1>4, <2>1, <2>3, <2>4 DEF DLV!Lose, StageFcn
  <2> QED BY <2>2, <2>5 DEF DLV!Next
<1> QED BY <1>5, <1>6

(* The reset of what is stale.                                             *)
LEMMA ResetsMap ==
    ASSUME TypeOK, Exclusive, Truth, Resets, UNCHANGED <<faults, crashes>>
    PROVE  [DLV!Next]_DLVvars
<1> DEFINE S == {e \in ExecIds : execs'[e] # execs[e]}
<1>1. ASSUME NEW e \in ExecIds, e \notin S
      PROVE  Stage(e)' = Stage(e)
  <2>1. SameStage(e)
    BY <1>1 DEF SameStage, Delivering, Resets
  <2> QED BY <2>1, StageStays
<1>2. ASSUME NEW e \in S
      PROVE  Stage(e) = "lost" /\ Stage(e)' = "open"
  <2>1. e \in ExecIds /\ Stale(e) /\ execs'[e].status = "FAILED"
    BY <1>2 DEF Resets
  <2>2. \A s \in Slots : ~Delivering(s, e)
    BY <2>1, DeliveringRow
  <2>3. Stage(e) = "lost"
    BY <2>1, <2>2, StageOfRow, StageOfDelivery DEF Stale
  <2> QED BY <2>1, <2>3 DEF Stage
<1>3. \A e \in S : StageFcn[e] = "lost"
  BY <1>2 DEF StageFcn
<1>4. StageFcn' = [e \in ExecIds |-> IF e \in S THEN "open" ELSE StageFcn[e]]
  BY <1>1, <1>2 DEF StageFcn
<1>5. S \in SUBSET ExecIds
  OBVIOUS
<1> HIDE DEF S
<1>6. DLV!Reopen(S)
  BY <1>3, <1>4 DEF Resets, DLV!Reopen, StageFcn
<1> QED BY <1>5, <1>6 DEF DLV!Next

(* The steps that queue an execution or give it a goroutine.               *)
LEMMA HandingMaps ==
    ASSUME TypeOK, Exclusive, Truth, UNCHANGED <<faults, crashes>>,
           NEW s \in Slots, NEW f \in Slots, NEW e \in ExecIds,
           Queues(s, e) \/ Dispatches(f, e) \/ Hands(s, f, e)
    PROVE  [DLV!Next]_DLVvars
<1>1. CASE Queues(s, e)
  <2>1. \A t \in Slots : tasks'[t] = tasks[t] \/
          (tasks[t].pc \notin DeliveryPc /\ tasks'[t].pc \notin DeliveryPc)
    BY <1>1 DEF Queues, DeliveryPc
  <2>2. \A x \in ExecIds \ {e} : SameStage(x)
    BY <1>1, <2>1 DEF Queues, SameStage, Delivering
  <2>3. \A x \in ExecIds \ {e} : Stage(x)' = Stage(x)
    BY <2>2, StageStays
  <2>4. Stage(e) = "none" /\ Stage(e)' = "open"
    BY <1>1 DEF Queues, Stage
  <2>5. DLV!Move(e, "none", "open")
    BY <2>3, <2>4, StageMoves
  <2>6. DLV!Open(e)
    BY <1>1, <2>5 DEF Queues, DLV!Open
  <2> QED BY <2>6 DEF DLV!Next
<1>2. CASE Dispatches(f, e) \/ Hands(s, f, e)
  <2>1. \A t \in Slots : tasks'[t] = tasks[t] \/
          (tasks[t].pc \notin DeliveryPc /\ tasks'[t].pc \notin DeliveryPc)
    BY <1>2 DEF Dispatches, Hands, Takes, OwnPc, RetryPc, DeliveryPc
  <2>2. UNCHANGED <<execs, tried, sent>>
    BY <1>2 DEF Dispatches, Hands, Takes
  <2>3. \A x \in ExecIds : SameStage(x)
    BY <2>1, <2>2 DEF SameStage, Delivering
  <2> QED BY <2>2, <2>3, StageStays, StageStutters
<1> QED BY <1>1, <1>2

(* The steps of a goroutine that works on an execution.                    *)
LEMMA WorkMaps ==
    ASSUME TypeOK, TypeOK', Exclusive, Exclusive', Truth, Truth', UNCHANGED <<faults, crashes>>,
           NEW s \in Slots, WorkEffect(s)
    PROVE  [DLV!Next]_DLVvars
<1>1. PICK e \in ExecIds : e = tasks[s].exec
  BY DEF WorkEffect, Loads, Prepares, GivesUp, Claims, Delivers, Fails, Completes, Works
<1>2. /\ tasks'[s].exec = e
      /\ \A t \in Slots \ {s} : tasks'[t] = tasks[t]
      /\ \A x \in ExecIds \ {e} : execs'[x] = execs[x] /\ tried'[x] = tried[x] /\ sent'[x] = sent[x]
  BY <1>1 DEF WorkEffect, Loads, Prepares, GivesUp, Claims, Delivers, Fails, Completes, Works
<1>3. \A x \in ExecIds \ {e} : Stage(x)' = Stage(x)
  <2>1. \A x \in ExecIds \ {e} : SameStage(x)
    BY <1>1, <1>2 DEF SameStage, Delivering
  <2> QED BY <2>1, StageStays
<1>4. /\ tried \in [ExecIds -> Nat] /\ tried' \in [ExecIds -> Nat]
      /\ sent \in [ExecIds -> Nat] /\ sent' \in [ExecIds -> Nat]
      /\ tasks[s].attempt \in Nat /\ execs[e].attempt \in Nat
      /\ MaxRetries \in Nat
  BY OperandsType, ActionAssumption DEF TypeOK, HistoryOK, ExecsOK, ExecRow
<1>5. RowTruth(e) /\ TaskTruth(s)
  BY DEF Truth
<1>6. CASE Loads(s) \/ Prepares(s)
  <2>1. /\ tasks[s].pc \notin DeliveryPc /\ tasks'[s].pc \notin DeliveryPc
        /\ UNCHANGED <<execs, tried, sent>>
    BY <1>6 DEF Loads, Prepares, Works, DeliveryPc
  <2>2. SameStage(e)
    BY <1>2, <2>1 DEF SameStage, Delivering
  <2> QED BY <1>3, <2>1, <2>2, StageStays, StageStutters
<1>7. CASE GivesUp(s)
  <2>1. /\ Recorded(e) /\ ~HasContent(e) /\ tasks[s].pc = "prepare"
        /\ UNCHANGED <<tried, sent>>
        /\ execs'[e].status = Outcome(tasks[s].attempt)
    BY <1>1, <1>7 DEF GivesUp, Works
  <2>2. tasks[s].attempt = 1 /\ tried[e] = 0 /\ execs[e].attempt = 1
    BY <1>1, <1>5, <2>1 DEF RowTruth, TaskTruth
  <2>3. execs[e].status \in {"QUEUED", "FAILED", "EXHAUSTED"}
    BY <1>5, <2>1 DEF RowTruth, Recorded, TypeOK, ExecsOK, ExecRow, ExecStatus
  <2>4. CASE MaxRetries > 1
    <3>1. Stage(e) = "open" /\ Stage(e)' = "open"
      BY <1>4, <1>5, <2>1, <2>2, <2>3, <2>4 DEF RowTruth, Outcome, Stage
    <3> QED BY <1>3, <2>1, <3>1, StageStutters
  <2>5. CASE MaxRetries <= 1
    <3>1. Stage(e)' = "over"
      BY <1>4, <2>1, <2>2, <2>5 DEF Outcome, Stage
    <3>2. CASE Stage(e) = "over"
      BY <1>3, <2>1, <3>1, <3>2, StageStutters
    <3>3. CASE Stage(e) = "open"
      <4>1. DLV!Move(e, "open", "over")
        BY <1>3, <3>1, <3>3, StageMoves
      <4>2. DLV!GiveUp(e)
        BY <1>4, <2>1, <2>2, <2>5, <4>1 DEF DLV!GiveUp
      <4> QED BY <4>2 DEF DLV!Next
    <3> QED BY <2>3, <3>2, <3>3 DEF Stage
  <2> QED BY <1>4, <2>4, <2>5
<1>8. CASE Claims(s)
  <2>1. /\ execs[e].status \in {"QUEUED", "FAILED"} /\ execs'[e].status = "IN_PROGRESS"
        /\ tasks'[s].pc = "execute" /\ UNCHANGED <<tried, sent>>
    BY <1>1, <1>8 DEF Claims, Works, Row
  <2>2. DeliveredAt(e, "execute")'
    BY <1>2, <2>1 DEF DeliveredAt
  <2>3. Stage(e) = "open" /\ Stage(e)' = "running"
    BY <2>1, <2>2 DEF Stage
  <2>4. DLV!Begin(e)
    BY <1>3, <2>1, <2>3, StageMoves DEF DLV!Begin
  <2> QED BY <2>4 DEF DLV!Next
<1>9. ASSUME NEW pc \in DeliveryPc, tasks[s].pc = pc
      PROVE  /\ execs[e].status = "IN_PROGRESS"
             /\ \A t \in Slots \ {s} : ~Delivering(t, e) /\ ~Delivering(t, e)'
             /\ Stage(e) = CASE pc = "execute"  -> "running"
                             [] pc = "complete" -> "made"
                             [] pc = "fail"     -> "missed"
  <2>1. Delivering(s, e)
    BY <1>1, <1>9 DEF Delivering
  <2> QED BY <1>2, <1>9, <2>1, DeliveringRow, StageOfDelivery DEF Delivering
<1>10. CASE Delivers(s)
  <2>1. /\ tasks[s].pc = "execute" /\ tasks'[s].pc \in {"complete", "fail"}
        /\ UNCHANGED execs /\ tried'[e] = tried[e] + 1
        /\ tasks'[s].pc = "complete" => sent'[e] = sent[e] + 1
        /\ tasks'[s].pc = "fail" => UNCHANGED sent
    BY <1>1, <1>10 DEF Delivers, Works
  <2>2. execs'[e].status = "IN_PROGRESS" /\ Stage(e) = "running"
    BY <1>9, <2>1 DEF DeliveryPc
  <2>3. \A pc \in DeliveryPc : DeliveredAt(e, pc)' <=> tasks'[s].pc = pc
    BY <1>2, <1>9, <2>1 DEF DeliveredAt, Delivering, DeliveryPc
  <2>4. tried' = [tried EXCEPT ![e] = @ + 1]
    BY <1>2, <1>4, <2>1, CountedOnce
  <2>5. CASE tasks'[s].pc = "complete"
    <3>1. Stage(e)' = "made"
      BY <2>2, <2>3, <2>5 DEF Stage, DeliveryPc
    <3>2. sent' = [sent EXCEPT ![e] = @ + 1]
      BY <1>2, <1>4, <2>1, <2>5, CountedOnce
    <3>3. DLV!Make(e)
      BY <1>3, <2>2, <2>4, <3>1, <3>2, StageMoves DEF DLV!Make
    <3> QED BY <3>3 DEF DLV!Next
  <2>6. CASE tasks'[s].pc = "fail"
    <3>1. Stage(e)' = "missed"
      BY <2>2, <2>3, <2>6 DEF Stage, DeliveryPc
    <3>2. DLV!Miss(e)
      BY <1>3, <2>1, <2>2, <2>4, <2>6, <3>1, StageMoves DEF DLV!Miss
    <3> QED BY <3>2 DEF DLV!Next
  <2> QED BY <2>1, <2>5, <2>6
<1>11. CASE Fails(s)
  <2>1. /\ tasks[s].pc = "fail" /\ UNCHANGED <<tried, sent>>
        /\ execs'[e].status = Outcome(tasks[s].attempt + 1)
    BY <1>1, <1>11 DEF Fails, Works
  <2>2. Stage(e) = "missed" /\ tasks[s].attempt <= tried[e]
    BY <1>1, <1>5, <1>9, <2>1 DEF TaskTruth, DeliveryPc
  <2>3. CASE tasks[s].attempt + 1 >= MaxRetries
    <3>1. Stage(e)' = "over"
      BY <2>1, <2>3 DEF Outcome, Stage
    <3>2. tried[e] + 1 >= MaxRetries
      BY <1>4, <2>2, <2>3
    <3>3. DLV!GiveUp(e)
      BY <1>3, <2>1, <2>2, <3>1, <3>2, StageMoves DEF DLV!GiveUp
    <3> QED BY <3>3 DEF DLV!Next
  <2>4. CASE ~(tasks[s].attempt + 1 >= MaxRetries)
    <3>1. Stage(e)' = "open"
      BY <2>1, <2>4 DEF Outcome, Stage
    <3>2. DLV!TryAgain(e)
      BY <1>3, <2>1, <2>2, <3>1, StageMoves DEF DLV!TryAgain
    <3> QED BY <3>2 DEF DLV!Next
  <2> QED BY <2>3, <2>4
<1>12. CASE Completes(s)
  <2>1. /\ tasks[s].pc = "complete" /\ UNCHANGED <<tried, sent>>
        /\ execs'[e].status = "COMPLETED"
    BY <1>1, <1>12 DEF Completes, Works
  <2>2. Stage(e) = "made" /\ Stage(e)' = "done"
    BY <1>9, <2>1 DEF Stage, DeliveryPc
  <2>3. DLV!Finish(e)
    BY <1>3, <2>1, <2>2, StageMoves DEF DLV!Finish
  <2> QED BY <2>3 DEF DLV!Next
<1> QED BY <1>6, <1>7, <1>8, <1>10, <1>11, <1>12 DEF WorkEffect

LEMMA NextDelivery ==
    ASSUME TypeOK, FiredOnce, Truth, Exclusive, [PromptNext]_vars
    PROVE  [DLV!Next]_DLVvars
<1>1. [Next]_vars
  BY PromptIsNext
<1>2. TypeOK' /\ Truth' /\ Exclusive'
  BY <1>1, NextType, NextTruth, NextExclusive
<1>3. faults \in Nat /\ crashes \in Nat
  BY DEF TypeOK, EnvOK
<1>4. CASE UNCHANGED <<faults, crashes>>
  <2>1. Effect
    BY <1>1, NextEffect
  <2> QED BY <1>2, <1>3, <1>4, <2>1, QuietMaps, ResetsMap, HandingMaps, WorkMaps DEF Effect
<1>5. CASE ~UNCHANGED <<faults, crashes>>
  BY <1>1, <1>3, <1>5, CountersMove, QuietMaps
<1> QED BY <1>4, <1>5

(* While deliveries are prompt the daemon implements the life of an        *)
(* execution (retryAction, tick, processRetries).                          *)
THEOREM DeliveriesAreImplemented == PromptSpec => ImplementsDeliveries
<1>1. Init => DLV!Init
  BY DEF Init, ActionInit, SchedulerInit, NoExec, Stage, DLV!Init
<1>2. TypeOK /\ FiredOnce /\ Truth /\ Exclusive /\ [PromptNext]_vars => [DLV!Next]_DLVvars
  BY NextDelivery
<1> QED BY <1>1, <1>2, ExclusiveHolds, PTL
        DEF PromptSpec, ImplementsDeliveries, DLV!Spec, DLVvars, StageFcn
=============================================================================
