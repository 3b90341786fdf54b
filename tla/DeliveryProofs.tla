--------------------------- MODULE DeliveryProofs ---------------------------
(***************************************************************************)
(* Theorems about executions, for every value of the constants: who works  *)
(* on one, which are made, what their status tells and, while deliveries   *)
(* are prompt, how often one is delivered.  Every step of the daemon is    *)
(* first shown to have one of ten effects on the executions and on the     *)
(* goroutines that work on them; the invariants are then proved of the     *)
(* effects.                                                                *)
(***************************************************************************)
EXTENDS DaemonProofs, FiniteSetTheorems

OwnPc == RetryPc \cup {"start"}

(* The goroutine at s goes on as it was or works on no execution; when it  *)
(* had one to deliver, the delivery or its record was lost.                *)
Lets(s) ==
    \/ tasks'[s] = tasks[s]
    \/ /\ tasks'[s].pc \notin OwnPc
       /\ tasks[s].pc \in DeliveryPc => faults' > faults \/ crashes' > crashes

Quiet == UNCHANGED <<execs, tried, sent>> /\ \A s \in Slots : Lets(s)

Resets ==
    /\ UNCHANGED <<tasks, tried, sent, now>>
    /\ \A e \in ExecIds :
         \/ execs'[e] = execs[e]
         \/ /\ Stale(e)
            /\ execs'[e].status = "FAILED" /\ execs'[e].attempt = execs[e].attempt

Queues(s, e) ==
    /\ UNCHANGED <<tried, sent, now>>
    /\ execs[e].status = "ABSENT" /\ execs'[e].status = "QUEUED" /\ execs'[e].attempt = 1
    /\ \A f \in ExecIds \ {e} : execs'[f] = execs[f]
    /\ tasks[s].pc = "queue" /\ tasks'[s].pc = "start" /\ tasks'[s].exec = e
    /\ \A t \in Slots \ {s} : tasks'[t] = tasks[t]

Takes(f, e) ==
    /\ UNCHANGED <<execs, tried, sent, now>>
    /\ tasks[f].pc = "free" /\ tasks'[f].pc = "load" /\ tasks'[f].exec = e

Dispatches(f, e) ==
    /\ Takes(f, e)
    /\ e \in loop.batch
    /\ \A t \in Slots \ {f} : tasks'[t] = tasks[t]

Hands(s, f, e) ==
    /\ Takes(f, e)
    /\ s # f /\ tasks[s].pc = "start" /\ tasks[s].exec = e /\ tasks'[s].pc \notin OwnPc
    /\ \A t \in Slots \ {s, f} : tasks'[t] = tasks[t]

(* The goroutine at s works on its execution.                              *)
Works(s, from, to) ==
    /\ now' = now
    /\ tasks[s].pc = from /\ tasks'[s].pc = to
    /\ tasks'[s].exec = tasks[s].exec
    /\ from # "load" => tasks'[s].attempt = tasks[s].attempt
    /\ tasks[s].exec \in ExecIds /\ Recorded(tasks[s].exec)
    /\ \A t \in Slots \ {s} : tasks'[t] = tasks[t]
    /\ \A e \in ExecIds \ {tasks[s].exec} :
         execs'[e] = execs[e] /\ tried'[e] = tried[e] /\ sent'[e] = sent[e]

Row(s) == execs[tasks[s].exec]

HasContent(e) == wills[WillOf(e)].content

Loads(s) ==
    /\ Works(s, "load", "prepare")
    /\ UNCHANGED <<execs, tried, sent>>
    /\ tasks'[s].attempt = Row(s).attempt

Prepares(s) ==
    /\ Works(s, "prepare", "claim")
    /\ UNCHANGED <<execs, tried, sent, wills>>
    /\ HasContent(tasks[s].exec) /\ engine = "open"

Outcome(attempt) == IF attempt >= MaxRetries THEN "EXHAUSTED" ELSE "FAILED"

GivesUp(s) ==
    /\ Works(s, "prepare", "exit")
    /\ ~HasContent(tasks[s].exec)
    /\ UNCHANGED <<tried, sent>>
    /\ execs'[tasks[s].exec].attempt = tasks[s].attempt
    /\ execs'[tasks[s].exec].status = Outcome(tasks[s].attempt)

Claims(s) ==
    /\ Works(s, "claim", "execute")
    /\ UNCHANGED <<tried, sent>>
    /\ Row(s).status \in {"QUEUED", "FAILED"}
    /\ execs'[tasks[s].exec].status = "IN_PROGRESS"
    /\ execs'[tasks[s].exec].startedAt = now
    /\ execs'[tasks[s].exec].attempt = Row(s).attempt

Delivers(s) ==
    /\ UNCHANGED execs
    /\ tried'[tasks[s].exec] = tried[tasks[s].exec] + 1
    /\ \/ Works(s, "execute", "complete") /\ sent'[tasks[s].exec] = sent[tasks[s].exec] + 1
       \/ Works(s, "execute", "fail") /\ UNCHANGED sent

Fails(s) ==
    /\ Works(s, "fail", "exit")
    /\ UNCHANGED <<tried, sent>>
    /\ execs'[tasks[s].exec].attempt = tasks[s].attempt + 1
    /\ execs'[tasks[s].exec].status = Outcome(tasks[s].attempt + 1)

Completes(s) ==
    /\ Works(s, "complete", "exit")
    /\ UNCHANGED <<tried, sent>>
    /\ execs'[tasks[s].exec].status = "COMPLETED"
    /\ execs'[tasks[s].exec].attempt = Row(s).attempt

WorkEffect(s) ==
    \/ Loads(s) \/ Prepares(s) \/ GivesUp(s) \/ Claims(s)
    \/ Delivers(s) \/ Fails(s) \/ Completes(s)

Effect ==
    \/ Quiet
    \/ Resets
    \/ \E s \in Slots, e \in ExecIds : Queues(s, e)
    \/ \E f \in Slots, e \in ExecIds : Dispatches(f, e)
    \/ \E s \in Slots, f \in Slots, e \in ExecIds : Hands(s, f, e)
    \/ \E s \in Slots : WorkEffect(s)
----------------------------------------------------------------------------
LEMMA QuietTasks ==
    ASSUME UNCHANGED <<execs, history, tasks>>
    PROVE  Effect
BY DEF Effect, Quiet, Lets, history

(* A statement that fails and the end of the process write no row.         *)
LEMMA LossQuiet ==
    ASSUME TypeOK, LoopFault \/ Restart \/ \E s \in Slots : TaskFault(s)
    PROVE  Quiet
<1>1. faults \in Nat /\ crashes \in Nat
  BY DEF TypeOK, EnvOK
<1>2. CASE LoopFault
  BY <1>2 DEF LoopFault, Quiet, Lets, history
<1>3. CASE Restart
  <2>1. \A s \in Slots : Lets(s)
    BY <1>1, <1>3 DEF Restart, Lets, NoTask, OwnPc, RetryPc
  <2> QED BY <1>3, <2>1 DEF Restart, Quiet, history
<1>4. ASSUME NEW s \in Slots, TaskFault(s)
      PROVE  Quiet
  <2>1. faults' > faults
    BY <1>1, <1>4 DEF TaskFault
  <2>2. tasks[s] \in Task /\ tasks \in [Slots -> Task]
    BY DEF TypeOK, TasksOK
  <2>3. "exit" \notin OwnPc /\ "mark" \notin OwnPc /\ "queue" \notin OwnPc
    BY DEF OwnPc, RetryPc
  <2>4. ASSUME Goto(s, "exit") PROVE \A t \in Slots : Lets(t)
    BY <2>1, <2>2, <2>3, <2>4 DEF Goto, Lets, Task
  <2>5. ASSUME NEW a, tasks' = [tasks EXCEPT ![s] = Queueing(tasks[s], tasks[s].todo \ {a})]
        PROVE  \A t \in Slots : Lets(t)
    <3>1. Queueing(tasks[s], tasks[s].todo \ {a}).pc \in {"mark", "queue"}
      BY <2>2 DEF Queueing, Task
    <3> QED BY <2>1, <2>2, <2>3, <2>5, <3>1 DEF Lets
  <2>6. \A t \in Slots : Lets(t)
    BY <1>4, <2>4, <2>5 DEF TaskFault
  <2> QED BY <1>4, <2>6 DEF TaskFault, Quiet, history
<1> QED BY <1>2, <1>3, <1>4

(* The effects of the loop.                                                *)
LEMMA LoopEffect ==
    ASSUME TypeOK, LoopProgress \/ LoopFault
    PROVE  Effect
<1>1. CASE ResetStale
  <2>1. Resets
    BY <1>1 DEF ResetStale, Resets, env, history, TypeOK, ExecsOK, ExecRow
  <2> QED BY <2>1 DEF Effect
<1>2. CASE SpawnProcessWill
  <2>1. \A s \in Slots : Lets(s)
    BY <1>2 DEF SpawnProcessWill, StartOrSkip, Free, Lets, DeliveryPc, OwnPc, RetryPc, NoTask, TypeOK,
                TasksOK
  <2> QED BY <1>2, <2>1 DEF SpawnProcessWill, Effect, Quiet, history
<1>3. ASSUME NEW e \in ExecIds, DispatchRetry(e)
      PROVE  Effect
  <2>1. CASE UNCHANGED tasks
    BY <1>3, <2>1, QuietTasks DEF DispatchRetry
  <2>2. ASSUME NEW f \in Slots, Free(f),
               tasks' = [tasks EXCEPT ![f] = [NoTask EXCEPT !.pc = "load", !.exec = e]]
        PROVE  Effect
    <3>1. Dispatches(f, e)
      BY <1>3, <2>2 DEF DispatchRetry, Free, Dispatches, Takes, NoTask, TypeOK, TasksOK, env, history
    <3> QED BY <3>1 DEF Effect
  <2> QED BY <1>3, <2>1, <2>2 DEF DispatchRetry, StartOrSkip
<1>4. ASSUME BeginTick \/ ScanOverdue \/ QueryRetries \/ LoopFault
      PROVE  Effect
  BY <1>4, QuietTasks DEF BeginTick, ScanOverdue, QueryRetries, LoopFault
<1>5. ASSUME NEW w \in Wills, TriggerWill(w)
      PROVE  Effect
  BY <1>5 DEF TriggerWill, Effect, Quiet, Lets
<1> QED BY <1>1, <1>2, <1>3, <1>4, <1>5 DEF LoopProgress

LEMMA WorksBy ==
    ASSUME TypeOK, NEW s \in Slots, NEW from \in RetryPc, NEW to, tasks[s].pc = from,
           tasks'[s].pc = to, tasks'[s].exec = tasks[s].exec, now' = now,
           from # "load" => tasks'[s].attempt = tasks[s].attempt,
           \A t \in Slots \ {s} : tasks'[t] = tasks[t],
           \A e \in ExecIds \ {tasks[s].exec} :
             execs'[e] = execs[e] /\ tried'[e] = tried[e] /\ sent'[e] = sent[e]
    PROVE  Works(s, from, to)
BY OperandsType DEF Works, TypeOK, Recorded

LEMMA FailedRow ==
    ASSUME TypeOK, NEW e \in ExecIds, NEW attempt \in Nat, NEW t, FailExecution(e, attempt, t)
    PROVE  /\ execs'[e].attempt = attempt /\ execs'[e].status = Outcome(attempt)
           /\ \A f \in ExecIds \ {e} : execs'[f] = execs[f]
BY DEF FailExecution, Outcome, TypeOK, ExecsOK, ExecRow

LEMMA LetsGoto ==
    ASSUME TypeOK, NEW s \in Slots, NEW pc, pc \notin OwnPc, tasks[s].pc \notin DeliveryPc, Goto(s, pc)
    PROVE  \A t \in Slots : Lets(t)
BY DEF Goto, Lets, TypeOK, TasksOK, Task

(* The effects of a goroutine.                                             *)
LEMMA TaskEffect ==
    ASSUME TypeOK, NEW s \in Slots, TaskProgress(s) \/ TaskFault(s)
    PROVE  Effect
<1>1. /\ tasks[s] \in Task /\ tasks[s].attempt \in Nat
      /\ tasks[s].pc \in OwnPc => tasks[s].exec \in ExecIds /\ Recorded(tasks[s].exec)
      /\ tasks \in [Slots -> Task]
  BY OperandsType DEF TypeOK, TasksOK, OwnPc, Recorded
<1>2. "exit" \notin OwnPc /\ "mark" \notin OwnPc /\ "queue" \notin OwnPc /\ "free" \notin OwnPc
  BY DEF OwnPc, RetryPc
<1>3. CASE ListActions(s)
  <2>1. tasks'[s].pc \in {"mark", "queue"} /\ \A t \in Slots \ {s} : tasks'[t] = tasks[t]
    BY <1>1, <1>3 DEF ListActions, Task
  <2>2. \A t \in Slots : Lets(t)
    BY <1>2, <1>3, <2>1 DEF ListActions, At, Lets, DeliveryPc
  <2> QED BY <1>3, <2>2 DEF ListActions, Effect, Quiet, history
<1>4. CASE QueueAction(s)
  <2>1. PICK a \in Actions, e \in ExecIds :
          /\ CreateExecution(e, a)
          /\ tasks' = [tasks EXCEPT ![s].exec = e, ![s].pc = "start", ![s].todo = @ \ {a}]
    BY <1>4 DEF QueueAction
  <2>2. Queues(s, e)
    BY <1>1, <1>4, <2>1 DEF QueueAction, At, CreateExecution, NoExec, Queues, TypeOK, ExecsOK,
                            ExecRow, env, history, Task
  <2> QED BY <2>2 DEF Effect
<1>5. CASE StartAction(s)
  <2> DEFINE queueing == Queueing(tasks[s], tasks[s].todo)
             load == [NoTask EXCEPT !.pc = "load", !.exec = tasks[s].exec]
  <2>1. queueing.pc \in {"mark", "queue"}
    BY <1>1 DEF Queueing, Task
  <2>2. load.pc = "load" /\ load.exec = tasks[s].exec
    BY DEF NoTask
  <2>3. tasks[s].pc = "start" /\ UNCHANGED <<execs, tried, sent, now>>
    BY <1>5 DEF StartAction, history, env
  <2> HIDE DEF queueing, load
  <2>4. CASE tasks' = [tasks EXCEPT ![s] = queueing]
    <3>1. \A t \in Slots : Lets(t)
      BY <1>1, <1>2, <2>1, <2>3, <2>4 DEF Lets, DeliveryPc
    <3> QED BY <2>3, <3>1 DEF Effect, Quiet
  <2>5. ASSUME NEW f \in Slots, Free(f), tasks' = [[tasks EXCEPT ![s] = queueing] EXCEPT ![f] = load]
        PROVE  Effect
    <3>1. f # s /\ tasks[f].pc = "free"
      BY <2>3, <2>5 DEF Free
    <3>2. tasks'[f] = load /\ tasks'[s] = queueing /\ \A t \in Slots \ {s, f} : tasks'[t] = tasks[t]
      BY <1>1, <2>5, <3>1
    <3>3. Hands(s, f, tasks[s].exec)
      BY <1>2, <2>1, <2>2, <2>3, <3>1, <3>2 DEF Hands, Takes
    <3> QED BY <1>1, <2>3, <3>3 DEF Effect, OwnPc
  <2> QED BY <1>5, <2>4, <2>5 DEF StartAction, queueing, load
<1>6. CASE MarkTriggered(s)
  BY <1>2, <1>6, LetsGoto DEF MarkTriggered, At, Effect, Quiet, DeliveryPc, history
<1>7. CASE LoadExecution(s)
  <2>1. /\ tasks'[s].pc = "prepare" /\ tasks'[s].exec = tasks[s].exec
        /\ tasks'[s].attempt = Row(s).attempt
        /\ \A t \in Slots \ {s} : tasks'[t] = tasks[t]
    BY <1>1, <1>7 DEF LoadExecution, Task, Row
  <2>2. Works(s, "load", "prepare")
    BY <1>7, <2>1, WorksBy DEF LoadExecution, At, RetryPc, env, history
  <2> QED BY <1>7, <2>1, <2>2 DEF LoadExecution, Loads, history, Effect, WorkEffect
<1>a. ASSUME NEW from \in RetryPc, NEW to, tasks[s].pc = from, Goto(s, to), now' = now,
             \A e \in ExecIds \ {tasks[s].exec} :
               execs'[e] = execs[e] /\ tried'[e] = tried[e] /\ sent'[e] = sent[e]
      PROVE  Works(s, from, to)
  <2>1. /\ tasks'[s].pc = to /\ tasks'[s].exec = tasks[s].exec
        /\ tasks'[s].attempt = tasks[s].attempt
        /\ \A t \in Slots \ {s} : tasks'[t] = tasks[t]
    BY <1>1, <1>a DEF Goto, Task
  <2> QED BY <1>a, <2>1, WorksBy
<1>8. CASE PrepareDelivery(s)
  <2> DEFINE e == tasks[s].exec
  <2>1. e \in ExecIds /\ tasks[s].pc = "prepare"
    BY <1>1, <1>8 DEF PrepareDelivery, At, OwnPc, RetryPc
  <2>2. CASE engine = "open" /\ HasContent(e)
    <3>1. Works(s, "prepare", "claim")
      BY <1>8, <1>a, <2>1, <2>2 DEF PrepareDelivery, HasContent, RetryPc, env, history
    <3> QED BY <1>8, <2>2, <3>1 DEF PrepareDelivery, HasContent, Prepares, history, Effect, WorkEffect
  <2>3. CASE engine = "open" /\ ~HasContent(e)
    <3>1. FailExecution(e, tasks[s].attempt, now)
      BY <1>8, <2>3 DEF PrepareDelivery, HasContent
    <3>2. /\ execs'[e].attempt = tasks[s].attempt
          /\ execs'[e].status = Outcome(tasks[s].attempt)
          /\ \A f \in ExecIds \ {e} : execs'[f] = execs[f]
      BY <1>1, <2>1, <3>1, FailedRow
    <3>3. Works(s, "prepare", "exit")
      BY <1>8, <1>a, <2>1, <2>3, <3>2 DEF PrepareDelivery, HasContent, RetryPc, env, history
    <3>4. GivesUp(s)
      BY <1>8, <2>3, <3>2, <3>3 DEF PrepareDelivery, GivesUp, history
    <3> QED BY <3>4 DEF Effect, WorkEffect
  <2>4. CASE engine # "open"
    BY <1>2, <1>8, <2>1, <2>4, LetsGoto DEF PrepareDelivery, Effect, Quiet, DeliveryPc, history
  <2> QED BY <2>2, <2>3, <2>4
<1>9. CASE ClaimExecution(s)
  <2> DEFINE e == tasks[s].exec
  <2>1. e \in ExecIds /\ tasks[s].pc = "claim"
    BY <1>1, <1>9 DEF ClaimExecution, ClaimFrom, At, OwnPc, RetryPc
  <2>2. CASE execs[e].status \in {"QUEUED", "FAILED"}
    <3>1. /\ execs' = [execs EXCEPT ![e].status = "IN_PROGRESS", ![e].startedAt = now]
          /\ Goto(s, "execute") /\ UNCHANGED <<now, history>>
      BY <1>9, <2>2 DEF ClaimExecution, ClaimFrom, env
    <3>2. /\ execs'[e].status = "IN_PROGRESS" /\ execs'[e].startedAt = now
          /\ execs'[e].attempt = execs[e].attempt
          /\ \A f \in ExecIds \ {e} : execs'[f] = execs[f]
      BY <2>1, <3>1 DEF TypeOK, ExecsOK, ExecRow
    <3>3. Works(s, "claim", "execute")
      BY <1>a, <2>1, <3>1, <3>2 DEF RetryPc, history
    <3>4. Claims(s)
      BY <2>2, <3>1, <3>2, <3>3 DEF Claims, Row, history
    <3> QED BY <3>4 DEF Effect, WorkEffect
  <2>3. CASE execs[e].status \notin {"QUEUED", "FAILED"}
    BY <1>2, <1>9, <2>1, <2>3, LetsGoto DEF ClaimExecution, ClaimFrom, Effect, Quiet, DeliveryPc, history
  <2> QED BY <2>2, <2>3
<1>10. CASE Execute(s)
  <2> DEFINE e == tasks[s].exec
  <2>1. e \in ExecIds /\ tasks[s].pc = "execute"
    BY <1>1, <1>10 DEF Execute, OwnPc, RetryPc
  <2>2. /\ tried'[e] = tried[e] + 1
        /\ \A f \in ExecIds \ {e} : execs'[f] = execs[f] /\ tried'[f] = tried[f]
        /\ UNCHANGED <<execs, now>>
    BY <1>10, <2>1 DEF Execute, TypeOK, HistoryOK, env
  <2>3. CASE Goto(s, "complete") /\ sent' = [sent EXCEPT ![e] = @ + 1]
    <3>1. sent'[e] = sent[e] + 1 /\ \A f \in ExecIds \ {e} : sent'[f] = sent[f]
      BY <2>1, <2>3 DEF TypeOK, HistoryOK
    <3>2. Works(s, "execute", "complete")
      BY <1>a, <2>1, <2>2, <2>3, <3>1 DEF RetryPc
    <3> QED BY <2>2, <3>1, <3>2 DEF Delivers, Effect, WorkEffect
  <2>4. CASE Goto(s, "fail") /\ UNCHANGED sent
    <3>1. Works(s, "execute", "fail")
      BY <1>a, <2>1, <2>2, <2>4 DEF RetryPc
    <3> QED BY <2>2, <2>4, <3>1 DEF Delivers, Effect, WorkEffect
  <2> QED BY <1>10, <2>3, <2>4 DEF Execute
<1>11. CASE RecordFailure(s)
  <2> DEFINE e == tasks[s].exec
  <2>1. e \in ExecIds /\ tasks[s].pc = "fail"
    BY <1>1, <1>11 DEF RecordFailure, At, OwnPc, RetryPc
  <2>2. FailExecution(e, tasks[s].attempt + 1, now) /\ tasks[s].attempt + 1 \in Nat
    BY <1>1, <1>11 DEF RecordFailure
  <2>3. /\ execs'[e].attempt = tasks[s].attempt + 1
        /\ execs'[e].status = Outcome(tasks[s].attempt + 1)
        /\ \A f \in ExecIds \ {e} : execs'[f] = execs[f]
    BY <2>1, <2>2, FailedRow
  <2>4. Works(s, "fail", "exit")
    BY <1>11, <1>a, <2>1, <2>3 DEF RecordFailure, RetryPc, env, history
  <2> QED BY <1>11, <2>3, <2>4 DEF RecordFailure, Fails, history, Effect, WorkEffect
<1>12. CASE RecordSuccess(s)
  <2> DEFINE e == tasks[s].exec
  <2>1. e \in ExecIds /\ tasks[s].pc = "complete"
    BY <1>1, <1>12 DEF RecordSuccess, At, OwnPc, RetryPc
  <2>2. /\ execs'[e].status = "COMPLETED" /\ execs'[e].attempt = execs[e].attempt
        /\ \A f \in ExecIds \ {e} : execs'[f] = execs[f]
    BY <1>12, <2>1 DEF RecordSuccess, MarkCompleted, TypeOK, ExecsOK, ExecRow
  <2>3. Works(s, "complete", "exit")
    BY <1>12, <1>a, <2>1, <2>2 DEF RecordSuccess, RetryPc, env, history
  <2> QED BY <1>12, <2>2, <2>3 DEF RecordSuccess, Completes, Row, history, Effect, WorkEffect
<1>13. CASE Release(s)
  <2>1. \A t \in Slots : Lets(t)
    BY <1>1, <1>2, <1>13 DEF Release, NoTask, Lets, DeliveryPc
  <2> QED BY <1>13, <2>1 DEF Release, Effect, Quiet, history
<1>14. CASE TaskFault(s)
  BY <1>14, LossQuiet DEF Effect
<1> QED BY <1>3, <1>4, <1>5, <1>6, <1>7, <1>8, <1>9, <1>10, <1>11, <1>12, <1>13, <1>14
        DEF TaskProgress

LEMMA NextEffect ==
    ASSUME TypeOK, [Next]_vars
    PROVE  Effect
<1>1. CASE SchedulerStep
  BY <1>1, LoopEffect, TaskEffect DEF SchedulerStep
<1>2. CASE OwnerStep \/ ClockTick \/ UNCHANGED vars
  <2>1. UNCHANGED <<execs, history, tasks>>
    BY <1>2 DEF OwnerStep, HandleUnlock, CliCreateWill, HandleCreateWill, HandleActivateWill,
                HandlePauseWill, HandleCheckinWill, HandleArchiveWill, HandleAddAction, ClockTick,
                schedVars, vars
  <2> QED BY <2>1, QuietTasks
<1>3. CASE Restart
  BY <1>3, LossQuiet DEF Effect
<1> QED BY <1>1, <1>2, <1>3 DEF Next
----------------------------------------------------------------------------
(* What every step leaves: the rows and their actions, the content of a    *)
(* will, and the counters.                                                 *)
LEMMA NextRows ==
    ASSUME TypeOK, [Next]_vars
    PROVE  RowsKept /\ (NoNewRows \/ \E s \in Slots : QueueAction(s))
<1>1. ASSUME UNCHANGED execs PROVE NoNewRows
  BY <1>1, SameRows
<1>2. ASSUME NEW s \in Slots, TaskProgress(s) \/ TaskFault(s), ~QueueAction(s)
      PROVE  NoNewRows
  <2>1. /\ tasks[s].attempt \in Nat
        /\ tasks[s].pc \in RetryPc => tasks[s].exec \in ExecIds /\ Recorded(tasks[s].exec)
    BY OperandsType DEF TypeOK, Recorded
  <2>2. CASE PrepareDelivery(s) \/ RecordFailure(s)
    BY <1>1, <2>1, <2>2, FailNoNewRows DEF PrepareDelivery, RecordFailure, At, RetryPc
  <2>3. CASE ClaimExecution(s)
    BY <2>1, <2>3 DEF ClaimExecution, ClaimFrom, At, RetryPc, NoNewRows, RowsKept, Recorded,
                      TypeOK, ExecsOK, ExecRow
  <2>4. CASE RecordSuccess(s)
    BY <2>1, <2>4 DEF RecordSuccess, MarkCompleted, At, RetryPc, NoNewRows, RowsKept, Recorded,
                      TypeOK, ExecsOK, ExecRow
  <2>5. CASE TaskFault(s)
    BY <1>1, <2>5 DEF TaskFault
  <2> QED BY <1>1, <1>2, <2>2, <2>3, <2>4, <2>5
          DEF TaskProgress, ListActions, StartAction, MarkTriggered, LoadExecution, Execute, Release
<1>3. ASSUME NEW s \in Slots, QueueAction(s)
      PROVE  RowsKept
  BY <1>3 DEF QueueAction, CreateExecution, RowsKept, TypeOK, ExecsOK
<1>4. CASE LoopProgress \/ LoopFault
  <2>1. CASE ResetStale
    BY <2>1, ResetOK DEF TypeOK, ResetStale, Stale, NoNewRows, Recorded
  <2> QED BY <1>1, <1>4, <2>1 DEF LoopProgress, BeginTick, ScanOverdue, SpawnProcessWill,
             QueryRetries, TriggerWill, DispatchRetry, LoopFault, NoNewRows
<1>5. CASE OwnerStep \/ ClockTick \/ Restart \/ UNCHANGED vars
  BY <1>1, <1>5 DEF OwnerStep, HandleUnlock, CliCreateWill, HandleCreateWill, HandleActivateWill,
                HandlePauseWill, HandleCheckinWill, HandleArchiveWill, HandleAddAction, ClockTick,
                Restart, vars, NoNewRows
<1> QED BY <1>2, <1>3, <1>4, <1>5 DEF Next, SchedulerStep, NoNewRows

ContentKept ==
    \A w \in Wills : Exists(w) => wills'[w].content = wills[w].content

LEMMA NextContent ==
    ASSUME TypeOK, [Next]_vars
    PROVE  ContentKept
<1>1. ASSUME UNCHANGED wills PROVE ContentKept
  BY <1>1 DEF ContentKept
<1>2. ASSUME NEW w \in Wills,
             \/ \E status : UpdateStatus(w, status) \/ TransitionToPending(w, now)
             \/ HandleActivateWill(w) \/ Transition(w, "ACTIVE", "PAUSED") \/ CheckIn(w, now)
             \/ \E interval, content : CreateWill(w, interval, content)
      PROVE  ContentKept
  <2> USE DEF ContentKept, TypeOK, WillsOK, WillRow
  <2>1. ASSUME NEW status, UpdateStatus(w, status) PROVE ContentKept
    BY <2>1 DEF UpdateStatus
  <2>2. ASSUME TransitionToPending(w, now) PROVE ContentKept
    BY <2>2 DEF TransitionToPending
  <2>3. ASSUME HandleActivateWill(w) PROVE ContentKept
    BY <2>3 DEF HandleActivateWill
  <2>4. ASSUME Transition(w, "ACTIVE", "PAUSED") PROVE ContentKept
    BY <2>4 DEF Transition
  <2>5. ASSUME CheckIn(w, now) PROVE ContentKept
    BY <2>5 DEF CheckIn
  <2>6. ASSUME NEW interval, NEW content, CreateWill(w, interval, content) PROVE ContentKept
    BY <2>6 DEF CreateWill, Exists
  <2> QED BY <1>2, <2>1, <2>2, <2>3, <2>4, <2>5, <2>6
<1>3. CASE SchedulerStep
  <2>1. ASSUME NEW s \in Slots, MarkTriggered(s) PROVE ContentKept
    <3>1. tasks[s].will \in Wills
      BY <2>1, OperandsType DEF MarkTriggered, At, TriggerPc, TypeOK
    <3> QED BY <1>2, <2>1, <3>1 DEF MarkTriggered
  <2>2. ASSUME NEW w \in Wills, TriggerWill(w) PROVE ContentKept
    BY <1>2, <2>2 DEF TriggerWill
  <2>3. ASSUME NEW s \in Slots, TaskProgress(s) \/ TaskFault(s) PROVE ContentKept
    BY <1>1, <2>1, <2>3 DEF TaskProgress, TaskFault, ListActions, QueueAction, StartAction,
         LoadExecution, PrepareDelivery, ClaimExecution, ClaimFrom, Execute, RecordFailure,
         RecordSuccess, Release
  <2>4. ASSUME LoopProgress \/ LoopFault PROVE ContentKept
    BY <1>1, <2>2, <2>4 DEF LoopProgress, LoopFault, BeginTick, ResetStale, ScanOverdue,
         SpawnProcessWill, QueryRetries, DispatchRetry
  <2> QED BY <1>3, <2>3, <2>4 DEF SchedulerStep
<1>4. CASE OwnerStep
  <2>1. ASSUME NEW w \in Wills,
               \/ CliCreateWill(w) \/ HandleCreateWill(w) \/ HandleActivateWill(w)
               \/ HandlePauseWill(w) \/ HandleCheckinWill(w) \/ HandleArchiveWill(w)
        PROVE  ContentKept
    BY <1>1, <1>2, <2>1 DEF CliCreateWill, HandleCreateWill, HandlePauseWill, HandleCheckinWill,
         HandleArchiveWill, Archive
  <2> QED BY <1>1, <1>4, <2>1 DEF OwnerStep, HandleUnlock, HandleAddAction
<1> QED BY <1>1, <1>3, <1>4 DEF Next, ClockTick, Restart, vars

(* The will of a recorded execution has fired, so it exists, and its       *)
(* content is what it was.                                                 *)
LEMMA SameContent ==
    ASSUME TypeOK, FiredOnce, [Next]_vars, NEW e \in ExecIds, Recorded(e)
    PROVE  Recorded(e)' /\ WillOf(e)' = WillOf(e) /\ HasContent(e)' = HasContent(e)
<1>1. Recorded(e)' /\ execs'[e].action = execs[e].action
  BY NextRows DEF RowsKept, Recorded
<1>2. WillOf(e) \in Wills /\ Exists(WillOf(e))
  BY DEF FiredOnce, OnlyForFired, RowsTellFired, Recorded, WillOf, Exists, TypeOK, HistoryOK
<1>3. wills'[WillOf(e)].content = wills[WillOf(e)].content
  BY <1>2, NextContent DEF ContentKept
<1> QED BY <1>1, <1>3 DEF HasContent, WillOf

(* Only a statement that fails or the end of the process counts.           *)
LEMMA CountersMove ==
    ASSUME TypeOK, [Next]_vars
    PROVE  \/ UNCHANGED <<faults, crashes>>
           \/ /\ \/ faults' = faults + 1 /\ crashes' = crashes
                 \/ crashes' = crashes + 1 /\ faults' = faults
              /\ Quiet
<1>1. ASSUME NEW s \in Slots, TaskProgress(s) PROVE UNCHANGED <<faults, crashes>>
  BY <1>1 DEF TaskProgress, ListActions, QueueAction, StartAction, MarkTriggered,
       LoadExecution, PrepareDelivery, ClaimExecution, ClaimFrom, Execute, RecordFailure,
       RecordSuccess, Release, env
<1>2. ASSUME LoopProgress PROVE UNCHANGED <<faults, crashes>>
  BY <1>2 DEF LoopProgress, BeginTick, ResetStale, ScanOverdue, TriggerWill,
       SpawnProcessWill, QueryRetries, DispatchRetry, env
<1>3. ASSUME OwnerStep PROVE UNCHANGED <<faults, crashes>>
  BY <1>3 DEF OwnerStep, HandleUnlock, CliCreateWill, HandleCreateWill, HandleActivateWill,
              HandlePauseWill, HandleCheckinWill, HandleArchiveWill, HandleAddAction, env, schedVars
<1> QED BY <1>1, <1>2, <1>3, LossQuiet
        DEF Next, SchedulerStep, LoopFault, TaskFault, ClockTick, Restart,
           env, schedVars, vars

LEMMA NextCounters ==
    ASSUME TypeOK, [Next]_vars
    PROVE  faults' \in Nat /\ crashes' \in Nat /\ faults' >= faults /\ crashes' >= crashes
BY CountersMove DEF TypeOK, EnvOK

(* What processRetries has still to visit was FAILED when it was listed.   *)
LEMMA NextBatch ==
    ASSUME TypeOK, [Next]_vars, NEW e \in loop'.batch
    PROVE  e \in loop.batch \/ (e \in ExecIds /\ execs'[e].status = "FAILED")
<1>1. loop \in Loop
  BY DEF TypeOK, LoopOK
<1>2. ASSUME LoopProgress \/ LoopFault
      PROVE  e \in loop.batch \/ (e \in ExecIds /\ execs'[e].status = "FAILED")
  <2>1. ASSUME QueryRetries PROVE e \in ExecIds /\ execs'[e].status = "FAILED"
    BY <1>1, <2>1 DEF QueryRetries, RetryDue, Loop
  <2>2. ASSUME NEW ws, Visit(ws) PROVE loop'.batch = loop.batch
    BY <1>1, <2>2 DEF Visit, Loop
  <2>3. ASSUME BeginTick \/ ResetStale \/ ScanOverdue \/ SpawnProcessWill \/ LoopFault
        PROVE  loop'.batch = loop.batch
    BY <1>1, <2>2, <2>3 DEF BeginTick, ResetStale, ScanOverdue, SpawnProcessWill, LoopFault, Loop
  <2>4. ASSUME NEW w \in Wills, TriggerWill(w) PROVE loop'.batch = loop.batch
    BY <1>1, <2>2, <2>4 DEF TriggerWill, Loop
  <2>5. ASSUME NEW f \in ExecIds, DispatchRetry(f) PROVE loop'.batch \subseteq loop.batch
    BY <1>1, <2>5 DEF DispatchRetry, Loop
  <2> QED BY <1>2, <2>1, <2>3, <2>4, <2>5 DEF LoopProgress
<1>3. ASSUME NEW s \in Slots, TaskProgress(s) \/ TaskFault(s)
      PROVE  e \in loop.batch
  BY <1>3 DEF TaskProgress, TaskFault, ListActions, QueueAction, StartAction, MarkTriggered,
       LoadExecution, PrepareDelivery, ClaimExecution, ClaimFrom, Execute, RecordFailure,
       RecordSuccess, Release
<1>4. ASSUME OwnerStep \/ ClockTick \/ UNCHANGED vars
      PROVE  e \in loop.batch
  BY <1>4 DEF OwnerStep, HandleUnlock, CliCreateWill, HandleCreateWill, HandleActivateWill,
              HandlePauseWill, HandleCheckinWill, HandleArchiveWill, HandleAddAction, ClockTick,
              schedVars, vars
<1>5. ~Restart
  BY DEF Restart, LoopAtBoot
<1> QED BY <1>2, <1>3, <1>4, <1>5 DEF Next, SchedulerStep
----------------------------------------------------------------------------
(* Who works on a QUEUED execution.                                        *)
LEMMA NextOwners ==
    ASSUME TypeOK, QueuedHasOneOwner, [Next]_vars
    PROVE  /\ QueuedHasOneOwner'
           /\ \A e \in ExecIds :
                execs[e].status = "QUEUED" /\ (\A s \in Slots : ~Owns(s, e)) =>
                    execs'[e] = execs[e] /\ \A s \in Slots : ~Owns(s, e)'
<1> USE DEF Owns, OwnPc
<1> DEFINE Kept(x) ==
        /\ execs'[x].status = "QUEUED" =>
             /\ execs[x].status \in {"QUEUED", "ABSENT"}
             /\ \A s, t \in Slots : Owns(s, x)' /\ Owns(t, x)' => s = t
        /\ execs[x].status = "QUEUED" /\ (\A s \in Slots : ~Owns(s, x)) =>
             execs'[x] = execs[x] /\ \A s \in Slots : ~Owns(s, x)'
<1>1. \A s \in Slots, e \in ExecIds : Owns(s, e) => Recorded(e)
  BY DEF TypeOK, TasksOK, Recorded
<1>2. \A e \in loop'.batch : e \in loop.batch \/ execs'[e].status = "FAILED"
  BY NextBatch
<1>3. \A e \in loop.batch : e \in ExecIds /\ execs[e].status \notin {"ABSENT", "QUEUED"}
  BY DEF TypeOK, LoopOK, Loop, QueuedHasOneOwner
<1>4. SUFFICES ASSUME NEW x \in ExecIds
               PROVE  Kept(x)
  BY <1>2, <1>3, <1>4 DEF QueuedHasOneOwner
<1>5. execs[x].status = "QUEUED" => \A s, t \in Slots : Owns(s, x) /\ Owns(t, x) => s = t
  BY DEF QueuedHasOneOwner
<1>6. CASE Quiet
  BY <1>5, <1>6 DEF Quiet, Lets
<1>7. CASE Resets
  BY <1>5, <1>7 DEF Resets, Stale
<1>8. ASSUME NEW s \in Slots, NEW e \in ExecIds, Queues(s, e)
      PROVE  Kept(x)
  <2>1. CASE x = e
    <3>1. \A t \in Slots : ~Owns(t, e)
      BY <1>1, <1>8 DEF Queues, Recorded
    <3> QED BY <1>8, <2>1, <3>1 DEF Queues
  <2>2. CASE x # e
    <3>1. \A t \in Slots : Owns(t, x)' => Owns(t, x)
      BY <1>8, <2>2 DEF Queues
    <3> QED BY <1>5, <1>8, <2>2, <3>1 DEF Queues
  <2> QED BY <2>1, <2>2
<1>9. ASSUME NEW f \in Slots, NEW e \in ExecIds, Dispatches(f, e)
      PROVE  Kept(x)
  <2>1. UNCHANGED execs
    BY <1>9 DEF Dispatches, Takes
  <2>2. CASE execs[x].status = "QUEUED"
    <3>1. x # e
      BY <1>3, <1>9, <2>2 DEF Dispatches
    <3>2. \A t \in Slots : Owns(t, x)' => Owns(t, x)
      BY <1>9, <3>1 DEF Dispatches, Takes
    <3> QED BY <1>5, <2>1, <3>2
  <2> QED BY <2>1, <2>2
<1>10. ASSUME NEW s \in Slots, NEW f \in Slots, NEW e \in ExecIds, Hands(s, f, e)
       PROVE  Kept(x)
  <2>1. UNCHANGED execs /\ Owns(s, e)
    BY <1>10 DEF Hands, Takes
  <2>2. CASE x = e
    <3>1. \A t \in Slots : Owns(t, e)' => t = f \/ (t # s /\ Owns(t, e))
      BY <1>10 DEF Hands, Takes
    <3> QED BY <1>5, <2>1, <2>2, <3>1
  <2>3. CASE x # e
    <3>1. \A t \in Slots : Owns(t, x)' => Owns(t, x)
      BY <1>10, <2>3 DEF Hands, Takes
    <3> QED BY <1>5, <2>1, <3>1
  <2> QED BY <2>2, <2>3
<1>11. ASSUME NEW s \in Slots, WorkEffect(s)
       PROVE  Kept(x)
  <2>1. PICK from, to : from \in RetryPc /\ Works(s, from, to)
    BY <1>11 DEF WorkEffect, Loads, Prepares, GivesUp, Claims, Delivers, Fails, Completes, RetryPc
  <2>2. Owns(s, tasks[s].exec)
    BY <2>1 DEF Works
  <2>3. \A t \in Slots : Owns(t, x)' => Owns(t, x)
    BY <2>1, <2>2 DEF Works
  <2>4. x # tasks[s].exec => execs'[x] = execs[x]
    BY <2>1 DEF Works
  <2>5. execs'[tasks[s].exec].status = "QUEUED" => UNCHANGED execs
    BY <1>11 DEF WorkEffect, Loads, Prepares, GivesUp, Claims, Delivers, Fails, Completes, Outcome
  <2> QED BY <1>5, <2>2, <2>3, <2>4, <2>5
<1> QED BY <1>6, <1>7, <1>8, <1>9, <1>10, <1>11, NextEffect DEF Effect

LEMMA OwnersHold == Spec => [](TypeOK /\ QueuedHasOneOwner)
<1>1. Init => QueuedHasOneOwner
  BY DEF Init, ActionInit, NoExec, QueuedHasOneOwner
<1>2. TypeOK /\ QueuedHasOneOwner /\ [Next]_vars => QueuedHasOneOwner'
  BY NextOwners
<1> QED BY <1>1, <1>2, InitType, NextType, PTL DEF Spec

(* A new execution has one goroutine until it is claimed (processWill,     *)
(* processRetries).                                                        *)
THEOREM QueuedHasOneOwnerAlways == Spec => []QueuedHasOneOwner
BY OwnersHold, PTL

(* A QUEUED execution without a goroutine stays as it is (processWill,     *)
(* processRetries).                                                        *)
THEOREM TurnedAwayForEver == Spec => TurnedAwayIsLeft
<1>1. TypeOK /\ QueuedHasOneOwner /\ [Next]_vars =>
        \A e \in ExecIds :
           execs[e].status = "QUEUED" /\ (\A s \in Slots : ~Owns(s, e)) =>
               execs'[e] = execs[e] /\ \A s \in Slots : ~Owns(s, e)'
  BY NextOwners
<1> QED BY <1>1, OwnersHold, PTL DEF Spec, TurnedAwayIsLeft
----------------------------------------------------------------------------
(* What the row of an execution tells of its deliveries, and the place of  *)
(* a goroutine of the one it works on.                                     *)
RowTruth(e) ==
    /\ execs[e].status = "ABSENT" => tried[e] = 0 /\ sent[e] = 0
    /\ Recorded(e) /\ ~HasContent(e) =>
         /\ tried[e] = 0 /\ sent[e] = 0 /\ execs[e].attempt = 1
         /\ execs[e].status \notin {"IN_PROGRESS", "COMPLETED"}
    /\ execs[e].status = "COMPLETED" => sent[e] > 0
    /\ execs[e].status = "EXHAUSTED" => execs[e].attempt >= MaxRetries
    /\ execs[e].attempt <= tried[e] + 1

TaskTruth(s) ==
    /\ tasks[s].pc \in {"claim"} \cup DeliveryPc => HasContent(tasks[s].exec)
    /\ tasks[s].pc = "prepare" /\ ~HasContent(tasks[s].exec) => tasks[s].attempt = 1
    /\ tasks[s].pc = "complete" => sent[tasks[s].exec] > 0
    /\ tasks[s].pc \in {"prepare", "claim", "execute"} =>
         tasks[s].attempt <= tried[tasks[s].exec] + 1
    /\ tasks[s].pc = "fail" => tasks[s].attempt <= tried[tasks[s].exec]

Truth == (\A e \in ExecIds : RowTruth(e)) /\ (\A s \in Slots : TaskTruth(s))

LEMMA KeptRow ==
    ASSUME TypeOK, FiredOnce, [Next]_vars, NEW e \in ExecIds, RowTruth(e),
           execs'[e] = execs[e], tried'[e] = tried[e], sent'[e] = sent[e]
    PROVE  RowTruth(e)'
BY SameContent DEF RowTruth, Recorded

LEMMA KeptTask ==
    ASSUME TypeOK, FiredOnce, [Next]_vars, NEW s \in Slots, TaskTruth(s), tasks'[s] = tasks[s],
           \A e \in ExecIds : sent'[e] >= sent[e] /\ tried'[e] >= tried[e]
    PROVE  TaskTruth(s)'
<1>1. CASE tasks[s].pc \in RetryPc
  <2>1. tasks[s].exec \in ExecIds /\ Recorded(tasks[s].exec)
    BY <1>1, OperandsType DEF TypeOK, Recorded
  <2>2. HasContent(tasks[s].exec)' = HasContent(tasks[s].exec)
    <3>1. PICK e \in ExecIds : e = tasks[s].exec /\ tasks'[s].exec = e
      BY <2>1
    <3>2. HasContent(e)' = HasContent(e)
      BY <2>1, <3>1, SameContent
    <3> QED BY <3>1, <3>2 DEF HasContent, WillOf
  <2>3. /\ sent[tasks[s].exec] \in Nat /\ sent'[tasks[s].exec] \in Nat
        /\ tried[tasks[s].exec] \in Nat /\ tried'[tasks[s].exec] \in Nat
        /\ tasks[s].attempt \in Nat
        /\ sent'[tasks[s].exec] >= sent[tasks[s].exec]
        /\ tried'[tasks[s].exec] >= tried[tasks[s].exec]
    BY <2>1, NextType, OperandsType DEF TypeOK, HistoryOK
  <2> QED BY <2>2, <2>3 DEF TaskTruth
<1>2. CASE tasks[s].pc \notin RetryPc
  BY <1>2 DEF TaskTruth, RetryPc, DeliveryPc
<1> QED BY <1>1, <1>2

LEMMA NoTruthNeeded ==
    ASSUME NEW s \in Slots, tasks'[s].pc \notin RetryPc \/ tasks'[s].pc = "load"
    PROVE  TaskTruth(s)'
BY DEF TaskTruth, RetryPc, DeliveryPc

LEMMA NextTruth ==
    ASSUME TypeOK, FiredOnce, Truth, [Next]_vars
    PROVE  Truth'
<1>1. /\ \A e \in ExecIds : tried[e] \in Nat /\ sent[e] \in Nat /\ RowTruth(e)
      /\ \A s \in Slots : TaskTruth(s)
  BY DEF TypeOK, HistoryOK, Truth
<1>2. CASE Quiet
  <2>1. \A e \in ExecIds : RowTruth(e)'
    BY <1>1, <1>2, KeptRow DEF Quiet
  <2>2. ASSUME NEW s \in Slots PROVE TaskTruth(s)'
    BY <1>1, <1>2, KeptTask, NoTruthNeeded DEF Quiet, Lets, OwnPc
  <2> QED BY <2>1, <2>2 DEF Truth
<1>3. CASE Resets
  <2>1. ASSUME NEW e \in ExecIds PROVE RowTruth(e)'
    <3>1. CASE execs'[e] = execs[e]
      BY <1>1, <1>3, <3>1, KeptRow DEF Resets
    <3>2. CASE execs'[e] # execs[e]
      <4>1. /\ execs[e].status = "IN_PROGRESS" /\ execs'[e].status = "FAILED"
            /\ Recorded(e)
        BY <1>3, <3>2 DEF Resets, Stale, Recorded
      <4>2. HasContent(e)' /\ Recorded(e)'
        BY <1>1, <4>1, SameContent DEF RowTruth
      <4>3. execs'[e].attempt <= tried'[e] + 1
        BY <1>1, <1>3, <3>2 DEF Resets, RowTruth
      <4> QED BY <4>1, <4>2, <4>3 DEF RowTruth
    <3> QED BY <3>1, <3>2
  <2>2. \A s \in Slots : TaskTruth(s)'
    BY <1>1, <1>3, KeptTask DEF Resets
  <2> QED BY <2>1, <2>2 DEF Truth
<1>4. ASSUME NEW s \in Slots, NEW e \in ExecIds, Queues(s, e)
      PROVE  Truth'
  <2>1. ASSUME NEW f \in ExecIds PROVE RowTruth(f)'
    <3>1. CASE f = e
      BY <1>1, <1>4, <3>1 DEF Queues, RowTruth
    <3>2. CASE f # e
      BY <1>1, <1>4, <3>2, KeptRow DEF Queues
    <3> QED BY <3>1, <3>2
  <2>2. ASSUME NEW t \in Slots PROVE TaskTruth(t)'
    BY <1>1, <1>4, KeptTask, NoTruthNeeded DEF Queues, RetryPc
  <2> QED BY <2>1, <2>2 DEF Truth
<1>5. ASSUME NEW f \in Slots, NEW e \in ExecIds, Dispatches(f, e)
      PROVE  Truth'
  BY <1>1, <1>5, KeptRow, KeptTask, NoTruthNeeded DEF Dispatches, Takes, Truth
<1>6. ASSUME NEW s \in Slots, NEW f \in Slots, NEW e \in ExecIds, Hands(s, f, e)
      PROVE  Truth'
  BY <1>1, <1>6, KeptRow, KeptTask, NoTruthNeeded DEF Hands, Takes, OwnPc, Truth
<1>7. ASSUME NEW s \in Slots, WorkEffect(s)
      PROVE  Truth'
  <2> DEFINE e == tasks[s].exec
  <2>1. PICK from, to : Works(s, from, to)
    BY <1>7 DEF WorkEffect, Loads, Prepares, GivesUp, Claims, Delivers, Fails, Completes
  <2>2. e \in ExecIds /\ Recorded(e) /\ tasks'[s].exec = e
    BY <2>1 DEF Works
  <2>3. Recorded(e)' /\ HasContent(e)' = HasContent(e)
    <3>1. PICK x \in ExecIds : x = e
      BY <2>2
    <3>2. Recorded(x)' /\ HasContent(x)' = HasContent(x)
      BY <2>2, <3>1, SameContent
    <3> QED BY <2>2, <3>1, <3>2 DEF Recorded, HasContent, WillOf
  <2>4. /\ tried'[e] >= tried[e] /\ sent'[e] >= sent[e]
        /\ tried'[e] \in Nat /\ sent'[e] \in Nat
    BY <1>1, <1>7, <2>2 DEF WorkEffect, Loads, Prepares, GivesUp, Claims, Delivers, Fails, Completes
  <2>5. \A f \in ExecIds \ {e} : RowTruth(f)'
    BY <1>1, <2>1, KeptRow DEF Works
  <2>6. \A f \in ExecIds : sent'[f] >= sent[f] /\ tried'[f] >= tried[f]
    <3>1. \A f \in ExecIds \ {e} : sent'[f] = sent[f] /\ tried'[f] = tried[f]
      BY <2>1 DEF Works
    <3> QED BY <1>1, <2>4, <3>1
  <2>7. \A t \in Slots \ {s} : TaskTruth(t)'
    BY <1>1, <2>1, <2>6, KeptTask DEF Works
  <2>8. SUFFICES RowTruth(e)' /\ TaskTruth(s)'
    <3>1. ASSUME RowTruth(e)' /\ TaskTruth(s)'
          PROVE  Truth'
      <4>1. ASSUME NEW f \in ExecIds PROVE RowTruth(f)'
        <5>1. CASE f = e
          BY <2>2, <3>1, <5>1 DEF RowTruth, Recorded, HasContent, WillOf
        <5> QED BY <2>5, <5>1
      <4> QED BY <2>7, <3>1, <4>1 DEF Truth
    <3> QED BY <2>8, <3>1
  <2>9. /\ RowTruth(e) /\ TaskTruth(s)
        /\ tried[e] \in Nat /\ sent[e] \in Nat
        /\ sent'[e] >= sent[e] /\ tried'[e] >= tried[e]
        /\ execs[e].attempt \in Nat /\ tasks[s].attempt \in Nat
    BY <1>1, <2>2, <2>6, OperandsType DEF TypeOK, ExecsOK, ExecRow
  <2>10. CASE Loads(s)
    <3>1. RowTruth(e)'
      BY <2>2, <2>3, <2>9, <2>10 DEF Loads, RowTruth, Recorded
    <3>2. TaskTruth(s)'
      BY <2>2, <2>3, <2>9, <2>10 DEF Loads, Works, Row, RowTruth, TaskTruth, DeliveryPc
    <3> QED BY <3>1, <3>2
  <2>11. CASE Prepares(s)
    <3>1. RowTruth(e)'
      BY <2>2, <2>3, <2>9, <2>11 DEF Prepares, RowTruth, Recorded
    <3>2. TaskTruth(s)'
      BY <2>2, <2>3, <2>9, <2>11 DEF Prepares, Works, TaskTruth, DeliveryPc
    <3> QED BY <3>1, <3>2
  <2>12. CASE GivesUp(s)
    <3>1. ~HasContent(e) /\ tasks[s].attempt = 1
      BY <2>9, <2>12 DEF GivesUp, Works, TaskTruth
    <3>2. RowTruth(e)'
      BY <2>2, <2>3, <2>9, <2>12, <3>1 DEF GivesUp, Outcome, RowTruth, Recorded
    <3>3. TaskTruth(s)'
      BY <2>12 DEF GivesUp, Works, TaskTruth, DeliveryPc
    <3> QED BY <3>2, <3>3
  <2>13. CASE Claims(s)
    <3>1. HasContent(e)
      BY <2>9, <2>13 DEF Claims, Works, TaskTruth
    <3>2. RowTruth(e)'
      BY <2>2, <2>3, <2>9, <2>13, <3>1 DEF Claims, Row, RowTruth
    <3>3. TaskTruth(s)'
      BY <2>2, <2>3, <2>9, <2>13, <3>1 DEF Claims, Works, TaskTruth, DeliveryPc
    <3> QED BY <3>2, <3>3
  <2>14. CASE Delivers(s)
    <3>1. HasContent(e) /\ tried'[e] > 0
      BY <2>9, <2>14 DEF Delivers, Works, TaskTruth, DeliveryPc
    <3>2. RowTruth(e)'
      BY <2>2, <2>3, <2>9, <2>14, <3>1 DEF Delivers, RowTruth, Recorded
    <3>3. TaskTruth(s)'
      BY <2>2, <2>3, <2>9, <2>14, <3>1 DEF Delivers, Works, TaskTruth, DeliveryPc
    <3> QED BY <3>2, <3>3
  <2>15. CASE Fails(s)
    <3>1. HasContent(e) /\ tasks[s].attempt <= tried[e]
      BY <2>9, <2>15 DEF Fails, Works, TaskTruth, DeliveryPc
    <3>2. RowTruth(e)'
      BY <2>2, <2>3, <2>9, <2>15, <3>1 DEF Fails, Outcome, RowTruth
    <3>3. TaskTruth(s)'
      BY <2>15 DEF Fails, Works, TaskTruth, DeliveryPc
    <3> QED BY <3>2, <3>3
  <2>16. CASE Completes(s)
    <3>1. HasContent(e) /\ sent[e] > 0
      BY <2>9, <2>16 DEF Completes, Works, TaskTruth, DeliveryPc
    <3>2. RowTruth(e)'
      BY <2>2, <2>3, <2>9, <2>16, <3>1 DEF Completes, Row, RowTruth
    <3>3. TaskTruth(s)'
      BY <2>16 DEF Completes, Works, TaskTruth, DeliveryPc
    <3> QED BY <3>2, <3>3
  <2> QED BY <1>7, <2>10, <2>11, <2>12, <2>13, <2>14, <2>15, <2>16 DEF WorkEffect
<1> QED BY <1>2, <1>3, <1>4, <1>5, <1>6, <1>7, NextEffect DEF Effect

LEMMA InitTruth == Init => Truth
BY DEF Init, ActionInit, NoExec, SchedulerInit, NoTask, DeliveryPc,
       Truth, RowTruth, TaskTruth, Recorded

LEMMA TruthHolds == Spec => [](TypeOK /\ FiredOnce /\ Truth)
BY InitType, NextType, InitFired, NextFired, InitTruth, NextTruth, PTL DEF Spec

(* COMPLETED tells of a delivery without an error, EXHAUSTED of as many    *)
(* deliveries as a will allows but one (MarkCompleted, FailExecution).     *)
THEOREM OutcomeAlwaysTrue == Spec => []OutcomeIsTrue
<1>1. TypeOK /\ Truth => OutcomeIsTrue
  <2> SUFFICES ASSUME TypeOK, Truth, NEW e \in ExecIds
               PROVE  /\ execs[e].status = "COMPLETED" => sent[e] > 0
                      /\ execs[e].status = "EXHAUSTED" =>
                           execs[e].attempt >= MaxRetries /\ tried[e] + 1 >= MaxRetries
    BY DEF OutcomeIsTrue
  <2>1. RowTruth(e)
    BY DEF Truth
  <2>2. MaxRetries \in Nat /\ execs[e].attempt \in Nat /\ tried[e] \in Nat
    BY ActionAssumption DEF TypeOK, ExecsOK, ExecRow, HistoryOK
  <2> QED BY <2>1, <2>2 DEF RowTruth
<1> QED BY <1>1, TruthHolds, PTL

(* The switch from end to end: whatever was delivered, or tried, belongs   *)
(* to a will that has content, has fired, and was last checked in at least *)
(* one interval ago (tick, processWill, retryAction against CheckIn).      *)
THEOREM AlwaysInSilence == Spec => []DeliveredInSilence
<1>1. ASSUME TypeOK, FiredOnce, Truth, NoEarlyTrigger, NEW e \in ExecIds, tried[e] > 0
      PROVE  LET w == wills[WillOf(e)]
             IN  /\ Recorded(e) /\ WillOf(e) \in fired /\ w.content
                 /\ w.lastCheckIn # NULL => w.lastCheckIn + w.interval <= now
  <2>1. RowTruth(e) /\ tried[e] # 0
    BY <1>1 DEF Truth
  <2>2. Recorded(e) /\ HasContent(e)
    BY <2>1 DEF RowTruth, Recorded
  <2>3. WillOf(e) \in fired /\ WillOf(e) \in Wills
    BY <1>1, <2>2 DEF FiredOnce, OnlyForFired, TypeOK, HistoryOK
  <2> QED BY <1>1, <2>2, <2>3 DEF NoEarlyTrigger, HasContent
<1>2. TypeOK /\ FiredOnce /\ Truth /\ NoEarlyTrigger => DeliveredInSilence
  BY <1>1 DEF DeliveredInSilence, Recorded
<1> QED BY <1>2, TruthHolds, NeverEarly, PTL
----------------------------------------------------------------------------
(* The key is read before the claim; it is the key of the delivery because *)
(* an open engine stays open for as long as the goroutine can run.         *)
KeyPc == {"claim"} \cup DeliveryPc

HasKey == \A s \in Slots : tasks[s].pc \in KeyPc => engine = "open"

LEMMA NextKey ==
    ASSUME TypeOK, HasKey, [Next]_vars
    PROVE  HasKey'
<1> SUFFICES ASSUME NEW s \in Slots, tasks'[s].pc \in KeyPc
             PROVE  engine' = "open"
  BY DEF HasKey
<1>1. ~Restart
  BY DEF Restart, NoTask, KeyPc, DeliveryPc
<1>2. engine = "open" => engine' = "open"
  BY <1>1 DEF Next, SchedulerStep, TaskProgress, TaskFault, ListActions, QueueAction, StartAction,
       MarkTriggered, LoadExecution, PrepareDelivery, ClaimExecution, ClaimFrom, Execute,
       RecordFailure, RecordSuccess, Release, LoopProgress, LoopFault, BeginTick, ResetStale,
       ScanOverdue, TriggerWill, SpawnProcessWill, QueryRetries, DispatchRetry, ClockTick,
       OwnerStep, HandleUnlock, CliCreateWill, HandleCreateWill, HandleActivateWill,
       HandlePauseWill, HandleCheckinWill, HandleArchiveWill, HandleAddAction, env, vars
<1>3. tasks[s].pc \in KeyPc \/ Prepares(s)
  <2>1. CASE Quiet \/ Resets \/ (\E t \in Slots, e \in ExecIds : Queues(t, e) \/ Dispatches(t, e))
             \/ (\E t, f \in Slots, e \in ExecIds : Hands(t, f, e))
    BY <2>1 DEF Quiet, Lets, Resets, Queues, Dispatches, Hands, Takes, OwnPc, RetryPc, KeyPc, DeliveryPc
  <2>2. ASSUME NEW t \in Slots, WorkEffect(t) PROVE tasks[s].pc \in KeyPc \/ Prepares(s)
    BY <2>2 DEF WorkEffect, Loads, Prepares, GivesUp, Claims, Delivers, Fails, Completes, Works,
         KeyPc, DeliveryPc
  <2> QED BY <2>1, <2>2, NextEffect DEF Effect
<1> QED BY <1>2, <1>3 DEF HasKey, Prepares

(* Nothing is claimed or delivered while the engine is locked or holds a   *)
(* key that does not open the wills (retryAction).                         *)
THEOREM DeliveredWithKey == Spec => []HasKey
<1>1. Init => HasKey
  BY DEF Init, SchedulerInit, NoTask, HasKey, KeyPc, DeliveryPc
<1> QED BY <1>1, InitType, NextType, NextKey, PTL DEF Spec
----------------------------------------------------------------------------
(* processRetries keeps its rows open, and the one connection with them:   *)
(* nobody writes to an execution before the last is handed out.            *)
StillDue == \A e \in loop.batch : e \in ExecIds /\ loop.pc = "dispatch" /\ RetryDue(e, now)

LEMMA NextStillDue ==
    ASSUME TypeOK, StillDue, [Next]_vars
    PROVE  StillDue'
<1>1. loop \in Loop /\ now \in Nat
  BY DEF TypeOK, LoopOK, EnvOK
<1>2. ASSUME UNCHANGED execs, now' \in Nat, now <= now',
             loop'.batch # {} => loop'.pc = loop.pc /\ loop'.batch \subseteq loop.batch
      PROVE  StillDue'
  <2> SUFFICES ASSUME NEW e \in loop'.batch
               PROVE  e \in ExecIds /\ loop'.pc = "dispatch" /\ RetryDue(e, now)'
    BY DEF StillDue
  <2>1. e \in ExecIds /\ loop.pc = "dispatch" /\ RetryDue(e, now) /\ loop'.pc = loop.pc
    BY <1>2 DEF StillDue
  <2>2. execs[e].nextRetryAt \in Nat
    BY <2>1 DEF RetryDue, TypeOK, ExecsOK, ExecRow
  <2> QED BY <1>1, <1>2, <2>1, <2>2 DEF RetryDue
<1>3. CASE LoopProgress \/ LoopFault
  <2>1. CASE QueryRetries
    BY <1>1, <2>1 DEF QueryRetries, StillDue, Loop, RetryDue, env
  <2>2. ASSUME NEW e \in ExecIds, DispatchRetry(e) PROVE StillDue'
    <3>1. /\ loop.pc = "dispatch" /\ loop'.batch = loop.batch \ {e}
          /\ loop'.batch # {} => loop'.pc = "dispatch"
      BY <1>1, <2>2 DEF DispatchRetry, Loop
    <3>2. UNCHANGED <<execs, now>>
      BY <2>2 DEF DispatchRetry, env
    <3> QED BY <1>1, <1>2, <3>1, <3>2
  <2>3. ASSUME NEW ws, Visit(ws) PROVE loop'.batch = loop.batch
    BY <1>1, <2>3 DEF Visit, Loop
  <2>4. CASE \/ BeginTick \/ ResetStale \/ ScanOverdue \/ SpawnProcessWill \/ LoopFault
             \/ \E w \in Wills : TriggerWill(w)
    <3>1. loop.pc # "dispatch" /\ loop'.batch = loop.batch
      BY <1>1, <2>3, <2>4 DEF BeginTick, ResetStale, ScanOverdue, SpawnProcessWill, LoopFault,
                              TriggerWill, Loop
    <3>2. loop'.batch = {}
      BY <3>1 DEF StillDue
    <3> QED BY <3>2 DEF StillDue
  <2> QED BY <1>3, <2>1, <2>2, <2>4 DEF LoopProgress
<1>4. ASSUME NEW s \in Slots, TaskProgress(s) \/ TaskFault(s) PROVE StillDue'
  <2>1. UNCHANGED <<loop, now>>
    BY <1>4 DEF TaskProgress, TaskFault, ListActions, QueueAction, StartAction, MarkTriggered,
         LoadExecution, PrepareDelivery, ClaimExecution, ClaimFrom, Execute, RecordFailure,
         RecordSuccess, Release, env
  <2>2. UNCHANGED execs \/ loop.pc # "dispatch"
    BY <1>4 DEF TaskProgress, TaskFault, ListActions, QueueAction, StartAction, MarkTriggered,
         LoadExecution, PrepareDelivery, ClaimExecution, ClaimFrom, Execute, RecordFailure,
         RecordSuccess, Release, At, ConnFree
  <2>3. loop.pc # "dispatch" => loop'.batch = {}
    BY <2>1 DEF StillDue
  <2> QED BY <1>1, <1>2, <2>1, <2>2, <2>3 DEF StillDue
<1>5. CASE OwnerStep
  <2>1. UNCHANGED <<execs, loop, now>>
    BY <1>5 DEF OwnerStep, HandleUnlock, CliCreateWill, HandleCreateWill, HandleActivateWill,
         HandlePauseWill, HandleCheckinWill, HandleArchiveWill, HandleAddAction, schedVars, env
  <2> QED BY <1>1, <1>2, <2>1
<1>6. CASE ClockTick \/ UNCHANGED vars
  <2>1. UNCHANGED <<execs, loop>> /\ now' \in Nat /\ now <= now'
    BY <1>1, <1>6 DEF ClockTick, schedVars, vars, env
  <2> QED BY <1>2, <2>1
<1>7. CASE Restart
  BY <1>7 DEF Restart, LoopAtBoot, StillDue
<1> QED BY <1>3, <1>4, <1>5, <1>6, <1>7 DEF Next, SchedulerStep

(* What processRetries hands out is never stale: from the query to the     *)
(* start of the last goroutine each row stays FAILED and due (rows open in *)
(* processRetries, SetMaxOpenConns).                                       *)
THEOREM RetriesAreStillDue == Spec => []StillDue
<1>1. Init => StillDue
  BY DEF Init, SchedulerInit, LoopAtBoot, StillDue
<1> QED BY <1>1, InitType, NextType, NextStillDue, PTL DEF Spec
----------------------------------------------------------------------------
(* The list of actions processWill works through.                          *)
ListPc == {"queue", "start"}

ListInv ==
    \A s \in Slots :
        /\ tasks[s].todo # {} => tasks[s].pc \in ListPc
        /\ tasks[s].todo \subseteq actions

(* A goroutine keeps its list, or loses it to a restart, or one action of  *)
(* it to a failing statement.                                              *)
KeepsList(s) ==
    /\ tasks'[s].pc \in ListPc => tasks[s].pc \in ListPc /\ tasks'[s].will = tasks[s].will
    /\ tasks'[s].pc \notin ListPc => tasks'[s].todo = {}
    /\ \/ tasks'[s].todo = tasks[s].todo
       \/ tasks'[s].todo = {} /\ crashes' > crashes
       \/ /\ \E a \in tasks[s].todo : tasks'[s].todo = tasks[s].todo \ {a}
          /\ faults' > faults

LEMMA KeepsGoto ==
    ASSUME TypeOK, ListInv, NEW s \in Slots, NEW pc, Goto(s, pc),
           tasks[s].pc \notin ListPc, pc \notin ListPc
    PROVE  \A t \in Slots : KeepsList(t)
BY DEF Goto, KeepsList, ListInv, TypeOK, TasksOK, Task

LEMMA KeepsStart ==
    ASSUME TypeOK, ListInv, NEW task \in Task, task.pc \notin ListPc, task.todo = {},
           StartOrSkip(task)
    PROVE  \A t \in Slots : KeepsList(t)
BY DEF StartOrSkip, Free, KeepsList, ListInv, ListPc, TypeOK, TasksOK

LEMMA KeepsSame ==
    ASSUME ListInv, UNCHANGED tasks
    PROVE  \A t \in Slots : KeepsList(t)
BY DEF KeepsList, ListInv

LEMMA NextList ==
    ASSUME TypeOK, ListInv, [Next]_vars
    PROVE  \/ \A t \in Slots : KeepsList(t)
           \/ \E s \in Slots : ListActions(s) \/ QueueAction(s)
<1>1. ASSUME NEW s \in Slots, TaskProgress(s) \/ TaskFault(s), ~ListActions(s), ~QueueAction(s)
      PROVE  \A t \in Slots : KeepsList(t)
  <2>1. /\ tasks \in [Slots -> Task] /\ tasks[s] \in Task
        /\ tasks[s].pc \notin ListPc => tasks[s].todo = {}
        /\ "exit" \notin ListPc
    BY DEF TypeOK, TasksOK, ListInv, ListPc
  <2>2. CASE StartAction(s)
    <3> DEFINE queueing == Queueing(tasks[s], tasks[s].todo)
               load == [NoTask EXCEPT !.pc = "load", !.exec = tasks[s].exec]
    <3>1. /\ queueing.will = tasks[s].will /\ queueing.todo = tasks[s].todo
          /\ queueing.pc = IF tasks[s].todo = {} THEN "mark" ELSE "queue"
      BY <2>1 DEF Queueing, Task
    <3>2. load.pc = "load" /\ load.todo = {}
      BY DEF NoTask
    <3>3. tasks[s].pc = "start"
      BY <2>2 DEF StartAction
    <3> HIDE DEF queueing, load
    <3>4. CASE tasks' = [tasks EXCEPT ![s] = queueing]
      BY <2>1, <3>1, <3>3, <3>4 DEF KeepsList, ListPc, ListInv
    <3>5. ASSUME NEW f \in Slots, Free(f), tasks' = [[tasks EXCEPT ![s] = queueing] EXCEPT ![f] = load]
          PROVE  \A t \in Slots : KeepsList(t)
      <4>1. f # s /\ tasks[f].todo = {}
        BY <3>3, <3>5 DEF Free, ListInv, ListPc
      <4>2. tasks'[f] = load /\ tasks'[s] = queueing /\ \A t \in Slots \ {s, f} : tasks'[t] = tasks[t]
        BY <2>1, <3>5, <4>1
      <4> QED BY <3>1, <3>2, <3>3, <4>1, <4>2 DEF KeepsList, ListPc, ListInv
    <3> QED BY <2>2, <3>4, <3>5 DEF StartAction, queueing, load
  <2>3. CASE \/ MarkTriggered(s) \/ PrepareDelivery(s) \/ ClaimExecution(s) \/ Execute(s)
             \/ RecordFailure(s) \/ RecordSuccess(s)
    BY <2>3, KeepsGoto DEF MarkTriggered, PrepareDelivery, ClaimExecution, ClaimFrom, Execute,
       RecordFailure, RecordSuccess, At, ListPc
  <2>4. CASE LoadExecution(s)
    BY <2>1, <2>4 DEF LoadExecution, At, KeepsList, ListPc, ListInv, Task
  <2>5. CASE Release(s)
    BY <2>1, <2>5 DEF Release, NoTask, KeepsList, ListPc, ListInv
  <2>6. CASE TaskFault(s)
    <3>1. faults' > faults
      BY <2>6 DEF TaskFault, TypeOK, EnvOK
    <3>2. ASSUME NEW a \in tasks[s].todo, tasks[s].pc = "queue",
                 tasks' = [tasks EXCEPT ![s] = Queueing(tasks[s], tasks[s].todo \ {a})]
          PROVE  \A t \in Slots : KeepsList(t)
      <4> DEFINE queueing == Queueing(tasks[s], tasks[s].todo \ {a})
      <4>1. /\ queueing.will = tasks[s].will /\ queueing.todo = tasks[s].todo \ {a}
            /\ queueing.pc = IF tasks[s].todo \ {a} = {} THEN "mark" ELSE "queue"
        BY <2>1 DEF Queueing, Task
      <4> HIDE DEF queueing
      <4>2. tasks' = [tasks EXCEPT ![s] = queueing]
        BY <3>2 DEF queueing
      <4> QED BY <2>1, <3>1, <3>2, <4>1, <4>2 DEF KeepsList, ListPc, ListInv
    <3>3. ASSUME Goto(s, "exit"), tasks[s].pc \notin ListPc
          PROVE  \A t \in Slots : KeepsList(t)
      BY <2>1, <3>3, KeepsGoto
    <3> QED BY <2>6, <3>2, <3>3 DEF TaskFault, IsFirst, ListPc
  <2> QED BY <1>1, <2>2, <2>3, <2>4, <2>5, <2>6 DEF TaskProgress
<1>2. CASE LoopProgress \/ LoopFault
  <2>1. CASE SpawnProcessWill
    <3>1. PICK task : task = [NoTask EXCEPT !.pc = "list", !.will = loop.will]
      OBVIOUS
    <3>2. task \in Task /\ task.pc \notin ListPc /\ task.todo = {}
      BY <2>1, <3>1 DEF SpawnProcessWill, TypeOK, LoopOK, NoTask, Task, TaskPc, TriggerPc, ListPc
    <3> QED BY <2>1, <3>1, <3>2, KeepsStart DEF SpawnProcessWill
  <2>2. ASSUME NEW e \in ExecIds, DispatchRetry(e)
        PROVE  \A t \in Slots : KeepsList(t)
    <3>1. PICK task : task = [NoTask EXCEPT !.pc = "load", !.exec = e]
      OBVIOUS
    <3>2. task \in Task /\ task.pc \notin ListPc /\ task.todo = {}
      BY <3>1 DEF NoTask, Task, TaskPc, RetryPc, ListPc
    <3> QED BY <2>2, <3>1, <3>2, KeepsStart DEF DispatchRetry
  <2> QED BY <1>2, <2>1, <2>2, KeepsSame DEF LoopProgress, BeginTick, ResetStale, ScanOverdue,
             QueryRetries, TriggerWill, LoopFault
<1>3. CASE OwnerStep \/ ClockTick \/ UNCHANGED vars
  BY <1>3, KeepsSame DEF OwnerStep, HandleUnlock, CliCreateWill, HandleCreateWill,
     HandleActivateWill, HandlePauseWill, HandleCheckinWill, HandleArchiveWill, HandleAddAction,
     ClockTick, schedVars, vars
<1>4. CASE Restart
  <2>1. crashes' > crashes
    BY <1>4 DEF Restart, TypeOK, EnvOK
  <2> QED BY <1>4, <2>1 DEF Restart, NoTask, KeepsList, ListPc
<1> QED BY <1>1, <1>2, <1>3, <1>4 DEF Next, SchedulerStep

(* An action is never removed.                                             *)
LEMMA NextActions == [Next]_vars => actions \subseteq actions'
<1> SUFFICES ASSUME [Next]_vars PROVE actions \subseteq actions'
  OBVIOUS
<1>1. ASSUME NEW a \in Actions, HandleAddAction(a)
      PROVE  actions \subseteq actions'
  BY <1>1 DEF HandleAddAction, CreateAction
<1>2. ASSUME SchedulerStep \/ ClockTick \/ Restart \/ UNCHANGED vars PROVE UNCHANGED actions
  BY <1>2 DEF SchedulerStep, TaskProgress, TaskFault, ListActions, QueueAction, StartAction,
     MarkTriggered, LoadExecution, PrepareDelivery, ClaimExecution, ClaimFrom, Execute,
     RecordFailure, RecordSuccess, Release, LoopProgress, LoopFault, BeginTick, ResetStale,
     ScanOverdue, TriggerWill, SpawnProcessWill, QueryRetries, DispatchRetry, ClockTick,
     Restart, vars
<1>3. ASSUME OwnerStep, \A a \in Actions : ~HandleAddAction(a) PROVE UNCHANGED actions
  BY <1>3 DEF OwnerStep, HandleUnlock, CliCreateWill, HandleCreateWill, HandleActivateWill,
     HandlePauseWill, HandleCheckinWill, HandleArchiveWill
<1> QED BY <1>1, <1>2, <1>3 DEF Next, OwnerStep

LEMMA ListListed ==
    ASSUME TypeOK, ListInv, NEW s \in Slots, ListActions(s)
    PROVE  ListInv' /\ \A t \in Slots : tasks[t].todo \subseteq tasks'[t].todo
<1> DEFINE todo == ListByWill(tasks[s].will)
<1>1. tasks \in [Slots -> Task] /\ tasks[s] \in Task /\ tasks[s].pc = "list"
  BY DEF TypeOK, TasksOK, ListActions, At
<1>2. tasks[s].todo = {}
  BY <1>1 DEF ListInv, ListPc
<1>3. /\ tasks'[s].todo = todo /\ tasks'[s].pc = IF todo = {} THEN "mark" ELSE "queue"
      /\ \A t \in Slots \ {s} : tasks'[t] = tasks[t]
      /\ UNCHANGED actions
  BY <1>1 DEF ListActions, Task
<1>4. todo \subseteq actions
  BY DEF ListByWill
<1> HIDE DEF todo
<1>5. ListInv'
  BY <1>3, <1>4 DEF ListInv, ListPc
<1> QED BY <1>2, <1>3, <1>5

LEMMA ListQueued ==
    ASSUME TypeOK, ListInv, NEW s \in Slots, QueueAction(s)
    PROVE  /\ ListInv'
           /\ \A t \in Slots : \A b \in tasks[t].todo : b \in tasks'[t].todo \/ RowsOf(b)' # {}
<1>1. tasks \in [Slots -> Task] /\ tasks[s] \in Task
  BY DEF TypeOK, TasksOK
<1>2. PICK a \in Actions, e \in ExecIds :
        /\ IsFirst(a, tasks[s].todo)
        /\ CreateExecution(e, a)
        /\ tasks' = [tasks EXCEPT ![s].exec = e, ![s].pc = "start", ![s].todo = @ \ {a}]
  BY DEF QueueAction
<1>3. /\ tasks'[s].todo = tasks[s].todo \ {a} /\ tasks'[s].pc = "start"
      /\ \A t \in Slots \ {s} : tasks'[t] = tasks[t]
      /\ UNCHANGED actions
  BY <1>1, <1>2 DEF Task, QueueAction
<1>4. execs'[e].status = "QUEUED" /\ execs'[e].action = a
  BY <1>2 DEF CreateExecution, NoExec, TypeOK, ExecsOK
<1>5. RowsOf(a)' # {}
  BY <1>4 DEF RowsOf
<1>6. ListInv'
  BY <1>3 DEF ListInv, ListPc
<1> QED BY <1>3, <1>5, <1>6

(* What a step leaves out of the list of a goroutine.                      *)
Lost(s) == {a \in tasks[s].todo \ tasks'[s].todo : RowsOf(a)' = {}}

LEMMA NextListInv ==
    ASSUME TypeOK, ListInv, [Next]_vars
    PROVE  /\ ListInv'
           /\ \A s \in Slots : \/ Lost(s) = {}
                               \/ crashes' > crashes
                               \/ faults' > faults /\ Cardinality(Lost(s)) = 1
<1>1. CASE \E s \in Slots : ListActions(s) \/ QueueAction(s)
  <2>1. ListInv' /\ \A s \in Slots : Lost(s) = {}
    BY <1>1, ListListed, ListQueued DEF Lost
  <2> QED BY <2>1
<1>2. CASE \A s \in Slots : KeepsList(s)
  <2>1. ListInv'
    BY <1>2, NextActions DEF ListInv, KeepsList
  <2>2. ASSUME NEW s \in Slots
        PROVE  \/ Lost(s) = {}
               \/ crashes' > crashes
               \/ faults' > faults /\ Cardinality(Lost(s)) = 1
    <3>1. KeepsList(s)
      BY <1>2
    <3>2. CASE tasks'[s].todo = tasks[s].todo
      BY <3>2 DEF Lost
    <3>3. ASSUME NEW a \in tasks[s].todo, tasks'[s].todo = tasks[s].todo \ {a}, faults' > faults
          PROVE  Lost(s) = {} \/ Cardinality(Lost(s)) = 1
      <4>1. Lost(s) = {} \/ Lost(s) = {a}
        BY <3>3 DEF Lost
      <4>2. PICK lost : lost = Lost(s)
        OBVIOUS
      <4>3. lost = {a} => Cardinality(lost) = 1
        BY FS_Singleton
      <4> QED BY <3>3, <4>1, <4>2, <4>3
    <3> QED BY <3>1, <3>2, <3>3 DEF KeepsList
  <2> QED BY <2>1, <2>2
<1> QED BY <1>1, <1>2, NextList

LEMMA ListHolds == Spec => [](TypeOK /\ ListInv)
<1>1. Init => ListInv
  BY DEF Init, SchedulerInit, NoTask, ListInv
<1> QED BY <1>1, InitType, NextType, NextListInv, PTL DEF Spec

(* No action that was listed is left out but the one whose statement fails *)
(* and those a restart cuts off (processWill).                             *)
THEOREM ListedAlwaysQueued == Spec => ListedIsQueued
<1>1. TypeOK /\ ListInv /\ [Next]_vars =>
        \A s \in Slots :
           LET lost == {a \in tasks[s].todo \ tasks'[s].todo : RowsOf(a)' = {}}
           IN  \/ lost = {}
               \/ crashes' > crashes
               \/ faults' > faults /\ Cardinality(lost) = 1
  BY NextListInv DEF Lost
<1> QED BY <1>1, ListHolds, PTL DEF Spec, ListedIsQueued
=============================================================================
