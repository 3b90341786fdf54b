---------------------------- MODULE DaemonProofs ----------------------------
(***************************************************************************)
(* Theorems about the daemon for every value of the constants: first that  *)
(* its variables keep their types, then, from an inductive invariant, when *)
(* a will fires and that it is executed once.                              *)
(***************************************************************************)
EXTENDS DaemonInvariants, TLAPS

(* The statements on the wills table keep its type.                        *)
LEMMA CreateWillOK ==
    ASSUME WillsOK, NEW w \in Wills, NEW interval \in Intervals, NEW content \in BOOLEAN,
           CreateWill(w, interval, content)
    PROVE  WillsOK'
BY DEF WillsOK, WillRow, WillStatus, Exists, NoWill, CreateWill

LEMMA UpdateStatusOK ==
    ASSUME WillsOK, NEW w \in Wills, NEW status \in WillStatus, UpdateStatus(w, status)
    PROVE  WillsOK'
BY DEF WillsOK, WillRow, WillStatus, Exists, UpdateStatus

LEMMA TransitionOK ==
    ASSUME WillsOK, NEW w \in Wills, Transition(w, "ACTIVE", "PAUSED")
    PROVE  WillsOK'
BY DEF WillsOK, WillRow, WillStatus, Exists, Transition

LEMMA TransitionToPendingOK ==
    ASSUME WillsOK, NEW w \in Wills, NEW t \in Nat, TransitionToPending(w, t)
    PROVE  WillsOK'
BY DEF WillsOK, WillRow, WillStatus, Exists, TransitionToPending, Due

LEMMA CheckInOK ==
    ASSUME WillsOK, NEW w \in Wills, NEW t \in Nat, CheckIn(w, t)
    PROVE  WillsOK'
<1>1. CASE wills[w].status = "ACTIVE"
  <2>1. wills[w].interval \in Nat
    BY <1>1, WillAssumption DEF WillsOK, Exists
  <2>2. t + wills[w].interval \in Nat
    BY <2>1
  <2> QED BY <1>1, <2>2 DEF WillsOK, WillRow, WillStatus, Exists, CheckIn
<1>2. CASE wills[w].status # "ACTIVE"
  BY <1>2 DEF WillsOK, Exists, CheckIn
<1> QED BY <1>1, <1>2
----------------------------------------------------------------------------
(* A retry delay is a natural number whatever the attempt.                 *)
LEMMA RetryDelayType ==
    ASSUME NEW attempt \in Nat
    PROVE  calculateRetryDelay(attempt) \in Nat
<1>1. CASE attempt < Len(Delays)
  <2>1. attempt + 1 \in 1..Len(Delays)
    BY <1>1, ActionAssumption
  <2> QED BY <1>1, <2>1, ActionAssumption DEF calculateRetryDelay
<1>2. CASE ~(attempt < Len(Delays))
  BY <1>2, ActionAssumption DEF calculateRetryDelay
<1> QED BY <1>1, <1>2

(* What no statement on the executions does: remove a row, or give it to   *)
(* another action.                                                         *)
RowsKept ==
    \A e \in ExecIds : execs[e].status # "ABSENT" =>
        execs'[e].status # "ABSENT" /\ execs'[e].action = execs[e].action

(* The statements on the executions keep their type and their rows.        *)
LEMMA CreateExecutionOK ==
    ASSUME ExecsOK, UNCHANGED actions, NEW e \in ExecIds, NEW a \in Actions,
           CreateExecution(e, a)
    PROVE  ExecsOK' /\ RowsKept
BY DEF ExecsOK, ExecRow, ExecStatus, NoExec, RowsKept, CreateExecution

LEMMA FailExecutionOK ==
    ASSUME ExecsOK, UNCHANGED actions, NEW e \in ExecIds, NEW attempt \in Nat, NEW t \in Nat,
           execs[e].status # "ABSENT", FailExecution(e, attempt, t)
    PROVE  ExecsOK' /\ RowsKept
<1>1. t + calculateRetryDelay(attempt) \in Nat
  BY RetryDelayType
<1> QED BY <1>1 DEF ExecsOK, ExecRow, ExecStatus, RowsKept, FailExecution

LEMMA MarkCompletedOK ==
    ASSUME ExecsOK, UNCHANGED actions, NEW e \in ExecIds,
           execs[e].status # "ABSENT", MarkCompleted(e)
    PROVE  ExecsOK' /\ RowsKept
BY DEF ExecsOK, ExecRow, ExecStatus, RowsKept, MarkCompleted

LEMMA ClaimOK ==
    ASSUME ExecsOK, UNCHANGED actions, NEW e \in ExecIds, now \in Nat,
           execs[e].status # "ABSENT",
           execs' = [execs EXCEPT ![e].status = "IN_PROGRESS", ![e].startedAt = now]
    PROVE  ExecsOK' /\ RowsKept
BY DEF ExecsOK, ExecRow, ExecStatus, RowsKept

LEMMA ResetOK ==
    ASSUME ExecsOK, EnvOK, ResetStale
    PROVE  ExecsOK' /\ RowsKept
BY DEF ExecsOK, ExecRow, ExecStatus, RowsKept, Stale, ResetStale, EnvOK

LEMMA SameExecsOK ==
    ASSUME ExecsOK, UNCHANGED <<actions, execs>>
    PROVE  ExecsOK' /\ RowsKept
BY DEF ExecsOK, RowsKept
----------------------------------------------------------------------------
(* A place of the semaphore that takes a goroutine with its operands.      *)
TaskOperands(task) ==
    /\ task.pc \in TriggerPc => task.will \in Wills
    /\ task.pc \in RetryPc \cup {"start"} =>
         task.exec \in ExecIds /\ execs'[task.exec].status # "ABSENT"

LEMMA SetTaskOK ==
    ASSUME TasksOK, RowsKept, NEW s \in Slots, NEW task \in Task, TaskOperands(task),
           tasks' = [tasks EXCEPT ![s] = task]
    PROVE  TasksOK'
BY DEF TasksOK, RowsKept, TaskOperands

LEMMA SameTasksOK ==
    ASSUME TasksOK, RowsKept, UNCHANGED tasks
    PROVE  TasksOK'
BY DEF TasksOK, RowsKept

LEMMA StartOrSkipOK ==
    ASSUME TasksOK, RowsKept, NEW task \in Task, TaskOperands(task), StartOrSkip(task)
    PROVE  TasksOK'
<1>1. CASE UNCHANGED tasks
  BY <1>1, SameTasksOK
<1>2. CASE \E s \in Slots : tasks' = [tasks EXCEPT ![s] = task]
  BY <1>2, SetTaskOK
<1> QED BY <1>1, <1>2 DEF StartOrSkip

LEMMA SameLoopOK ==
    ASSUME LoopOK, RowsKept, UNCHANGED loop
    PROVE  LoopOK'
BY DEF LoopOK, Loop, RowsKept

LEMMA VisitOK ==
    ASSUME LoopOK, RowsKept, NEW ws \in SUBSET Wills, Visit(ws)
    PROVE  LoopOK'
BY DEF LoopOK, Loop, LoopPc, RowsKept, Visit

(* Steps that write nothing else leave the rest of the types as they were. *)
LEMMA SameWillsOK == ASSUME WillsOK, UNCHANGED wills PROVE WillsOK'
BY DEF WillsOK, Exists
LEMMA SameEnvOK == ASSUME EnvOK, UNCHANGED <<env, faults>> PROVE EnvOK'
BY DEF EnvOK, env
LEMMA SameHistoryOK == ASSUME HistoryOK, UNCHANGED history PROVE HistoryOK'
BY DEF HistoryOK, history
----------------------------------------------------------------------------
(* Each step of the scheduler keeps every type.                            *)
LEMMA LoopStepType ==
    ASSUME TypeOK, LoopProgress \/ LoopFault
    PROVE  TypeOK'
<1> USE DEF TypeOK
<1>1. CASE BeginTick
  <2>1. ExecsOK' /\ RowsKept  BY <1>1, SameExecsOK DEF BeginTick
  <2>2. LoopOK'               BY <1>1, <2>1 DEF BeginTick, LoopOK, Loop, LoopPc, RowsKept
  <2>3. TasksOK'              BY <1>1, <2>1, SameTasksOK DEF BeginTick
  <2> QED BY <1>1, <2>1, <2>2, <2>3, SameWillsOK, SameEnvOK, SameHistoryOK DEF BeginTick
<1>2. CASE ResetStale
  <2>1. ExecsOK' /\ RowsKept  BY <1>2, ResetOK
  <2>2. LoopOK'               BY <1>2, <2>1 DEF ResetStale, LoopOK, Loop, LoopPc, RowsKept
  <2>3. TasksOK'              BY <1>2, <2>1, SameTasksOK DEF ResetStale
  <2> QED BY <1>2, <2>1, <2>2, <2>3, SameWillsOK, SameEnvOK, SameHistoryOK DEF ResetStale
<1>3. CASE ScanOverdue
  <2>1. ExecsOK' /\ RowsKept  BY <1>3, SameExecsOK DEF ScanOverdue
  <2>2. GetOverdue(now) \in SUBSET Wills
    BY DEF GetOverdue
  <2>3. LoopOK'               BY <1>3, <2>1, <2>2, VisitOK DEF ScanOverdue
  <2>4. TasksOK'              BY <1>3, <2>1, SameTasksOK DEF ScanOverdue
  <2> QED BY <1>3, <2>1, <2>3, <2>4, SameWillsOK, SameEnvOK, SameHistoryOK DEF ScanOverdue
<1>4. ASSUME NEW w \in Wills, TriggerWill(w)
      PROVE  TypeOK'
  <2>1. ExecsOK' /\ RowsKept  BY <1>4, SameExecsOK DEF TriggerWill
  <2>2. WillsOK'
    BY <1>4, TransitionToPendingOK DEF TriggerWill, EnvOK
  <2>3. LoopOK' /\ HistoryOK'
    <3>1. CASE Due(w, now)
      <4>1. LoopOK'
        <5>1. loop' = [loop EXCEPT !.pc = "spawn", !.wills = loop.wills \ {w}, !.will = w]
          BY <1>4, <3>1 DEF TriggerWill
        <5> QED BY <2>1, <5>1 DEF LoopOK, Loop, LoopPc, RowsKept
      <4>2. HistoryOK'
        BY <1>4, <3>1 DEF TriggerWill, HistoryOK
      <4> QED BY <4>1, <4>2
    <3>2. CASE ~Due(w, now)
      <4>1. loop.wills \ {w} \in SUBSET Wills
        BY DEF LoopOK, Loop
      <4>2. LoopOK'
        BY <1>4, <2>1, <3>2, <4>1, VisitOK DEF TriggerWill
      <4>3. HistoryOK'
        BY <1>4, <3>2 DEF TriggerWill, HistoryOK
      <4> QED BY <4>2, <4>3
    <3> QED BY <3>1, <3>2
  <2>4. TasksOK'              BY <1>4, <2>1, SameTasksOK DEF TriggerWill
  <2> QED BY <1>4, <2>1, <2>2, <2>3, <2>4, SameEnvOK DEF TriggerWill
<1>5. CASE SpawnProcessWill
  <2>1. ExecsOK' /\ RowsKept  BY <1>5, SameExecsOK DEF SpawnProcessWill
  <2>2. LoopOK'
    <3>1. loop.wills \in SUBSET Wills
      BY DEF LoopOK, Loop
    <3> QED BY <1>5, <2>1, <3>1, VisitOK DEF SpawnProcessWill
  <2>3. TasksOK'
    <3> DEFINE task == [NoTask EXCEPT !.pc = "list", !.will = loop.will]
    <3>1. task \in Task /\ TaskOperands(task)
      BY <1>5 DEF SpawnProcessWill, LoopOK, NoTask, Task, TaskPc, TriggerPc, RetryPc, TaskOperands
    <3>2. StartOrSkip(task)
      BY <1>5 DEF SpawnProcessWill
    <3> HIDE DEF task
    <3> QED BY <2>1, <3>1, <3>2, StartOrSkipOK
  <2> QED BY <1>5, <2>1, <2>2, <2>3, SameWillsOK, SameEnvOK, SameHistoryOK DEF SpawnProcessWill
<1>6. CASE QueryRetries
  <2>1. ExecsOK' /\ RowsKept  BY <1>6, SameExecsOK DEF QueryRetries
  <2>2. PICK batch \in SUBSET {e \in ExecIds : RetryDue(e, now)} :
          loop' = [loop EXCEPT !.batch = batch,
                               !.pc = IF batch = {} THEN "idle" ELSE "dispatch"]
    BY <1>6 DEF QueryRetries
  <2>3. LoopOK'
    BY <1>6, <2>1, <2>2 DEF QueryRetries, LoopOK, Loop, LoopPc, RowsKept, RetryDue
  <2>4. TasksOK'              BY <1>6, <2>1, SameTasksOK DEF QueryRetries
  <2> QED BY <1>6, <2>1, <2>3, <2>4, SameWillsOK, SameEnvOK, SameHistoryOK DEF QueryRetries
<1>7. ASSUME NEW e \in ExecIds, DispatchRetry(e)
      PROVE  TypeOK'
  <2>1. ExecsOK' /\ RowsKept  BY <1>7, SameExecsOK DEF DispatchRetry
  <2>2. LoopOK'
    BY <1>7, <2>1 DEF DispatchRetry, LoopOK, Loop, LoopPc, RowsKept
  <2>3. TasksOK'
    <3> DEFINE task == [NoTask EXCEPT !.pc = "load", !.exec = e]
    <3>1. task \in Task /\ TaskOperands(task)
      BY <1>7, <2>1 DEF DispatchRetry, LoopOK, RowsKept, NoTask, Task, TaskPc, TriggerPc, RetryPc,
                        TaskOperands
    <3>2. StartOrSkip(task)
      BY <1>7 DEF DispatchRetry
    <3> HIDE DEF task
    <3> QED BY <2>1, <3>1, <3>2, StartOrSkipOK
  <2> QED BY <1>7, <2>1, <2>2, <2>3, SameWillsOK, SameEnvOK, SameHistoryOK DEF DispatchRetry
<1>8. CASE LoopFault
  <2>1. ExecsOK' /\ RowsKept  BY <1>8, SameExecsOK DEF LoopFault
  <2>2. LoopOK'
    <3>1. CASE loop.pc = "scan" /\ Visit({})
      BY <2>1, <3>1, VisitOK
    <3>2. CASE loop.pc = "trigger" /\ \E w \in loop.wills : Visit(loop.wills \ {w})
      <4>1. PICK w \in loop.wills : Visit(loop.wills \ {w})
        BY <3>2
      <4>2. loop.wills \ {w} \in SUBSET Wills
        BY DEF LoopOK, Loop
      <4> QED BY <2>1, <4>1, <4>2, VisitOK
    <3>3. CASE \/ loop.pc = "reset" /\ loop' = [loop EXCEPT !.pc = "scan"]
               \/ loop.pc = "query" /\ loop' = [loop EXCEPT !.pc = "idle"]
      BY <2>1, <3>3 DEF LoopOK, Loop, LoopPc, RowsKept
    <3> QED BY <1>8, <3>1, <3>2, <3>3 DEF LoopFault
  <2>3. TasksOK'              BY <1>8, <2>1, SameTasksOK DEF LoopFault
  <2>4. EnvOK'                BY <1>8 DEF LoopFault, EnvOK, env
  <2> QED BY <1>8, <2>1, <2>2, <2>3, <2>4, SameWillsOK, SameHistoryOK DEF LoopFault
<1> QED BY <1>1, <1>2, <1>3, <1>4, <1>5, <1>6, <1>7, <1>8 DEF LoopProgress

LEMMA GotoOK ==
    ASSUME TasksOK, RowsKept, NEW s \in Slots, NEW pc \in TaskPc, Goto(s, pc),
           pc \in TriggerPc => tasks[s].pc \in TriggerPc,
           pc \in RetryPc \cup {"start"} => tasks[s].pc \in RetryPc \cup {"start"}
    PROVE  TasksOK'
BY DEF TasksOK, Task, RowsKept, Goto

(* The statements retryAction makes on the execution it holds.             *)
LEMMA OperandsType ==
    ASSUME TasksOK, NEW s \in Slots
    PROVE  /\ tasks[s].attempt \in Nat
           /\ tasks[s].todo \in SUBSET Actions
           /\ tasks[s].pc \in TriggerPc => tasks[s].will \in Wills
           /\ tasks[s].pc \in RetryPc \cup {"start"} =>
                tasks[s].exec \in ExecIds /\ execs[tasks[s].exec].status # "ABSENT"
BY DEF TasksOK, Task

LEMMA QueueingOK ==
    ASSUME NEW task \in Task, task.will \in Wills, NEW todo \in SUBSET Actions
    PROVE  Queueing(task, todo) \in Task /\ TaskOperands(Queueing(task, todo))
BY DEF Queueing, Task, TaskPc, TriggerPc, RetryPc, TaskOperands

LEMMA LoadTaskOK ==
    ASSUME NEW e \in ExecIds, execs'[e].status # "ABSENT"
    PROVE  /\ [NoTask EXCEPT !.pc = "load", !.exec = e] \in Task
           /\ TaskOperands([NoTask EXCEPT !.pc = "load", !.exec = e])
BY DEF NoTask, Task, TaskPc, TriggerPc, RetryPc, TaskOperands

(* Each step of a goroutine keeps every type.                              *)
LEMMA TaskStepType ==
    ASSUME TypeOK, NEW s \in Slots, TaskProgress(s) \/ TaskFault(s)
    PROVE  TypeOK'
<1> USE DEF TypeOK
<1>1. CASE ListActions(s)
  <2>1. ExecsOK' /\ RowsKept  BY <1>1, SameExecsOK DEF ListActions
  <2>2. LoopOK'               BY <1>1, <2>1, SameLoopOK DEF ListActions
  <2>3. TasksOK'
    <3>1. ListByWill(tasks[s].will) \subseteq Actions
      BY DEF ListByWill, ExecsOK
    <3>2. tasks[s].will \in Wills
      BY <1>1 DEF ListActions, At, TasksOK, TriggerPc
    <3>3. PICK todo \in SUBSET Actions :
            tasks' = [tasks EXCEPT ![s].todo = todo, ![s].pc = IF todo = {} THEN "mark" ELSE "queue"]
      BY <1>1, <3>1 DEF ListActions
    <3>4. PICK pc \in {"mark", "queue"} :
            tasks' = [tasks EXCEPT ![s] = [tasks[s] EXCEPT !.todo = todo, !.pc = pc]]
      BY <3>3 DEF TasksOK
    <3>5. PICK task : task = [tasks[s] EXCEPT !.todo = todo, !.pc = pc]
      OBVIOUS
    <3>6. task \in Task /\ TaskOperands(task)
      BY <3>2, <3>5 DEF TasksOK, Task, TaskPc, TriggerPc, RetryPc, TaskOperands
    <3> QED BY <2>1, <3>4, <3>5, <3>6, SetTaskOK
  <2> QED BY <1>1, <2>1, <2>2, <2>3, SameWillsOK, SameEnvOK, SameHistoryOK DEF ListActions
<1>2. CASE QueueAction(s)
  <2>1. PICK a \in Actions, e \in ExecIds :
          /\ CreateExecution(e, a)
          /\ tasks' = [tasks EXCEPT ![s].exec = e, ![s].pc = "start",
                                    ![s].todo = tasks[s].todo \ {a}]
    BY <1>2 DEF QueueAction
  <2>2. ExecsOK' /\ RowsKept  BY <1>2, <2>1, CreateExecutionOK DEF QueueAction
  <2>3. LoopOK'               BY <1>2, <2>2, SameLoopOK DEF QueueAction
  <2>4. TasksOK'
    <3>1. execs'[e].status # "ABSENT"
      BY <2>1 DEF CreateExecution, NoExec, ExecsOK
    <3>2. tasks[s].will \in Wills
      BY <1>2 DEF QueueAction, At, TasksOK, TriggerPc
    <3>3. PICK task : task = [tasks[s] EXCEPT !.exec = e, !.pc = "start", !.todo = @ \ {a}]
      OBVIOUS
    <3>4. tasks' = [tasks EXCEPT ![s] = task]
      BY <2>1, <3>3 DEF TasksOK
    <3>5. /\ task.pc = "start" /\ task.exec = e /\ task.will = tasks[s].will
          /\ task \in Task
      BY <3>3 DEF TasksOK, Task, TaskPc, TriggerPc, RetryPc
    <3>6. task \in Task /\ TaskOperands(task)
      BY <3>1, <3>2, <3>5 DEF TaskOperands
    <3> QED BY <2>2, <3>4, <3>6, SetTaskOK
  <2> QED BY <1>2, <2>2, <2>3, <2>4, SameWillsOK, SameEnvOK, SameHistoryOK DEF QueueAction
<1>3. CASE StartAction(s)
  <2>1. ExecsOK' /\ RowsKept  BY <1>3, SameExecsOK DEF StartAction
  <2>2. LoopOK'               BY <1>3, <2>1, SameLoopOK DEF StartAction
  <2>3. TasksOK'
    <3>1. PICK queueing : queueing = Queueing(tasks[s], tasks[s].todo)
      OBVIOUS
    <3>2. PICK load : load = [NoTask EXCEPT !.pc = "load", !.exec = tasks[s].exec]
      OBVIOUS
    <3>3. queueing \in Task /\ TaskOperands(queueing)
      <4>1. /\ tasks[s] \in Task
            /\ tasks[s].pc = "start" => tasks[s].will \in Wills
            /\ tasks[s].todo \in SUBSET Actions
        BY OperandsType DEF TriggerPc, TasksOK
      <4> QED BY <1>3, <3>1, <4>1, QueueingOK DEF StartAction
    <3>4. load \in Task /\ TaskOperands(load)
      <4>1. tasks[s].exec \in ExecIds /\ execs'[tasks[s].exec].status # "ABSENT"
        BY <1>3, <2>1, OperandsType DEF StartAction, RowsKept
      <4> QED BY <3>2, <4>1, LoadTaskOK
    <3>5. CASE tasks' = [tasks EXCEPT ![s] = queueing]
      BY <2>1, <3>3, <3>5, SetTaskOK
    <3>6. ASSUME NEW f \in Slots, tasks' = [[tasks EXCEPT ![s] = queueing] EXCEPT ![f] = load]
          PROVE  TasksOK'
      BY <2>1, <3>3, <3>4, <3>6 DEF TasksOK, TaskOperands, RowsKept
    <3> QED BY <1>3, <3>1, <3>2, <3>5, <3>6 DEF StartAction
  <2> QED BY <1>3, <2>1, <2>2, <2>3, SameWillsOK, SameEnvOK, SameHistoryOK DEF StartAction
<1>4. CASE MarkTriggered(s)
  <2>1. ExecsOK' /\ RowsKept  BY <1>4, SameExecsOK DEF MarkTriggered
  <2>2. LoopOK'               BY <1>4, <2>1, SameLoopOK DEF MarkTriggered
  <2>3. TasksOK'
    BY <1>4, <2>1, GotoOK DEF MarkTriggered, TaskPc, TriggerPc, RetryPc
  <2>4. tasks[s].will \in Wills
    BY <1>4, OperandsType DEF MarkTriggered, At, TriggerPc
  <2>5. WillsOK'
    BY <1>4, <2>4, UpdateStatusOK DEF MarkTriggered, WillStatus
  <2> QED BY <1>4, <2>1, <2>2, <2>3, <2>5, SameEnvOK, SameHistoryOK DEF MarkTriggered
<1>5. CASE LoadExecution(s)
  <2>1. ExecsOK' /\ RowsKept  BY <1>5, SameExecsOK DEF LoadExecution
  <2>2. LoopOK'               BY <1>5, <2>1, SameLoopOK DEF LoadExecution
  <2>3. TasksOK'
    <3>1. tasks[s].exec \in ExecIds
      BY <1>5, OperandsType DEF LoadExecution, At, RetryPc
    <3>2. execs[tasks[s].exec].attempt \in Nat
      BY <3>1 DEF ExecsOK, ExecRow
    <3> QED BY <1>5, <2>1, <3>1, <3>2
            DEF LoadExecution, At, TasksOK, Task, TaskPc, TriggerPc, RetryPc, RowsKept
  <2> QED BY <1>5, <2>1, <2>2, <2>3, SameWillsOK, SameEnvOK, SameHistoryOK DEF LoadExecution
<1>6. CASE PrepareDelivery(s)
  <2>1. /\ tasks[s].exec \in ExecIds
        /\ execs[tasks[s].exec].status # "ABSENT"
        /\ tasks[s].attempt \in Nat
    BY <1>6, OperandsType DEF PrepareDelivery, At, RetryPc
  <2>2. ASSUME FailExecution(tasks[s].exec, tasks[s].attempt, now)
        PROVE  ExecsOK' /\ RowsKept
    BY <1>6, <2>1, <2>2, FailExecutionOK DEF PrepareDelivery, EnvOK
  <2>3. ASSUME UNCHANGED execs
        PROVE  ExecsOK' /\ RowsKept
    BY <1>6, <2>3, SameExecsOK DEF PrepareDelivery
  <2>4. ExecsOK' /\ RowsKept  BY <1>6, <2>2, <2>3 DEF PrepareDelivery
  <2>5. LoopOK'               BY <1>6, <2>4, SameLoopOK DEF PrepareDelivery
  <2>6. TasksOK'
    BY <1>6, <2>4, GotoOK DEF PrepareDelivery, At, TaskPc, TriggerPc, RetryPc
  <2> QED BY <1>6, <2>4, <2>5, <2>6, SameWillsOK, SameEnvOK, SameHistoryOK DEF PrepareDelivery
<1>7. CASE ClaimExecution(s)
  <2> USE DEF ClaimExecution
  <2>1. /\ tasks[s].exec \in ExecIds
        /\ execs[tasks[s].exec].status # "ABSENT"
    BY <1>7, OperandsType DEF ClaimFrom, At, RetryPc
  <2>4. ExecsOK' /\ RowsKept
    <3>1. CASE execs[tasks[s].exec].status \in {"QUEUED", "FAILED"}
      BY <1>7, <2>1, <3>1, ClaimOK DEF ClaimFrom, EnvOK
    <3>2. CASE execs[tasks[s].exec].status \notin {"QUEUED", "FAILED"}
      BY <1>7, <3>2, SameExecsOK DEF ClaimFrom
    <3> QED BY <3>1, <3>2
  <2>5. LoopOK'               BY <1>7, <2>4, SameLoopOK DEF ClaimFrom
  <2>6. TasksOK'
    BY <1>7, <2>4, GotoOK DEF ClaimFrom, At, TaskPc, TriggerPc, RetryPc
  <2> QED BY <1>7, <2>4, <2>5, <2>6, SameWillsOK, SameEnvOK, SameHistoryOK DEF ClaimFrom
<1>8. CASE Execute(s)
  <2>1. ExecsOK' /\ RowsKept  BY <1>8, SameExecsOK DEF Execute
  <2>2. LoopOK'               BY <1>8, <2>1, SameLoopOK DEF Execute
  <2>3. TasksOK'
    BY <1>8, <2>1, GotoOK DEF Execute, TaskPc, TriggerPc, RetryPc
  <2>4. tasks[s].exec \in ExecIds
    BY <1>8, OperandsType DEF Execute, RetryPc
  <2>5. HistoryOK'
    BY <1>8, <2>4 DEF Execute, HistoryOK
  <2> QED BY <1>8, <2>1, <2>2, <2>3, <2>5, SameWillsOK, SameEnvOK DEF Execute
<1>9. CASE RecordFailure(s)
  <2>1. /\ tasks[s].exec \in ExecIds
        /\ execs[tasks[s].exec].status # "ABSENT"
        /\ tasks[s].attempt + 1 \in Nat
    BY <1>9, OperandsType DEF RecordFailure, At, RetryPc
  <2>2. ExecsOK' /\ RowsKept
    BY <1>9, <2>1, FailExecutionOK DEF RecordFailure, EnvOK
  <2>3. LoopOK'               BY <1>9, <2>2, SameLoopOK DEF RecordFailure
  <2>4. TasksOK'
    BY <1>9, <2>2, GotoOK DEF RecordFailure, TaskPc, TriggerPc, RetryPc
  <2> QED BY <1>9, <2>2, <2>3, <2>4, SameWillsOK, SameEnvOK, SameHistoryOK DEF RecordFailure
<1>10. CASE RecordSuccess(s)
  <2>1. /\ tasks[s].exec \in ExecIds
        /\ execs[tasks[s].exec].status # "ABSENT"
    BY <1>10, OperandsType DEF RecordSuccess, At, RetryPc
  <2>2. ExecsOK' /\ RowsKept
    BY <1>10, <2>1, MarkCompletedOK DEF RecordSuccess
  <2>3. LoopOK'               BY <1>10, <2>2, SameLoopOK DEF RecordSuccess
  <2>4. TasksOK'
    BY <1>10, <2>2, GotoOK DEF RecordSuccess, TaskPc, TriggerPc, RetryPc
  <2> QED BY <1>10, <2>2, <2>3, <2>4, SameWillsOK, SameEnvOK, SameHistoryOK DEF RecordSuccess
<1>11. CASE Release(s)
  <2>1. ExecsOK' /\ RowsKept  BY <1>11, SameExecsOK DEF Release
  <2>2. LoopOK'               BY <1>11, <2>1, SameLoopOK DEF Release
  <2>3. TasksOK'
    <3>1. NoTask \in Task /\ TaskOperands(NoTask)
      BY DEF NoTask, Task, TaskPc, TriggerPc, RetryPc, TaskOperands
    <3> QED BY <1>11, <2>1, <3>1, SetTaskOK DEF Release
  <2> QED BY <1>11, <2>1, <2>2, <2>3, SameWillsOK, SameEnvOK, SameHistoryOK DEF Release
<1>12. CASE TaskFault(s)
  <2>1. ExecsOK' /\ RowsKept  BY <1>12, SameExecsOK DEF TaskFault
  <2>2. LoopOK'               BY <1>12, <2>1, SameLoopOK DEF TaskFault
  <2>3. ASSUME NEW a \in Actions, tasks[s].pc = "queue",
               tasks' = [tasks EXCEPT ![s] = Queueing(tasks[s], tasks[s].todo \ {a})]
        PROVE  TasksOK'
    <3>1. /\ tasks[s] \in Task
          /\ tasks[s].will \in Wills
          /\ tasks[s].todo \ {a} \in SUBSET Actions
      BY <2>3, OperandsType DEF TasksOK, TriggerPc
    <3>2. PICK task : task = Queueing(tasks[s], tasks[s].todo \ {a})
      OBVIOUS
    <3>3. task \in Task /\ TaskOperands(task)
      BY <3>1, <3>2, QueueingOK
    <3> QED BY <2>1, <2>3, <3>2, <3>3, SetTaskOK
  <2>4. ASSUME Goto(s, "exit")
        PROVE  TasksOK'
    BY <2>1, <2>4, GotoOK DEF TaskPc, TriggerPc, RetryPc
  <2>5. TasksOK'
    BY <1>12, <2>3, <2>4 DEF TaskFault
  <2>6. EnvOK'                BY <1>12 DEF TaskFault, EnvOK, env
  <2> QED BY <1>12, <2>1, <2>2, <2>5, <2>6, SameWillsOK, SameHistoryOK DEF TaskFault
<1> QED BY <1>1, <1>2, <1>3, <1>4, <1>5, <1>6, <1>7, <1>8, <1>9, <1>10, <1>11, <1>12
        DEF TaskProgress

(* The steps of the owner, the clock and the process keep every type.      *)
LEMMA OwnerStepType ==
    ASSUME TypeOK, OwnerStep
    PROVE  TypeOK'
<1> USE DEF TypeOK
<1>1. CASE HandleUnlock
  <2>1. ExecsOK' /\ RowsKept  BY <1>1, SameExecsOK DEF HandleUnlock
  <2>2. LoopOK' /\ TasksOK'   BY <1>1, <2>1, SameLoopOK, SameTasksOK DEF HandleUnlock, schedVars
  <2>3. EnvOK'                BY <1>1 DEF HandleUnlock, EnvOK, schedVars
  <2> QED BY <1>1, <2>1, <2>2, <2>3, SameWillsOK, SameHistoryOK DEF HandleUnlock, schedVars
<1>2. ASSUME NEW a \in Actions, HandleAddAction(a)
      PROVE  TypeOK'
  <2>1. ExecsOK' /\ RowsKept
    BY <1>2 DEF HandleAddAction, CreateAction, ExecsOK, RowsKept
  <2>2. LoopOK' /\ TasksOK'
    BY <1>2, <2>1, SameLoopOK, SameTasksOK DEF HandleAddAction, schedVars
  <2> QED BY <1>2, <2>1, <2>2, SameWillsOK, SameEnvOK, SameHistoryOK DEF HandleAddAction, schedVars
<1>3. ASSUME NEW w \in Wills,
             \/ CliCreateWill(w) \/ HandleCreateWill(w)
             \/ HandleActivateWill(w) \/ HandlePauseWill(w)
             \/ HandleCheckinWill(w) \/ HandleArchiveWill(w)
      PROVE  TypeOK'
  <2> DEFINE Rest == UNCHANGED <<actions, execs, schedVars>>
  <2>1. ASSUME CliCreateWill(w) PROVE Rest /\ WillsOK' /\ EnvOK'
    <3>1. CASE \E interval \in Intervals, content \in BOOLEAN : CreateWill(w, interval, content)
      BY <2>1, <3>1, CreateWillOK DEF CliCreateWill, EnvOK, schedVars
    <3>2. CASE UNCHANGED wills
      BY <2>1, <3>2, SameWillsOK DEF CliCreateWill, EnvOK, schedVars
    <3> QED BY <2>1, <3>1, <3>2 DEF CliCreateWill
  <2>2. ASSUME HandleCreateWill(w) PROVE Rest /\ WillsOK' /\ EnvOK'
    BY <2>2, CreateWillOK, SameEnvOK DEF HandleCreateWill, schedVars
  <2>3. ASSUME HandleActivateWill(w) PROVE Rest /\ WillsOK' /\ EnvOK'
    <3>1. WillsOK'
      BY <2>3 DEF HandleActivateWill, WillsOK, WillRow, WillStatus, Exists, EnvOK
    <3> QED BY <2>3, <3>1, SameEnvOK DEF HandleActivateWill, schedVars
  <2>4. ASSUME HandlePauseWill(w) PROVE Rest /\ WillsOK' /\ EnvOK'
    BY <2>4, TransitionOK, SameEnvOK DEF HandlePauseWill, schedVars
  <2>5. ASSUME HandleCheckinWill(w) PROVE Rest /\ WillsOK' /\ EnvOK'
    BY <2>5, CheckInOK, SameEnvOK DEF HandleCheckinWill, EnvOK, schedVars
  <2>6. ASSUME HandleArchiveWill(w) PROVE Rest /\ WillsOK' /\ EnvOK'
    BY <2>6, UpdateStatusOK, SameEnvOK DEF HandleArchiveWill, Archive, WillStatus, schedVars
  <2>7. Rest /\ WillsOK' /\ EnvOK'
    BY <1>3, <2>1, <2>2, <2>3, <2>4, <2>5, <2>6
  <2>8. ExecsOK' /\ RowsKept  BY <2>7, SameExecsOK
  <2>9. LoopOK' /\ TasksOK'   BY <2>7, <2>8, SameLoopOK, SameTasksOK DEF schedVars
  <2> QED BY <2>7, <2>8, <2>9, SameHistoryOK DEF schedVars
<1> QED BY <1>1, <1>2, <1>3 DEF OwnerStep

LEMMA ClockTickType ==
    ASSUME TypeOK, ClockTick
    PROVE  TypeOK'
<1> USE DEF TypeOK
<1>1. ExecsOK' /\ RowsKept  BY SameExecsOK DEF ClockTick
<1>2. LoopOK' /\ TasksOK'   BY <1>1, SameLoopOK, SameTasksOK DEF ClockTick, schedVars
<1>3. EnvOK'                BY DEF ClockTick, EnvOK, schedVars
<1> QED BY <1>1, <1>2, <1>3, SameWillsOK, SameHistoryOK DEF ClockTick, schedVars

LEMMA RestartType ==
    ASSUME TypeOK, Restart
    PROVE  TypeOK'
<1> USE DEF TypeOK
<1>1. ExecsOK' /\ RowsKept  BY SameExecsOK DEF Restart
<1>2. LoopOK'               BY <1>1 DEF Restart, LoopAtBoot, LoopOK, Loop, LoopPc
<1>3. TasksOK'
  BY DEF Restart, TasksOK, NoTask, Task, TaskPc, TriggerPc, RetryPc
<1>4. EnvOK'                BY DEF Restart, EnvOK
<1> QED BY <1>1, <1>2, <1>3, <1>4, SameWillsOK, SameHistoryOK DEF Restart

LEMMA StutterType ==
    ASSUME TypeOK, UNCHANGED vars
    PROVE  TypeOK'
<1> USE DEF TypeOK
<1>1. ExecsOK' /\ RowsKept  BY SameExecsOK DEF vars
<1>2. LoopOK' /\ TasksOK'   BY <1>1, SameLoopOK, SameTasksOK DEF vars, schedVars
<1> QED BY <1>1, <1>2, SameWillsOK, SameEnvOK, SameHistoryOK DEF vars, schedVars

LEMMA InitType == Init => TypeOK
<1> SUFFICES ASSUME Init PROVE TypeOK
  OBVIOUS
<1> USE DEF Init, TypeOK
<1>1. WillsOK
  BY DEF WillInit, WillsOK, NoWill, WillRow, WillStatus, Exists
<1>2. ExecsOK
  BY DEF ActionInit, ExecsOK, NoExec, ExecRow, ExecStatus
<1>3. LoopOK
  BY DEF SchedulerInit, LoopOK, LoopAtBoot, Loop, LoopPc
<1>4. TasksOK
  BY DEF SchedulerInit, TasksOK, NoTask, Task, TaskPc, TriggerPc, RetryPc
<1>5. EnvOK /\ HistoryOK
  BY DEF SchedulerInit, EnvOK, HistoryOK
<1> QED BY <1>1, <1>2, <1>3, <1>4, <1>5

LEMMA NextType == TypeOK /\ [Next]_vars => TypeOK'
<1> SUFFICES ASSUME TypeOK, [Next]_vars PROVE TypeOK'
  OBVIOUS
<1>1. CASE SchedulerStep
  BY <1>1, LoopStepType, TaskStepType DEF SchedulerStep
<1> QED BY <1>1, OwnerStepType, ClockTickType, RestartType, StutterType DEF Next

(* Whatever interleaving of handlers, ticks, goroutines, failures and      *)
(* restarts, every variable keeps its type and every goroutine its operands. *)
THEOREM TypeCorrect == Spec => []TypeOK
BY InitType, NextType, PTL DEF Spec
----------------------------------------------------------------------------
(* FiredOnce is inductive.  First the wills: the steps that leave them     *)
(* alone, and the statements that do not.                                  *)
Aging == UNCHANGED fired /\ now' \in Nat /\ now <= now'

LEMMA SameRowsTellFired ==
    ASSUME TypeOK, RowsTellFired, Aging, UNCHANGED wills
    PROVE  RowsTellFired'
BY DEF TypeOK, EnvOK, RowsTellFired, Aging

LEMMA CreateWillFired ==
    ASSUME TypeOK, RowsTellFired, Aging, NEW w \in Wills, NEW interval, NEW content,
           CreateWill(w, interval, content)
    PROVE  RowsTellFired'
BY DEF TypeOK, WillsOK, WillRow, EnvOK, RowsTellFired, Aging, CreateWill, NoWill, Exists

LEMMA ArchiveFired ==
    ASSUME TypeOK, RowsTellFired, Aging, NEW w \in Wills, Archive(w)
    PROVE  RowsTellFired'
BY DEF TypeOK, WillsOK, WillRow, EnvOK, RowsTellFired, Aging, Archive, UpdateStatus, Exists

LEMMA TriggeredFired ==
    ASSUME TypeOK, RowsTellFired, Aging, NEW w \in fired, UpdateStatus(w, "TRIGGERED")
    PROVE  RowsTellFired'
BY DEF TypeOK, WillsOK, WillRow, EnvOK, HistoryOK, RowsTellFired, Aging, UpdateStatus, Exists

LEMMA PauseFired ==
    ASSUME TypeOK, RowsTellFired, Aging, NEW w \in Wills, Transition(w, "ACTIVE", "PAUSED")
    PROVE  RowsTellFired'
BY DEF TypeOK, WillsOK, WillRow, EnvOK, RowsTellFired, Aging, Transition

LEMMA CheckInFired ==
    ASSUME TypeOK, RowsTellFired, Aging, NEW w \in Wills, CheckIn(w, now)
    PROVE  RowsTellFired'
BY DEF TypeOK, WillsOK, WillRow, EnvOK, RowsTellFired, Aging, CheckIn

LEMMA ActivateFired ==
    ASSUME TypeOK, RowsTellFired, NEW w \in Wills, HandleActivateWill(w)
    PROVE  RowsTellFired'
BY DEF TypeOK, WillsOK, WillRow, EnvOK, RowsTellFired, HandleActivateWill, env, schedVars, history

(* The compare-and-swap of the scheduler: the deadline it tests has passed. *)
LEMMA TriggerFired ==
    ASSUME TypeOK, RowsTellFired, NEW w \in Wills, TransitionToPending(w, now), UNCHANGED now,
           fired' = IF Due(w, now) THEN fired \cup {w} ELSE fired
    PROVE  RowsTellFired'
<1>1. CASE Due(w, now)
  BY <1>1, WillAssumption
     DEF TypeOK, WillsOK, WillRow, EnvOK, HistoryOK, RowsTellFired, TransitionToPending, Due
<1>2. CASE ~Due(w, now)
  BY <1>2 DEF RowsTellFired, TransitionToPending
<1> QED BY <1>1, <1>2
----------------------------------------------------------------------------
(* Then the executions and the goroutines.  A calm step records no         *)
(* execution and starts no processing.                                     *)
NoNewRows ==
    /\ RowsKept
    /\ \A e \in ExecIds : Recorded(e)' => Recorded(e)

CalmTasks ==
    \A s \in Slots : tasks'[s].pc \in TriggerPc =>
        /\ tasks[s].pc \in TriggerPc
        /\ tasks'[s].will = tasks[s].will
        /\ tasks'[s].pc = "list" => tasks[s].pc = "list"
        /\ tasks'[s].pc \in {"queue", "start"} =>
             tasks[s].pc \in {"queue", "start"} /\ tasks'[s].todo \subseteq tasks[s].todo

CalmLoop == loop'.pc = "spawn" => loop.pc = "spawn" /\ loop'.will = loop.will

Processing == OnlyForFired /\ OneProcessor /\ TodoIsFresh /\ OneRowPerAction

LEMMA CalmStep ==
    ASSUME TypeOK, Processing, NoNewRows, CalmTasks, CalmLoop, fired \subseteq fired'
    PROVE  Processing'
<1> USE DEF Processing
<1>1. \A e \in ExecIds : Recorded(e)' =>
        Recorded(e) /\ execs'[e].action = execs[e].action /\ WillOf(e)' = WillOf(e)
  BY DEF NoNewRows, RowsKept, Recorded, WillOf
<1>2. OnlyForFired'
  BY <1>1 DEF OnlyForFired, CalmTasks, CalmLoop
<1>3. OneProcessor'
  BY <1>1 DEF OneProcessor, Processes, CalmTasks, CalmLoop, TriggerPc
<1>4. TodoIsFresh'
  BY <1>1 DEF TodoIsFresh, CalmTasks, TriggerPc
<1>5. OneRowPerAction'
  BY <1>1 DEF OneRowPerAction
<1> QED BY <1>2, <1>3, <1>4, <1>5

LEMMA SameRows == ASSUME UNCHANGED execs PROVE NoNewRows
BY DEF NoNewRows, RowsKept, Recorded

LEMMA SameTasksCalm == ASSUME UNCHANGED tasks PROVE CalmTasks
BY DEF CalmTasks

LEMMA GotoCalm ==
    ASSUME TypeOK, NEW s \in Slots, NEW pc \in TaskPc \ TriggerPc, Goto(s, pc)
    PROVE  CalmTasks
BY DEF TypeOK, TasksOK, Goto, CalmTasks

LEMMA StartCalm ==
    ASSUME TypeOK, NEW task \in Task, task.pc \notin TriggerPc, StartOrSkip(task)
    PROVE  CalmTasks
BY DEF TypeOK, TasksOK, StartOrSkip, CalmTasks

LEMMA VisitCalm == ASSUME NEW ws, TypeOK, Visit(ws) PROVE CalmLoop
BY DEF TypeOK, LoopOK, Loop, Visit, CalmLoop
----------------------------------------------------------------------------
(* The four steps that are not calm.  The will the compare-and-swap takes  *)
(* was ACTIVE, so it had not fired: nothing was done for it.               *)
LEMMA TriggerProcessing ==
    ASSUME TypeOK, RowsTellFired, Processing, NEW w \in Wills, TriggerWill(w)
    PROVE  Processing'
<1> USE DEF TriggerWill
<1>1. NoNewRows /\ CalmTasks
  BY SameRows, SameTasksCalm
<1>2. CASE ~Due(w, now)
  <2>1. CalmLoop /\ fired' = fired
    BY <1>2, VisitCalm
  <2> QED BY <1>1, <2>1, CalmStep
<1>3. CASE Due(w, now)
  <2>1. w \notin fired
    BY <1>3 DEF RowsTellFired, Due
  <2>2. loop'.pc = "spawn" /\ loop'.will = w /\ fired' = fired \cup {w}
    BY <1>3 DEF TypeOK, LoopOK, Loop
  <2>3. UNCHANGED <<execs, tasks>>
    OBVIOUS
  <2>4. OnlyForFired'
    BY <2>2, <2>3 DEF Processing, OnlyForFired, Recorded, WillOf
  <2>5. OneProcessor'
    BY <2>1, <2>2, <2>3 DEF Processing, OnlyForFired, OneProcessor, Processes, Recorded, WillOf
  <2>6. TodoIsFresh' /\ OneRowPerAction'
    BY <2>3 DEF Processing, TodoIsFresh, OneRowPerAction, Recorded
  <2> QED BY <2>4, <2>5, <2>6 DEF Processing
<1> QED BY <1>2, <1>3

LEMMA SpawnProcessing ==
    ASSUME TypeOK, Processing, SpawnProcessWill
    PROVE  Processing'
<1> USE DEF SpawnProcessWill
<1>1. UNCHANGED <<execs, fired>> /\ NoNewRows
  BY SameRows DEF history
<1>2. CalmLoop /\ loop'.pc # "spawn"
  BY VisitCalm DEF TypeOK, LoopOK, Loop, Visit
<1>3. CASE UNCHANGED tasks
  BY <1>1, <1>2, <1>3, CalmStep, SameTasksCalm
<1>4. CASE ~ UNCHANGED tasks
  <2>1. PICK s \in Slots :
          tasks' = [tasks EXCEPT ![s] = [NoTask EXCEPT !.pc = "list", !.will = loop.will]]
    BY <1>4 DEF StartOrSkip
  <2>2. /\ tasks'[s].pc = "list" /\ tasks'[s].will = loop.will
        /\ \A t \in Slots \ {s} : tasks'[t] = tasks[t]
    BY <2>1 DEF TypeOK, TasksOK, NoTask
  <2>3. OnlyForFired'
    BY <1>1, <1>2, <2>2 DEF Processing, OnlyForFired, Recorded, WillOf
  <2>4. OneProcessor'
    BY <1>1, <1>2, <2>2 DEF Processing, OneProcessor, Processes, Recorded, WillOf, TriggerPc
  <2>5. TodoIsFresh' /\ OneRowPerAction'
    BY <1>1, <2>2 DEF Processing, TodoIsFresh, OneRowPerAction, Recorded
  <2> QED BY <2>3, <2>4, <2>5 DEF Processing
<1> QED BY <1>3, <1>4

LEMMA ListProcessing ==
    ASSUME TypeOK, Processing, NEW s \in Slots, ListActions(s)
    PROVE  Processing'
<1>1. UNCHANGED <<execs, loop, fired>> /\ tasks[s].pc = "list"
  BY DEF ListActions, history, At
<1>2. /\ tasks'[s].will = tasks[s].will
      /\ tasks'[s].todo = ListByWill(tasks[s].will)
      /\ tasks'[s].pc \in {"mark", "queue"}
      /\ \A t \in Slots \ {s} : tasks'[t] = tasks[t]
  BY DEF ListActions, TypeOK, TasksOK, Task
<1>3. OnlyForFired'
  BY <1>1, <1>2 DEF Processing, OnlyForFired, Recorded, WillOf, TriggerPc
<1>4. OneProcessor'
  BY <1>1, <1>2 DEF Processing, OneProcessor, Processes, Recorded, WillOf, TriggerPc
<1>5. TodoIsFresh' /\ OneRowPerAction'
  BY <1>1, <1>2
     DEF Processing, OneProcessor, TodoIsFresh, OneRowPerAction, Recorded, WillOf, ListByWill
<1> QED BY <1>3, <1>4, <1>5 DEF Processing

LEMMA QueueProcessing ==
    ASSUME TypeOK, Processing, NEW s \in Slots, QueueAction(s)
    PROVE  Processing'
<1> USE DEF QueueAction
<1>1. PICK a \in tasks[s].todo, e \in ExecIds :
        /\ CreateExecution(e, a)
        /\ tasks' = [tasks EXCEPT ![s].exec = e, ![s].pc = "start",
                                  ![s].todo = tasks[s].todo \ {a}]
  BY DEF IsFirst
<1>2. UNCHANGED <<loop, fired>> /\ tasks[s].pc = "queue"
  BY DEF history, At
<1>3. /\ tasks'[s].pc = "start" /\ tasks'[s].will = tasks[s].will
      /\ tasks'[s].todo = tasks[s].todo \ {a}
      /\ \A t \in Slots \ {s} : tasks'[t] = tasks[t]
  BY <1>1 DEF TypeOK, TasksOK, Task
<1>4. /\ execs'[e].action = a
      /\ \A f \in ExecIds \ {e} : execs'[f] = execs[f]
  BY <1>1 DEF CreateExecution, NoExec, TypeOK, ExecsOK
<1>5. ActionWill[a] = tasks[s].will /\ Processes(s, tasks[s].will)
  BY <1>2 DEF Processing, TodoIsFresh, Processes, TriggerPc
<1>6. \A f \in ExecIds : Recorded(f)' => f = e \/ (Recorded(f) /\ WillOf(f)' = WillOf(f))
  BY <1>4 DEF Recorded, WillOf
<1>7. WillOf(e)' = tasks[s].will
  BY <1>4, <1>5 DEF WillOf
<1>8. tasks[s].will \in fired /\ tasks[s].will \in Wills
  BY <1>2 DEF Processing, OnlyForFired, TriggerPc, TypeOK, TasksOK
<1>9. OnlyForFired'
  BY <1>2, <1>3, <1>6, <1>7, <1>8 DEF Processing, OnlyForFired, TriggerPc
<1>10. \A t \in Slots \ {s} : ~Processes(t, tasks[s].will)
  BY <1>5, <1>8 DEF Processing, OneProcessor
<1>11. OneProcessor'
  <2>1. \A t \in Slots, w \in Wills : Processes(t, w)' => Processes(t, w)
    BY <1>2, <1>3 DEF Processes, TriggerPc
  <2>2. \A t \in Slots : tasks'[t].pc = "list" =>
          tasks[t].pc = "list" /\ tasks'[t].will = tasks[t].will /\ tasks[t].will # tasks[s].will
    BY <1>3, <1>10 DEF Processes, TriggerPc
  <2>3. loop.pc = "spawn" => loop.will # tasks[s].will /\ loop.will \in Wills
    BY <1>5 DEF Processing, OneProcessor, TypeOK, LoopOK
  <2> QED BY <1>2, <1>6, <1>7, <2>1, <2>2, <2>3 DEF Processing, OneProcessor
<1>12. TodoIsFresh'
  <2> SUFFICES ASSUME NEW t \in Slots, tasks'[t].pc \in {"queue", "start"},
                      NEW b \in tasks'[t].todo
               PROVE  /\ ActionWill[b] = tasks'[t].will
                      /\ \A f \in ExecIds : Recorded(f)' => execs'[f].action # b
    BY DEF TodoIsFresh
  <2>1. /\ tasks[t].pc \in {"queue", "start"} /\ b \in tasks[t].todo
        /\ tasks'[t].will = tasks[t].will
    BY <1>2, <1>3
  <2>2. ActionWill[b] = tasks[t].will /\ \A f \in ExecIds : Recorded(f) => execs[f].action # b
    BY <2>1 DEF Processing, TodoIsFresh
  <2>3. b # a
    BY <1>3, <1>5, <1>10, <2>1, <2>2 DEF Processes, TriggerPc
  <2> QED BY <1>4, <2>1, <2>2, <2>3 DEF Recorded
<1>13. OneRowPerAction'
  <2>1. \A f \in ExecIds : Recorded(f) => execs[f].action # a
    BY <1>2 DEF Processing, TodoIsFresh
  <2> QED BY <1>4, <2>1 DEF Processing, OneRowPerAction, Recorded
<1> QED BY <1>9, <1>11, <1>12, <1>13 DEF Processing
----------------------------------------------------------------------------
(* Every other step is calm.                                               *)
Calm == NoNewRows /\ CalmTasks /\ CalmLoop /\ fired' = fired

LEMMA LoopStepCalm ==
    ASSUME TypeOK, LoopProgress \/ LoopFault, \A w \in Wills : ~TriggerWill(w), ~SpawnProcessWill
    PROVE  Calm /\ UNCHANGED <<wills, now>>
<1>1. CASE BeginTick
  <2>1. CalmLoop
    BY <1>1 DEF BeginTick, CalmLoop, TypeOK, LoopOK, Loop
  <2> QED BY <1>1, <2>1, SameRows, SameTasksCalm DEF Calm, BeginTick, env, history
<1>2. CASE ResetStale
  <2>1. CalmLoop
    BY <1>2 DEF ResetStale, CalmLoop, TypeOK, LoopOK, Loop
  <2>2. NoNewRows
    <3>1. RowsKept
      BY <1>2, ResetOK DEF TypeOK
    <3>2. \A e \in ExecIds : Recorded(e)' => Recorded(e)
      BY <1>2 DEF ResetStale, Recorded, Stale
    <3> QED BY <3>1, <3>2 DEF NoNewRows
  <2> QED BY <1>2, <2>1, <2>2, SameTasksCalm DEF Calm, ResetStale, env, history
<1>3. CASE ScanOverdue
  <2>1. CalmLoop
    BY <1>3, VisitCalm DEF ScanOverdue
  <2> QED BY <1>3, <2>1, SameRows, SameTasksCalm DEF Calm, ScanOverdue, env, history
<1>4. CASE QueryRetries
  <2>1. CalmLoop
    <3>1. PICK batch :
            loop' = [loop EXCEPT !.batch = batch,
                                 !.pc = IF batch = {} THEN "idle" ELSE "dispatch"]
      BY <1>4 DEF QueryRetries
    <3> QED BY <3>1 DEF CalmLoop, TypeOK, LoopOK, Loop
  <2> QED BY <1>4, <2>1, SameRows, SameTasksCalm DEF Calm, QueryRetries, env, history
<1>5. ASSUME NEW e \in ExecIds, DispatchRetry(e)
      PROVE  Calm /\ UNCHANGED <<wills, now>>
  <2>1. CalmLoop
    <3>1. PICK batch :
            loop' = [loop EXCEPT !.batch = batch,
                                 !.pc = IF loop.batch = {e} THEN "idle" ELSE "dispatch"]
      BY <1>5 DEF DispatchRetry
    <3> QED BY <3>1 DEF CalmLoop, TypeOK, LoopOK, Loop
  <2>2. CalmTasks
    <3>1. PICK load : load = [NoTask EXCEPT !.pc = "load", !.exec = e]
      OBVIOUS
    <3>2. load \in Task /\ load.pc \notin TriggerPc
      BY <3>1 DEF NoTask, Task, TaskPc, RetryPc, TriggerPc
    <3> QED BY <1>5, <3>1, <3>2, StartCalm DEF DispatchRetry
  <2> QED BY <1>5, <2>1, <2>2, SameRows DEF Calm, DispatchRetry, env, history
<1>6. CASE LoopFault
  <2>1. CalmLoop
    <3>1. CASE \E ws : Visit(ws)
      BY <3>1, VisitCalm
    <3>2. CASE \E pc \in {"scan", "idle"} : loop' = [loop EXCEPT !.pc = pc]
      BY <3>2 DEF CalmLoop, TypeOK, LoopOK, Loop
    <3> QED BY <1>6, <3>1, <3>2 DEF LoopFault
  <2> QED BY <1>6, <2>1, SameRows, SameTasksCalm DEF Calm, LoopFault, env, history
<1> QED BY <1>1, <1>2, <1>3, <1>4, <1>5, <1>6 DEF LoopProgress

(* The statements of retryAction record no execution.                      *)
LEMMA FailNoNewRows ==
    ASSUME TypeOK, NEW e \in ExecIds, Recorded(e), NEW attempt \in Nat,
           FailExecution(e, attempt, now)
    PROVE  NoNewRows
BY DEF TypeOK, ExecsOK, ExecRow, FailExecution, NoNewRows, RowsKept, Recorded

LEMMA TaskStepCalm ==
    ASSUME TypeOK, NEW s \in Slots, TaskProgress(s) \/ TaskFault(s), ~ListActions(s), ~QueueAction(s)
    PROVE  Calm /\ UNCHANGED now
<1>0. ASSUME UNCHANGED <<now, loop, fired>>, NoNewRows, CalmTasks
      PROVE  Calm /\ UNCHANGED now
  BY <1>0 DEF Calm, CalmLoop
<1>b. /\ tasks[s].pc \in TriggerPc => tasks[s].will \in Wills
      /\ tasks[s].pc \in RetryPc => tasks[s].exec \in ExecIds /\ Recorded(tasks[s].exec)
      /\ tasks[s].attempt \in Nat
  BY OperandsType DEF TypeOK, Recorded
<1>c. "exit" \in TaskPc \ TriggerPc /\ RetryPc \subseteq TaskPc \ TriggerPc
  BY DEF TaskPc, TriggerPc, RetryPc
<1>d. ASSUME Goto(s, "exit") PROVE CalmTasks
  BY <1>c, <1>d, GotoCalm
<1>3. CASE StartAction(s)
  <2>1. CalmTasks
    <3>1. PICK queueing : queueing = Queueing(tasks[s], tasks[s].todo)
      OBVIOUS
    <3>2. PICK load : load = [NoTask EXCEPT !.pc = "load", !.exec = tasks[s].exec]
      OBVIOUS
    <3>3. /\ queueing.pc \in {"mark", "queue"}
          /\ queueing.will = tasks[s].will /\ queueing.todo = tasks[s].todo
          /\ load.pc = "load"
      <4>1. tasks[s] \in Task
        BY DEF TypeOK, TasksOK
      <4>2. PICK task \in Task : task = tasks[s]
        BY <4>1
      <4>3. queueing = Queueing(task, task.todo)
        BY <3>1, <4>2
      <4>4. /\ queueing.pc \in {"mark", "queue"}
            /\ queueing.will = task.will /\ queueing.todo = task.todo
        BY <4>3 DEF Queueing, Task
      <4> QED BY <3>2, <4>2, <4>4 DEF NoTask
    <3>4. CASE tasks' = [tasks EXCEPT ![s] = queueing]
      BY <1>3, <3>3, <3>4 DEF StartAction, CalmTasks, TriggerPc, TypeOK, TasksOK
    <3>5. CASE \E f \in Slots : tasks' = [[tasks EXCEPT ![s] = queueing] EXCEPT ![f] = load]
      BY <1>3, <3>3, <3>5 DEF StartAction, CalmTasks, TriggerPc, TypeOK, TasksOK
    <3> QED BY <1>3, <3>1, <3>2, <3>4, <3>5 DEF StartAction
  <2> QED BY <1>0, <1>3, <2>1, SameRows DEF StartAction, env, history
<1>4. CASE MarkTriggered(s)
  BY <1>0, <1>4, <1>d, SameRows DEF MarkTriggered, env, history
<1>5. CASE LoadExecution(s)
  <2>1. CalmTasks
    BY <1>5 DEF LoadExecution, CalmTasks, TriggerPc, TypeOK, TasksOK, Task
  <2> QED BY <1>0, <1>5, <2>1, SameRows DEF LoadExecution, env, history
<1>6. CASE PrepareDelivery(s)
  <2>1. CalmTasks
    BY <1>6, <1>c, <1>d, GotoCalm DEF PrepareDelivery, RetryPc
  <2>2. NoNewRows
    BY <1>6, <1>b, FailNoNewRows, SameRows DEF PrepareDelivery, At, RetryPc
  <2> QED BY <1>0, <1>6, <2>1, <2>2 DEF PrepareDelivery, env, history
<1>7. CASE ClaimExecution(s)
  <2>1. CalmTasks
    BY <1>7, <1>c, <1>d, GotoCalm DEF ClaimExecution, ClaimFrom, RetryPc
  <2>2. NoNewRows
    <3>1. tasks[s].exec \in ExecIds /\ Recorded(tasks[s].exec)
      BY <1>7, <1>b DEF ClaimExecution, ClaimFrom, At, RetryPc
    <3>2. CASE UNCHANGED execs
      BY <3>2, SameRows
    <3>3. CASE execs' = [execs EXCEPT ![tasks[s].exec].status = "IN_PROGRESS",
                                      ![tasks[s].exec].startedAt = now]
      BY <3>1, <3>3 DEF NoNewRows, RowsKept, Recorded, TypeOK, ExecsOK, ExecRow
    <3> QED BY <1>7, <3>2, <3>3 DEF ClaimExecution, ClaimFrom
  <2> QED BY <1>0, <1>7, <2>1, <2>2 DEF ClaimExecution, ClaimFrom, env, history
<1>8. CASE Execute(s)
  <2>1. CalmTasks
    BY <1>8, <1>c, GotoCalm DEF Execute, RetryPc
  <2> QED BY <1>0, <1>8, <2>1, SameRows DEF Execute, env
<1>9. CASE RecordFailure(s)
  <2>1. NoNewRows
    BY <1>9, <1>b, FailNoNewRows DEF RecordFailure, At, RetryPc
  <2> QED BY <1>0, <1>9, <1>d, <2>1 DEF RecordFailure, env, history
<1>10. CASE RecordSuccess(s)
  <2>1. tasks[s].exec \in ExecIds /\ Recorded(tasks[s].exec)
    BY <1>10, <1>b DEF RecordSuccess, At, RetryPc
  <2>2. NoNewRows
    BY <1>10, <2>1 DEF RecordSuccess, MarkCompleted, NoNewRows, RowsKept, Recorded,
                       TypeOK, ExecsOK, ExecRow
  <2> QED BY <1>0, <1>10, <1>d, <2>2 DEF RecordSuccess, env, history
<1>11. CASE Release(s)
  <2>1. CalmTasks
    BY <1>11 DEF Release, CalmTasks, NoTask, TriggerPc, TypeOK, TasksOK
  <2> QED BY <1>0, <1>11, <2>1, SameRows DEF Release, env, history
<1>12. CASE TaskFault(s)
  <2>1. CalmTasks
    <3>1. ASSUME NEW a \in Actions, tasks[s].pc = "queue",
                 tasks' = [tasks EXCEPT ![s] = Queueing(tasks[s], tasks[s].todo \ {a})]
          PROVE  CalmTasks
      <4>1. PICK task \in Task : task = tasks[s]
        BY DEF TypeOK, TasksOK
      <4>2. PICK queueing : queueing = Queueing(task, task.todo \ {a})
        OBVIOUS
      <4>3. /\ queueing.pc \in {"mark", "queue"}
            /\ queueing.will = task.will /\ queueing.todo = task.todo \ {a}
        BY <4>2 DEF Queueing, Task
      <4>4. tasks' = [tasks EXCEPT ![s] = queueing]
        BY <3>1, <4>1, <4>2
      <4> QED BY <3>1, <4>1, <4>3, <4>4 DEF CalmTasks, TriggerPc, TypeOK, TasksOK
    <3> QED BY <1>12, <1>d, <3>1 DEF TaskFault
  <2> QED BY <1>0, <1>12, <2>1, SameRows DEF TaskFault, env, history
<1> QED BY <1>3, <1>4, <1>5, <1>6, <1>7, <1>8, <1>9, <1>10, <1>11, <1>12 DEF TaskProgress

(* Each step of the scheduler keeps FiredOnce.                             *)
LEMMA LoopStepFired ==
    ASSUME TypeOK, RowsTellFired, Processing, LoopProgress \/ LoopFault
    PROVE  RowsTellFired' /\ Processing'
<1>1. ASSUME NEW w \in Wills, TriggerWill(w)
      PROVE  RowsTellFired' /\ Processing'
  <2>1. /\ TransitionToPending(w, now)
        /\ UNCHANGED now
        /\ fired' = IF Due(w, now) THEN fired \cup {w} ELSE fired
    BY <1>1 DEF TriggerWill, env
  <2> QED BY <1>1, <2>1, TriggerFired, TriggerProcessing
<1>2. CASE SpawnProcessWill
  <2>1. UNCHANGED <<wills, now, fired>>
    BY <1>2 DEF SpawnProcessWill, env, history
  <2>2. RowsTellFired'
    BY <2>1, SameRowsTellFired DEF Aging, TypeOK, EnvOK
  <2> QED BY <1>2, <2>2, SpawnProcessing
<1>3. CASE Calm /\ UNCHANGED <<wills, now>>
  BY <1>3, SameRowsTellFired, CalmStep DEF Calm, Aging, TypeOK, EnvOK
<1> QED BY <1>1, <1>2, <1>3, LoopStepCalm

LEMMA TaskStepFired ==
    ASSUME TypeOK, RowsTellFired, Processing, NEW s \in Slots, TaskProgress(s) \/ TaskFault(s)
    PROVE  RowsTellFired' /\ Processing'
<1>1. ASSUME UNCHANGED <<wills, now, fired>>
      PROVE  RowsTellFired'
  BY <1>1, SameRowsTellFired DEF Aging, TypeOK, EnvOK
<1>2. CASE ListActions(s)
  BY <1>1, <1>2, ListProcessing DEF ListActions, env, history
<1>3. CASE QueueAction(s)
  BY <1>1, <1>3, QueueProcessing DEF QueueAction, env, history
<1>4. ASSUME ~ListActions(s), ~QueueAction(s)
      PROVE  RowsTellFired' /\ Processing'
  <2>1. Calm /\ UNCHANGED now
    BY <1>4, TaskStepCalm
  <2>2. Processing'
    BY <2>1, CalmStep DEF Calm
  <2>3. CASE MarkTriggered(s)
    <3>1. tasks[s].will \in fired
      BY <2>3 DEF MarkTriggered, At, Processing, OnlyForFired, TriggerPc
    <3>2. RowsTellFired'
      BY <2>1, <2>3, <3>1, TriggeredFired DEF MarkTriggered, Calm, Aging, TypeOK, EnvOK
    <3> QED BY <2>2, <3>2
  <2>4. CASE ~MarkTriggered(s)
    <3>1. UNCHANGED wills
      BY <1>4, <2>4 DEF TaskProgress, TaskFault, StartAction, LoadExecution, PrepareDelivery,
         ClaimExecution, ClaimFrom, Execute, RecordFailure, RecordSuccess, Release
    <3> QED BY <1>1, <2>1, <2>2, <3>1 DEF Calm
  <2> QED BY <2>3, <2>4
<1> QED BY <1>2, <1>3, <1>4

(* The steps of the owner, the clock and the process keep FiredOnce.       *)
LEMMA OwnerStepFired ==
    ASSUME TypeOK, RowsTellFired, Processing, OwnerStep
    PROVE  RowsTellFired' /\ Processing'
<1>1. UNCHANGED <<execs, loop, tasks, fired, now>>
  BY DEF OwnerStep, HandleUnlock, CliCreateWill, HandleCreateWill, HandleActivateWill,
         HandlePauseWill, HandleCheckinWill, HandleArchiveWill, HandleAddAction,
         env, schedVars, history
<1>2. Processing'
  BY <1>1, CalmStep, SameRows, SameTasksCalm DEF CalmLoop
<1>3. Aging
  BY <1>1 DEF Aging, TypeOK, EnvOK
<1>4. RowsTellFired'
  <2>1. CASE UNCHANGED wills
    BY <1>3, <2>1, SameRowsTellFired
  <2>2. ASSUME NEW w \in Wills, CliCreateWill(w) \/ HandleCreateWill(w), ~ UNCHANGED wills
        PROVE  RowsTellFired'
    BY <1>3, <2>2, CreateWillFired DEF CliCreateWill, HandleCreateWill
  <2>3. ASSUME NEW w \in Wills,
               \/ HandleActivateWill(w) \/ HandlePauseWill(w)
               \/ HandleCheckinWill(w) \/ HandleArchiveWill(w)
        PROVE  RowsTellFired'
    BY <1>3, <2>3, ActivateFired, PauseFired, CheckInFired, ArchiveFired
       DEF HandlePauseWill, HandleCheckinWill, HandleArchiveWill
  <2>4. HandleUnlock \/ (\E a \in Actions : HandleAddAction(a)) => UNCHANGED wills
    BY DEF HandleUnlock, HandleAddAction
  <2> QED BY <2>1, <2>2, <2>3, <2>4 DEF OwnerStep
<1> QED BY <1>2, <1>4

LEMMA ClockTickFired ==
    ASSUME TypeOK, RowsTellFired, Processing, ClockTick
    PROVE  RowsTellFired' /\ Processing'
<1>1. UNCHANGED <<wills, execs, loop, tasks, fired>>
  BY DEF ClockTick, schedVars, history
<1>2. Aging
  BY <1>1 DEF ClockTick, Aging, TypeOK, EnvOK
<1> QED BY <1>1, <1>2, SameRowsTellFired, CalmStep, SameRows, SameTasksCalm DEF CalmLoop

(* A restart forgets the goroutines, and nothing that tells what fired.    *)
LEMMA RestartFired ==
    ASSUME TypeOK, RowsTellFired, Processing, Restart
    PROVE  RowsTellFired' /\ Processing'
<1>1. UNCHANGED <<wills, execs, fired, now>>
  BY DEF Restart, history
<1>2. Aging
  BY <1>1 DEF Aging, TypeOK, EnvOK
<1>3. CalmTasks /\ CalmLoop
  BY DEF Restart, CalmTasks, CalmLoop, NoTask, LoopAtBoot, TriggerPc
<1> QED BY <1>1, <1>2, <1>3, SameRowsTellFired, CalmStep, SameRows

LEMMA NextFired == TypeOK /\ FiredOnce /\ [Next]_vars => FiredOnce'
<1> SUFFICES ASSUME TypeOK, RowsTellFired, Processing, [Next]_vars
             PROVE  RowsTellFired' /\ Processing'
  BY DEF FiredOnce, Processing
<1>1. CASE SchedulerStep
  BY <1>1, LoopStepFired, TaskStepFired DEF SchedulerStep
<1>2. CASE UNCHANGED vars
  <2>1. UNCHANGED <<wills, execs, loop, tasks, fired, now>>
    BY <1>2 DEF vars, env, schedVars, history
  <2>2. Aging
    BY <2>1 DEF Aging, TypeOK, EnvOK
  <2> QED BY <2>1, <2>2, SameRowsTellFired, CalmStep, SameRows, SameTasksCalm DEF CalmLoop
<1> QED BY <1>1, <1>2, OwnerStepFired, ClockTickFired, RestartFired DEF Next

LEMMA InitFired == Init => FiredOnce
BY DEF Init, WillInit, NoWill, ActionInit, NoExec, SchedulerInit, LoopAtBoot, NoTask, TriggerPc,
       FiredOnce, RowsTellFired, OnlyForFired, OneProcessor, TodoIsFresh, OneRowPerAction,
       Recorded, Processes

(* The invariant the three theorems below rest on holds of every behaviour *)
(* of the daemon.                                                          *)
THEOREM FiredOnceHolds == Spec => [](TypeOK /\ FiredOnce)
BY InitType, NextType, InitFired, NextFired, PTL DEF Spec
----------------------------------------------------------------------------
(* A will fires only after a whole interval of silence (TransitionToPending *)
(* against CheckIn), whatever the number of wills, workers and restarts.   *)
THEOREM NeverEarly == Spec => []NoEarlyTrigger
<1>1. TypeOK /\ FiredOnce => NoEarlyTrigger
  <2> SUFFICES ASSUME TypeOK, RowsTellFired,
                      NEW w \in Wills,
                      w \in fired \/ wills[w].status \in {"PENDING_TRIGGER", "TRIGGERED"}
               PROVE  /\ w \in fired
                      /\ wills[w].lastCheckIn # NULL =>
                           wills[w].lastCheckIn + wills[w].interval <= now
    BY DEF FiredOnce, NoEarlyTrigger
  <2>1. w \in fired
    BY DEF RowsTellFired
  <2>2. ASSUME wills[w].lastCheckIn # NULL
        PROVE  wills[w].lastCheckIn + wills[w].interval <= now
    BY <2>1, <2>2 DEF RowsTellFired
  <2> QED BY <2>1, <2>2
<1> QED BY <1>1, FiredOnceHolds, PTL

(* Nothing is executed, or about to be, for a will that has not fired      *)
(* (processWill, CreateExecution).                                         *)
THEOREM NothingBefore == Spec => []NothingBeforeTrigger
<1>1. TypeOK /\ FiredOnce => NothingBeforeTrigger
  BY DEF FiredOnce, OnlyForFired, NothingBeforeTrigger, Recorded
<1> QED BY <1>1, FiredOnceHolds, PTL

(* An action is queued once in the life of the database, whatever restarts *)
(* and ticks come between (the compare-and-swap of tick, processWill).     *)
THEOREM ExecutedOnce == Spec => []SingleExecution
<1>1. TypeOK /\ FiredOnce => SingleExecution
  BY DEF FiredOnce, OneRowPerAction, SingleExecution, RowsOf, Recorded
<1> QED BY <1>1, FiredOnceHolds, PTL
----------------------------------------------------------------------------
(* A will that fired and that nobody attends to.  A calm step gives it no  *)
(* goroutine and no row; the four others work for another will.            *)
Leaves(w) ==
    /\ ~Attended(w)'
    /\ \A a \in Actions : ActionWill[a] = w => RowsOf(a)' = RowsOf(a)

LEMMA SameRowsOf == ASSUME NoNewRows PROVE \A a \in Actions : RowsOf(a)' = RowsOf(a)
BY DEF NoNewRows, RowsKept, Recorded, RowsOf

LEMMA CalmLeaves ==
    ASSUME NoNewRows, CalmTasks, CalmLoop, NEW w \in Wills, ~Attended(w)
    PROVE  Leaves(w)
<1>1. ~Attended(w)'
  BY DEF Attended, CalmTasks, CalmLoop
<1> QED BY <1>1, SameRowsOf DEF Leaves

LEMMA TriggerLeaves ==
    ASSUME TypeOK, RowsTellFired, NEW w \in fired, w \in Wills, ~Attended(w),
           NEW v \in Wills, TriggerWill(v)
    PROVE  Leaves(w)
<1>1. UNCHANGED <<execs, tasks>>
  BY DEF TriggerWill
<1>2. ~(loop'.pc = "spawn" /\ loop'.will = w)
  <2>1. CASE Due(v, now)
    <3>1. v # w
      BY <2>1 DEF Due, RowsTellFired
    <3> QED BY <2>1, <3>1 DEF TriggerWill, TypeOK, LoopOK, Loop
  <2>2. CASE ~Due(v, now)
    BY <2>2 DEF TriggerWill, Visit, TypeOK, LoopOK, Loop
  <2> QED BY <2>1, <2>2
<1> QED BY <1>1, <1>2, SameRows, SameRowsOf DEF Leaves, Attended

LEMMA SpawnLeaves ==
    ASSUME TypeOK, NEW w \in Wills, ~Attended(w), SpawnProcessWill
    PROVE  Leaves(w)
<1>1. UNCHANGED execs /\ loop'.pc # "spawn" /\ loop.will # w
  BY DEF SpawnProcessWill, Attended, Visit, TypeOK, LoopOK, Loop
<1>2. \A s \in Slots : tasks'[s] = tasks[s] \/ tasks'[s].will = loop.will
  BY DEF SpawnProcessWill, StartOrSkip, NoTask, TypeOK, TasksOK
<1> QED BY <1>1, <1>2, SameRows, SameRowsOf DEF Leaves, Attended

LEMMA ListLeaves ==
    ASSUME TypeOK, NEW w \in Wills, ~Attended(w), NEW s \in Slots, ListActions(s)
    PROVE  Leaves(w)
<1>1. UNCHANGED <<execs, loop>>
  BY DEF ListActions
<1>2. /\ tasks[s].pc \in TriggerPc /\ tasks'[s].will = tasks[s].will
      /\ \A t \in Slots \ {s} : tasks'[t] = tasks[t]
  BY DEF ListActions, At, TriggerPc, TypeOK, TasksOK, Task
<1> QED BY <1>1, <1>2, SameRows, SameRowsOf DEF Leaves, Attended

(* The execution processWill records is of the will it attends to.         *)
LEMMA QueueLeaves ==
    ASSUME TypeOK, TodoIsFresh, NEW w \in Wills, ~Attended(w), NEW s \in Slots, QueueAction(s)
    PROVE  Leaves(w)
<1>1. PICK a \in tasks[s].todo, e \in ExecIds :
        /\ CreateExecution(e, a)
        /\ tasks' = [tasks EXCEPT ![s].exec = e, ![s].pc = "start",
                                  ![s].todo = tasks[s].todo \ {a}]
  BY DEF QueueAction, IsFirst
<1>2. UNCHANGED loop /\ tasks[s].pc \in TriggerPc /\ ActionWill[a] = tasks[s].will
  BY DEF QueueAction, At, TriggerPc, TodoIsFresh
<1>3. ActionWill[a] # w
  BY <1>2 DEF Attended
<1>4. ~Attended(w)'
  BY <1>1, <1>2 DEF Attended, TypeOK, TasksOK, Task
<1>5. /\ execs[e].status = "ABSENT" /\ execs'[e].action = a
      /\ \A f \in ExecIds \ {e} : execs'[f] = execs[f]
  BY <1>1 DEF CreateExecution, NoExec, TypeOK, ExecsOK
<1>6. \A b \in Actions : ActionWill[b] = w => RowsOf(b)' = RowsOf(b)
  BY <1>3, <1>5 DEF RowsOf
<1> QED BY <1>4, <1>6 DEF Leaves

(* A will that was not processed when it fired, or was not to the end, is  *)
(* not processed later: GetOverdue looks for ACTIVE wills only, and what   *)
(* is lost with a busy pool or a restart is lost (tick, processWill).      *)
THEOREM SkippedForEver == Spec => SkippedIsLeft
<1>1. ASSUME TypeOK, FiredOnce, [Next]_vars, NEW w \in fired, ~Attended(w)
      PROVE  Leaves(w)
  <2>0. w \in Wills /\ RowsTellFired /\ TodoIsFresh
    BY <1>1 DEF FiredOnce, TypeOK, HistoryOK
  <2>1. ASSUME NoNewRows, CalmTasks, CalmLoop PROVE Leaves(w)
    BY <1>1, <2>0, <2>1, CalmLeaves
  <2>2. CASE LoopProgress \/ LoopFault
    BY <1>1, <2>0, <2>1, <2>2, LoopStepCalm, TriggerLeaves, SpawnLeaves DEF Calm
  <2>3. ASSUME NEW s \in Slots, TaskProgress(s) \/ TaskFault(s) PROVE Leaves(w)
    BY <1>1, <2>0, <2>1, <2>3, TaskStepCalm, ListLeaves, QueueLeaves DEF Calm
  <2>4. ASSUME UNCHANGED <<execs, loop, tasks>> PROVE Leaves(w)
    BY <2>1, <2>4, SameRows, SameTasksCalm DEF CalmLoop
  <2>5. CASE OwnerStep
    BY <2>4, <2>5 DEF OwnerStep, HandleUnlock, CliCreateWill, HandleCreateWill,
       HandleActivateWill, HandlePauseWill, HandleCheckinWill, HandleArchiveWill,
       HandleAddAction, schedVars
  <2>6. CASE ClockTick \/ UNCHANGED vars
    BY <2>4, <2>6 DEF ClockTick, vars, schedVars
  <2>7. CASE Restart
    <3>1. NoNewRows /\ CalmTasks /\ CalmLoop
      BY <2>7, SameRows DEF Restart, CalmTasks, CalmLoop, NoTask, LoopAtBoot, TriggerPc
    <3> QED BY <2>1, <3>1
  <2> QED BY <1>1, <2>2, <2>3, <2>5, <2>6, <2>7 DEF Next, SchedulerStep
<1>2. TypeOK /\ FiredOnce /\ [Next]_vars =>
        [\A w \in fired : ~Attended(w) =>
           /\ ~Attended(w)'
           /\ \A a \in Actions : ActionWill[a] = w => RowsOf(a)' = RowsOf(a)]_vars
  BY <1>1 DEF Leaves
<1> QED BY <1>2, FiredOnceHolds, PTL DEF Spec, SkippedIsLeft
----------------------------------------------------------------------------
(* What an archived will may still become: TRIGGERED, when it had fired    *)
(* and the goroutine that processes it comes to its end.                   *)
StaysArchived(w) ==
    /\ w \in fired \/ w \notin fired'
    /\ \/ wills'[w].status = "ARCHIVED"
       \/ /\ w \in fired
          /\ wills'[w].status = "TRIGGERED"
          /\ \E s \in Slots : tasks[s].pc = "mark" /\ tasks[s].will = w

(* Archiving takes a will out of service: one archived before it fired     *)
(* never fires and stays ARCHIVED, and of the others only a processWill    *)
(* that had listed its actions writes over it (Archive, UpdateStatus).     *)
THEOREM ArchivedInTimeIsFinal ==
    Spec => [][\A w \in Wills : wills[w].status = "ARCHIVED" => StaysArchived(w)]_vars
<1>1. ASSUME TypeOK, FiredOnce, [Next]_vars, NEW w \in Wills, wills[w].status = "ARCHIVED"
      PROVE  StaysArchived(w)
  <2>1. ASSUME UNCHANGED <<wills, fired>> PROVE StaysArchived(w)
    BY <1>1, <2>1 DEF StaysArchived
  <2>2. ASSUME NEW v \in Wills, TriggerWill(v) PROVE StaysArchived(w)
    BY <1>1, <2>2
       DEF StaysArchived, TriggerWill, TransitionToPending, Due, TypeOK, WillsOK, WillRow
  <2>3. CASE SpawnProcessWill
    BY <2>1, <2>3 DEF SpawnProcessWill, history
  <2>4. CASE LoopProgress \/ LoopFault
    BY <1>1, <2>1, <2>2, <2>3, <2>4, LoopStepCalm DEF Calm
  <2>5. ASSUME NEW s \in Slots, MarkTriggered(s) PROVE StaysArchived(w)
    <3>1. tasks[s].pc = "mark" /\ tasks[s].will \in fired /\ fired' = fired
      BY <1>1, <2>5 DEF MarkTriggered, At, history, FiredOnce, OnlyForFired, TriggerPc
    <3> QED BY <1>1, <2>5, <3>1
            DEF StaysArchived, MarkTriggered, UpdateStatus, Exists, TypeOK, WillsOK, WillRow
  <2>6. ASSUME NEW s \in Slots, TaskProgress(s) \/ TaskFault(s) PROVE StaysArchived(w)
    BY <2>1, <2>5, <2>6 DEF TaskProgress, TaskFault, ListActions, QueueAction, StartAction,
       LoadExecution, PrepareDelivery, ClaimExecution, ClaimFrom, Execute, RecordFailure,
       RecordSuccess, Release, history
  <2>7. CASE OwnerStep
    <3>1. UNCHANGED fired
      BY <2>7 DEF OwnerStep, HandleUnlock, CliCreateWill, HandleCreateWill, HandleActivateWill,
         HandlePauseWill, HandleCheckinWill, HandleArchiveWill, HandleAddAction, schedVars, history
    <3>2. wills'[w].status = "ARCHIVED"
      <4>1. CASE UNCHANGED wills
        BY <1>1, <4>1
      <4>2. ASSUME NEW v \in Wills, CliCreateWill(v) \/ HandleCreateWill(v), ~UNCHANGED wills
            PROVE  wills'[w].status = "ARCHIVED"
        BY <1>1, <4>2 DEF CliCreateWill, HandleCreateWill, CreateWill, Exists, TypeOK, WillsOK
      <4>3. ASSUME NEW v \in Wills, HandleActivateWill(v) \/ HandlePauseWill(v)
            PROVE  wills'[w].status = "ARCHIVED"
        BY <1>1, <4>3 DEF HandleActivateWill, HandlePauseWill, Transition, TypeOK, WillsOK
      <4>4. ASSUME NEW v \in Wills, HandleCheckinWill(v)
            PROVE  wills'[w].status = "ARCHIVED"
        BY <1>1, <4>4 DEF HandleCheckinWill, CheckIn, TypeOK, WillsOK, WillRow
      <4>5. ASSUME NEW v \in Wills, HandleArchiveWill(v)
            PROVE  wills'[w].status = "ARCHIVED"
        BY <1>1, <4>5
           DEF HandleArchiveWill, Archive, UpdateStatus, Exists, TypeOK, WillsOK, WillRow
      <4>6. HandleUnlock \/ (\E a \in Actions : HandleAddAction(a)) => UNCHANGED wills
        BY DEF HandleUnlock, HandleAddAction
      <4> QED BY <2>7, <4>1, <4>2, <4>3, <4>4, <4>5, <4>6 DEF OwnerStep
    <3> QED BY <3>1, <3>2 DEF StaysArchived
  <2>8. CASE ClockTick \/ Restart \/ UNCHANGED vars
    BY <2>1, <2>8 DEF ClockTick, Restart, vars, schedVars, history
  <2> QED BY <1>1, <2>4, <2>6, <2>7, <2>8 DEF Next, SchedulerStep
<1>2. TypeOK /\ FiredOnce /\ [Next]_vars =>
        [\A w \in Wills : wills[w].status = "ARCHIVED" => StaysArchived(w)]_vars
  BY <1>1
<1> QED BY <1>2, FiredOnceHolds, PTL DEF Spec
=============================================================================
