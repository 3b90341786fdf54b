----------------------------- MODULE Scheduler -----------------------------
(***************************************************************************)
(* internal/scheduler: the tick loop and the goroutines it starts.  The    *)
(* loop and every goroutine hold their place in the code (pc); a step      *)
(* takes one goroutine past one statement on the database, one operation   *)
(* on the worker semaphore, or one delivery.  The connection pool holds    *)
(* one connection, so two statements never overlap, and processRetries     *)
(* keeps that connection while its rows are open.                          *)
(***************************************************************************)
EXTENDS ActionService

CONSTANTS
    Slots,        \* places in the worker semaphore
    StaleAfter,   \* age at which tick resets an execution (600 seconds)
    RetryBatch,   \* LIMIT of processRetries (10 rows)
    MaxFaults     \* bound on the statements that may fail

ASSUME SchedulerAssumption ==
    /\ StaleAfter \in Nat
    /\ RetryBatch \in Nat \ {0}
    /\ MaxFaults \in Nat

VARIABLES
    now,      \* the clock
    engine,   \* the crypto engine: no key, the right key, or a wrong one
    meta,     \* is there a crypto_meta row?
    crashes,  \* restarts of the process so far
    loop,     \* the goroutine of Start
    tasks,    \* the goroutine holding each place of workerSem
    faults,   \* statements that have failed so far
    fired,    \* history: wills whose compare-and-swap to PENDING_TRIGGER succeeded
    tried,    \* history: deliveries of each execution that have returned
    sent      \* history: those that returned no error

env       == <<now, engine, meta, crashes>>
history   == <<fired, tried, sent>>
schedVars == <<loop, tasks, faults, history>>
vars      == <<wills, actions, execs, env, schedVars>>

LoopPc == {"boot", "idle", "reset", "scan", "trigger", "spawn", "query", "dispatch"}

Loop == [pc      : LoopPc,
         retries : BOOLEAN,            \* does processRetries follow this tick?
         wills   : SUBSET Wills,       \* overdue wills still to visit
         will    : Wills \cup {NULL},  \* the will whose goroutine is to be started
         batch   : SUBSET ExecIds]     \* rows of processRetries still to visit

TriggerPc == {"list", "queue", "start", "mark"}                             \* processWill
RetryPc   == {"load", "prepare", "claim", "execute", "complete", "fail"}    \* retryAction
TaskPc    == {"free", "exit"} \cup TriggerPc \cup RetryPc

(* Places in retryAction between the claim of an execution and the record  *)
(* of how it ended.                                                        *)
DeliveryPc == {"execute", "complete", "fail"}

Task == [pc      : TaskPc,
         will    : Wills \cup {NULL},
         todo    : SUBSET Actions,       \* actions processWill has not queued yet
         exec    : ExecIds \cup {NULL},
         attempt : Nat]                  \* exec.Attempt as it was loaded

NoTask == [pc |-> "free", will |-> NULL, todo |-> {}, exec |-> NULL, attempt |-> 0]

LoopAtBoot == [pc |-> "boot", retries |-> FALSE, wills |-> {}, will |-> NULL, batch |-> {}]

SchedulerInit ==
    /\ loop = LoopAtBoot
    /\ tasks = [s \in Slots |-> NoTask]
    /\ faults = 0
    /\ fired = {}
    /\ tried = [e \in ExecIds |-> 0]
    /\ sent = [e \in ExecIds |-> 0]

(* The connection is not held by the open rows of processRetries.          *)
ConnFree == loop.pc # "dispatch"

Free(s) == tasks[s].pc = "free"

(* select { case workerSem <- struct{}{}: go ...; default: }               *)
StartOrSkip(task) ==
    IF \E s \in Slots : Free(s)
    THEN \E s \in Slots : Free(s) /\ tasks' = [tasks EXCEPT ![s] = task]
    ELSE UNCHANGED tasks
----------------------------------------------------------------------------
(* Mutation: the loop runs its first tick and no other.                    *)
BeginTickOnce ==
    /\ loop.pc = "boot"
    /\ loop' = [loop EXCEPT !.pc = "reset"]
    /\ UNCHANGED <<wills, actions, execs, env, tasks, faults, history>>

(* The loop of Start.  The ticker may fire whenever the loop waits for it; *)
(* the first tick is immediate and is not followed by processRetries.      *)
BeginTick ==
    /\ loop.pc \in {"boot", "idle"}
    /\ loop' = [loop EXCEPT !.pc = "reset", !.retries = (loop.pc = "idle")]
    /\ UNCHANGED <<wills, actions, execs, env, tasks, faults, history>>

(* What the loop does when the range over the overdue wills has come to ws. *)
Visit(ws) ==
    loop' = [loop EXCEPT
        !.wills = ws, !.will = NULL,
        !.pc = IF ws # {} THEN "trigger" ELSE IF loop.retries THEN "query" ELSE "idle"]

(* OHO-3: executions started before the cutoff are taken for abandoned.    *)
Stale(e) ==
    /\ execs[e].status = "IN_PROGRESS"
    /\ execs[e].startedAt # NULL
    /\ execs[e].startedAt + StaleAfter < now

(* Mutation: the age of an execution is not asked for.                     *)
ResetAll ==
    /\ loop.pc = "reset"
    /\ loop' = [loop EXCEPT !.pc = "scan"]
    /\ execs' = [e \in ExecIds |->
           IF execs[e].status = "IN_PROGRESS"
           THEN [execs[e] EXCEPT !.status = "FAILED", !.nextRetryAt = now]
           ELSE execs[e]]
    /\ UNCHANGED <<wills, actions, env, tasks, faults, history>>

(* Mutation: only the first tick after the start looks for them.           *)
ResetAtBoot ==
    /\ loop.pc = "reset"
    /\ loop' = [loop EXCEPT !.pc = "scan"]
    /\ execs' = [e \in ExecIds |->
           IF Stale(e) /\ ~loop.retries
           THEN [execs[e] EXCEPT !.status = "FAILED", !.nextRetryAt = now]
           ELSE execs[e]]
    /\ UNCHANGED <<wills, actions, env, tasks, faults, history>>

ResetStale ==
    /\ loop.pc = "reset"
    /\ loop' = [loop EXCEPT !.pc = "scan"]
    /\ execs' = [e \in ExecIds |->
           IF Stale(e) THEN [execs[e] EXCEPT !.status = "FAILED", !.nextRetryAt = now]
                       ELSE execs[e]]
    /\ UNCHANGED <<wills, actions, env, tasks, faults, history>>

ScanOverdue ==
    /\ loop.pc = "scan"
    /\ Visit(GetOverdue(now))
    /\ UNCHANGED <<wills, actions, execs, env, tasks, faults, history>>

(* Mutation: the result of the compare-and-swap is not looked at.          *)
TriggerAnyway(w) ==
    /\ loop.pc = "trigger"
    /\ w \in loop.wills
    /\ TransitionToPending(w, now)
    /\ loop' = [loop EXCEPT !.pc = "spawn", !.wills = @ \ {w}, !.will = w]
    /\ fired' = IF Due(w, now) THEN fired \cup {w} ELSE fired
    /\ UNCHANGED <<actions, execs, env, tasks, faults, tried, sent>>

(* Mutation: the will is written as the scan saw it, without a new test.   *)
TriggerFromScan(w) ==
    /\ loop.pc = "trigger"
    /\ w \in loop.wills
    /\ UpdateStatus(w, "PENDING_TRIGGER")
    /\ loop' = [loop EXCEPT !.pc = "spawn", !.wills = @ \ {w}, !.will = w]
    /\ fired' = fired \cup {w}
    /\ UNCHANGED <<actions, execs, env, tasks, faults, tried, sent>>

TriggerWill(w) ==
    /\ loop.pc = "trigger"
    /\ w \in loop.wills
    /\ TransitionToPending(w, now)
    /\ IF Due(w, now)
       THEN /\ loop' = [loop EXCEPT !.pc = "spawn", !.wills = @ \ {w}, !.will = w]
            /\ fired' = fired \cup {w}
       ELSE /\ Visit(loop.wills \ {w})
            /\ UNCHANGED fired
    /\ UNCHANGED <<actions, execs, env, tasks, faults, tried, sent>>

(* processWill is started, or skipped because every worker is busy.        *)
SpawnProcessWill ==
    /\ loop.pc = "spawn"
    /\ StartOrSkip([NoTask EXCEPT !.pc = "list", !.will = loop.will])
    /\ Visit(loop.wills)
    /\ UNCHANGED <<wills, actions, execs, env, faults, history>>

QueryRetries ==
    /\ loop.pc = "query"
    /\ LET due == {e \in ExecIds : RetryDue(e, now)}
       IN  \E batch \in SUBSET due :
             /\ \/ batch = due /\ Cardinality(due) <= RetryBatch
                \/ Cardinality(batch) = RetryBatch
             /\ loop' = [loop EXCEPT !.batch = batch,
                                     !.pc = IF batch = {} THEN "idle" ELSE "dispatch"]
    /\ UNCHANGED <<wills, actions, execs, env, tasks, faults, history>>

DispatchRetry(e) ==
    /\ loop.pc = "dispatch"
    /\ e \in loop.batch
    /\ StartOrSkip([NoTask EXCEPT !.pc = "load", !.exec = e])
    /\ loop' = [loop EXCEPT !.batch = @ \ {e},
                            !.pc = IF loop.batch = {e} THEN "idle" ELSE "dispatch"]
    /\ UNCHANGED <<wills, actions, execs, env, faults, history>>

(* A statement of the loop fails: the reset is given up, a will is skipped, *)
(* a query that fails ends its function.                                   *)
LoopFault ==
    /\ faults < MaxFaults
    /\ faults' = faults + 1
    /\ \/ loop.pc = "reset" /\ loop' = [loop EXCEPT !.pc = "scan"]
       \/ loop.pc = "scan" /\ Visit({})
       \/ loop.pc = "trigger" /\ \E w \in loop.wills : Visit(loop.wills \ {w})
       \/ loop.pc = "query" /\ loop' = [loop EXCEPT !.pc = "idle"]
    /\ UNCHANGED <<wills, actions, execs, env, tasks, history>>
----------------------------------------------------------------------------
(* processWill, in the goroutine at place s.                               *)
At(s, pc) == tasks[s].pc = pc /\ ConnFree

Goto(s, pc) == tasks' = [tasks EXCEPT ![s].pc = pc]

ListActions(s) ==
    /\ At(s, "list")
    /\ LET todo == ListByWill(tasks[s].will)
       IN  tasks' = [tasks EXCEPT ![s].todo = todo,
                                  ![s].pc = IF todo = {} THEN "mark" ELSE "queue"]
    /\ UNCHANGED <<wills, actions, execs, env, loop, faults, history>>

(* The goroutine of processWill with no action but those of todo left.     *)
Queueing(task, todo) ==
    [task EXCEPT !.exec = NULL, !.todo = todo, !.pc = IF todo = {} THEN "mark" ELSE "queue"]

QueueAction(s) ==
    /\ At(s, "queue")
    /\ \E a \in Actions, e \in ExecIds :
         /\ IsFirst(a, tasks[s].todo)
         /\ CreateExecution(e, a)
         /\ tasks' = [tasks EXCEPT ![s].exec = e, ![s].pc = "start", ![s].todo = @ \ {a}]
    /\ UNCHANGED <<wills, actions, env, loop, faults, history>>

(* Mutation: processWill waits for a worker.                               *)
StartActionWaiting(s) ==
    /\ tasks[s].pc = "start"
    /\ \E f \in Slots :
         /\ Free(f)
         /\ tasks' = [tasks EXCEPT ![s] = Queueing(@, @.todo),
                                   ![f] = [NoTask EXCEPT !.pc = "load", !.exec = tasks[s].exec]]
    /\ UNCHANGED <<wills, actions, execs, env, loop, faults, history>>

(* retryAction is started on the new execution, or left out because every  *)
(* worker, this one included, is busy.                                     *)
StartAction(s) ==
    /\ tasks[s].pc = "start"
    /\ LET after == [tasks EXCEPT ![s] = Queueing(@, @.todo)]
           task  == [NoTask EXCEPT !.pc = "load", !.exec = tasks[s].exec]
       IN  IF \E f \in Slots : Free(f)
           THEN \E f \in Slots : Free(f) /\ tasks' = [after EXCEPT ![f] = task]
           ELSE tasks' = after
    /\ UNCHANGED <<wills, actions, execs, env, loop, faults, history>>

MarkTriggered(s) ==
    /\ At(s, "mark")
    /\ UpdateStatus(tasks[s].will, "TRIGGERED")
    /\ Goto(s, "exit")
    /\ UNCHANGED <<actions, execs, env, loop, faults, history>>
----------------------------------------------------------------------------
(* retryAction, in the goroutine at place s.                               *)
WillOf(e) == ActionWill[execs[e].action]

LoadExecution(s) ==
    /\ At(s, "load")
    /\ tasks' = [tasks EXCEPT ![s].attempt = execs[tasks[s].exec].attempt, ![s].pc = "prepare"]
    /\ UNCHANGED <<wills, actions, execs, env, loop, faults, history>>

(* Mutation: a will without content is not told from one that has some.    *)
PrepareEmpty(s) ==
    /\ At(s, "prepare")
    /\ Goto(s, IF engine = "open" THEN "claim" ELSE "exit")
    /\ UNCHANGED <<wills, actions, execs, env, loop, faults, history>>

(* The key, the payload and the configuration: a locked engine or a wrong  *)
(* key ends the goroutine; a will without content is a failed attempt, but *)
(* one that is neither claimed nor counted.                                *)
PrepareDelivery(s) ==
    /\ At(s, "prepare")
    /\ IF engine = "open" /\ wills[WillOf(tasks[s].exec)].content
       THEN Goto(s, "claim")
       ELSE Goto(s, "exit")
    /\ IF engine = "open" /\ ~wills[WillOf(tasks[s].exec)].content
       THEN FailExecution(tasks[s].exec, tasks[s].attempt, now)
       ELSE UNCHANGED execs
    /\ UNCHANGED <<wills, actions, env, loop, faults, history>>

(* The claim of an execution whose status is one of statuses; a goroutine  *)
(* that loses the race for it ends.                                        *)
ClaimFrom(s, statuses) ==
    /\ At(s, "claim")
    /\ IF execs[tasks[s].exec].status \in statuses
       THEN /\ execs' = [execs EXCEPT ![tasks[s].exec].status = "IN_PROGRESS",
                                      ![tasks[s].exec].startedAt = now]
            /\ Goto(s, "execute")
       ELSE /\ UNCHANGED execs
            /\ Goto(s, "exit")
    /\ UNCHANGED <<wills, actions, env, loop, faults, history>>

(* Mutations: the claim tests nothing; it takes what was not delivered; it *)
(* takes what is QUEUED, as ClaimExecution of internal/action does.        *)
ClaimAny(s) == ClaimFrom(s, ExecStatus)
ClaimUndelivered(s) == ClaimFrom(s, {"QUEUED", "FAILED", "EXHAUSTED"})
ClaimQueued(s) == ClaimFrom(s, {"QUEUED"})

(* Compare-and-swap from QUEUED or FAILED, whether the retry is due or not. *)
ClaimExecution(s) == ClaimFrom(s, {"QUEUED", "FAILED"})

(* notifier.Execute: a delivery, which no database lock covers, ends with  *)
(* or without an error, or never: a webhook and a script have a timeout,   *)
(* the SMTP client has none.                                               *)
Execute(s) ==
    /\ tasks[s].pc = "execute"
    /\ \/ Goto(s, "complete") /\ sent' = [sent EXCEPT ![tasks[s].exec] = @ + 1]
       \/ Goto(s, "fail") /\ UNCHANGED sent
    /\ tried' = [tried EXCEPT ![tasks[s].exec] = @ + 1]
    /\ UNCHANGED <<wills, actions, execs, env, loop, faults, fired>>

RecordFailure(s) ==
    /\ At(s, "fail")
    /\ FailExecution(tasks[s].exec, tasks[s].attempt + 1, now)
    /\ Goto(s, "exit")
    /\ UNCHANGED <<wills, actions, env, loop, faults, history>>

RecordSuccess(s) ==
    /\ At(s, "complete")
    /\ MarkCompleted(tasks[s].exec)
    /\ Goto(s, "exit")
    /\ UNCHANGED <<wills, actions, env, loop, faults, history>>

(* defer func() { <-s.workerSem }()                                        *)
Release(s) ==
    /\ tasks[s].pc = "exit"
    /\ tasks' = [tasks EXCEPT ![s] = NoTask]
    /\ UNCHANGED <<wills, actions, execs, env, loop, faults, history>>

(* Mutation: an action that cannot be queued ends the list.                *)
TaskFaultEnds(s) ==
    /\ faults < MaxFaults
    /\ faults' = faults + 1
    /\ ConnFree
    /\ \/ /\ tasks[s].pc = "queue"
          /\ tasks' = [tasks EXCEPT ![s] = Queueing(@, {})]
       \/ /\ tasks[s].pc \in {"list", "mark", "load", "prepare", "claim", "complete", "fail"}
          /\ Goto(s, "exit")
    /\ UNCHANGED <<wills, actions, execs, env, loop, history>>

(* A statement of a goroutine fails: an action that cannot be queued is    *)
(* passed over, a status that cannot be written is lost, and any other     *)
(* error ends the goroutine.                                               *)
TaskFault(s) ==
    /\ faults < MaxFaults
    /\ faults' = faults + 1
    /\ ConnFree
    /\ \/ /\ tasks[s].pc = "queue"
          /\ \E a \in Actions :
               /\ IsFirst(a, tasks[s].todo)
               /\ tasks' = [tasks EXCEPT ![s] = Queueing(@, @.todo \ {a})]
       \/ /\ tasks[s].pc \in {"list", "mark", "load", "prepare", "claim", "complete", "fail"}
          /\ Goto(s, "exit")
    /\ UNCHANGED <<wills, actions, execs, env, loop, history>>
----------------------------------------------------------------------------
(* The steps the program takes when nothing fails.                         *)
LoopProgress ==
    \/ BeginTick \/ ResetStale \/ ScanOverdue \/ SpawnProcessWill \/ QueryRetries
    \/ \E w \in Wills : TriggerWill(w)
    \/ \E e \in ExecIds : DispatchRetry(e)

TaskProgress(s) ==
    \/ ListActions(s) \/ QueueAction(s) \/ StartAction(s) \/ MarkTriggered(s)
    \/ LoadExecution(s) \/ PrepareDelivery(s) \/ ClaimExecution(s) \/ Execute(s)
    \/ RecordFailure(s) \/ RecordSuccess(s) \/ Release(s)

SchedulerStep ==
    \/ LoopProgress \/ LoopFault
    \/ \E s \in Slots : TaskProgress(s) \/ TaskFault(s)
============================================================================
