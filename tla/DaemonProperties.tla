-------------------------- MODULE DaemonProperties --------------------------
(***************************************************************************)
(* What the daemon promises: when a will fires, what is executed for it,   *)
(* and how often it is delivered.                                          *)
(***************************************************************************)
EXTENDS Daemon

(* A will fires only when its owner has been silent for a whole interval:  *)
(* whatever check-ins, pauses and restarts race the tick, a will that has  *)
(* fired, or that shows a status only the scheduler writes, was last       *)
(* checked in at least one interval ago (TransitionToPending, CheckIn).    *)
NoEarlyTrigger ==
    \A w \in Wills :
        w \in fired \/ wills[w].status \in {"PENDING_TRIGGER", "TRIGGERED"} =>
            /\ w \in fired
            /\ wills[w].lastCheckIn # NULL => wills[w].lastCheckIn + wills[w].interval <= now

(* Nothing is executed, or about to be, for a will that has not fired      *)
(* (processWill, CreateExecution).                                         *)
NothingBeforeTrigger ==
    /\ \A e \in ExecIds : execs[e].status # "ABSENT" => WillOf(e) \in fired
    /\ \A s \in Slots : tasks[s].pc \in TriggerPc => tasks[s].will \in fired

(* The compare-and-swap of the trigger makes one goroutine at most process *)
(* a will, in the whole life of the database: an action never has two      *)
(* executions, so no restart and no second tick doubles a delivery.        *)
SingleExecution ==
    \A a \in Actions : \A e, f \in RowsOf(a) : e = f

(* No action processWill has listed is left out: it goes from the list     *)
(* when an execution is recorded for it, whether there is a worker for it  *)
(* or not.  A restart loses what is left of the list; a failing statement  *)
(* loses the action it was for, and none of those after it (processWill).  *)
ListedIsQueued ==
    [][\A s \in Slots :
           LET lost == {a \in tasks[s].todo \ tasks'[s].todo : RowsOf(a)' = {}}
           IN  \/ lost = {}
               \/ crashes' > crashes
               \/ faults' > faults /\ Cardinality(lost) = 1]_vars

(* The goroutine works on execution e, or is about to hand it to another.  *)
Owns(s, e) == tasks[s].exec = e /\ tasks[s].pc \in RetryPc \cup {"start"}

(* Until it is claimed a new execution has one goroutine, and no retry     *)
(* contends with it (processWill, processRetries).                         *)
QueuedHasOneOwner ==
    \A e \in ExecIds : execs[e].status = "QUEUED" =>
        /\ e \notin loop.batch
        /\ \A s, t \in Slots : Owns(s, e) /\ Owns(t, e) => s = t

(* An execution nobody works on while it is QUEUED, because every worker   *)
(* was busy, its goroutine came to its end or the process did, is never    *)
(* taken up again: retries look for FAILED rows only (processWill,         *)
(* processRetries).                                                        *)
TurnedAwayIsLeft ==
    [][\A e \in ExecIds :
           execs[e].status = "QUEUED" /\ (\A s \in Slots : ~Owns(s, e)) =>
               execs'[e] = execs[e] /\ \A s \in Slots : ~Owns(s, e)']_vars

(* The will is about to be given a goroutine, or has one.                  *)
Attended(w) ==
    \/ loop.pc = "spawn" /\ loop.will = w
    \/ \E s \in Slots : tasks[s].pc \in TriggerPc /\ tasks[s].will = w

(* A will is processed once or not at all: when it has fired and nobody    *)
(* attends to it, because every worker was busy, its goroutine came to its *)
(* end or the process did, nobody ever does again and nothing more is      *)
(* queued for it, whatever is added, ticked or restarted (tick,            *)
(* processWill, GetOverdue).                                               *)
SkippedIsLeft ==
    [][\A w \in fired : ~Attended(w) =>
           /\ ~Attended(w)'
           /\ \A a \in Actions : ActionWill[a] = w => RowsOf(a)' = RowsOf(a)]_vars

(* The switch from end to end: whatever was delivered, or tried, belongs   *)
(* to a will that has content, has fired, and was last checked in at least *)
(* one interval ago (tick, processWill, retryAction against CheckIn).      *)
DeliveredInSilence ==
    \A e \in ExecIds : tried[e] > 0 =>
        LET w == wills[WillOf(e)]
        IN  /\ execs[e].status # "ABSENT" /\ WillOf(e) \in fired /\ w.content
            /\ w.lastCheckIn # NULL => w.lastCheckIn + w.interval <= now

(* The switch a will is: armed while its row is ACTIVE, fired from the     *)
(* moment the scheduler's compare-and-swap succeeds.                       *)
Phase(w) ==
    CASE w \in fired                                                    -> "fired"
      [] w \notin fired /\ wills[w].status \in {"ABSENT", "DRAFT"}      -> "off"
      [] w \notin fired /\ wills[w].status = "ACTIVE"                   -> "armed"
      [] w \notin fired /\ wills[w].status = "PAUSED"                   -> "paused"
      [] OTHER                                                          -> "disarmed"

DMS == INSTANCE DeadMansSwitch WITH
    phase <- [w \in Wills |-> Phase(w)],
    due   <- [w \in Wills |-> wills[w].deadline],
    clock <- now

(* The daemon implements the dead man's switch: through every interleaving *)
(* of handlers, ticks, goroutines and restarts a will fires at most once,  *)
(* only from ACTIVE and past its deadline, never while it is paused and    *)
(* never after it was archived.  The switch can be resumed, as the         *)
(* documents say of a paused will; no handler takes that step              *)
(* (HandleActivateWill asks for DRAFT).                                    *)
ImplementsSwitch == DMS!Spec
----------------------------------------------------------------------------
(* While deliveries are prompt the claim is a lock: a delivery that runs   *)
(* has its execution IN_PROGRESS, and no other goroutine delivers it too   *)
(* (the claim in retryAction against the reset in tick).                   *)
ExclusiveDelivery ==
    \A s \in Slots : tasks[s].pc \in DeliveryPc =>
        /\ execs[tasks[s].exec].status = "IN_PROGRESS"
        /\ \A t \in Slots \ {s} :
             tasks[t].pc \in DeliveryPc => tasks[t].exec # tasks[s].exec

(* While deliveries are prompt a delivery is repeated only when the record *)
(* of the one before was lost, to a failed statement or to a restart.      *)
RepeatsAreLosses ==
    \A e \in ExecIds : sent[e] <= 1 + faults + crashes

(* While deliveries are prompt COMPLETED and EXHAUSTED are final: no late  *)
(* writer, no reset and no retry takes an execution out of them.           *)
OutcomeIsFinal ==
    [][\A e \in ExecIds : execs[e].status \in {"COMPLETED", "EXHAUSTED"} =>
           execs'[e].status = execs[e].status]_vars

(* How far the delivery of an execution has come: its row tells, and while *)
(* the row is IN_PROGRESS the goroutine that delivers it does.             *)
DeliveredAt(e, pc) == \E s \in Slots : tasks[s].exec = e /\ tasks[s].pc = pc

Stage(e) ==
    CASE execs[e].status = "ABSENT"               -> "none"
      [] execs[e].status \in {"QUEUED", "FAILED"} -> "open"
      [] execs[e].status = "COMPLETED"            -> "done"
      [] execs[e].status = "EXHAUSTED"            -> "over"
      [] execs[e].status = "IN_PROGRESS"          ->
           IF DeliveredAt(e, "execute") THEN "running"
           ELSE IF DeliveredAt(e, "complete") THEN "made"
           ELSE IF DeliveredAt(e, "fail") THEN "missed"
           ELSE "lost"

DLV == INSTANCE Deliveries WITH
    stage  <- [e \in ExecIds |-> Stage(e)],
    tries  <- tried,
    made   <- sent,
    losses <- faults + crashes

(* While deliveries are prompt the table, the claim, the reset, the stale  *)
(* attempts of the goroutines and the restarts come to this: an execution  *)
(* is delivered by one goroutine at a time, again only after a delivery    *)
(* that failed or was cut off, never after one on record, and is given up  *)
(* only when its deliveries are used up (retryAction, tick).               *)
ImplementsDeliveries == DLV!Spec

(* An execution is COMPLETED only after a delivery without an error, and   *)
(* EXHAUSTED only when its attempts are used up: however many goroutines   *)
(* raced with attempts they had loaded, it was delivered as often as a     *)
(* will allows, but for the one attempt an execution is created with       *)
(* (MarkCompleted, FailExecution).                                         *)
OutcomeIsTrue ==
    \A e \in ExecIds :
        /\ execs[e].status = "COMPLETED" => sent[e] > 0
        /\ execs[e].status = "EXHAUSTED" =>
             execs[e].attempt >= MaxRetries /\ tried[e] + 1 >= MaxRetries
----------------------------------------------------------------------------
(* An overdue will does not stay ACTIVE: the loop reaches it, or its owner *)
(* does (Start, tick).                                                     *)
OverdueIsHandled ==
    \A w \in Wills : Due(w, now) ~> ~Due(w, now)

(* Every place of the worker semaphore is held by a delivery that runs,    *)
(* and may run for ever.                                                   *)
AllDeliver == \A s \in Slots : tasks[s].pc = "execute"

(* With the engine unlocked a retry that is due does not wait for ever,    *)
(* whatever others compete for the workers and the rows of a query, unless *)
(* deliveries take every worker: it is dispatched, prepared and claimed    *)
(* (processRetries, retryAction).                                          *)
RetryIsHandled ==
    \A e \in ExecIds :
        RetryDue(e, now) /\ engine = "open"
            ~> ~RetryDue(e, now) \/ engine # "open" \/ AllDeliver

(* A delivery that hangs, or whose record was lost, does not keep its      *)
(* execution IN_PROGRESS: a tick after the cutoff gives it back to the     *)
(* retries, even while every worker hangs (tick, OHO-3).                   *)
StaleIsReset ==
    \A e \in ExecIds : Stale(e) ~> ~Stale(e)

(* No goroutine keeps its place in the worker semaphore for ever but one   *)
(* whose delivery does not come back: processWill does not wait for the    *)
(* deliveries it starts (processWill, retryAction).                        *)
WorkersAreReleased ==
    \A s \in Slots : ~Free(s) ~> Free(s) \/ tasks[s].pc = "execute"
----------------------------------------------------------------------------
(* What the documents say and the code does not do.                        *)

(* "TRIGGERED/ARCHIVED MUST NOT transition" (design document, 12.1): a     *)
(* will its owner archived stays archived; UpdateStatus writes over it     *)
(* when processWill, started before, comes to its end.                     *)
ArchivedIsFinal ==
    [][\A w \in Wills : wills[w].status = "ARCHIVED" => wills'[w].status = "ARCHIVED"]_vars

(* "pool full, skip for now" (tick): a will whose processing was skipped   *)
(* is processed later; GetOverdue only ever returns ACTIVE wills.          *)
PendingIsProcessed ==
    \A w \in Wills :
        wills[w].status = "PENDING_TRIGGER" ~> wills[w].status # "PENDING_TRIGGER"

(* "retry up to MaxRetries ... After MaxRetries: mark EXHAUSTED" (design   *)
(* document, 5.2): an EXHAUSTED execution was tried that often;            *)
(* CreateExecution already counts one attempt nobody made.                 *)
RetriesAreUsedUp ==
    \A e \in ExecIds : execs[e].status = "EXHAUSTED" => tried[e] >= MaxRetries

(* "If a row exists with status = COMPLETED, the executor must skip        *)
(* (already delivered)" (design document, 13.2): a late writer takes the   *)
(* row out of COMPLETED, and it is delivered again.                        *)
CompletedIsSkipped ==
    [][\A e \in ExecIds : execs[e].status = "COMPLETED" =>
           execs'[e].status = "COMPLETED"]_vars

(* "For each action in will.actions (ordered)" (design document, 5.2): an  *)
(* action is tried after those that stand before it; processWill starts a  *)
(* goroutine for each and waits for none.                                  *)
DeliveredInOrder ==
    \A e, f \in ExecIds :
        /\ execs[e].status # "ABSENT" /\ execs[f].status # "ABSENT"
        /\ WillOf(e) = WillOf(f)
        /\ Position[execs[e].action] < Position[execs[f].action]
        /\ tried[f] > 0
        => tried[e] > 0
============================================================================
