--------------------------- MODULE ActionService ---------------------------
(***************************************************************************)
(* internal/action: the `actions` and `action_executions` tables and the   *)
(* statements the program runs on them.  The type, configuration and       *)
(* ciphertext of an action are abstracted: what an action does when it is  *)
(* run is an outcome chosen in Scheduler.                                  *)
(***************************************************************************)
EXTENDS WillService, Sequences

CONSTANTS
    Actions,      \* identifiers an action can be given
    ActionWill,   \* the will each action is added to
    Position,     \* the position each action is added at
    ExecIds,      \* identifiers an execution can be given
    MaxRetries,   \* max_retries of a will; the program always writes 3
    Delays,       \* delays of calculateRetryDelay, by attempt counted from 0
    LongDelay     \* its delay for every later attempt

ASSUME ActionAssumption ==
    /\ ActionWill \in [Actions -> Wills]
    /\ Position \in [Actions -> Nat]
    /\ NULL \notin Actions
    /\ NULL \notin ExecIds
    /\ MaxRetries \in Nat
    /\ Delays \in Seq(Nat)
    /\ LongDelay \in Nat

VARIABLES
    actions,   \* the table of actions: the identifiers inserted so far
    execs      \* the table of executions: the row of each identifier

ExecStatus == {"ABSENT", "QUEUED", "IN_PROGRESS", "COMPLETED", "FAILED", "EXHAUSTED"}

ExecRow == [status      : ExecStatus,
            action      : Actions \cup {NULL},
            attempt     : Nat,
            startedAt   : Nat \cup {NULL},
            nextRetryAt : Nat \cup {NULL}]

NoExec == [status |-> "ABSENT", action |-> NULL, attempt |-> 0,
           startedAt |-> NULL, nextRetryAt |-> NULL]

(* The executions recorded for an action.                                  *)
RowsOf(a) == {e \in ExecIds : execs[e].status # "ABSENT" /\ execs[e].action = a}

(* Mutation: rows that are still QUEUED are retried too.                    *)
RetryDueOrQueued(e, t) ==
    /\ execs[e].status \in {"FAILED", "QUEUED"}
    /\ execs[e].nextRetryAt # NULL => execs[e].nextRetryAt <= t

(* Rows WHERE status = 'FAILED' AND next_retry_at <= t.                    *)
RetryDue(e, t) ==
    /\ execs[e].status = "FAILED"
    /\ execs[e].nextRetryAt # NULL
    /\ execs[e].nextRetryAt <= t
----------------------------------------------------------------------------
ActionInit ==
    /\ actions = {}
    /\ execs = [e \in ExecIds |-> NoExec]

(* INSERT INTO actions, under its FOREIGN KEY and UNIQUE(will_id, position).*)
CreateAction(a) ==
    /\ a \notin actions
    /\ Exists(ActionWill[a])
    /\ \A b \in actions : ActionWill[b] = ActionWill[a] => Position[b] # Position[a]
    /\ actions' = actions \cup {a}

ListByWill(w) == {a \in actions : ActionWill[a] = w}

(* ORDER BY position: a is the action a loop over the set S meets first.   *)
IsFirst(a, S) == a \in S /\ \A b \in S : Position[a] <= Position[b]

(* Mutation: the error of an INSERT that failed is not looked at.          *)
CreateExecutionUnchecked(e, a) == execs[e].status = "ABSENT" /\ UNCHANGED execs

CreateExecution(e, a) ==
    /\ execs[e].status = "ABSENT"
    /\ execs' = [execs EXCEPT ![e] =
           [NoExec EXCEPT !.status = "QUEUED", !.action = a, !.attempt = 1]]

calculateRetryDelay(attempt) ==
    IF attempt < Len(Delays) THEN Delays[attempt + 1] ELSE LongDelay

(* Mutation: gives up one attempt early.                                   *)
FailExecutionEarly(e, attempt, t) ==
    execs' = [execs EXCEPT ![e] =
        IF attempt + 1 >= MaxRetries
        THEN [@ EXCEPT !.status = "EXHAUSTED", !.attempt = attempt]
        ELSE [@ EXCEPT !.status = "FAILED", !.attempt = attempt,
                       !.nextRetryAt = t + calculateRetryDelay(attempt)]]

(* UPDATE ... WHERE id = ?, whatever the row holds.                        *)
FailExecution(e, attempt, t) ==
    execs' = [execs EXCEPT ![e] =
        IF attempt >= MaxRetries
        THEN [@ EXCEPT !.status = "EXHAUSTED", !.attempt = attempt]
        ELSE [@ EXCEPT !.status = "FAILED", !.attempt = attempt,
                       !.nextRetryAt = t + calculateRetryDelay(attempt)]]

(* UPDATE ... WHERE id = ?, whatever the row holds.                        *)
MarkCompleted(e) == execs' = [execs EXCEPT ![e].status = "COMPLETED"]
============================================================================
