---------------------------- MODULE WillService ----------------------------
(***************************************************************************)
(* internal/will: the `wills` table and the statements the program runs on *)
(* it.  A row is the part of a will the trigger depends on; its name, the  *)
(* timestamps nobody reads back and the ciphertext are abstracted (content *)
(* is TRUE when the will has an encrypted payload).  Every statement runs  *)
(* alone on the database, so every operator below is one atomic step.      *)
(***************************************************************************)
EXTENDS Naturals, FiniteSets

CONSTANTS
    Wills,      \* identifiers a will can be given
    Intervals,  \* check-in intervals an owner chooses (check_in_interval_sec)
    NULL        \* SQL NULL

ASSUME WillAssumption ==
    /\ Intervals \subseteq Nat \ {0}   \* CONSTRAINT valid_interval
    /\ NULL \notin Nat

VARIABLE wills   \* the table: the row of each identifier

WillStatus == {"ABSENT", "DRAFT", "ACTIVE", "PAUSED",
               "PENDING_TRIGGER", "TRIGGERED", "ARCHIVED"}

WillRow == [status      : WillStatus,
            interval    : Intervals \cup {NULL},
            content     : BOOLEAN,
            lastCheckIn : Nat \cup {NULL},
            deadline    : Nat \cup {NULL}]

NoWill == [status |-> "ABSENT", interval |-> NULL, content |-> FALSE,
           lastCheckIn |-> NULL, deadline |-> NULL]

Exists(w) == wills[w].status # "ABSENT"

(* Mutation: a will whose processing was skipped is looked for too.        *)
DueOrPending(w, t) ==
    /\ wills[w].status \in {"ACTIVE", "PENDING_TRIGGER"}
    /\ wills[w].deadline # NULL
    /\ wills[w].deadline <= t

(* Rows WHERE status = 'ACTIVE' AND next_check_in_deadline <= t; the       *)
(* comparison is not true of a NULL deadline.                              *)
Due(w, t) ==
    /\ wills[w].status = "ACTIVE"
    /\ wills[w].deadline # NULL
    /\ wills[w].deadline <= t

GetOverdue(t) == {w \in Wills : Due(w, t)}
----------------------------------------------------------------------------
WillInit == wills = [w \in Wills |-> NoWill]

CreateWill(w, interval, content) ==
    /\ ~Exists(w)
    /\ wills' = [wills EXCEPT ![w] =
           [NoWill EXCEPT !.status = "DRAFT", !.interval = interval, !.content = content]]

(* UPDATE ... WHERE id = ?, whatever the row holds.                        *)
UpdateStatus(w, status) ==
    wills' = IF Exists(w) THEN [wills EXCEPT ![w].status = status] ELSE wills

Archive(w) == UpdateStatus(w, "ARCHIVED")

ValidTransition ==
    { <<"DRAFT", "ACTIVE">>, <<"ACTIVE", "PAUSED">>, <<"ACTIVE", "PENDING_TRIGGER">>,
      <<"PAUSED", "ACTIVE">>, <<"PENDING_TRIGGER", "TRIGGERED">> }

(* Compare-and-swap along an edge of the lifecycle.                        *)
Transition(w, from, to) ==
    wills' = IF <<from, to>> \in ValidTransition /\ wills[w].status = from
             THEN [wills EXCEPT ![w].status = to]
             ELSE wills

(* The scheduler's compare-and-swap: the deadline is tested again.         *)
TransitionToPending(w, t) ==
    wills' = IF Due(w, t) THEN [wills EXCEPT ![w].status = "PENDING_TRIGGER"] ELSE wills

(* Mutation: the status is not asked for.                                  *)
CheckInAnyStatus(w, t) ==
    /\ Exists(w)
    /\ wills' = [wills EXCEPT ![w].lastCheckIn = t, ![w].deadline = t + wills[w].interval]

CheckIn(w, t) ==
    wills' = IF wills[w].status = "ACTIVE"
             THEN [wills EXCEPT ![w].lastCheckIn = t, ![w].deadline = t + wills[w].interval]
             ELSE wills
============================================================================
