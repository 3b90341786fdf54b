----------------------------- MODULE Deliveries -----------------------------
(***************************************************************************)
(* What becomes of an execution, with no row, goroutine or retry in sight: *)
(* it is delivered by one party at a time, a delivery that failed may be   *)
(* followed by another, one that did not is the last, and the only way to  *)
(* deliver twice is to lose the record of a delivery.                      *)
(***************************************************************************)
EXTENDS Naturals

CONSTANTS
    ExecIds,
    MaxRetries   \* deliveries an execution is allowed

VARIABLES
    stage,   \* "none", "open", "running", "made", "missed", "lost", "done" or "over"
    tries,   \* deliveries of each execution that have ended
    made,    \* those without an error
    losses   \* records and claims that may have been lost so far

Init ==
    /\ stage = [e \in ExecIds |-> "none"]
    /\ tries = [e \in ExecIds |-> 0]
    /\ made = [e \in ExecIds |-> 0]
    /\ losses = 0

Move(e, from, to) ==
    /\ stage[e] = from
    /\ stage' = [stage EXCEPT ![e] = to]
    /\ UNCHANGED losses

Open(e) == Move(e, "none", "open") /\ UNCHANGED <<tries, made>>

Begin(e) == Move(e, "open", "running") /\ UNCHANGED <<tries, made>>

Make(e) ==
    /\ Move(e, "running", "made")
    /\ tries' = [tries EXCEPT ![e] = @ + 1]
    /\ made' = [made EXCEPT ![e] = @ + 1]

Miss(e) ==
    /\ Move(e, "running", "missed")
    /\ tries' = [tries EXCEPT ![e] = @ + 1]
    /\ UNCHANGED made

Finish(e) == Move(e, "made", "done") /\ UNCHANGED <<tries, made>>

TryAgain(e) == Move(e, "missed", "open") /\ UNCHANGED <<tries, made>>

(* An execution is given up when one more delivery would be the last one   *)
(* it is allowed; where that is the first, it may be given up untried.     *)
GiveUp(e) ==
    /\ \/ Move(e, "missed", "over")
       \/ Move(e, "open", "over") /\ MaxRetries <= 1
    /\ tries[e] + 1 >= MaxRetries
    /\ UNCHANGED <<tries, made>>

(* Whoever delivers the executions of S is cut off: none knows any more    *)
(* how far its delivery had come.                                          *)
Lose(S) ==
    /\ \A e \in S : stage[e] \in {"running", "made", "missed"}
    /\ stage' = [e \in ExecIds |-> IF e \in S THEN "lost" ELSE stage[e]]
    /\ losses' = losses + 1
    /\ UNCHANGED <<tries, made>>

(* Deliveries that were cut off are taken for deliveries that failed.      *)
Reopen(S) ==
    /\ \A e \in S : stage[e] = "lost"
    /\ stage' = [e \in ExecIds |-> IF e \in S THEN "open" ELSE stage[e]]
    /\ UNCHANGED <<tries, made, losses>>

Next ==
    \/ \E e \in ExecIds : \/ Open(e) \/ Begin(e) \/ Make(e) \/ Miss(e)
                          \/ Finish(e) \/ TryAgain(e) \/ GiveUp(e)
    \/ \E S \in SUBSET ExecIds : Lose(S) \/ Reopen(S)

Spec == Init /\ [][Next]_<<stage, tries, made, losses>>
=============================================================================
