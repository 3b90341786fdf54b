--------------------------- MODULE DeadMansSwitch ---------------------------
(***************************************************************************)
(* What the owner of a will is promised, with no table, goroutine or       *)
(* process in sight: a switch per will that is armed once, renewed by      *)
(* check-ins, can be paused and resumed, can be taken out of service, and  *)
(* fires at most once, when it is armed and its time has come.             *)
(***************************************************************************)
EXTENDS Naturals

CONSTANTS Wills, NULL

VARIABLES
    phase,   \* "off", "armed", "paused", "disarmed" or "fired"
    due,     \* the time an armed switch fires at
    clock

Init ==
    /\ phase = [w \in Wills |-> "off"]
    /\ due = [w \in Wills |-> NULL]
    /\ clock = 0

(* due[w] becomes a time not yet past, and no other switch changes.        *)
SetDue(w) ==
    /\ due' = [due EXCEPT ![w] = due'[w]]
    /\ due'[w] \in Nat
    /\ due'[w] >= clock

Arm(w) ==
    /\ phase[w] = "off"
    /\ phase' = [phase EXCEPT ![w] = "armed"]
    /\ SetDue(w)
    /\ UNCHANGED clock

Renew(w) ==
    /\ phase[w] = "armed"
    /\ SetDue(w)
    /\ due'[w] > clock
    /\ UNCHANGED <<phase, clock>>

Pause(w) ==
    /\ phase[w] = "armed"
    /\ phase' = [phase EXCEPT ![w] = "paused"]
    /\ UNCHANGED <<due, clock>>

(* A switch that was paused is armed again for a time not yet past.        *)
Resume(w) ==
    /\ phase[w] = "paused"
    /\ phase' = [phase EXCEPT ![w] = "armed"]
    /\ SetDue(w)
    /\ UNCHANGED clock

Disarm(w) ==
    /\ phase[w] \in {"off", "armed", "paused"}
    /\ phase' = [phase EXCEPT ![w] = "disarmed"]
    /\ UNCHANGED <<due, clock>>

Fire(w) ==
    /\ phase[w] = "armed"
    /\ due[w] <= clock
    /\ phase' = [phase EXCEPT ![w] = "fired"]
    /\ UNCHANGED <<due, clock>>

Pass == clock' = clock + 1 /\ UNCHANGED <<phase, due>>

Next ==
    \/ Pass
    \/ \E w \in Wills : Arm(w) \/ Renew(w) \/ Pause(w) \/ Resume(w) \/ Disarm(w) \/ Fire(w)

Spec == Init /\ [][Next]_<<phase, due, clock>>
=============================================================================
