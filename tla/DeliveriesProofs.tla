-------------------------- MODULE DeliveriesProofs --------------------------
(***************************************************************************)
(* What a reader of Deliveries may conclude, for any number of executions, *)
(* retries and losses, and so of the daemon, which implements it           *)
(* (DeliveriesAreImplemented).                                             *)
(***************************************************************************)
EXTENDS Deliveries, TLAPS

vars == <<stage, tries, made, losses>>

(* A delivery without an error is on record, about to be, or one of those  *)
(* that were lost; and an execution ends for a reason.                     *)
Accounted(e) ==
    /\ made[e] <= 1 + losses
    /\ stage[e] \notin {"made", "done"} => made[e] <= losses
    /\ made[e] <= tries[e]
    /\ stage[e] \in {"made", "done"} => made[e] > 0
    /\ stage[e] = "over" => tries[e] + 1 >= MaxRetries

Stages == {"none", "open", "running", "made", "missed", "lost", "done", "over"}

DInv ==
    /\ stage \in [ExecIds -> Stages]
    /\ tries \in [ExecIds -> Nat] /\ made \in [ExecIds -> Nat] /\ losses \in Nat
    /\ \A e \in ExecIds : Accounted(e)

(* A step of one execution leaves the others as they are.                  *)
LEMMA OneMoves ==
    ASSUME DInv, NEW e \in ExecIds, NEW to \in Stages,
           losses' = losses, stage' = [stage EXCEPT ![e] = to],
           tries' = tries \/ tries' = [tries EXCEPT ![e] = @ + 1],
           made' = made \/ made' = [made EXCEPT ![e] = @ + 1],
           Accounted(e)'
    PROVE  DInv'
<1>1. \A f \in ExecIds \ {e} :
        stage'[f] = stage[f] /\ tries'[f] = tries[f] /\ made'[f] = made[f]
  BY DEF DInv
<1>2. \A f \in ExecIds \ {e} : Accounted(f)'
  BY <1>1 DEF DInv, Accounted
<1>3. tries' \in [ExecIds -> Nat] /\ made' \in [ExecIds -> Nat] /\ stage' \in [ExecIds -> Stages]
  BY DEF DInv
<1> QED BY <1>2, <1>3 DEF DInv

LEMMA NextAccounted == DInv /\ [Next]_vars => DInv'
<1> SUFFICES ASSUME DInv, [Next]_vars PROVE DInv'
  OBVIOUS
<1>1. ASSUME NEW e \in ExecIds,
             Open(e) \/ Begin(e) \/ Finish(e) \/ TryAgain(e) \/ GiveUp(e)
      PROVE  DInv'
  <2>1. PICK to \in Stages :
          /\ stage' = [stage EXCEPT ![e] = to]
          /\ \/ stage[e] = "made" /\ to = "done"
             \/ stage[e] \notin {"made", "done"} /\ to \in {"open", "running", "over"}
          /\ to = "over" => tries[e] + 1 >= MaxRetries
    <3>1. CASE Open(e) \/ TryAgain(e)
      BY <3>1 DEF Open, TryAgain, Move, Stages
    <3>2. CASE Begin(e)
      BY <3>2 DEF Begin, Move, Stages
    <3>3. CASE Finish(e)
      BY <3>3 DEF Finish, Move, Stages
    <3>4. CASE GiveUp(e)
      BY <3>4 DEF GiveUp, Move, Stages
    <3> QED BY <1>1, <3>1, <3>2, <3>3, <3>4
  <2>2. UNCHANGED <<tries, made, losses>>
    BY <1>1 DEF Open, Begin, Finish, TryAgain, GiveUp, Move
  <2>3. Accounted(e)'
    BY <2>1, <2>2 DEF DInv, Accounted
  <2> QED BY <2>1, <2>2, <2>3, OneMoves
<1>2. ASSUME NEW e \in ExecIds, Make(e) PROVE DInv'
  <2>1. Accounted(e)'
    BY <1>2 DEF Make, Move, DInv, Accounted
  <2> QED BY <1>2, <2>1, OneMoves DEF Make, Move, Stages
<1>3. ASSUME NEW e \in ExecIds, Miss(e) PROVE DInv'
  <2>1. Accounted(e)'
    BY <1>3 DEF Miss, Move, DInv, Accounted
  <2> QED BY <1>3, <2>1, OneMoves DEF Miss, Move, Stages
<1>4. ASSUME NEW S \in SUBSET ExecIds, Lose(S) PROVE DInv'
  <2>1. /\ losses' = losses + 1 /\ tries' = tries /\ made' = made
        /\ \A e \in ExecIds : stage'[e] = stage[e] \/ stage'[e] = "lost"
        /\ stage' \in [ExecIds -> Stages]
    BY <1>4 DEF Lose, DInv, Stages
  <2>2. ASSUME NEW e \in ExecIds PROVE Accounted(e)'
    <3>1. made[e] \in Nat /\ losses \in Nat /\ Accounted(e)
      BY DEF DInv
    <3>2. made'[e] = made[e] /\ tries'[e] = tries[e] /\ losses' = losses + 1
      BY <2>1
    <3>3. stage[e] \in {"running", "made", "missed"} \/ stage'[e] = stage[e]
      BY <1>4 DEF Lose, DInv
    <3> QED BY <2>1, <3>1, <3>2, <3>3 DEF Accounted
  <2>3. losses' \in Nat /\ tries' \in [ExecIds -> Nat] /\ made' \in [ExecIds -> Nat]
    <3>1. losses \in Nat
      BY DEF DInv
    <3>2. losses' \in Nat
      BY <2>1, <3>1
    <3> QED BY <2>1, <3>2 DEF DInv
  <2> QED BY <2>1, <2>2, <2>3 DEF DInv
<1>5. ASSUME NEW S \in SUBSET ExecIds, Reopen(S) PROVE DInv'
  <2>1. /\ UNCHANGED <<tries, made, losses>>
        /\ \A e \in ExecIds :
             stage'[e] = stage[e] \/ (stage[e] = "lost" /\ stage'[e] = "open")
        /\ stage' \in [ExecIds -> Stages]
    BY <1>5 DEF Reopen, DInv, Stages
  <2>2. \A e \in ExecIds : Accounted(e)'
    BY <2>1 DEF DInv, Accounted
  <2> QED BY <2>1, <2>2 DEF DInv
<1>6. CASE UNCHANGED vars
  BY <1>6 DEF vars, DInv, Accounted
<1> QED BY <1>1, <1>2, <1>3, <1>4, <1>5, <1>6 DEF Next

LEMMA AccountsHold == Spec => []DInv
<1>1. Init => DInv
  BY DEF Init, DInv, Stages, Accounted
<1> QED BY <1>1, NextAccounted, PTL DEF Spec, vars

(* Nothing is delivered twice but for a loss, what is done was delivered,  *)
(* and what is over was tried as often as it is allowed to be, the one     *)
(* attempt an execution begins with counted (Deliveries).                  *)
THEOREM DeliveredOrUsedUp ==
    Spec => [](\A e \in ExecIds :
                  /\ made[e] <= 1 + losses
                  /\ stage[e] = "done" => made[e] > 0
                  /\ stage[e] = "over" => tries[e] + 1 >= MaxRetries)
<1>1. DInv => \A e \in ExecIds :
                  /\ made[e] <= 1 + losses
                  /\ stage[e] = "done" => made[e] > 0
                  /\ stage[e] = "over" => tries[e] + 1 >= MaxRetries
  BY DEF DInv, Accounted
<1> QED BY <1>1, AccountsHold, PTL

(* An execution that is done or over is never touched again (Deliveries).  *)
THEOREM EndsAreEnds ==
    Spec => [][\A e \in ExecIds : stage[e] \in {"done", "over"} =>
                  /\ stage'[e] = stage[e]
                  /\ tries'[e] = tries[e] /\ made'[e] = made[e]]_vars
<1>1. DInv /\ [Next]_vars => [\A e \in ExecIds : stage[e] \in {"done", "over"} =>
                  /\ stage'[e] = stage[e]
                  /\ tries'[e] = tries[e] /\ made'[e] = made[e]]_vars
  <2> SUFFICES ASSUME DInv, Next, NEW e \in ExecIds, stage[e] \in {"done", "over"}
               PROVE  stage'[e] = stage[e] /\ tries'[e] = tries[e] /\ made'[e] = made[e]
    BY DEF vars
  <2>1. ASSUME NEW f \in ExecIds,
               \/ Open(f) \/ Begin(f) \/ Make(f) \/ Miss(f)
               \/ Finish(f) \/ TryAgain(f) \/ GiveUp(f)
        PROVE  stage'[e] = stage[e] /\ tries'[e] = tries[e] /\ made'[e] = made[e]
    BY <2>1 DEF DInv, Open, Begin, Make, Miss, Finish, TryAgain, GiveUp, Move
  <2>2. ASSUME NEW S \in SUBSET ExecIds, Lose(S) \/ Reopen(S)
        PROVE  stage'[e] = stage[e] /\ tries'[e] = tries[e] /\ made'[e] = made[e]
    BY <2>2 DEF Lose, Reopen
  <2> QED BY <2>1, <2>2 DEF Next
<1> QED BY <1>1, AccountsHold, PTL DEF Spec, vars
=============================================================================
