---------------------------- MODULE SwitchProofs ----------------------------
(***************************************************************************)
(* The daemon implements the dead man's switch, for every value of the     *)
(* constants: each step is a step of one switch, or no step of any.        *)
(***************************************************************************)
EXTENDS DaemonProofs

phases == [w \in Wills |-> Phase(w)]
dues   == [w \in Wills |-> wills[w].deadline]

LEMMA SwitchInit == Init => DMS!Init
BY DEF Init, WillInit, NoWill, SchedulerInit, DMS!Init, Phase

(* Steps that touch no will and do not stop the clock.                     *)
LEMMA SwitchStutter ==
    ASSUME UNCHANGED <<wills, fired, now>>
    PROVE  UNCHANGED <<phases, dues, now>>
BY DEF phases, dues, Phase

(* A step that changes what one switch shows, and no other.                *)
OnlySwitch(w) ==
    \A v \in Wills \ {w} :
        wills'[v].deadline = wills[v].deadline /\ Phase(v)' = Phase(v)

LEMMA SameSwitch ==
    ASSUME NEW w \in Wills, OnlySwitch(w), Phase(w)' = Phase(w),
           wills'[w].deadline = wills[w].deadline
    PROVE  phases' = phases /\ dues' = dues
BY DEF phases, dues, OnlySwitch

LEMMA OtherPhase ==
    ASSUME NEW w \in Wills, OnlySwitch(w)
    PROVE  phases' = [phases EXCEPT ![w] = Phase(w)']
BY DEF phases, OnlySwitch

LEMMA OtherDue ==
    ASSUME NEW w \in Wills, OnlySwitch(w)
    PROVE  dues' = [dues EXCEPT ![w] = dues'[w]] /\ dues'[w] = wills'[w].deadline
BY DEF dues, OnlySwitch
----------------------------------------------------------------------------
(* The steps of the switch, from what the daemon's step does to the row.   *)
LEMMA ArmStep ==
    ASSUME NEW w \in Wills, OnlySwitch(w), UNCHANGED now,
           Phase(w) = "off", Phase(w)' = "armed",
           wills'[w].deadline \in Nat, wills'[w].deadline >= now
    PROVE  DMS!Next
<1>1. DMS!SetDue(w)
  BY OtherDue DEF DMS!SetDue, dues
<1>2. DMS!Arm(w)
  BY <1>1, OtherPhase DEF DMS!Arm, phases
<1> QED BY <1>2 DEF DMS!Next

LEMMA RenewStep ==
    ASSUME NEW w \in Wills, OnlySwitch(w), UNCHANGED now, now \in Nat,
           Phase(w) = "armed", Phase(w)' = "armed",
           wills'[w].deadline \in Nat, wills'[w].deadline > now
    PROVE  DMS!Next
<1>1. DMS!SetDue(w)
  BY OtherDue DEF DMS!SetDue, dues
<1>2. phases' = phases
  BY DEF phases, OnlySwitch
<1>3. DMS!Renew(w)
  BY <1>1, <1>2, OtherDue DEF DMS!Renew, phases, dues
<1> QED BY <1>3 DEF DMS!Next

LEMMA PauseStep ==
    ASSUME NEW w \in Wills, OnlySwitch(w), UNCHANGED now,
           Phase(w) = "armed", Phase(w)' = "paused",
           wills'[w].deadline = wills[w].deadline
    PROVE  DMS!Next
<1>1. dues' = dues
  BY DEF dues, OnlySwitch
<1>2. DMS!Pause(w)
  BY <1>1, OtherPhase DEF DMS!Pause, phases, dues
<1> QED BY <1>2 DEF DMS!Next

LEMMA DisarmStep ==
    ASSUME NEW w \in Wills, OnlySwitch(w), UNCHANGED now,
           Phase(w) \in {"off", "armed", "paused"}, Phase(w)' = "disarmed",
           wills'[w].deadline = wills[w].deadline
    PROVE  DMS!Next
<1>1. dues' = dues
  BY DEF dues, OnlySwitch
<1>2. DMS!Disarm(w)
  BY <1>1, OtherPhase DEF DMS!Disarm, phases, dues
<1> QED BY <1>2 DEF DMS!Next

LEMMA FireStep ==
    ASSUME NEW w \in Wills, OnlySwitch(w), UNCHANGED now,
           Phase(w) = "armed", Phase(w)' = "fired",
           wills[w].deadline <= now, wills'[w].deadline = wills[w].deadline
    PROVE  DMS!Next
<1>1. dues' = dues
  BY DEF dues, OnlySwitch
<1>2. DMS!Fire(w)
  BY <1>1, OtherPhase DEF DMS!Fire, phases, dues
<1> QED BY <1>2 DEF DMS!Next
----------------------------------------------------------------------------
SwitchStep == DMS!Next \/ UNCHANGED <<phases, dues, now>>

LEMMA TriggerSwitch ==
    ASSUME TypeOK, FiredOnce, NEW w \in Wills, TriggerWill(w)
    PROVE  SwitchStep
<1>1. UNCHANGED now
  BY DEF TriggerWill, env
<1>2. CASE Due(w, now)
  <2>1. /\ fired' = fired \cup {w}
        /\ wills' = [wills EXCEPT ![w].status = "PENDING_TRIGGER"]
    BY <1>2 DEF TriggerWill, TransitionToPending
  <2>2. OnlySwitch(w)
    BY <2>1 DEF OnlySwitch, Phase, TypeOK, WillsOK
  <2>3. w \notin fired /\ Phase(w) = "armed"
    BY <1>2 DEF FiredOnce, RowsTellFired, Due, Phase
  <2>4. Phase(w)' = "fired" /\ wills'[w].deadline = wills[w].deadline
    BY <2>1 DEF Phase, TypeOK, WillsOK, WillRow
  <2>5. wills[w].deadline <= now
    BY <1>2 DEF Due
  <2> QED BY <1>1, <2>2, <2>3, <2>4, <2>5, FireStep DEF SwitchStep
<1>3. CASE ~Due(w, now)
  BY <1>1, <1>3, SwitchStutter DEF TriggerWill, TransitionToPending, SwitchStep
<1> QED BY <1>2, <1>3

LEMMA MarkSwitch ==
    ASSUME TypeOK, FiredOnce, NEW s \in Slots, MarkTriggered(s)
    PROVE  SwitchStep
<1>1. tasks[s].will \in Wills /\ tasks[s].will \in fired
  BY DEF MarkTriggered, At, TypeOK, TasksOK, FiredOnce, OnlyForFired, TriggerPc
<1>2. PICK w \in Wills : w = tasks[s].will
  BY <1>1
<1>3. UNCHANGED <<fired, now>>
  BY DEF MarkTriggered, env, history
<1>4. wills' = wills \/ wills' = [wills EXCEPT ![w].status = "TRIGGERED"]
  BY <1>2 DEF MarkTriggered, UpdateStatus
<1>5. OnlySwitch(w) /\ Phase(w)' = Phase(w) /\ wills'[w].deadline = wills[w].deadline
  BY <1>1, <1>2, <1>3, <1>4 DEF OnlySwitch, Phase, TypeOK, WillsOK, WillRow
<1> QED BY <1>3, <1>5, SameSwitch DEF SwitchStep

LEMMA CreateSwitch ==
    ASSUME TypeOK, FiredOnce, NEW w \in Wills, UNCHANGED <<fired, now>>,
           NEW interval, NEW content, CreateWill(w, interval, content)
    PROVE  SwitchStep
<1>1. /\ wills[w].status = "ABSENT" /\ wills[w].deadline = NULL
      /\ wills'[w].status = "DRAFT" /\ wills'[w].deadline = NULL
      /\ \A v \in Wills \ {w} : wills'[v] = wills[v]
  BY DEF CreateWill, Exists, NoWill, TypeOK, WillsOK, FiredOnce, RowsTellFired
<1>2. OnlySwitch(w) /\ Phase(w)' = Phase(w)
  BY <1>1 DEF OnlySwitch, Phase, FiredOnce, RowsTellFired
<1> QED BY <1>1, <1>2, SameSwitch DEF SwitchStep

LEMMA ActivateSwitch ==
    ASSUME TypeOK, FiredOnce, NEW w \in Wills, HandleActivateWill(w)
    PROVE  SwitchStep
<1>1. UNCHANGED <<fired, now>>
  BY DEF HandleActivateWill, env, schedVars, history
<1>2. CASE wills[w].status = "DRAFT"
  <2>1. /\ wills'[w].status = "ACTIVE" /\ wills'[w].deadline = now
        /\ \A v \in Wills \ {w} : wills'[v] = wills[v]
    BY <1>2 DEF HandleActivateWill, TypeOK, WillsOK, WillRow
  <2>2. OnlySwitch(w) /\ Phase(w) = "off" /\ Phase(w)' = "armed"
    BY <1>1, <1>2, <2>1 DEF OnlySwitch, Phase, FiredOnce, RowsTellFired
  <2> QED BY <1>1, <2>1, <2>2, ArmStep DEF SwitchStep, TypeOK, EnvOK
<1>3. CASE wills[w].status # "DRAFT"
  BY <1>1, <1>3, SwitchStutter DEF HandleActivateWill, SwitchStep
<1> QED BY <1>2, <1>3

LEMMA CheckInSwitch ==
    ASSUME TypeOK, FiredOnce, NEW w \in Wills, UNCHANGED <<fired, now>>, CheckIn(w, now)
    PROVE  SwitchStep
<1>1. CASE wills[w].status = "ACTIVE"
  <2>1. wills[w].interval \in Nat /\ wills[w].interval > 0
    <3>1. wills[w].interval \in Intervals
      BY <1>1 DEF TypeOK, WillsOK, Exists
    <3>2. wills[w].interval \in Nat /\ wills[w].interval # 0
      BY <3>1, WillAssumption
    <3> QED BY <3>2
  <2>2. /\ wills'[w].status = "ACTIVE" /\ wills'[w].deadline = now + wills[w].interval
        /\ \A v \in Wills \ {w} : wills'[v] = wills[v]
    BY <1>1 DEF CheckIn, TypeOK, WillsOK, WillRow
  <2>3. OnlySwitch(w) /\ Phase(w) = "armed" /\ Phase(w)' = "armed"
    BY <1>1, <2>2 DEF OnlySwitch, Phase, FiredOnce, RowsTellFired
  <2>4. now \in Nat /\ wills'[w].deadline \in Nat /\ wills'[w].deadline > now
    BY <2>1, <2>2 DEF TypeOK, EnvOK
  <2> QED BY <2>3, <2>4, RenewStep DEF SwitchStep
<1>2. CASE wills[w].status # "ACTIVE"
  BY <1>2, SwitchStutter DEF CheckIn, SwitchStep
<1> QED BY <1>1, <1>2

(* A pause keeps an ACTIVE will from firing.                               *)
LEMMA PauseSwitch ==
    ASSUME TypeOK, FiredOnce, NEW w \in Wills, UNCHANGED <<fired, now>>,
           wills[w].status = "ACTIVE", wills' = [wills EXCEPT ![w].status = "PAUSED"]
    PROVE  SwitchStep
<1>1. /\ wills'[w].status = "PAUSED" /\ wills'[w].deadline = wills[w].deadline
      /\ \A v \in Wills \ {w} : wills'[v] = wills[v]
  BY DEF TypeOK, WillsOK, WillRow
<1>2. OnlySwitch(w)
  BY <1>1 DEF OnlySwitch, Phase
<1>3. Phase(w) = "armed" /\ Phase(w)' = "paused"
  BY <1>1 DEF Phase, FiredOnce, RowsTellFired
<1> QED BY <1>1, <1>2, <1>3, PauseStep DEF SwitchStep

(* An archive takes a will that has not fired out of service.              *)
LEMMA ArchiveSwitch ==
    ASSUME TypeOK, FiredOnce, NEW w \in Wills, UNCHANGED <<fired, now>>,
           wills[w].status # "ABSENT", wills' = [wills EXCEPT ![w].status = "ARCHIVED"]
    PROVE  SwitchStep
<1>1. /\ wills'[w].status = "ARCHIVED" /\ wills'[w].deadline = wills[w].deadline
      /\ \A v \in Wills \ {w} : wills'[v] = wills[v]
  BY DEF TypeOK, WillsOK, WillRow
<1>2. OnlySwitch(w)
  BY <1>1 DEF OnlySwitch, Phase
<1>3. CASE w \in fired \/ Phase(w) = "disarmed"
  BY <1>1, <1>2, <1>3, SameSwitch DEF Phase, SwitchStep
<1>4. CASE w \notin fired /\ Phase(w) # "disarmed"
  <2>1. Phase(w) \in {"off", "armed", "paused"} /\ Phase(w)' = "disarmed"
    BY <1>1, <1>4 DEF Phase
  <2> QED BY <1>1, <1>2, <2>1, DisarmStep DEF SwitchStep
<1> QED BY <1>3, <1>4
----------------------------------------------------------------------------
LEMMA SchedulerSwitch ==
    ASSUME TypeOK, FiredOnce, SchedulerStep
    PROVE  SwitchStep
<1>1. CASE LoopProgress \/ LoopFault
  <2>1. ASSUME ~ \E w \in Wills : TriggerWill(w)
        PROVE  UNCHANGED <<wills, fired, now>>
    BY <1>1, <2>1 DEF LoopProgress, LoopFault, BeginTick, ResetStale, ScanOverdue,
       SpawnProcessWill, QueryRetries, DispatchRetry, env, history
  <2> QED BY <2>1, TriggerSwitch, SwitchStutter DEF SwitchStep
<1>2. ASSUME NEW s \in Slots, TaskProgress(s) \/ TaskFault(s)
      PROVE  SwitchStep
  <2>1. ASSUME ~MarkTriggered(s)
        PROVE  UNCHANGED <<wills, fired, now>>
    BY <1>2, <2>1 DEF TaskProgress, TaskFault, ListActions, QueueAction, StartAction,
       LoadExecution, PrepareDelivery, ClaimExecution, ClaimFrom, Execute, RecordFailure,
       RecordSuccess, Release, env, history
  <2> QED BY <2>1, MarkSwitch, SwitchStutter DEF SwitchStep
<1> QED BY <1>1, <1>2 DEF SchedulerStep

LEMMA OwnerSwitch ==
    ASSUME TypeOK, FiredOnce, OwnerStep
    PROVE  SwitchStep
<1>1. UNCHANGED <<fired, now>>
  BY DEF OwnerStep, HandleUnlock, CliCreateWill, HandleCreateWill, HandleActivateWill,
         HandlePauseWill, HandleCheckinWill, HandleArchiveWill, HandleAddAction,
         env, schedVars, history
<1>2. CASE UNCHANGED wills
  BY <1>1, <1>2, SwitchStutter DEF SwitchStep
<1>3. ASSUME NEW w \in Wills, CliCreateWill(w) \/ HandleCreateWill(w), ~ UNCHANGED wills
      PROVE  SwitchStep
  BY <1>1, <1>3, CreateSwitch DEF CliCreateWill, HandleCreateWill
<1>4. ASSUME NEW w \in Wills, HandlePauseWill(w), ~ UNCHANGED wills
      PROVE  SwitchStep
  BY <1>1, <1>4, PauseSwitch DEF HandlePauseWill, Transition
<1>5. ASSUME NEW w \in Wills, HandleArchiveWill(w), ~ UNCHANGED wills
      PROVE  SwitchStep
  BY <1>1, <1>5, ArchiveSwitch DEF HandleArchiveWill, Archive, UpdateStatus, Exists
<1>6. ASSUME NEW w \in Wills, HandleActivateWill(w) \/ HandleCheckinWill(w)
      PROVE  SwitchStep
  BY <1>1, <1>6, ActivateSwitch, CheckInSwitch DEF HandleCheckinWill
<1>7. HandleUnlock \/ (\E a \in Actions : HandleAddAction(a)) => UNCHANGED wills
  BY DEF HandleUnlock, HandleAddAction
<1> QED BY <1>2, <1>3, <1>4, <1>5, <1>6, <1>7 DEF OwnerStep

LEMMA NextSwitch ==
    ASSUME TypeOK, FiredOnce, [Next]_vars
    PROVE  SwitchStep
<1>1. CASE ClockTick
  <2>1. DMS!Pass
    BY <1>1 DEF ClockTick, DMS!Pass, schedVars, history, Phase
  <2> QED BY <2>1 DEF SwitchStep, DMS!Next
<1>2. CASE Restart \/ UNCHANGED vars
  <2>1. UNCHANGED <<wills, fired, now>>
    BY <1>2 DEF Restart, vars, env, schedVars, history
  <2> QED BY <2>1, SwitchStutter DEF SwitchStep
<1> QED BY <1>1, <1>2, SchedulerSwitch, OwnerSwitch DEF Next

(* A will fires at most once, only while it is armed and past its time,    *)
(* and never while it is paused or after it was archived: the daemon, for  *)
(* any number of wills, actions and workers, implements the abstract       *)
(* switch.                                                                 *)
THEOREM DaemonIsASwitch == Spec => ImplementsSwitch
<1>1. TypeOK /\ FiredOnce /\ [Next]_vars
        => [DMS!Next]_<<[w \in Wills |-> Phase(w)], [w \in Wills |-> wills[w].deadline], now>>
  BY NextSwitch DEF SwitchStep, phases, dues
<1> QED BY <1>1, SwitchInit, FiredOnceHolds, PTL DEF Spec, ImplementsSwitch, DMS!Spec
=============================================================================
