------------------------------- MODULE Daemon -------------------------------
(***************************************************************************)
(* cmd/digitalwilld: one process with its scheduler and its HTTP handlers, *)
(* the database it shares with the `dw` command line, the clock, and the   *)
(* end and restart of the process.  A handler is one step: each makes one  *)
(* statement that changes the tables this module keeps.                    *)
(***************************************************************************)
EXTENDS Scheduler

CONSTANTS
    MaxTime,     \* bound on the clock
    MaxCrashes   \* bound on the restarts of the process

ASSUME DaemonAssumption ==
    /\ MaxTime \in Nat
    /\ MaxCrashes \in Nat

Init ==
    /\ WillInit /\ ActionInit /\ SchedulerInit
    /\ now = 0 /\ engine = "locked"
    /\ meta = FALSE /\ crashes = 0
----------------------------------------------------------------------------
(* dw will create: a process of its own, with its own connection and its   *)
(* own engine; the first call makes the keys, and makes them before the    *)
(* will, which may be refused.                                             *)
CliCreateWill(w) ==
    /\ meta' = TRUE
    /\ \/ \E interval \in Intervals, content \in BOOLEAN : CreateWill(w, interval, content)
       \/ UNCHANGED wills
    /\ UNCHANGED <<actions, execs, now, engine, schedVars, crashes>>

(* POST /wills                                                             *)
HandleCreateWill(w) ==
    /\ ConnFree /\ meta /\ engine = "open"
    /\ \E interval \in Intervals, content \in BOOLEAN : CreateWill(w, interval, content)
    /\ UNCHANGED <<actions, execs, env, schedVars>>

(* POST /wills/{id}/actions: nothing asks for the status of the will.      *)
HandleAddAction(a) ==
    /\ ConnFree /\ meta /\ engine = "open"
    /\ CreateAction(a)
    /\ UNCHANGED <<wills, execs, env, schedVars>>

(* Mutation: the status is not asked for.                                  *)
ActivateAnyStatus(w) ==
    /\ ConnFree /\ Exists(w)
    /\ wills' = [wills EXCEPT ![w].status = "ACTIVE", ![w].deadline = now]
    /\ UNCHANGED <<actions, execs, env, schedVars>>

(* POST /wills/{id}/activate: the deadline is now, not one interval away.  *)
HandleActivateWill(w) ==
    /\ ConnFree
    /\ wills' = IF wills[w].status = "DRAFT"
                THEN [wills EXCEPT ![w].status = "ACTIVE", ![w].deadline = now]
                ELSE wills
    /\ UNCHANGED <<actions, execs, env, schedVars>>

(* POST /wills/{id}/pause                                                  *)
HandlePauseWill(w) ==
    /\ ConnFree
    /\ Transition(w, "ACTIVE", "PAUSED")
    /\ UNCHANGED <<actions, execs, env, schedVars>>

(* POST /wills/{id}/checkin                                                *)
HandleCheckinWill(w) ==
    /\ ConnFree
    /\ CheckIn(w, now)
    /\ UNCHANGED <<actions, execs, env, schedVars>>

(* DELETE /wills/{id}                                                      *)
HandleArchiveWill(w) ==
    /\ ConnFree
    /\ Archive(w)
    /\ UNCHANGED <<actions, execs, env, schedVars>>

(* POST /unlock: the first passphrase given is kept, right or wrong.       *)
HandleUnlock ==
    /\ ConnFree /\ meta /\ engine = "locked"
    /\ engine' \in {"open", "bad"}
    /\ UNCHANGED <<wills, actions, execs, now, schedVars, meta, crashes>>

ClockTick ==
    /\ now < MaxTime
    /\ now' = now + 1
    /\ UNCHANGED <<wills, actions, execs, engine, schedVars, meta, crashes>>

(* The process ends, at a signal, on an error or because it is killed, and *)
(* is started again: the database is what is left of it.                   *)
Restart ==
    /\ crashes < MaxCrashes
    /\ crashes' = crashes + 1
    /\ engine' = "locked"
    /\ loop' = LoopAtBoot
    /\ tasks' = [s \in Slots |-> NoTask]
    /\ UNCHANGED <<wills, actions, execs, now, meta, faults, history>>
----------------------------------------------------------------------------
OwnerStep ==
    \/ HandleUnlock
    \/ \E w \in Wills : \/ CliCreateWill(w) \/ HandleCreateWill(w)
                        \/ HandleActivateWill(w) \/ HandlePauseWill(w)
                        \/ HandleCheckinWill(w) \/ HandleArchiveWill(w)
    \/ \E a \in Actions : HandleAddAction(a)

Next ==
    \/ SchedulerStep
    \/ OwnerStep
    \/ ClockTick
    \/ Restart

Spec == Init /\ [][Next]_vars

(* The Go runtime runs every goroutine that can run and the ticker keeps   *)
(* firing.  A goroutine that waits for the connection gets it in its turn, *)
(* however often processRetries takes it (the pool of database/sql hands a *)
(* released connection to a waiting request), hence strong fairness.  A    *)
(* delivery may never come to its end: the SMTP client has no timeout.     *)
(* Nothing is asked of the owner or of the clock.                          *)
FairSpec ==
    /\ Spec
    /\ WF_vars(LoopProgress)
    /\ \A s \in Slots : SF_vars(TaskProgress(s) /\ tasks[s].pc # "execute")

(* No delivery outlives the age at which tick takes it for abandoned: a    *)
(* webhook has 30 seconds and a script 30 unless its owner says otherwise, *)
(* but the SMTP client has no timeout.  The clock is what is held to it.   *)
Prompt ==
    \A s \in Slots : tasks[s].pc \in DeliveryPc => ~ Stale(tasks[s].exec)

PromptNext ==
    \/ SchedulerStep
    \/ OwnerStep
    \/ ClockTick /\ Prompt'
    \/ Restart

PromptSpec == Init /\ [][PromptNext]_vars
----------------------------------------------------------------------------
WillsOK ==
    /\ wills \in [Wills -> WillRow]
    /\ \A w \in Wills : Exists(w) => wills[w].interval \in Intervals

ExecsOK ==
    /\ actions \subseteq Actions
    /\ execs \in [ExecIds -> ExecRow]
    /\ \A e \in ExecIds : execs[e].status # "ABSENT" => execs[e].action \in Actions
    /\ \A e \in ExecIds : execs[e].status = "IN_PROGRESS" => execs[e].startedAt \in Nat

LoopOK ==
    /\ loop \in Loop
    /\ loop.pc = "spawn" => loop.will \in Wills
    /\ \A e \in loop.batch : execs[e].status # "ABSENT"

TasksOK ==
    /\ tasks \in [Slots -> Task]
    /\ \A s \in Slots :
         /\ tasks[s].pc \in TriggerPc => tasks[s].will \in Wills
         /\ tasks[s].pc \in RetryPc \cup {"start"} =>
              tasks[s].exec \in ExecIds /\ execs[tasks[s].exec].status # "ABSENT"

EnvOK ==
    /\ now \in Nat /\ faults \in Nat /\ crashes \in Nat
    /\ engine \in {"locked", "open", "bad"}
    /\ meta \in BOOLEAN

HistoryOK ==
    /\ fired \subseteq Wills
    /\ tried \in [ExecIds -> Nat]
    /\ sent \in [ExecIds -> Nat]

(* Every variable keeps its type, and a goroutine the operands of its pc:  *)
(* the will whose actions it lists, a recorded execution to work on.       *)
TypeOK == WillsOK /\ ExecsOK /\ LoopOK /\ TasksOK /\ EnvOK /\ HistoryOK
============================================================================
