-------------------------- MODULE DaemonInvariants --------------------------
(***************************************************************************)
(* Why the daemon keeps its promises: what every step preserves.           *)
(***************************************************************************)
EXTENDS DaemonProperties

Recorded(e) == execs[e].status # "ABSENT"

(* The place of processWill for w; it works on w until it releases it.     *)
Processes(s, w) == tasks[s].pc \in TriggerPc /\ tasks[s].will = w

(* The row of a will tells whether the will has fired, and its deadline    *)
(* tells when it was last checked in.                                      *)
RowsTellFired ==
    \A w \in Wills :
        /\ wills[w].status \in {"PENDING_TRIGGER", "TRIGGERED"} => w \in fired
        /\ w \in fired =>
             /\ wills[w].status \in {"PENDING_TRIGGER", "TRIGGERED", "ARCHIVED"}
             /\ wills[w].deadline \in Nat
             /\ wills[w].deadline <= now
        /\ wills[w].status \in {"ABSENT", "DRAFT"} =>
             wills[w].lastCheckIn = NULL /\ wills[w].deadline = NULL
        /\ wills[w].lastCheckIn # NULL =>
             wills[w].deadline = wills[w].lastCheckIn + wills[w].interval

(* Whatever is done for a will is done after it fired.                     *)
OnlyForFired ==
    /\ \A e \in ExecIds : Recorded(e) => WillOf(e) \in fired
    /\ \A s \in Slots : tasks[s].pc \in TriggerPc => tasks[s].will \in fired
    /\ loop.pc = "spawn" => loop.will \in fired

(* A will about to be given a goroutine, or given one that has not listed  *)
(* its actions yet, is untouched; no will is given two.                    *)
OneProcessor ==
    /\ loop.pc = "spawn" =>
         /\ \A s \in Slots : ~Processes(s, loop.will)
         /\ \A e \in ExecIds : Recorded(e) => WillOf(e) # loop.will
    /\ \A s \in Slots : tasks[s].pc = "list" =>
         \A e \in ExecIds : Recorded(e) => WillOf(e) # tasks[s].will
    /\ \A s, t \in Slots : \A w \in Wills : Processes(s, w) /\ Processes(t, w) => s = t

(* What processWill still has to queue is of its will and not queued yet.  *)
TodoIsFresh ==
    \A s \in Slots : tasks[s].pc \in {"queue", "start"} =>
        \A a \in tasks[s].todo :
            /\ ActionWill[a] = tasks[s].will
            /\ \A e \in ExecIds : Recorded(e) => execs[e].action # a

(* An action that was queued was queued once.                              *)
OneRowPerAction ==
    \A e, f \in ExecIds :
        Recorded(e) /\ Recorded(f) /\ execs[e].action = execs[f].action => e = f

(* A will fires once, is processed once, and its actions are queued once:  *)
(* the inductive invariant behind NoEarlyTrigger, NothingBeforeTrigger and *)
(* SingleExecution (tick, processWill).                                    *)
FiredOnce ==
    RowsTellFired /\ OnlyForFired /\ OneProcessor /\ TodoIsFresh /\ OneRowPerAction
=============================================================================
