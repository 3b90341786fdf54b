------------------------------ MODULE MCDaemon ------------------------------
(***************************************************************************)
(* Instances of the daemon for TLC.                                        *)
(***************************************************************************)
EXTENDS DaemonInvariants, TLC

CONSTANTS w1, a1

AllOfFirstWill == [a \in Actions |-> w1]

(* a1 stands after a2, so the order of positions is not the order of names. *)
MCPosition == [a \in Actions |-> IF a = a1 THEN 1 ELSE 0]

(* 0, 5 and 30 minutes, then 24 hours: what matters is which are zero and   *)
(* that the others grow.                                                    *)
MCDelays == <<0, 1, 2>>

(* Only the first is zero: no retry is due again at the time it failed.    *)
MCShortDelays == <<0, 1, 1>>

Identical == Permutations(Slots) \cup Permutations(ExecIds)
=============================================================================
