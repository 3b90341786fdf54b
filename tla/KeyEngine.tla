----------------------------- MODULE KeyEngine -----------------------------
(***************************************************************************)
(* What the crypto engine of the daemon is to the rest of it: locked until *)
(* the first passphrase is given, then open or, with a wrong one, bad,     *)
(* until the process is started again; and there is nothing to unlock      *)
(* before a first key was made.                                            *)
(***************************************************************************)
VARIABLES
    engine,  \* "locked", "open" or "bad"
    meta     \* has a key been made?

Init == engine = "locked" /\ meta = FALSE

MakeKey ==
    /\ meta' = TRUE
    /\ UNCHANGED engine

Unlock ==
    /\ meta
    /\ engine = "locked"
    /\ engine' \in {"open", "bad"}
    /\ UNCHANGED meta

Restart ==
    /\ engine' = "locked"
    /\ UNCHANGED meta

Next == MakeKey \/ Unlock \/ Restart

Spec == Init /\ [][Next]_<<engine, meta>>
=============================================================================
