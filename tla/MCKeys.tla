------------------------------- MODULE MCKeys -------------------------------
(***************************************************************************)
(* Instances of the keys for TLC.                                          *)
(***************************************************************************)
EXTENDS Keys, TLC

Identical ==
    Permutations(Metas) \cup Permutations(Passphrases) \cup Permutations(Items) \cup
    Permutations(Clis) \cup Permutations(Requests) \cup Permutations(Tokens)
=============================================================================
