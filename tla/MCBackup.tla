------------------------------ MODULE MCBackup ------------------------------
(***************************************************************************)
(* Instances of the storage for TLC.                                       *)
(***************************************************************************)
EXTENDS Backup, TLC

Identical == Permutations(Inodes) \cup Permutations(Passphrases)
=============================================================================
