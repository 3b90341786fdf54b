----------------------------- MODULE MCAuditLog -----------------------------
(***************************************************************************)
(* Instances of the audit log for TLC.                                     *)
(***************************************************************************)
EXTENDS AuditLog, TLC

Identical == Permutations(Callers) \cup Permutations(Texts) \cup Permutations(Splits)
=============================================================================
