---------------------------- MODULE MCAuditArchive ----------------------------
(***************************************************************************)
(* Model-checking instance of AuditArchive: ids are model values, the      *)
(* clock a few ticks.                                                      *)
(***************************************************************************)
EXTENDS AuditArchive, TLC

Symmetry == Permutations(Events) \cup Permutations(Batches)
=============================================================================
