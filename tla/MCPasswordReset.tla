-------------------------- MODULE MCPasswordReset --------------------------
(***************************************************************************)
(* Model-checking instance of PasswordReset: identities are model values.  *)
(***************************************************************************)
EXTENDS PasswordReset, TLC

Symmetry == Permutations(Users) \cup Permutations(Codes) \cup Permutations(Workers)
=============================================================================
