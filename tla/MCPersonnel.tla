---------------------------- MODULE MCPersonnel ----------------------------
(***************************************************************************)
(* Model-checking instance of Personnel: identities are model values.      *)
(***************************************************************************)
EXTENDS PersonnelHistory, TLC

Symmetry == Permutations(Employees) \cup Permutations(Users) \cup Permutations(Emails)
              \cup Permutations(Invitations) \cup Permutations(Codes)
              \cup Permutations(Workers)
=============================================================================
