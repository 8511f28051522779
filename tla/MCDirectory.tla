----------------------------- MODULE MCDirectory -----------------------------
(***************************************************************************)
(* Model-checking instance of Directory: identities are model values.      *)
(***************************************************************************)
EXTENDS DirectoryHistory, TLC

Symmetry == Permutations(Departments) \cup Permutations(Positions)
              \cup Permutations(Employees) \cup Permutations(Workers)
=============================================================================
