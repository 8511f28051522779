------------------------- MODULE MCSessionAuthority -------------------------
(***************************************************************************)
(* Model-checking instance of SessionAuthority: identities are model       *)
(* values, and the specification treats those of one kind alike.           *)
(***************************************************************************)
EXTENDS SessionAuthority, TLC

Symmetry == Permutations(Users) \cup Permutations(Sessions)
              \cup Permutations(Tokens) \cup Permutations(Workers)
=============================================================================
