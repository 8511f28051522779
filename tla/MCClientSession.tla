-------------------------- MODULE MCClientSession --------------------------
(***************************************************************************)
(* Model-checking instance of ClientSession: the first session can be      *)
(* refreshed once, the second cannot.  No symmetry: the run checks         *)
(* liveness.                                                               *)
(***************************************************************************)
EXTENDS ClientSession

CONSTANTS s1, s2

MCSessions == {s1, s2}
MCPairs == {<<s1, 1>>, <<s1, 2>>, <<s2, 1>>}
=============================================================================
