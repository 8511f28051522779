------------------------- MODULE MCAttachmentStore -------------------------
(***************************************************************************)
(* Model-checking instance of AttachmentStore: identities are model        *)
(* values; one set of permissions is held by no group.                     *)
(***************************************************************************)
EXTENDS AttachmentStore, TLC

Symmetry == Permutations(People) \cup Permutations(Ids) \cup Permutations(Contents)
              \cup Permutations(Workers)

MCPermissionSets == {{}, {"change"}, {"add", "change"}}
=============================================================================
