-------------------------- MODULE MCAttachmentScreen --------------------------
(***************************************************************************)
(* Model-checking instance of AttachmentScreen: pages of one row, so that  *)
(* every change moves rows between pages.                                  *)
(***************************************************************************)
EXTENDS AttachmentScreen
=============================================================================
