--------------------------- MODULE DirectoryHistory ---------------------------
(***************************************************************************)
(* Directory with a history variable, which no action reads: overlapped is *)
(* TRUE once two requests were in the middle of moving a department under  *)
(* a parent (directory_cycle shows what can come of it).                   *)
(***************************************************************************)
EXTENDS Directory

VARIABLE overlapped

historyVars == <<vars, overlapped>>

Recorded == overlapped' = (overlapped \/ ~SerialMoves')

HistoryInit == Init /\ overlapped = FALSE

HistoryNext == Next /\ Recorded
HistoryServiceSpec == HistoryInit /\ [][HistoryNext]_historyVars

\* Through the services nothing else closes a cycle: unless two moves have
\* overlapped, the walk of clean() (organizations/models.py) keeps the tree
\* acyclic, whatever creations, moves to the top, status changes and aborted
\* requests come in between.
SerialMovesKeepTreeAcyclic == ~overlapped => TreeIsAcyclic
=============================================================================
