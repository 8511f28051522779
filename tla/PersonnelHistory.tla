--------------------------- MODULE PersonnelHistory ---------------------------
(***************************************************************************)
(* Personnel with a history variable, which no action reads: overlapped is *)
(* TRUE once an account was being activated, or an invitation accepted,    *)
(* while the departure of its employee was under way.  Those are the two   *)
(* ways past a departure (personnel_depart shows one).                     *)
(***************************************************************************)
EXTENDS Personnel

VARIABLE overlapped

historyVars == <<vars, overlapped>>

Recorded == overlapped' = (overlapped \/ ~ActivationsWait' \/ ~AcceptancesWait)

HistoryInit == Init /\ overlapped = FALSE
HistoryNext == Next /\ Recorded
HistorySpec == HistoryInit /\ [][HistoryNext]_historyVars

\* There is no third way past a departure: unless one of the two overlaps has
\* happened, no departed employee has an active account (depart_employee
\* deactivates what it finds; employees/services.py, line 138), whatever
\* invitations, deactivations, rehirings and repeated departures come in between.
DeparturesCloseAccounts == ~overlapped => DepartedHaveNoAccess
=============================================================================
