---------------------------- MODULE RefreshChain ----------------------------
(***************************************************************************)
(* What AccountSession and refresh rotation promise, without saying how:   *)
(* a session has one bearer token at a time; a refresh hands it on to a    *)
(* token nobody has held before and spends the old one, so that no token   *)
(* is ever redeemed twice; and a session that is closed stays closed.      *)
(* SessionAuthority implements this specification.                         *)
(***************************************************************************)
CONSTANTS Sessions, Tokens, NoToken

VARIABLES phase,     \* phase[s]: no login yet, open, or closed
          bearer,    \* bearer[s]: the refresh token s last handed out
          redeemed   \* the tokens that have been exchanged for a successor

chainVars == <<phase, bearer, redeemed>>

ChainTypeOK ==
  /\ phase \in [Sessions -> {"unopened", "open", "closed"}]
  /\ bearer \in [Sessions -> Tokens \cup {NoToken}]
  /\ redeemed \subseteq Tokens

Unheld == {j \in Tokens : j \notin redeemed /\ \A s \in Sessions : bearer[s] # j}

ChainInit ==
  /\ phase = [s \in Sessions |-> "unopened"]
  /\ bearer = [s \in Sessions |-> NoToken]
  /\ redeemed = {}

Open(s) ==
  /\ phase[s] = "unopened"
  /\ phase' = [phase EXCEPT ![s] = "open"]
  /\ \E j \in Unheld : bearer' = [bearer EXCEPT ![s] = j]
  /\ UNCHANGED redeemed

HandOn(s) ==
  /\ phase[s] = "open"
  /\ redeemed' = redeemed \cup {bearer[s]}
  /\ \E j \in Unheld : bearer' = [bearer EXCEPT ![s] = j]
  /\ UNCHANGED phase

Close(closing) ==
  /\ \A s \in closing : phase[s] = "open"
  /\ phase' = [s \in Sessions |-> IF s \in closing THEN "closed" ELSE phase[s]]
  /\ UNCHANGED <<bearer, redeemed>>

ChainNext ==
  \/ \E s \in Sessions : Open(s) \/ HandOn(s)
  \/ \E closing \in SUBSET Sessions : Close(closing)

ChainSpec == ChainInit /\ [][ChainNext]_chainVars
=============================================================================
