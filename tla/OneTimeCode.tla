----------------------------- MODULE OneTimeCode -----------------------------
(***************************************************************************)
(* What a mailed code promises, without saying how: a holder has at most   *)
(* one code that works; issuing another replaces it, redeeming it uses it  *)
(* up, and a code that was replaced, withdrawn or redeemed never works     *)
(* again, for nobody.  PasswordReset (the holder is an account) and        *)
(* Personnel (the holder is an employee) both implement it.                *)
(***************************************************************************)
CONSTANTS Holders, Codes, NoCode

VARIABLES working,   \* working[h]: the code of h that works, or NoCode
          issued,    \* every code issued so far
          redeemed   \* the codes that were redeemed

codeVars == <<working, issued, redeemed>>

CodeTypeOK ==
  /\ working \in [Holders -> Codes \cup {NoCode}]
  /\ issued \subseteq Codes
  /\ redeemed \subseteq Codes

CodeInit ==
  /\ working = [h \in Holders |-> NoCode]
  /\ issued = {}
  /\ redeemed = {}

Issue(h) ==
  \E c \in Codes \ issued :
    /\ issued' = issued \cup {c}
    /\ working' = [working EXCEPT ![h] = c]
    /\ UNCHANGED redeemed

Withdraw(h) ==
  /\ working[h] # NoCode
  /\ working' = [working EXCEPT ![h] = NoCode]
  /\ UNCHANGED <<issued, redeemed>>

Redeem(h) ==
  /\ working[h] # NoCode
  /\ redeemed' = redeemed \cup {working[h]}
  /\ working' = [working EXCEPT ![h] = NoCode]
  /\ UNCHANGED issued

CodeNext == \E h \in Holders : Issue(h) \/ Withdraw(h) \/ Redeem(h)

CodeSpec == CodeInit /\ [][CodeNext]_codeVars
=============================================================================
