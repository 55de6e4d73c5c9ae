--------------------------- MODULE AccountProofs ---------------------------
(***************************************************************************)
(* Which account a renewal works with: for any accounts, commands and      *)
(* failures.  UsableAccount needs to know where the account in             *)
(* memory comes from, so the invariant follows an account from the         *)
(* registration through the credentials file into memory.                  *)
(***************************************************************************)
EXTENDS Account, TLAPS

\* An account that was registered and is still valid, or whose deactivation was
\* cut off and has left its credentials behind.
Good(id) == registered[id] = "valid" \/ id \in halfway

\* A registration is stored before it is used, and a deactivated account is on its
\* way out of the credentials file or noted in halfway.
AccountInv ==
    /\ TypeOK
    /\ file \in Ids => Good(file) \/ (pc = "remove" /\ file = account)
    /\ pc = "load" => op \in Renewals \cup {"show", "deactivate"}
    /\ pc = "save" => registered[account] = "valid"
    /\ pc = "use" => Good(account) /\ file = account
    /\ pc = "remove" => file = account /\ op = "deactivate"
    /\ pc = "deactivate" => file = account /\ op = "deactivate"
    /\ pc \in {"create", "save", "use"} => op \in Renewals \cup {"create"}

\* Before the first command.
LEMMA AccountInit == Init => AccountInv
  BY AccountAssumption DEF Init, AccountInv, TypeOK, Good, Ops, Renewals

\* Every command, failure and crash.
LEMMA AccountNext == ASSUME AccountInv, [Next]_vars PROVE AccountInv'
<1> USE AccountAssumption DEF AccountInv, TypeOK, Good, Leave, Exit, Interrupted
<1>1. ASSUME NEW o \in Ops, Start(o) PROVE AccountInv'
  BY <1>1 DEF Start, Ops, Renewals
<1>2. CASE Load
  BY <1>2 DEF Load, Ops, Renewals
<1>3. CASE LoadFails
  BY <1>3 DEF LoadFails
<1>4. CASE Create
  BY <1>4 DEF Create
<1>5. CASE CreateFails
  BY <1>5 DEF CreateFails
<1>6. CASE Save
  BY <1>6 DEF Save
<1>7. CASE SaveFails
  BY <1>7 DEF SaveFails
<1>8. CASE Use
  BY <1>8 DEF Use
<1>9. CASE Deactivate
  BY <1>9 DEF Deactivate
<1>10. CASE DeactivateFails
  BY <1>10 DEF DeactivateFails
<1>11. CASE Remove
  BY <1>11 DEF Remove
<1>12. CASE RemoveFails
  BY <1>12 DEF RemoveFails
<1>13. CASE Crash
  BY <1>13 DEF Crash
<1>14. CASE UNCHANGED vars
  BY <1>14 DEF vars
<1> QED
  BY <1>1, <1>2, <1>3, <1>4, <1>5, <1>6, <1>7, <1>8, <1>9, <1>10, <1>11, <1>12, <1>13,
     <1>14 DEF Next

\* The inductive invariant, for any failures.
THEOREM AccountInvariant == Spec => []AccountInv
<1>1. AccountInv /\ [Next]_vars => AccountInv'
  BY AccountNext
<1> QED
  BY <1>1, AccountInit, PTL DEF Spec

\* renew always works with an account that is registered and valid, or whose
\* deactivation was cut off after the CA's answer, whatever fails.
THEOREM AccountIsUsable == Spec => []UsableAccount
<1>1. AccountInv => UsableAccount
  BY DEF AccountInv, UsableAccount, Good
<1> QED
  BY <1>1, AccountInvariant, PTL

\* Whatever fails, and whichever accounts are replaced on the way, orders are placed
\* with the account whose credentials are stored.
THEOREM AccountIsStored == Spec => []AccountStored
<1>1. AccountInv => AccountStored
  BY DEF AccountInv, AccountStored
<1> QED
  BY <1>1, AccountInvariant, PTL
=============================================================================
