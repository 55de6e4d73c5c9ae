------------------------------ MODULE Account ------------------------------
(***************************************************************************)
(* The ACME account (acme.rs, credentials.rs and the account commands of   *)
(* main.rs): renew, dry run or not, loads the stored credentials and, if   *)
(* that fails, registers a new account and stores it; account create, show *)
(* and deactivate do the parts.  The CA is external.                       *)
(***************************************************************************)
EXTENDS Naturals

CONSTANTS
    Ids,     \* accounts; bound: what the CA lets be registered
    Faults,  \* the kinds of failure that may happen
    None,    \* no credentials, no account
    Torn     \* credentials that do not parse

FaultKinds == {"load", "net", "lost", "io", "crash"}
Renewals == {"renew", "dry_run"}
Ops == Renewals \cup {"create", "show", "deactivate"}

ASSUME AccountAssumption ==
    None \notin Ids /\ Torn \notin Ids /\ None # Torn /\ Faults \subseteq FaultKinds

VARIABLES
    registered,  \* what the CA knows of each account
    file,        \* account_key_credential or account_key_path
    pc,
    op,          \* the command that runs
    account,     \* the account in memory
    halfway      \* history: accounts whose deactivation was interrupted

vars == <<registered, file, pc, op, account, halfway>>

\* The process ends; halfway notes a deactivation that did not get to its end.
Leave(h) == pc' = "idle" /\ op' = None /\ account' = None /\ halfway' = h
Exit == Leave(halfway)
Interrupted == Leave(halfway \cup {account})

Start(o) ==
    /\ pc = "idle"
    /\ op' = o
    /\ pc' = IF o = "create" THEN "create" ELSE "load"
    /\ UNCHANGED <<registered, file, account, halfway>>

\* AcmeClient::load: the CA is not asked whether the account is valid.
Load ==
    /\ pc = "load" /\ file \in Ids
    /\ \/ op = "show" /\ Exit
       \/ /\ op # "show"
          /\ account' = file
          /\ pc' = IF op \in Renewals THEN "use" ELSE "deactivate"
          /\ UNCHANGED <<op, halfway>>
    /\ UNCHANGED <<registered, file>>

\* Credentials that are absent or torn, or that cannot be decrypted or read this time,
\* or a directory that cannot be fetched: AcmeClient::new falls back to create on any
\* error, also when there are good credentials, which the new ones then replace.
LoadFails ==
    /\ pc = "load"
    /\ file \notin Ids \/ "load" \in Faults
    /\ \/ op \in Renewals /\ pc' = "create" /\ UNCHANGED <<op, account, halfway>>
       \/ op \notin Renewals /\ Exit
    /\ UNCHANGED <<registered, file>>

\* AcmeClient::create registers the account and then stores it.
Create ==
    /\ pc = "create"
    /\ \E id \in Ids :
         /\ registered[id] = "unused"
         /\ registered' = [registered EXCEPT ![id] = "valid"]
         /\ account' = id
    /\ pc' = "save"
    /\ UNCHANGED <<file, op, halfway>>

CreateFails ==
    /\ pc = "create"
    /\ \/ /\ "net" \in Faults \/ \A id \in Ids : registered[id] # "unused"
          /\ UNCHANGED registered
       \/ /\ "lost" \in Faults
          /\ \E id \in Ids : /\ registered[id] = "unused"
                             /\ registered' = [registered EXCEPT ![id] = "valid"]
    /\ Exit
    /\ UNCHANGED file

Save ==
    /\ pc = "save"
    /\ file' = account
    /\ \/ op \in Renewals /\ pc' = "use" /\ UNCHANGED <<op, account, halfway>>
       \/ op \notin Renewals /\ Exit
    /\ UNCHANGED registered

\* Mutant: an account that cannot be stored is used all the same.
SaveErrorLogged ==
    /\ pc = "save" /\ "io" \in Faults
    /\ file' \in {file, Torn, account}
    /\ \/ op \in Renewals /\ pc' = "use" /\ UNCHANGED <<op, account, halfway>>
       \/ op \notin Renewals /\ Exit
    /\ UNCHANGED registered

\* The write, or the chmod after it, fails: the account is given up.
SaveFails ==
    /\ pc = "save" /\ "io" \in Faults
    /\ file' \in {file, Torn, account}
    /\ Exit
    /\ UNCHANGED registered

\* The orders of the run are placed with the account.
Use ==
    /\ pc = "use"
    /\ Exit
    /\ UNCHANGED <<registered, file>>

Deactivate ==
    /\ pc = "deactivate" /\ registered[account] = "valid"
    /\ registered' = [registered EXCEPT ![account] = "deactivated"]
    /\ pc' = "remove"
    /\ UNCHANGED <<file, op, account, halfway>>

DeactivateFails ==
    /\ pc = "deactivate"
    /\ \/ /\ "net" \in Faults \/ registered[account] # "valid"
          /\ Exit
          /\ UNCHANGED registered
       \/ /\ "lost" \in Faults /\ registered[account] = "valid"
          /\ registered' = [registered EXCEPT ![account] = "deactivated"]
          /\ Interrupted
    /\ UNCHANGED file

\* Mutant: the credentials stay.
RemoveNothing ==
    /\ pc = "remove"
    /\ Exit
    /\ UNCHANGED <<registered, file>>

Remove ==
    /\ pc = "remove"
    /\ file' = None
    /\ Exit
    /\ UNCHANGED registered

RemoveFails ==
    /\ pc = "remove" /\ "io" \in Faults
    /\ Interrupted
    /\ UNCHANGED <<registered, file>>

Crash ==
    /\ pc # "idle" /\ "crash" \in Faults
    /\ file' \in {file} \cup (IF pc = "save" THEN {Torn} ELSE {})
    /\ IF pc = "remove" THEN Interrupted ELSE Exit
    /\ UNCHANGED registered

Init ==
    /\ registered \in [Ids -> {"unused", "valid"}]
    /\ file \in {id \in Ids : registered[id] = "valid"} \cup {None}
    /\ \A id \in Ids : registered[id] = "valid" => file = id
    /\ pc = "idle"
    /\ op = None
    /\ account = None
    /\ halfway = {}

Next ==
    \/ \E o \in Ops : Start(o)
    \/ Load \/ LoadFails \/ Create \/ CreateFails \/ Save \/ SaveFails \/ Use
    \/ Deactivate \/ DeactivateFails \/ Remove \/ RemoveFails \/ Crash

Spec == Init /\ [][Next]_vars

-----------------------------------------------------------------------------
\* The variables have the types of the code's, and whoever talks to the CA about an
\* account has one.
TypeOK ==
    /\ registered \in [Ids -> {"unused", "valid", "deactivated"}]
    /\ file \in Ids \cup {None, Torn}
    /\ pc \in {"idle", "load", "create", "save", "use", "deactivate", "remove"}
    /\ op \in Ops \cup {None}
    /\ account \in Ids \cup {None}
    /\ pc \in {"save", "use", "deactivate", "remove"} => account \in Ids
    /\ halfway \subseteq Ids

\* The orders of renew are placed with an account that is registered and valid;
\* one that is deactivated can only come from an account deactivate that was cut
\* off between the CA and the removal of the credentials.
UsableAccount ==
    pc = "use" => registered[account] = "valid" \/ account \in halfway

\* Orders are placed only with an account that is stored, so that the next run loads
\* it again: a registration whose credentials could not be written, or not in full, is
\* not used.  (It stays registered at the CA all the same.)
AccountStored == pc = "use" => file = account
=============================================================================
