------------------------------ MODULE Issuance ------------------------------
(***************************************************************************)
(* What an ACME order promises to the renewal engine, whatever the solvers *)
(* and the CA do: renew_certificate gets a certificate only for domains    *)
(* that have all been proved, a domain is proved only while its challenge  *)
(* is exposed (or by an authorization the CA still has from before), and   *)
(* nothing that is exposed is withdrawn before the result is known.        *)
(***************************************************************************)
CONSTANTS Domains, None

VARIABLES
    phase,    \* "idle", "open" while there is no result, "closing" after it
    result,   \* None, "issued" or "failed"
    exposed,  \* domains whose challenge is in place
    proved    \* domains the CA has accepted

vars == <<phase, result, exposed, proved>>

Init == phase = "idle" /\ result = None /\ exposed = {} /\ proved = {}

Begin ==
    /\ phase = "idle"
    /\ phase' = "open"
    /\ result' = None
    /\ exposed' = {}
    /\ proved' = {}

Expose(d) ==
    /\ phase = "open"
    /\ exposed' = exposed \cup {d}
    /\ UNCHANGED <<phase, result, proved>>

Prove(d) ==
    /\ phase # "idle" /\ d \in exposed
    /\ proved' = proved \cup {d}
    /\ UNCHANGED <<phase, result, exposed>>

Reuse ==
    /\ phase = "open"
    /\ proved' = Domains
    /\ UNCHANGED <<phase, result, exposed>>

Conclude ==
    /\ phase = "open"
    /\ phase' = "closing"
    /\ result' \in {"failed"} \cup (IF proved = Domains THEN {"issued"} ELSE {})
    /\ UNCHANGED <<exposed, proved>>

Withdraw(d) ==
    /\ phase = "closing"
    /\ exposed' = exposed \ {d}
    /\ UNCHANGED <<phase, result, proved>>

\* A challenge that could not be withdrawn stays.
Close ==
    /\ phase = "closing"
    /\ phase' = "idle"
    /\ exposed' \subseteq exposed
    /\ UNCHANGED <<result, proved>>

Abort ==
    /\ phase # "idle"
    /\ phase' = "idle"
    /\ result' = "failed"
    /\ exposed' \in SUBSET Domains
    /\ UNCHANGED proved

Next ==
    \/ Begin \/ Reuse \/ Conclude \/ Close \/ Abort
    \/ \E d \in Domains : Expose(d) \/ Prove(d) \/ Withdraw(d)

Spec == Init /\ [][Next]_vars
=============================================================================
