------------------------------ MODULE Rollover ------------------------------
(***************************************************************************)
(* What the rotation of a key promises to the DANE clients of a service    *)
(* (RFC 7671, "publish, wait, switch"): the service never switches to a    *)
(* key that some cache may still not know, and the key in use, once all    *)
(* caches know it, is never withdrawn.                                     *)
(***************************************************************************)
CONSTANTS
    Certs,  \* the certificates that rotate their key
    Keys,
    None

VARIABLES
    installed,  \* the key of each installed certificate, or None
    known       \* the keys every cache knows: announced at every name for its TTL

vars == <<installed, known>>

Init ==
    /\ installed \in [Certs -> Keys \cup {None}]
    /\ known \in [Certs -> SUBSET Keys]

Switch(c) ==
    /\ \E k \in known[c] : installed' = [installed EXCEPT ![c] = k]
    /\ UNCHANGED known

\* The certificate file is destroyed.
Lose(c) ==
    /\ installed' = [installed EXCEPT ![c] = None]
    /\ UNCHANGED known

\* Records are published, replaced and get older.
Publish ==
    /\ known' \in [Certs -> SUBSET Keys]
    /\ \A c \in Certs : installed[c] \in known[c] => installed[c] \in known'[c]
    /\ UNCHANGED installed

Next == Publish \/ \E c \in Certs : Switch(c) \/ Lose(c)

Spec == Init /\ [][Next]_vars
=============================================================================
