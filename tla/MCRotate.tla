------------------------------ MODULE MCRotate ------------------------------
(***************************************************************************)
(* One certificate that rotates its key: two pre-published blocks with     *)
(* different TTLs, a block in between that is not pre-published, and one   *)
(* named hook next to an inline hook.                                      *)
(***************************************************************************)
EXTENDS Renew, TLC

CONSTANTS k1, k2, k3, k4, s1, s2, s3, n1, n2, n3

MCRotateKey == <<TRUE>>
MCInlineHooks == <<TRUE>>
MCNamedHooks == <<{1}>>
MCDane ==
    <<<<[names |-> <<n1>>, selector |-> "spki", pre_publish |-> TRUE, ttl |-> 1],
        [names |-> <<n3>>, selector |-> "full", pre_publish |-> TRUE, ttl |-> 1],
        [names |-> <<n2>>, selector |-> "spki", pre_publish |-> TRUE, ttl |-> 2]>>>>

Renewals(filters) ==
    [op: {"renew"}, force: BOOLEAN, dry: BOOLEAN, filter: filters]

MCCommands == Renewals({0})
MCTimerOnly == {Timer}

Symmetry == Permutations(Keys) \cup Permutations(Serials)
=============================================================================
