------------------------------- MODULE MCHosts -------------------------------
(***************************************************************************)
(* Two certificates.  In the first set-up the first one keeps its key and  *)
(* has an spki block with two names and a full block, the second one       *)
(* rotates its key without pre-publication; they share a hook.  In the     *)
(* second set-up the first one pre-publishes and the second has no DANE;   *)
(* an operator may run dane-publish between the runs of the timer.         *)
(***************************************************************************)
EXTENDS Renew, TLC

CONSTANTS k1, k2, k3, k4, s1, s2, s3, n1, n2, n3

KeepAndRotate == <<FALSE, TRUE>>
KeepDane ==
    <<<<[names |-> <<n1, n2>>, selector |-> "spki", pre_publish |-> FALSE, ttl |-> 1],
        [names |-> <<n3>>, selector |-> "full", pre_publish |-> FALSE, ttl |-> 0]>>,
      <<>>>>

RotateAndKeep == <<TRUE, FALSE>>
PrePublishDane ==
    <<<<[names |-> <<n1>>, selector |-> "spki", pre_publish |-> TRUE, ttl |-> 1]>>,
      <<>>>>

SharedHooks == <<{1, 2}, {2}>>
SecondInline == <<FALSE, TRUE>>

DanePublish == [op |-> "dane_publish", force |-> FALSE, dry |-> FALSE, filter |-> 0]
Issue(c) == [op |-> "renew", force |-> TRUE, dry |-> FALSE, filter |-> c]

MCPublisher == {Timer, DanePublish}
MCOperator == {Timer, Issue(1), Issue(2), DanePublish, [DanePublish EXCEPT !.dry = TRUE]}

Symmetry == Permutations(Keys) \cup Permutations(Serials)
=============================================================================
