----------------------------- MODULE MCTwoRuns -----------------------------
(***************************************************************************)
(* The timer's run over two certificates, of which the first rotates its   *)
(* key and the second keeps it, and an operator who forces both.           *)
(***************************************************************************)
EXTENDS TwoRuns, TLC

CONSTANTS timer, operator

MCSelected == (timer :> {1, 2}) @@ (operator :> {1, 2})
MCForced == (timer :> FALSE) @@ (operator :> TRUE)
Symmetry == Permutations(Keys)
=============================================================================
