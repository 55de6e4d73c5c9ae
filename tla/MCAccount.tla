----------------------------- MODULE MCAccount -----------------------------
(* Interchangeable accounts. *)
EXTENDS Account, TLC
Symmetry == Permutations(Ids)
=============================================================================
