------------------------- MODULE MCReserveAndIssue -------------------------
(* Reserver and token issuer with a few dispatches, which are               *)
(* interchangeable: Symmetry is sound when only invariants are checked.     *)
EXTENDS ReserveAndIssue, TLC

Symmetry == Permutations(Caller)
=============================================================================
