---------------------------- MODULE MCJobCreation ----------------------------
(* Job creation on a small number of competing attempts.                   *)
EXTENDS JobCreation, TLC

\* Attempts are interchangeable.
Symmetry == Permutations(Attempt)
=============================================================================
