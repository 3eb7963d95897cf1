----------------------------- MODULE MCLimiter -----------------------------
(* The limiter alone against an arbitrary handler and informer.            *)
EXTENDS LimiterSlots, TLC

\* Both sets are interchangeable: nothing orders workers or UUIDs.
Symmetry == Permutations(Worker) \cup Permutations(Job)
=============================================================================
