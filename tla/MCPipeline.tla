----------------------------- MODULE MCPipeline -----------------------------
(* The job flow against a small Buildkite queue and cluster.               *)
EXTENDS Pipeline, TLC

\* Both sets are interchangeable: nothing orders workers or UUIDs.
Symmetry == Permutations(Worker) \cup Permutations(Job)
=============================================================================
