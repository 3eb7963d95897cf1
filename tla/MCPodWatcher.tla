---------------------------- MODULE MCPodWatcher ----------------------------
(* The pod watcher on one Buildkite job.                                    *)
EXTENDS PodWatcher

\* Calls fail for a while everywhere, or not in the two checkers.
FlakySets == {Caller, {"init"}}
=============================================================================
