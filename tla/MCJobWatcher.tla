---------------------------- MODULE MCJobWatcher ----------------------------
(* The job watcher and the cancel checker on one Buildkite job.            *)
EXTENDS JobWatcher
=============================================================================
