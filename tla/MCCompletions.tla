---------------------------- MODULE MCCompletions ----------------------------
(* The completion watcher on one pod.                                      *)
EXTENDS Completions

\* Half a second behind to half a second ahead.
MCSkew == -1..1
=============================================================================
