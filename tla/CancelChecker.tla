--------------------------- MODULE CancelChecker ---------------------------
(***************************************************************************)
(* BatchBuildkiteJobChecker for one Buildkite job: the registration shared *)
(* by the job watcher and the pod watcher, and the poll that deletes the   *)
(* registered object once Buildkite reports the job cancelled.             *)
(***************************************************************************)
EXTENDS Integers

CONSTANT None

VARIABLES
    checking,  \* c.checkingJobs: the registered cancelTarget
    poll       \* checkJobStates: its snapshot of the target, and how far it is

checkerVars == <<checking, poll>>

Idle == [stage |-> "idle", target |-> None]

CheckerInit == checking = None /\ poll = Idle

AddPod(uid) == checking' = [kind |-> "pod", uid |-> uid]

\* Registering a podless Job never replaces a pod.
AddK8sJob(uid) ==
    checking' = IF checking # None /\ checking.kind = "pod" THEN checking
                ELSE [kind |-> "job", uid |-> uid]

StopCheckingJob == checking' = None

\* checkJobStates copies the registration and lets go of the lock.
PollBegins ==
    /\ poll = Idle /\ checking # None
    /\ poll' = [stage |-> "ask", target |-> checking]
    /\ UNCHANGED checking

\* GetJobStates answers that the job is in a given state, or fails.
PollAnswered(state) ==
    /\ poll.stage = "ask"
    /\ poll' = IF state \in {"canceled", "canceling"} THEN [poll EXCEPT !.stage = "delete"]
               ELSE IF state \in {"scheduled", "reserved"} THEN Idle
               ELSE [poll EXCEPT !.stage = "stop"]
    /\ UNCHANGED checking

\* Mutant: a failed request ends the checking.
PollFailsStops ==
    /\ poll.stage \in {"ask", "delete"}
    /\ poll' = Idle
    /\ StopCheckingJob

\* A failed request or delete: the registration stays for the next poll.
PollFails ==
    /\ poll.stage \in {"ask", "delete"}
    /\ poll' = Idle
    /\ UNCHANGED checking

\* The target is deleted (or was gone already); what that does to the cluster is
\* the composition's part of this step.
PollDeletes ==
    /\ poll.stage = "delete"
    /\ poll' = [poll EXCEPT !.stage = "stop"]
    /\ UNCHANGED checking

PollStops ==
    /\ poll.stage = "stop"
    /\ poll' = Idle
    /\ StopCheckingJob
=============================================================================
