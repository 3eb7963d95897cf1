----------------------------- MODULE JobWatcher -----------------------------
(***************************************************************************)
(* The job watcher (scheduler/job_watcher.go) for one Buildkite job: the   *)
(* informer handlers, the stalledJobChecker goroutine that reaps Jobs that *)
(* never get a pod, and the cancel checker both watchers share.  The       *)
(* Buildkite job may be run by several Kubernetes Jobs in turn, which have *)
(* the same name and different UIDs.                                       *)
(***************************************************************************)
EXTENDS CancelChecker, Sequences

CONSTANTS
    MaxUid,          \* how many Jobs may be created for the Buildkite job
    MaxEvents        \* bound on undelivered informer events

ASSUME JobWatcherAssumption == MaxUid \in Nat \ {0} /\ MaxEvents \in Nat \ {0}

VARIABLES
    kjob,      \* the Kubernetes Job as the API server has it
    uids,      \* UIDs used so far
    hadPod,    \* UIDs of Jobs that have had a pod
    tokens,    \* UIDs whose job acquisition token Secret exists
    bk,        \* state of the Buildkite job
    elsewhere, \* history: an agent of no Job of this cluster acquired it
    events,    \* informer events not yet delivered to the watcher
    stalling,  \* w.stallingJobs: UID of the Job last seen without a pod, or None
    ignored,   \* w.ignoredJobs
    failing,   \* UID of the Job failBeforeAgentAcquire is failing, or None
    reaper,    \* how far the stalledJobChecker goroutine is
    cand,      \* UID of its candidate
    unreaped   \* history: a candidate's deadline could not be set

clusterVars == <<kjob, uids, hadPod, tokens, events>>
watcherVars == <<stalling, ignored, failing>>
reaperVars == <<reaper, cand, unreaped>>
vars == <<clusterVars, bk, elsewhere, watcherVars, reaperVars, checkerVars>>

\* pods: the status counts a pod in any stage.  outcome: how the Job ended.
KJob == [uid : 1..MaxUid, started : BOOLEAN, pods : BOOLEAN, deadline : BOOLEAN,
         outcome : {"open", "succeeded", "failed", "podless", "deadline"}]

Event == [kind : {"add", "update", "delete"}, job : KJob]

ASSUME NoneAssumption == None \notin KJob

Finished(job) == job.outcome # "open"
hasPod(job) == job.pods

-----------------------------------------------------------------------------
(* The cluster. *)

\* MaxEvents holds back the cluster, never the controller: a Job may be created
\* while the end of its predecessor is still to be delivered.
Room == Len(events) < MaxEvents

Report(kind, job) == events' = Append(events, [kind |-> kind, job |-> job])

Change(job) == kjob' = job /\ Report("update", job)

\* The scheduler creates the Job and its Secret (JobCreation has the steps).
CreateJob ==
    /\ kjob = None /\ uids < MaxUid /\ bk \in {"scheduled", "reserved"}
    /\ uids' = uids + 1
    /\ kjob' = [uid |-> uids', started |-> FALSE, pods |-> FALSE, deadline |-> FALSE,
                outcome |-> "open"]
    /\ Report("add", kjob')
    /\ tokens' = tokens \cup {uids'}
    /\ bk' = "reserved"
    /\ UNCHANGED <<hadPod, elsewhere, watcherVars, reaperVars, checkerVars>>

Open == kjob # None /\ kjob.outcome = "open"

\* The job controller starts the Job, counts its pod, or ends the Job.
JobProgress ==
    /\ Open
    /\ Room
    /\ \/ ~kjob.started /\ Change([kjob EXCEPT !.started = TRUE])
       \/ kjob.started /\ ~kjob.pods /\ Change([kjob EXCEPT !.pods = TRUE])
       \/ /\ kjob.pods
          /\ \E o \in {"succeeded", "failed"} : Change([kjob EXCEPT !.outcome = o])
       \/ kjob.started /\ ~kjob.pods /\ Change([kjob EXCEPT !.outcome = "podless"])
    /\ hadPod' = IF kjob'.pods THEN hadPod \cup {kjob.uid} ELSE hadPod
    /\ UNCHANGED <<uids, tokens, bk, elsewhere, watcherVars, reaperVars, checkerVars>>

DeadlineHits ==
    /\ Open /\ kjob.deadline
    /\ Room
    /\ Change([kjob EXCEPT !.outcome = "deadline"])
    /\ UNCHANGED <<uids, hadPod, tokens, bk, elsewhere, watcherVars, reaperVars, checkerVars>>

\* TTL, a user, or the garbage collector; the Secret goes with its owner.
DeleteFromCluster ==
    /\ kjob' = None
    /\ tokens' = tokens \ {kjob.uid}
    /\ Report("delete", kjob)

JobDeleted ==
    /\ kjob # None
    /\ Room
    /\ DeleteFromCluster
    /\ UNCHANGED <<uids, hadPod, bk, elsewhere, watcherVars, reaperVars, checkerVars>>

\* The Buildkite job is acquired by its agent (or by another one), ends, is
\* cancelled, or loses its reservation.
BuildkiteChanges ==
    /\ \/ /\ bk = "reserved" /\ Open /\ kjob.pods
          /\ bk' = "running" /\ UNCHANGED elsewhere
       \/ /\ bk \in {"scheduled", "reserved"}
          /\ bk' = "running" /\ elsewhere' = TRUE
       \/ /\ UNCHANGED elsewhere
          /\ \/ bk = "running" /\ bk' \in {"finished", "canceling"}
             \/ bk = "canceling" /\ bk' = "canceled"
             \/ bk \in {"scheduled", "reserved"} /\ bk' = "canceled"
             \/ bk = "reserved" /\ bk' = "scheduled"
    /\ UNCHANGED <<clusterVars, watcherVars, reaperVars, checkerVars>>

\* FailJob: Buildkite accepts it for a job no agent works on.
FailBuildkiteJob == bk' = IF bk \in {"scheduled", "reserved"} THEN "finished" ELSE bk

-----------------------------------------------------------------------------
(* The informer handlers.  failing # None: the handler is inside the call  *)
(* that fails the Buildkite job, and takes no further event.               *)

Next1 == Head(events)
Take == failing = None /\ events # <<>> /\ events' = Tail(events)

\* Mutant: the Secret is deleted whichever Job controls it.
CleanupSecretUnowned(uid) == tokens' \in {tokens, {}}

\* cleanupJobAcquisitionTokenSecret deletes the Secret the Job with this UID
\* controls; the Get or the Delete may fail.
CleanupSecret(uid) == tokens' \in {tokens, tokens \ {uid}}

\* Mutant: a Job that ends is only taken off the stalling Jobs.
ForgetStalling == stalling' = None /\ UNCHANGED checking

\* removeFromStalling and stopCheckingBuildkiteJob.
Forget == stalling' = None /\ StopCheckingJob

OnDelete ==
    /\ Take /\ Next1.kind = "delete"
    /\ CleanupSecret(Next1.job.uid)
    /\ Forget
    /\ ignored' = FALSE
    /\ UNCHANGED <<kjob, uids, hadPod, bk, elsewhere, failing, reaperVars, poll>>

RunChecksIgnored ==
    /\ Take /\ Next1.kind # "delete" /\ ignored
    /\ UNCHANGED <<kjob, uids, hadPod, tokens, bk, elsewhere, watcherVars, reaperVars, checkerVars>>

\* A finished Job: success and the deadline need nothing, a Job that never had
\* a pod fails the Buildkite job, a failed pod does so if the job is Reserved.
RunChecksFinished ==
    /\ Take /\ Next1.kind # "delete" /\ ~ignored
    /\ Finished(Next1.job)
    /\ Forget
    /\ CleanupSecret(Next1.job.uid)
    /\ \/ /\ Next1.job.outcome \in {"succeeded", "deadline"}
          /\ UNCHANGED <<bk, failing>>
       \/ /\ Next1.job.outcome = "podless"
          /\ FailBuildkiteJob \/ UNCHANGED bk
          /\ UNCHANGED failing
       \/ /\ Next1.job.outcome = "failed"
          /\ IF bk = "reserved" THEN failing' \in {Next1.job.uid, None} ELSE UNCHANGED failing
          /\ UNCHANGED bk
    /\ UNCHANGED <<kjob, uids, hadPod, elsewhere, ignored, reaperVars, poll>>

\* failBeforeAgentAcquire, after it saw the job Reserved.
FailBeforeAgentAcquire ==
    /\ failing # None
    /\ FailBuildkiteJob \/ UNCHANGED bk
    /\ failing' = None
    /\ ignored' = TRUE
    /\ UNCHANGED <<clusterVars, elsewhere, stalling, reaperVars, checkerVars>>

\* An open Job: register it with the checker while it has no pod, and track it
\* as stalling once it has started.
RunChecksOpen ==
    /\ Take /\ Next1.kind # "delete" /\ ~ignored
    /\ ~Finished(Next1.job)
    /\ IF hasPod(Next1.job) THEN stalling' = None /\ UNCHANGED checking
       ELSE /\ AddK8sJob(Next1.job.uid)
            /\ stalling' = IF Next1.job.started THEN Next1.job.uid ELSE stalling
    /\ UNCHANGED <<kjob, uids, hadPod, tokens, bk, elsewhere, ignored, failing, reaperVars, poll>>

Handler ==
    OnDelete \/ RunChecksIgnored \/ RunChecksFinished \/ RunChecksOpen \/ FailBeforeAgentAcquire

-----------------------------------------------------------------------------
(* The stalledJobChecker goroutine. *)

ReaperUnchanged == UNCHANGED <<clusterVars, failing, elsewhere, unreaped, checkerVars>>

ReaperRests == reaper' = "idle" /\ cand' = None

\* Gather, under the lock.  Whether EmptyJobGracePeriod has passed since the
\* Job's StartTime is a matter of time: the pass may come at any moment.
ReaperBegins ==
    /\ reaper = "idle"
    /\ stalling # None
    /\ cand' = stalling
    /\ reaper' = "askBuildkite"
    /\ ReaperUnchanged /\ UNCHANGED <<bk, stalling, ignored>>

\* Not confirmed: forget the candidate, but not a Job that has replaced it.
removeCandidateFromStalling ==
    stalling' = IF stalling = cand THEN None ELSE stalling

isJobActive == bk \in {"running", "canceling"}

ConfirmWithBuildkite ==
    /\ reaper = "askBuildkite"
    /\ IF isJobActive
       THEN ReaperRests /\ removeCandidateFromStalling
       ELSE reaper' = "askCluster" /\ UNCHANGED <<cand, stalling>>
    /\ ReaperUnchanged /\ UNCHANGED <<bk, ignored>>

\* Gone, replaced, or with a pod after all: nothing to reap.
Reapable == kjob # None /\ kjob.uid = cand /\ ~hasPod(kjob)

ConfirmWithCluster ==
    /\ reaper = "askCluster"
    /\ IF Reapable
       THEN reaper' = "confirmed" /\ UNCHANGED <<cand, stalling>>
       ELSE ReaperRests /\ removeCandidateFromStalling
    /\ ReaperUnchanged /\ UNCHANGED <<bk, ignored>>

\* Mutant: an error counts as a false positive.
ConfirmFailsDrops ==
    /\ reaper \in {"askBuildkite", "askCluster"}
    /\ ReaperRests
    /\ removeCandidateFromStalling
    /\ ReaperUnchanged /\ UNCHANGED <<bk, ignored>>

\* Either source fails: the candidate stays for the next cycle.
ConfirmFails ==
    /\ reaper \in {"askBuildkite", "askCluster"}
    /\ ReaperRests
    /\ ReaperUnchanged /\ UNCHANGED <<bk, stalling, ignored>>

ReaperIgnores ==
    /\ reaper = "confirmed"
    /\ ignored' = TRUE
    /\ reaper' = "ignored"
    /\ ReaperUnchanged /\ UNCHANGED <<bk, stalling, cand>>

ReaperUntracks ==
    /\ reaper = "ignored"
    /\ stalling' = None
    /\ reaper' = "fail"
    /\ ReaperUnchanged /\ UNCHANGED <<bk, ignored, cand>>

\* cleanupStalledJob: fail the Buildkite job, then set the deadline, by name.
ReaperFailsJob ==
    /\ reaper = "fail"
    /\ FailBuildkiteJob \/ UNCHANGED bk
    /\ reaper' = "deadline"
    /\ ReaperUnchanged /\ UNCHANGED <<stalling, ignored, cand>>

ReaperSetsDeadline ==
    /\ reaper = "deadline"
    /\ \/ kjob # None /\ Change([kjob EXCEPT !.deadline = TRUE]) /\ UNCHANGED unreaped
       \/ unreaped' = TRUE /\ UNCHANGED <<kjob, events>>
    /\ ReaperRests
    /\ UNCHANGED <<uids, hadPod, tokens, bk, elsewhere, watcherVars, checkerVars>>

ReaperStep ==
    \/ ReaperBegins \/ ConfirmWithBuildkite \/ ConfirmWithCluster
    \/ ReaperIgnores \/ ReaperUntracks \/ ReaperFailsJob \/ ReaperSetsDeadline

-----------------------------------------------------------------------------
(* The cancel checker's poll, and the pod watcher's calls to it.           *)

Quiet == UNCHANGED <<bk, elsewhere, watcherVars, reaperVars>>

PollStep ==
    /\ \/ PollBegins \/ PollAnswered(bk) \/ PollFails \/ PollStops
    /\ UNCHANGED clusterVars /\ Quiet

\* A Job is deleted by its name; a pod, whose name is its own, takes its Job
\* with it because the Job's BackoffLimit is 0.
PollDeletesTarget ==
    /\ PollDeletes
    /\ \/ /\ poll.target.kind = "job" /\ kjob # None
          /\ DeleteFromCluster
       \/ /\ poll.target.kind = "pod" /\ Open /\ kjob.uid = poll.target.uid
          /\ Change([kjob EXCEPT !.outcome = "failed"])
          /\ UNCHANGED tokens
       \/ /\ kjob = None \/ (poll.target.kind = "pod" /\ ~(Open /\ kjob.uid = poll.target.uid))
          /\ UNCHANGED <<kjob, tokens, events>>
    /\ UNCHANGED <<uids, hadPod>> /\ Quiet

\* Pod events come in their own time: the pod's Job may be gone by then.
PodWatcherCalls ==
    /\ \E uid \in hadPod : AddPod(uid) \/ StopCheckingJob
    /\ UNCHANGED <<clusterVars, poll>> /\ Quiet

-----------------------------------------------------------------------------

Init ==
    /\ kjob = None /\ uids = 0 /\ hadPod = {} /\ tokens = {}
    /\ bk = "scheduled" /\ elsewhere = FALSE /\ events = <<>>
    /\ stalling = None /\ ignored = FALSE /\ failing = None
    /\ reaper = "idle" /\ cand = None /\ unreaped = FALSE
    /\ CheckerInit

Environment ==
    \/ CreateJob \/ JobProgress \/ DeadlineHits \/ JobDeleted
    \/ BuildkiteChanges \/ PodWatcherCalls

Next ==
    \/ Environment
    \/ Handler
    \/ ReaperStep \/ ConfirmFails
    \/ PollStep \/ PollDeletesTarget

Spec == Init /\ [][Next]_vars

\* The goroutines run on tickers and an event queue; time passes; the API calls
\* the reaper and the poll make succeed again and again.
Fairness ==
    /\ WF_vars(Handler)
    /\ WF_vars(ReaperStep) /\ SF_vars(ConfirmWithBuildkite) /\ SF_vars(ConfirmWithCluster)
    /\ WF_vars(PollStep) /\ SF_vars(PollAnswered(bk) /\ UNCHANGED clusterVars /\ Quiet)
    /\ SF_vars(PollDeletesTarget)

FairSpec == Spec /\ Fairness

-----------------------------------------------------------------------------
(* Properties. *)

\* The variables keep their types, and a pass under way has a candidate.
TypeOK ==
    /\ kjob \in KJob \cup {None}
    /\ uids \in 0..MaxUid
    /\ hadPod \subseteq 1..MaxUid /\ tokens \subseteq 1..MaxUid
    /\ bk \in {"scheduled", "reserved", "running", "canceling", "canceled", "finished"}
    /\ events \in Seq(Event)
    /\ stalling \in 1..MaxUid \cup {None}
    /\ ignored \in BOOLEAN
    /\ failing \in 1..MaxUid \cup {None}
    /\ reaper \in {"idle", "askBuildkite", "askCluster", "confirmed", "ignored", "fail", "deadline"}
    /\ cand \in 1..MaxUid \cup {None} /\ (reaper = "idle" <=> cand = None)
    /\ unreaped \in BOOLEAN /\ elsewhere \in BOOLEAN

DeletionQueued == \E i \in 1..Len(events) : events[i].kind = "delete"

CheckingJob == checking # None /\ checking.kind = "job"

\* An entry for a Job in stallingJobs or in the checker's map is of a Job that
\* exists, or whose deletion is about to be handled: entries do not accumulate.
BookkeepingBacked ==
    stalling # None \/ CheckingJob => kjob # None \/ DeletionQueued

\* A Job that is still open has its token Secret, whichever Job of the same name
\* the handlers are cleaning up after.
OpenJobKeepsToken == Open => kjob.uid \in tokens

\* The first Job created for the Buildkite job.  A later one of the same UUID may
\* be hit by what a pass over its predecessor does by UUID or by name.
FirstOpen == Open /\ kjob.uid = 1

\* A started Job that gets no pod does not stay for ever: it gets a pod or a
\* deadline, ends, or is deleted ("if such a k8s job doesn't enter a terminal
\* state on its own, jobWatcher sets a deadline so that it is cleaned up",
\* job_watcher.go:32-34), whatever lookups fail on the way.  Two exceptions:
\* another agent took the Buildkite job, or the one update that sets the
\* deadline failed.
StalledJobReaped ==
    (FirstOpen /\ kjob.started)
        ~> (~FirstOpen \/ hasPod(kjob) \/ kjob.deadline \/ elsewhere \/ unreaped)

\* A podless Job whose Buildkite job is cancelled is deleted, unless it gets a
\* pod or ends first: cancelling a suspended Job takes effect, however often the
\* poll or the deletion fails.  Once another agent ran the job nobody polls it.
CancelReachesPodless ==
    (bk = "canceled" /\ FirstOpen) ~> (~FirstOpen \/ hasPod(kjob) \/ elsewhere)
=============================================================================
