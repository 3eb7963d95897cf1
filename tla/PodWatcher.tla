----------------------------- MODULE PodWatcher -----------------------------
(***************************************************************************)
(* The pod watcher (scheduler/pod_watcher.go) for one Buildkite job: the   *)
(* informer handlers, the imageFailureChecker and pendingTimeoutChecker    *)
(* goroutines, and its registrations with the cancel checker.  The        *)
(* Buildkite job may be given several pods in turn; a pod's name is its    *)
(* own.  Calls to Buildkite and to the cluster are steps.                  *)
(***************************************************************************)
EXTENDS CancelChecker, Sequences

CONSTANTS
    MaxPods,    \* how many pods the Buildkite job may be given
    MaxEvents,  \* bound on undelivered informer events
    Flaky       \* sets of callers, in one of which calls may fail for a while

Caller == {"image", "pending", "init"}

ASSUME PodWatcherAssumption ==
    /\ MaxPods \in Nat \ {0} /\ MaxEvents \in Nat \ {0}
    /\ Flaky \subseteq SUBSET Caller

VARIABLES
    pod,           \* the pod as the API server has it
    uids,          \* pods created so far
    aged,          \* UIDs past imagePullBackOffGracePeriod since their start
    overdue,       \* UIDs past podPendingTimeout since their creation
    bk,            \* state of the Buildkite job
    events,        \* informer events not yet delivered to the watcher
    handling,      \* the pod whose init failure the handler is reporting, or None
    watchImage,    \* w.watchingForImageFailure
    watchPending,  \* w.watchingForPendingTimeout
    ignored,       \* w.ignoredJobs
    notified,      \* w.imageFailureNotified
    image,         \* imageFailureChecker: how far it is, and with which pod
    pending,       \* pendingTimeoutChecker: likewise
    flaky,         \* the callers whose calls may fail although a retry would succeed
    refused        \* history: FailJob was refused for a job that could be failed

clusterVars == <<pod, uids, aged, overdue, events>>
watchVars == <<watchImage, watchPending, notified>>
vars == <<clusterVars, bk, handling, watchVars, ignored, image, pending, checkerVars, flaky,
          refused>>

\* images: the worst waiting reason of its containers.  "failing" is a pull that is
\* tried again and again, "blocked" another reason that is given a grace period (a
\* missing Secret, CreateContainerError) and, once reported, is not reported again;
\* "other" is one that does not count, of a container that is neither ours nor an
\* init container.
\* initFailed: an init container other than a sidecar exited with an error.
Pod == [uid : 1..MaxPods, phase : {"Pending", "Running", "Over"},
        images : {"fine", "other", "failing", "blocked", "invalid"}, initFailed : BOOLEAN]

Event == [kind : {"add", "update", "delete"}, pod : Pod]

ASSUME NoneAssumption == None \notin Pod

Resting == [stage |-> "idle", pod |-> None]

-----------------------------------------------------------------------------
(* The cluster and Buildkite. *)

\* MaxEvents holds back the cluster, never the controller.
Room == Len(events) < MaxEvents

Report(kind, p) == events' = Append(events, [kind |-> kind, pod |-> p])
Change(p) == pod' = p /\ Report("update", p)
Controller == <<handling, watchVars, ignored, image, pending, checkerVars, refused>>

CreatePod ==
    /\ pod = None /\ uids < MaxPods /\ bk \in {"scheduled", "reserved"}
    /\ Room
    /\ uids' = uids + 1
    /\ pod' = [uid |-> uids', phase |-> "Pending", images |-> "fine", initFailed |-> FALSE]
    /\ Report("add", pod')
    /\ bk' = "reserved"
    /\ UNCHANGED <<aged, overdue, Controller>>

\* Images fail to be pulled or are pulled after all, the pod starts to run, an
\* init container fails, after which no other container is started, the pod ends.
PodProgress ==
    /\ pod # None /\ pod.phase # "Over"
    /\ Room
    /\ \/ /\ pod.images = "fine" /\ ~pod.initFailed
          /\ \E i \in {"other", "failing", "blocked", "invalid"} : Change([pod EXCEPT !.images = i])
       \/ pod.images \in {"other", "failing", "blocked"} /\ Change([pod EXCEPT !.images = "fine"])
       \/ /\ pod.phase = "Pending" /\ pod.images = "fine" /\ ~pod.initFailed
          /\ \/ Change([pod EXCEPT !.phase = "Running"])
             \/ Change([pod EXCEPT !.initFailed = TRUE])
       \/ Change([pod EXCEPT !.phase = "Over"])
    /\ UNCHANGED <<uids, aged, overdue, bk, Controller>>

\* The kubelet alternates between the reasons of a failing pull, ErrImagePull and
\* ImagePullBackOff.
PullFailsAgain ==
    /\ pod # None /\ pod.phase # "Over" /\ pod.images = "failing"
    /\ Room
    /\ Change(pod)
    /\ UNCHANGED <<uids, aged, overdue, bk, Controller>>

RemovePod == pod' = None /\ Report("delete", pod)

\* Others delete the pod: the cancel checker, a user, the job controller.
PodDeleted ==
    /\ pod # None
    /\ Room
    /\ RemovePod
    /\ UNCHANGED <<uids, aged, overdue, bk, Controller>>

GracePeriodPasses ==
    /\ pod # None
    /\ aged' = aged \cup {pod.uid}
    /\ UNCHANGED <<pod, uids, overdue, events, bk, Controller>>

PendingTimeoutPasses ==
    /\ pod # None
    /\ overdue' = overdue \cup {pod.uid}
    /\ UNCHANGED <<pod, uids, aged, events, bk, Controller>>

\* The agent acquires the job once its own container runs, which may be before
\* the pod leaves Pending; the job ends, is cancelled, or loses its reservation.
BuildkiteChanges ==
    /\ \/ /\ bk = "reserved" /\ pod # None /\ pod.phase # "Over" /\ ~pod.initFailed
          /\ bk' = "running"
       \/ bk = "running" /\ bk' \in {"finished", "canceling"}
       \/ bk = "canceling" /\ bk' = "canceled"
       \/ bk \in {"scheduled", "reserved"} /\ bk' \in {"canceled", "expired"}
       \/ bk = "reserved" /\ bk' = "scheduled"
    /\ UNCHANGED <<clusterVars, Controller>>

\* FailJob.  Buildkite finishes a job no agent works on.  It refuses any other, and
\* may refuse one it could finish (401, 403, 404, 422: the token, or a reservation
\* that is not this stack's): either error is permanent and the watcher cannot tell
\* them apart.  A transient error may hide that the job was finished.
Accepts == bk \in {"scheduled", "reserved"}
FailJobSucceeds == Accepts /\ bk' = "finished" /\ UNCHANGED refused
FailJobRefused == refused' = (refused \/ Accepts) /\ UNCHANGED bk
FailJobTransient(c) == c \in flaky /\ (UNCHANGED <<bk, refused>> \/ FailJobSucceeds)

-----------------------------------------------------------------------------
(* The informer handlers. *)

Take == handling = None /\ events # <<>> /\ events' = Tail(events)
This == Head(events).pod

stopWatchingForImageFailure == watchImage' = None /\ notified' = FALSE

\* Mutant: the pending timeout is not stopped.
OnDeleteKeepsPending ==
    /\ Take /\ Head(events).kind = "delete"
    /\ stopWatchingForImageFailure /\ UNCHANGED watchPending /\ StopCheckingJob
    /\ ignored' = FALSE
    /\ UNCHANGED <<pod, uids, aged, overdue, bk, refused, handling, image, pending, poll>>

OnDelete ==
    /\ Take /\ Head(events).kind = "delete"
    /\ stopWatchingForImageFailure /\ watchPending' = None /\ StopCheckingJob
    /\ ignored' = FALSE
    /\ UNCHANGED <<pod, uids, aged, overdue, bk, refused, handling, image, pending, poll>>

\* The first switch of runChecks: what a pod that left Pending needs no more.
StopByPhase(p) ==
    \/ p.phase = "Pending" /\ UNCHANGED <<watchVars, checking>>
    \/ /\ p.phase = "Running"
       /\ watchPending' = None /\ StopCheckingJob /\ UNCHANGED <<watchImage, notified>>
    \/ /\ p.phase = "Over"
       /\ stopWatchingForImageFailure /\ watchPending' = None /\ StopCheckingJob

\* The second switch, after StopByPhase.
WatchByPhase(p) ==
    \/ /\ p.phase = "Pending"
       /\ watchImage' = p /\ watchPending' = p /\ AddPod(p.uid) /\ UNCHANGED notified
    \/ /\ p.phase = "Running"
       /\ watchImage' = p /\ watchPending' = None /\ StopCheckingJob /\ UNCHANGED notified
    \/ p.phase = "Over" /\ StopByPhase(p)

\* runChecks of an ignored job, or of a pod whose init containers are well.
RunChecks ==
    /\ Take /\ Head(events).kind # "delete"
    /\ \/ ignored /\ StopByPhase(This)
       \/ ~ignored /\ ~This.initFailed /\ WatchByPhase(This)
    /\ UNCHANGED <<pod, uids, aged, overdue, bk, refused, handling, ignored,
                   image, pending, poll>>

RunChecksInitFailed ==
    /\ Take /\ Head(events).kind # "delete"
    /\ ~ignored /\ This.initFailed
    /\ StopByPhase(This)
    /\ handling' = This
    /\ UNCHANGED <<pod, uids, aged, overdue, bk, refused, ignored, image, pending, poll>>

\* failOnInitContainerFailure returns; then the rest of runChecks.
failOnInitContainerFailure ==
    /\ handling # None
    /\ \/ FailJobSucceeds /\ UNCHANGED ignored
       \/ FailJobRefused /\ ignored' = TRUE
       \/ FailJobTransient("init") /\ UNCHANGED ignored
    /\ WatchByPhase(handling)
    /\ handling' = None
    /\ UNCHANGED <<clusterVars, image, pending, poll>>

Handler == OnDelete \/ RunChecks \/ RunChecksInitFailed \/ failOnInitContainerFailure

-----------------------------------------------------------------------------
(* The imageFailureChecker goroutine. *)

\* Mutant: the grace period the wrong way round.
podHasFailingImagesEarly(p) ==
    p.images = "invalid" \/ (p.images \in {"failing", "blocked"} /\ p.uid \notin aged)

podHasFailingImages(p) ==
    p.images = "invalid" \/ (p.images \in {"failing", "blocked"} /\ p.uid \in aged)

\* forcefullyDeletePod: a pod is deleted by its name, which no other pod has; one
\* that is gone counts as deleted.
forcefullyDeletePod(uid) ==
    IF pod # None /\ pod.uid = uid THEN RemovePod ELSE UNCHANGED <<pod, events>>

ImageStage(s) == image' = [image EXCEPT !.stage = s]

ImageEnds == image' = Resting

ImageBegins ==
    /\ image = Resting
    /\ watchImage # None /\ podHasFailingImages(watchImage)
    /\ image' = [stage |-> "ask", pod |-> watchImage]
    /\ watchImage' = None
    /\ UNCHANGED <<clusterVars, bk, refused, handling, watchPending, ignored,
                   notified, pending, checkerVars>>

\* GetJobState, the retries included, answers with the state of the job; one the
\* code does not name, like expired, is left alone.
ImageAsks ==
    /\ image.stage = "ask"
    /\ \/ bk \in {"scheduled", "reserved"} /\ ImageStage("fail")
       \/ bk = "running" /\ ImageStage("notify")
       \/ bk \in {"canceling", "canceled", "finished"} /\ ImageStage("ignore")
       \/ bk = "expired" /\ ImageEnds
    /\ UNCHANGED <<clusterVars, bk, refused, handling, watchVars, ignored,
                   pending, checkerVars>>

\* No call of the checker succeeds: it has done what it can.
ImageGivesUp ==
    /\ "image" \in flaky
    /\ \/ image.stage \in {"ask", "delete"} /\ UNCHANGED <<bk, refused>>
       \/ image.stage = "fail" /\ FailJobTransient("image")
    /\ ImageEnds
    /\ UNCHANGED <<clusterVars, handling, watchVars, ignored, pending, checkerVars>>

\* Mutant: the pod is deleted although the job was not failed.
ImageFailsAnyhow ==
    /\ image.stage = "fail"
    /\ FailJobSucceeds \/ FailJobRefused
    /\ ImageStage("delete")
    /\ UNCHANGED <<clusterVars, handling, watchVars, ignored, pending, checkerVars>>

ImageFails ==
    /\ image.stage = "fail"
    /\ \/ FailJobSucceeds /\ ImageStage("delete")
       \/ FailJobRefused /\ ImageEnds
    /\ UNCHANGED <<clusterVars, handling, watchVars, ignored, pending, checkerVars>>

ImageDeletes ==
    /\ image.stage = "delete"
    /\ forcefullyDeletePod(image.pod.uid)
    /\ ImageStage("ignore")
    /\ UNCHANGED <<uids, aged, overdue, bk, refused, handling, watchVars,
                   ignored, pending, checkerVars>>

ImageIgnores ==
    /\ image.stage = "ignore"
    /\ ignored' = TRUE
    /\ ImageEnds
    /\ UNCHANGED <<clusterVars, bk, refused, handling, watchVars, pending, checkerVars>>

\* markImageFailureNotified; the notification itself is the batcher's.
ImageNotifies ==
    /\ image.stage = "notify"
    /\ notified' = TRUE
    /\ ImageEnds
    /\ UNCHANGED <<clusterVars, bk, refused, handling, watchImage,
                   watchPending, ignored, pending, checkerVars>>

ImageStep ==
    ImageBegins \/ ImageAsks \/ ImageFails \/ ImageDeletes \/ ImageIgnores \/ ImageNotifies

-----------------------------------------------------------------------------
(* The pendingTimeoutChecker goroutine. *)

\* Mutant: the exclusion the wrong way round.
podHasExceededPendingTimeoutExcluded(p) ==
    p.phase = "Pending" /\ p.images # "fine" /\ p.uid \in overdue

\* Any failing container excludes the pod, those the image checker passes over too.
podHasExceededPendingTimeout(p) ==
    p.phase = "Pending" /\ p.images = "fine" /\ p.uid \in overdue

PendingStage(s) == pending' = [pending EXCEPT !.stage = s]
PendingEnds == pending' = Resting

PendingBegins ==
    /\ pending = Resting
    /\ watchPending # None /\ podHasExceededPendingTimeout(watchPending)
    /\ pending' = [stage |-> "fail", pod |-> watchPending]
    /\ watchPending' = None
    /\ UNCHANGED <<clusterVars, bk, refused, handling, watchImage, ignored,
                   notified, image, checkerVars>>

PendingFails ==
    /\ pending.stage = "fail"
    /\ \/ FailJobSucceeds /\ PendingStage("delete")
       \/ FailJobRefused /\ PendingStage("ignore")
    /\ UNCHANGED <<clusterVars, handling, watchVars, ignored, image, checkerVars>>

\* Mutant: any error has the job ignored.
PendingGivesUpIgnoring ==
    /\ "pending" \in flaky
    /\ \/ pending.stage = "delete" /\ UNCHANGED <<bk, refused>>
       \/ pending.stage = "fail" /\ FailJobTransient("pending")
    /\ PendingStage("ignore")
    /\ UNCHANGED <<clusterVars, handling, watchVars, ignored, image, checkerVars>>

\* FailJob or the deletion fails with a transient error.
PendingGivesUp ==
    /\ "pending" \in flaky
    /\ \/ pending.stage = "delete" /\ UNCHANGED <<bk, refused>>
       \/ pending.stage = "fail" /\ FailJobTransient("pending")
    /\ PendingEnds
    /\ UNCHANGED <<clusterVars, handling, watchVars, ignored, image, checkerVars>>

PendingDeletes ==
    /\ pending.stage = "delete"
    /\ forcefullyDeletePod(pending.pod.uid)
    /\ PendingStage("ignore")
    /\ UNCHANGED <<uids, aged, overdue, bk, refused, handling, watchVars,
                   ignored, image, checkerVars>>

PendingIgnores ==
    /\ pending.stage = "ignore"
    /\ ignored' = TRUE
    /\ PendingEnds
    /\ UNCHANGED <<clusterVars, bk, refused, handling, watchVars, image, checkerVars>>

PendingStep == PendingBegins \/ PendingFails \/ PendingDeletes \/ PendingIgnores

-----------------------------------------------------------------------------
(* The cancel checker's poll, which JobWatcher takes apart, ends the        *)
(* registration after it found the job over.  Its deletion of the pod is    *)
(* one by others here, and its snapshot makes either come at any time.      *)

CancelCheckerStops ==
    /\ checking # None
    /\ StopCheckingJob
    /\ UNCHANGED <<clusterVars, bk, refused, handling, watchVars, ignored,
                   image, pending, poll>>

-----------------------------------------------------------------------------

Init ==
    /\ pod = None /\ uids = 0 /\ aged = {} /\ overdue = {} /\ events = <<>>
    /\ bk = "scheduled"
    /\ handling = None /\ ignored = FALSE
    /\ watchImage = None /\ watchPending = None /\ notified = FALSE
    /\ image = Resting /\ pending = Resting
    /\ flaky \in Flaky /\ refused = FALSE
    /\ CheckerInit

Environment ==
    \/ CreatePod \/ PodProgress \/ PullFailsAgain \/ PodDeleted
    \/ GracePeriodPasses \/ PendingTimeoutPasses \/ BuildkiteChanges

\* What may fail is settled from the start.
Step(A) == A /\ UNCHANGED flaky

Next ==
    \/ Step(Environment)
    \/ Step(Handler)
    \/ Step(ImageStep \/ ImageGivesUp)
    \/ Step(PendingStep \/ PendingGivesUp)
    \/ Step(CancelCheckerStops)

Spec == Init /\ [][Next]_vars

\* The goroutines run on tickers and an event queue; time passes; the kubelet goes
\* on reporting a failing pull; no call fails for ever.
Fairness ==
    /\ WF_vars(Step(Handler))
    /\ WF_vars(Step(GracePeriodPasses)) /\ WF_vars(Step(PendingTimeoutPasses))
    /\ WF_vars(Step(PullFailsAgain))
    /\ WF_vars(Step(ImageStep)) /\ SF_vars(Step(ImageAsks)) /\ SF_vars(Step(ImageFails))
    /\ WF_vars(Step(PendingStep))

FairSpec == Spec /\ Fairness

-----------------------------------------------------------------------------
(* Properties. *)

\* The variables keep their types, and a checker under way has a pod.
TypeOK ==
    /\ {pod, handling, watchImage, watchPending} \subseteq Pod \cup {None}
    /\ uids \in 0..MaxPods /\ aged \subseteq 1..MaxPods /\ overdue \subseteq 1..MaxPods
    /\ bk \in {"scheduled", "reserved", "running", "canceling", "canceled", "expired", "finished"}
    /\ refused \in BOOLEAN
    /\ events \in Seq(Event)
    /\ ignored \in BOOLEAN /\ notified \in BOOLEAN
    /\ image \in {Resting} \cup [stage : {"ask", "fail", "delete", "ignore", "notify"}, pod : Pod]
    /\ pending \in {Resting} \cup [stage : {"fail", "delete", "ignore"}, pod : Pod]

DeletionQueued(uid) ==
    \E i \in 1..Len(events) : events[i].kind = "delete" /\ events[i].pod.uid = uid

Entries == {watchImage, watchPending, checking} \ {None}

\* What the watcher and the cancel checker keep about a pod ends with that pod:
\* the pod exists or its deletion is about to be handled.
EntriesBacked ==
    \A e \in Entries : (pod # None /\ pod.uid = e.uid) \/ DeletionQueued(e.uid)

\* No checker force-deletes a pod while an agent works on the job: one acquired
\* just before FailJob is left to its agent.
NoAgentCutOff ==
    "delete" \in {image.stage, pending.stage} => bk \notin {"running", "canceling"}

\* An ignored job can no longer be failed ("Jobs that we've failed, cancelled, or
\* were found to be in a terminal state", pod_watcher.go:45-46), or Buildkite has
\* refused to fail it although it could, which the watcher takes for a job that is
\* over (pod_watcher.go:408, 709).  No other error and no order of events has a job
\* ignored: an ignore that is set after the pod's deletion was handled, and so
\* stays, hides a later pod whose job could be failed only after such a refusal.
IgnoredForCause == ignored => ~Accepts \/ refused

\* A container that cannot be created for longer than the grace period does not keep
\* its job waiting for ever: with a pull that keeps failing although every call the
\* checker makes may fail again and again, with another reason, which sends no
\* further event, if the calls of the one attempt do not fail.  A refusal of FailJob
\* ends either.
FailingImageResolved ==
    (/\ pod # None /\ Accepts
     /\ pod.images = "failing" \/ (pod.images = "blocked" /\ "image" \notin flaky))
        ~> (\/ pod = None \/ pod.images \notin {"failing", "blocked"} \/ pod.phase = "Over"
            \/ ~Accepts \/ refused)

\* Nor does a pod that stays Pending with no such container, as long as the checker's
\* own FailJob calls do not fail with a transient error and are not refused.
StuckPendingResolved ==
    (/\ pod # None /\ pod.phase = "Pending" /\ pod.images = "fine"
     /\ Accepts /\ "pending" \notin flaky)
        ~> (\/ pod = None \/ pod.phase # "Pending" \/ pod.images # "fine"
            \/ ~Accepts \/ refused)
=============================================================================
