# A TLA+ development of agent-stack-k8s

agent-stack-k8s is a controller that runs Buildkite jobs as Kubernetes Jobs. It
polls Buildkite for scheduled jobs, admits as many as a limit allows, reserves
them, creates a Kubernetes Job for each, and then watches Jobs and pods to report
failures, carry out cancellations and clean up. This directory models the parts
of the controller that keep state shared between goroutines, informer callbacks
and remote calls, and the construction of the pods it runs. TLC checks the models
on small instances; for every instance TLAPS proves the safety properties of all of
them, and that the limiter implements an abstract specification of its slots.

Source paths are relative to `src/internal/controller/` unless they start with
`src/`.

## 1. Inventory

### The job flow

    monitor -> limiter -> reserver -> [token issuer] -> deduper -> scheduler
                  ^                                        ^          |
                  |            Job informer                |          v
                  +----------------------------------------+---- Kubernetes
                                                           |
                             job watcher, pod watcher, completion watcher

| Component | State it keeps | Operations | Correct means |
|---|---|---|---|
| **monitor** (`monitor/monitor.go`) | query cursor, time of the last query | poll, paginate, filter by tags, hand over to the limiter | every scheduled job is handed over again until it is taken |
| **limiter** (`limiter/limiter.go`) | priority queue, `jobs` map with slot states, `inFlight`, `paused`, `stopping`, a broadcast channel, two contexts | `HandleMany`, worker loop, `tryDequeueWork`, `OnAdd/OnUpdate/OnDelete`, `Pause`, `Drain` | a slot is held exactly while its job is dispatched or runs; no wakeup is lost; order by priority; shutdown ends |
| **reserver** (`reserver/reserver.go`) | one goroutine, requests channel, a batch | `Handle`, batching, `reserve` | every caller is answered; no dispatch outlives its reservation |
| **token issuer** (`jatissuer/jatissuer.go`) | one goroutine, a batch, a rate limiter | `Handle`, batching, `issue` with endless retry | a job is given its own token; a batch whose callers are gone does not block the next |
| **deduper** (`deduper/deduper.go`) | `inFlight` marks | `Handle`, informer callbacks, `casa` | one creation at a time per UUID; a mark ends with its Job |
| **scheduler** (`scheduler/scheduler.go`) | none; the cluster | `Handle`, `createJob`, reconciliation, Secret, cleanup | no Job without its Secret is left; nobody else's Job is touched; attempts end |
| **job building** (`scheduler/scheduler.go`, `imagecheck.go`, `resource.go`, `config/`) | the shared configuration, its podSpecPatch included | `ParseJob`, `Build`, `PatchPodSpec` | the agent waits for exactly the containers that run; what is built is accepted; patches do not take commands from under the agent; jobs do not affect each other |
| **job watcher** (`scheduler/job_watcher.go`) | `stallingJobs`, `ignoredJobs` | informer callbacks, stalled-job reaper | stalled Jobs are reaped, replacements are not; bookkeeping ends with the Job |
| **cancel checker** (`scheduler/batch_buildkite_job_checker.go`) | `checkingJobs`, shared by both watchers | `AddPod`, `AddK8sJob`, `StopCheckingJob`, poll | cancelling a job without a running agent takes effect |
| **pod watcher** (`scheduler/pod_watcher.go`) | three watch maps, `ignoredJobs` | informer callbacks, image-failure and pending-timeout checkers, force deletion | failing pods are failed once and removed |
| **completion watcher** (`scheduler/completions.go`) | none; the Job's deadline | `OnAdd/OnUpdate`, `cleanupSidecars` | Jobs whose agent has ended end too, and not before |
| **controller** (`controller.go`) | contexts, wiring | `Run`, shutdown | informers are registered before the first poll; stop, then drain, then cancel |
| **Stacks API client, notification batcher** (`src/api/`) | HTTP; a channel of notifications | requests; batching | errors are classified; batches within limits |

Metrics, the linter, the version command, generated GraphQL code and
test doubles keep no state worth a model. `PROJECT.json` lists every component
with its status and the reason for what is left out.

### What is hard here

* *Interleavings under and outside the lock.* The limiter's workers read a
  broadcast channel under the lock and wait on it outside; a handler's result
  races the informer events of the very Job it created.
* *State read, then used after a call.* The reaper confirms a candidate with two
  remote calls and then acts by name; cleanup deletes what it verified earlier;
  the cancel checker polls on a snapshot.
* *Lost and late answers.* A create may fail after it took effect, or take effect
  after the caller gave up.
* *Deterministic names.* All attempts at one Buildkite job compete for one Job
  name, so an object found by name may belong to another attempt or stack.
* *Informers.* Events lag, watches break, relists report deletions as tombstones
  and leave out what came and went in between.
* *Deadlines.* Reservations expire at Buildkite while requests, batching and
  endless retries take their time; Drain has a deadline of its own.
* *Crash and restart.* All state but the cluster's is in memory.
* *Shared configuration.* Workers build pods concurrently from one configuration,
  parts of which the build modifies.

`PROJECT.json`, "hazards", has these at the line where they bite, with the
properties that cover them or the reason why none does yet.

## 2. Modules

| Module | Models | Used by |
|---|---|---|
| `Limiter` | the limiter against an arbitrary handler and informer | `LimiterSlots`, `Pipeline` |
| `JobSlots` | abstract: what the limiter promises about slots | `LimiterSlots` |
| `LimiterSlots` | the refinement mapping from `Limiter` to `JobSlots` | `MCLimiter`, `LimiterProofs` |
| `LimiterProofs` | theorems about `Limiter`, and that it implements `JobSlots` | `PipelineProofs` |
| `Pipeline` | limiter, reserver's outcome, deduper, scheduler's outcome, closed with Buildkite, the cluster, the informer, crash and restart | `MCPipeline`, `PipelineProofs` |
| `ReserveAndIssue` | reserver and token issuer, with time | `MCReserveAndIssue`, `ReserveAndIssueProofs` |
| `JobCreation` | `createJob` with the token Secret, one API call per step, under the deduper's mark | `MCJobCreation`, `JobCreationProofs` |
| `CancelChecker` | the cancel checker for one Buildkite job | `JobWatcher`, `PodWatcher` |
| `JobWatcher` | job watcher and reaper, composed with the cancel checker and the cluster | `MCJobWatcher`, `JobWatcherProofs` |
| `PodWatcher` | pod watcher: handlers, image-failure and pending-timeout checkers, with the kubelet and Buildkite | `MCPodWatcher`, `PodWatcherProofs` |
| `Completions` | completion watcher for one pod, with the kubelet, other writers of the Job, time and clock skew | `MCCompletions`, `CompletionsProofs` |
| `JobBuild` | `ParseJob`, `Build`, `PatchPodSpec`, image checks, volumes and mounts, build after build | `MCJobBuild`, `JobBuildProofs` |

`PipelineProofs`, `ReserveAndIssueProofs`, `JobCreationProofs`, `JobWatcherProofs`,
`PodWatcherProofs`, `CompletionsProofs` and `JobBuildProofs` hold the theorems about the
module they are named after (section 4).

`Pipeline` EXTENDS `Limiter` and reuses its actions with the real handlers in
place of the arbitrary ones; `JobWatcher` EXTENDS `CancelChecker` and adds to the
checker's steps what they do to the cluster; `PodWatcher` uses its registrations.
`LimiterSlots` INSTANCEs `JobSlots` over the limiter's variables. Operators
commented "Mutant" are deliberately wrong versions of the definition that follows them. They occur in no
specification and document which mistake each property would reveal.

### Limiter

Every critical section under `l.mu` is one action. `queue`, `paused`,
`stopping`, `inFlight` are the fields of that name. `jobs[j]` is the `jobState`
of `l.jobs[j]` or `NoState`. The identity of the `jobState` pointer, by which a
handler recognises that the entry is still its own (limiter.go:305), is `owner`:
the worker that made the entry, until the informer observes it. `woken[w]` says
that the `newWork` channel worker `w` picked up has been closed; `notifyWorkers`
closes it for all waiting workers. `pc` follows the worker loop: `top` (look
under the lock), `wait` (select), `check` (after the select), `dequeue`
(`tryDequeueWork`), `handle`, `done`. `drain` follows `Drain` and the goroutine
that waits for the workers. Queue operations are pure operators: `inPlaceDedup`,
`SortByPriority` (stable, by rank), `Truncate`.

### JobSlots and LimiterSlots

`JobSlots` has no queue, lock, counter or wakeup: each job's slot is free, claimed
by a worker, running or over; `Claim` needs a free slot and fewer than `Limit` in
use; `EndDispatch` may give back the worker's own claim, if it is one still;
`Seen` is whatever the cluster shows. The mapping reads `slot` off `l.jobs`
(`SlotOf`) and `busy` off the workers' jobs. The limiter decides by the counter
`inFlight`, the abstract specification by the number of slots in use: that they
agree at every claim is the content of the refinement.

### Pipeline

A worker in `handle` goes through `reserve`, `dedup`, `create`, `created` or
`failed`, `return`, the nested `Handle` calls. The cluster holds at most one Job
per UUID. The informer has a cache (`store`) and one event queue per listener, so
limiter and deduper see the same events at different times. `WatchBreaks` and
`Relist` model the reflector: a relist compares cache and cluster and reports an
object that is gone as a tombstone. `Restart` loses everything in memory;
`InitiallyListed` is the state after registration of the informers, which `Run`
waits for before the monitor starts. `Restart` keeps the cluster and Buildkite.
`Faults` names the faults that may happen, each at most once and `MaxFaults` in
all: `ambiguousCreate` (a create that took effect is reported as an error),
`watchGap`, `restart`.

### ReserveAndIssue

A caller is a limiter worker with a job of its own; `Send` is the rendezvous on
the unbuffered requests channel. `left[c]` is the time to the deadline that the
reserver puts on the caller's context, `held[c]` the time to Buildkite's expiry.
`Tick` lets one unit of time pass anywhere: during batching, a call, a retry.

### JobCreation

One step per API call. `kjob` is the Job under the UUID's name with the UID,
Secret name and identity that the code compares. A call may fail although it took
effect (`Fault`), may be refused for good (`Refusable`), may take effect late
(`LateCreate`), and a loop's context may expire (`Deadlines`). `gaveUp` records
attempts that lost track of a Job; it is read by properties only.

### JobWatcher and CancelChecker

One Buildkite job, run by up to `MaxUid` Jobs in turn under one name. `events` is
the informer's queue, so a handler may see a Job that has been replaced since.
The reaper's steps are the calls of `cleanupStalledJobs`: gather, ask Buildkite,
ask the cluster, ignore, untrack, fail the job, set the deadline. Whether the
grace period has passed is left open: a pass may find a candidate at any time
after the Job started. Any agent may take the Buildkite job (`elsewhere`), and the
update that sets the deadline may fail (`unreaped`).

### PodWatcher

One Buildkite job with up to `MaxPods` pods in turn. A pod is reduced to its
phase, the worst waiting reason of its containers and whether a gating init container
failed. The reasons (`images`) are: fine; failing, a pull that is retried and reported
again; blocked, another reason with a grace period, such as a missing Secret, which once
reported is not reported again; an invalid name; and a reason of some other container
that the image checker passes over.
`watchImage`, `watchPending`, `ignored` and `notified` are the watcher's maps for
this job; `image` and `pending` say how far each checker goroutine is with the pod
it took off its map: `ask` (`GetJobState`), `fail` (`FailJob`), `delete`, `ignore`,
`notify`. The handler's own `FailJob` for a failed init container blocks it
between `RunChecksInitFailed` and `failOnInitContainerFailure`. `flaky` names the
callers whose calls may fail transiently, any number of times; a transient error
of `FailJob` may also hide that it took effect. In any state of the job `FailJob` may be
refused for good, since any error that is not to be retried counts as permanent
(src/api/agent_client.go:158), a 401 or 403 included; `refused` records that this
happened to a job that could be failed, and is read by properties only. The cancel checker is seen from the
other side than in `JobWatcher`: its deregistration and its deletions may come at
any time.

### Completions

One pod and its Job, in half seconds since the Job's start, so that rounding
matters. `pod` is the API server's version, `queue` the versions not delivered,
`seen` the informer's cache, which is the `old` of the next `OnUpdate`. `h` is the
handler between `Get` and `Update`; `fresh` stands for the resource version it
read. `finishedAt` is in the node's time, `now` in the control plane's. `ours`
says that the deadline in place was written by the watcher, knowing the start;
`missed` that its one attempt failed or came while the node was lost. Both are
read by properties only.

### JobBuild

A build is a step: it turns a job (what `ParseJob` finds in it) and the
configuration into a pod, or fails. The operators follow `Build` in its order:
command containers, sidecars, agent, checkout, image checks (`Assembled`), the
controller's patch, the custom image, the plugin's patch, removal of the checkout
container, deduplication of mounts. `patch` is the controller's podSpecPatch,
which `PatchPodSpec` changes in place (`Rewritten`), also when it then returns an
error. A container is its name, image, pull policy, entrypoint, BUILDKITE_COMMAND,
BUILDKITE_CONTAINER_ID and mounts; a command line is the pair of the interposer
that joined it and what was given. The strategic merge is reduced to what patches
do to these and to the volumes. `Merge`, `MergeAll` and `MergeVolumes` model the library
from its use.

Mounts come from everywhere the code takes them from: the workspace and the plugin's
`extraVolumeMounts` (`volumeMounts`), the agent config, the checkout, command and sidecar
params of controller and plugin, git mirrors and credentials, the containers, sidecars and
init containers of the plugin's podSpec, and both patches. Volumes come from the podSpec,
the configuration, the checkout params and both patches. Their order is the code's, since
the first mount at a path is the one that stays, except that the mounts of a patch come
first: the merge replaces a mount at the same path, so that what is left after the
deduplication is the same set. The workspace volume has its default name.

The operators take the configuration as a parameter (`w`) and state in closed form
what the code's loops compute: `Pick` keeps the elements at given positions,
`Deduplicated` the first mount at each path, `LastSet` the value the last line of a
patch sets, `Added` the first line of each name the pod lacks. `MCJobBuild` compares
the closed forms of the merges and of the deduplication with the loops themselves, for
all patches of up to three lines and all lists of up to three volumes or four mounts
(`MergeIsTheLoop`, `MergeVolumesIsTheLoop`, `DeduplicatedIsTheLoop`); TLC evaluates them
before the runs.
The generated names `container-i`, `sidecar-i` and `imagecheck-i` are sequences
given as constants; `NamesAssumption` says that they are distinct, are none of the
scheduler's fixed names, and suffice for the jobs.

What the properties presuppose is named: `ValidNames` (the user's names are distinct
and not the scheduler's), `ValidVolumes` (volume names are distinct, and a mount that
somebody writes is of the workspace, of a volume of the podSpec or of one that a patch
brings), `ValidPatches` (the patches use no name in both lists).

## 3. Runs

| Run | Instance | Checks |
|---|---|---|
| `limiter` | 3 jobs, 2 workers, 2 priorities, limit 1, queue 2 | type, `SlotAccounting`, `NoLostWakeup`, `QueueOrdered`, `DispatchSurvivesIntake`, the refinement `ImplementsJobSlots`, `ShedOnlyWhenOutranked`, `HighestPriorityFirst`, `WorkersServe`, `DrainTerminates` |
| `pipeline` | 2 jobs, 2 workers, limit 1, one fault of any kind | `NoSlotLeak`, `MarkBacked`, `CreateWithinLimit` |
| `pipeline_live` | 2 jobs, 1 worker, reliable watch, a restart | `EventuallyCreated`, `TakesWhileBelowLimit` |
| `job_creation` | 2 attempts, 2 steps per loop, 2 lost answers, 1 deletion by others | `NoIncompleteJobLeft`, `CreatedJobKept`, `ForeignJobUntouched`, `EveryAttemptEnds` |
| `job_watcher` | 2 successive Jobs, 1 undelivered event besides Job creations and the controller's own | `BookkeepingBacked`, `OpenJobKeepsToken`, `StalledJobReaped`, `CancelReachesPodless` |
| `pod_watcher` | 1 pod, 1 undelivered event besides the controller's own, transient errors in all callers or in all but the two checkers | `EntriesBacked`, `NoAgentCutOff`, `IgnoredForCause`, `FailingImageResolved`, `StuckPendingResolved` |
| `reserve_and_issue` | 2 callers, batches of 2, reservations of 2 units | `AnswerComing`, `DispatchWithinReservation`, `TokenOfOwnJob`, `EveryCallerReturns`, `IssuerFreed` |
| `completions` | grace period 2 s, buffer 1 s, skew of up to half a second, 1 write by others, 1 restart, 2 tries | `CleanupNeverExtends`, `RemainingGetBuffer`, `LingeringCleanedUp` |
| `job_build` | 39 configurations, 4 controller patches, over 1000 jobs | `AgentAwaitsRunning`, `AlwaysPulled`, `PodSpecAccepted`, `CommandsUnderAgent` |
| `pipeline_tombstone` | a watch that may break | **violates** `EventuallyCreated` |
| `job_creation_adopted` | 2 attempts | **violates** `CreatedJobKeepsToken` |
| `build_shared` | 2 builds with and without an interposer | **violates** `OwnInterposer` |

The type invariants of the other modules (`TypeOK`, `PipelineTypeOK`) hold on the
same instances; only the limiter's is among the checked properties, as it carries
the claim that `inFlight` is never negative.

### Why the bounds are enough

* *Limiter*: three jobs and a queue of two make truncation happen; limit 1 with
  two workers makes both compete for the last slot; two priorities make the order
  matter. A call of `HandleMany` brings at most `MaxBatch` = 1 job, repeatedly, in
  any order and also when the job is already queued; larger batches are covered by
  the proofs, which hold for any `MaxBatch`. The refinement was also checked with
  three interchangeable workers and limit 2 (172,048 states).
* *Pipeline*: two jobs compete for one slot, and each may be dispatched again
  after its Job is gone. `MaxBatch` is 0 because the batches come from `Poll`.
  `MaxEvents` bounds how far listeners lag; it holds back the ends of Jobs, never
  the controller's steps. The properties also hold with two faults in one
  behaviour and `MaxEvents` = 1 (7.1 million states).
* *JobCreation*: two attempts are the smallest number at which one meets the
  other's Job; two steps per loop distinguish a retry from exhaustion.
* *JobWatcher*: two Jobs are needed for a replacement, and events of the first
  arrive after the second exists.
* *PodWatcher*: pods have names of their own, so a replacement cannot be mistaken
  for the pod a checker holds; one pod with events that lag shows every stale
  snapshot. The safety properties were also checked with two pods and transient
  errors everywhere (4.5 million states).
* *ReserveAndIssue*: two callers share a batch or follow each other; batches are
  formed, abandoned and refilled in every order. The safety properties were also
  checked with three interchangeable callers (1.5 million states).
* *Completions*: seven half seconds let the grace period pass before and after the
  agent's exit, with the deadline on either side of a configured one; two tries
  distinguish a retry from exhaustion.
* *JobBuild*: one build from each initial state, since builds share nothing but
  the patch. Configurations and jobs come in families that vary what belongs
  together: images and policies, commands and patches, volumes and mounts, parsing.

### Fairness

Goroutines are scheduled, tickers tick and calls return: every call is bounded by
a context or an HTTP timeout (weak fairness of the goroutines' steps). Handlers of
the limiter return because every call below them is bounded by the dispatch
context; `EveryCallerReturns` and `EveryAttemptEnds` check this for the two
stages and for `createJob`. `pipeline_live` assumes in addition that pods end,
that finished Jobs are collected by their TTL, that reservations lapse, and strong
fairness of a successful reservation and creation: no API fails the same call for
the same job for ever. `job_watcher` assumes strong fairness of the
confirmations and of the poll's answer: they may fail any number of times, not
always. `completions` assumes that the informer delivers, the handler goes on, and a
crashed controller is started again by its Deployment. `pod_watcher` assumes that a failing pull is reported again and again
(the kubelet alternates between ErrImagePull and ImagePullBackOff; it is assumed of these
only, not of the blocked reasons) and strong fairness of the image
checker's successful lookup and `FailJob`; nothing brings back a pod that the
pending timeout dropped, so its calls get no such help. Nothing is assumed of
users, of agents, or of `Pause`.

### Findings

* **A deletion reported as a tombstone leaves the job marked** (`pipeline_tombstone`).
  `deduper.OnDelete` (deduper.go:174) accepts `*batchv1.Job` only. A Job deleted
  while the watch was down arrives as `DeletedFinalStateUnknown`; the mark stays
  and the Buildkite job is refused as a duplicate until the controller restarts.
  The limiter's `OnDelete` unwraps tombstones, and `NoSlotLeak` shows that it does
  so correctly.
* **An attempt can adopt and destroy another attempt's Job** (`job_creation_adopted`).
  After an ambiguous create, `reconcileCreatedJob` (scheduler.go:291) accepts any
  Job of the same identity. If the attempt's own Job was deleted and a second
  attempt has created and completed a new one, the first compares the Secret with
  its own token, finds a conflict and cleans up: the second attempt's Secret and
  Job are deleted. `CreatedJobKept` shows that this is the only way.
* **The first job fixes the command line of all** (`build_shared`). When the
  controller's podSpecPatch gives a command container a command, `PatchPodSpec`
  (scheduler.go:1160) moves it into BUILDKITE_COMMAND by changing the patch itself,
  which is `w.cfg.PodSpecPatch`. The line is joined with the interposer of the job
  built first; later jobs find no command in the patch and get that line, although
  "the plugin overrides the default, if set" (scheduler.go:632).

### Known limits

Properties above hold under conditions that the constants name. Changing them
reproduces the following behaviours of the code.

* `ambiguousCreate` lets one Job too many be created: a create that took effect but
  was reported as an error frees the slot (limiter.go:305) before the informer
  reports the Job. `CreateWithinLimit` allows for that one Job and no more.
* `UnseenJobs = TRUE` breaks `TakesWhileBelowLimit`: the slot of a Job that comes
  and goes inside one watch gap is never given back (limiter.go:232).
* `StalledJobReaped` has two exceptions. While another agent works on the Buildkite
  job, the candidate is dropped as a false positive (job_watcher.go:470) and no
  event adds it again. An update that fails is not tried again, since the Job is no
  longer tracked (job_watcher.go:593).
* `StalledJobReaped` and `CancelReachesPodless` are about the first Job of a UUID. A
  pass over it can hit its successor: the ignore comes after the confirmations,
  "from now until it is deleted" (job_watcher.go:481), and if the deletion event has
  been handled in between nothing ends it, so the successor is not watched;
  `removeFromStalling` (job_watcher.go:483) goes by UUID and may drop the
  successor's entry; the deadline is set by name (job_watcher.go:583) without the
  comparison of UIDs that the confirmation makes. A late event of the first Job's
  pod may take over or end the successor's cancellation check. The pod watcher has
  the ignore pattern too (pod_watcher.go:797); there `IgnoredForCause` shows that a
  left-over ignore can only hide pods of a job that is over, or that Buildkite refused
  to fail.
* Any `FailJob` error that is not to be retried is taken for the end of the job
  (pod_watcher.go:408, 709), for example a 403 for a token without the permission: a job
  that could still be failed is then ignored, by the pending timeout or after a failed
  init container, and no later event or tick deals with it. The image checker does not
  ignore it, but does not try again without another event. `IgnoredForCause`,
  `FailingImageResolved` and `StuckPendingResolved` name the refusal (`refused`) as their
  one exception of this kind.
* `"pending" \in flaky` breaks the conclusion of `StuckPendingResolved`: the pod has
  left `watchingForPendingTimeout` when `FailJob` fails (pod_watcher.go:705), and a
  pod that stays Pending sends no event that would bring it back, since the
  informer does not resync (controller.go:369).
* An invalid image name is not reported repeatedly, nor is a missing Secret or another
  blocked reason: if the lookup of the Buildkite job fails five times
  (pod_watcher.go:754), such a pod is not tried again, and the pending timeout leaves it
  out. `FailingImageResolved` is about pulls that are retried, and about blocked
  containers as long as the checker's calls do not fail transiently.
* An ignore in the job watcher and marks of the deduper have a direction that no property
  claims. `BookkeepingBacked` leaves out `ignoredJobs` for the reason above; and
  `MarkBacked` says that a mark has a reason, not that a Job under creation has its mark:
  the error path unmarks the UUID (deduper.go:106) even if another attempt has marked it
  since. The second attempt that this permits meets the Job under its name.
* `DrainTerminates` rests on handlers returning by themselves, which weak fairness of
  `HandlerReturns` says with and without a cancelled context; it does not show that
  Drain's deadline (limiter.go:344) would end a handler that never returns.
* A Pending pod whose only failing container is not one of the controller's own is
  left out by both checkers: by the image checker because the container does not
  count (pod_watcher.go:325), by the pending timeout because any such reason
  excludes the pod (pod_watcher.go:658), on the assumption that it is "already being
  handled by the image failure checker". Its end is left to the agent's timeout.
* `LingeringCleanedUp` has the exception `missed`: `OnUpdate` skips pods whose agent
  had terminated before (completions.go:101), so an attempt that failed, or an exit
  that was first seen while the node was lost, is made up for by a restart only.
* With the checkout skipped, a container of the user's named `checkout` is counted
  (scheduler.go:778) and then removed (scheduler.go:1014): the agent waits for a
  container that does not exist. `AgentAwaitsRunning` excepts such jobs, and only them.
* Image checks and pull policies are settled before the patches and
  BUILDKITE_IMAGE replace images, although the comment at scheduler.go:967 says that
  they come after: a replaced image is not checked, and it inherits a policy that
  may have been lowered from Always (imagecheck.go:90). The policy is lowered even
  with `SkipImageCheckContainers`, when nothing else pulls the image. `AlwaysPulled` is
  therefore about containers that keep their image, with checks; it excepts those whose
  policy a patch sets, and pods in which a patch gives an init container that pulls
  another image or policy.
* The removal of the checkout container deletes from the slice it ranges over
  (scheduler.go:1012) and would leave the second of two adjacent containers named
  `checkout`, where `RemoveCheckout` removes both. Kubernetes refuses such a pod, and no
  property that speaks of valid names depends on it.
* The default command container, the agent and the checkout container are given the same
  `volumeMounts` slice (scheduler.go:696, 801, 1365), to which the Apply methods append. If
  the append of the plugin's `extraVolumeMounts` left spare capacity, which depends on
  their number and Go's allocator, these appends write to one array: the first mounts
  that one container gets of its own are replaced by those of the container made last. In
  `JobBuild` each container has mounts of its own.
* Volumes are not deduplicated as mounts are: a git mirrors volume of the same name
  in configuration and plugin yields a pod that Kubernetes refuses; with different
  names the plugin's is added and not mounted, since both mounts have the default
  path and the first one wins (config.go:220).
* `QueryResetInterval` is configured (config.go:69) and never handed to the monitor
  (controller.go:188): the cursor is reset at every poll (monitor.go:66), and jobs
  beyond `PaginationDepthLimit` pages are not seen while those before them stay.

## 4. Proofs

Every safety property that a run checks, invariant or action property, is proved for
every value of the constants. Each module of theorems has the same shape: an inductive invariant, which TLC found no violation of before it was
proved; lemmas about what the operators and groups of steps do to it; one lemma
per action; the theorem `Spec => []Inv`; and the properties as consequences of it.
The bounds of the runs (`MaxFaults`, `MaxEvents`, `MaxUid`, ...) are constants of the
theorems like all others, so a theorem holds however large they are.
In `JobBuildProofs` the weight is on the operators: a step is a whole build, and most
lemmas are about what `Build` makes of its input.

The assumptions are those of the component modules, and TLC evaluates them on each
run: sets of jobs, workers, callers and attempts are finite, limits are natural
numbers (the ones the code does not allow to be zero are not zero), priorities are
integers, configurations, jobs and patches are records of the right fields, generated
names are distinct, and the values that stand for nil (`NoJob`, `NoState`, `None`) are none of
the things they stand in for.

### The limiter

`LimiterProofs` holds for any finite sets of jobs and workers, any integer priorities and any `MaxInFlight`, `WorkQueueLimit` and `MaxBatch`.

| Theorem | Statement |
|---|---|
| `LimiterInvariant` | `Spec => []LimiterInv`, the inductive invariant |
| `TypeCorrect`, `SlotAccountingHolds`, `NoLostWakeupHolds`, `QueueOrderedHolds`, `DispatchSurvivesIntakeHolds` | its conjuncts that runs check |
| `HighestPriorityFirstHolds` | which job a step that begins a dispatch takes |
| `ShedOnlyWhenOutrankedHolds` | which jobs a step may drop from the queue or cut off a poll |
| `LimiterImplementsJobSlots` | `Spec => ImplementsJobSlots`, the refinement |

`LimiterInv` is the conjunction of the properties with two facts
that make it inductive. `AttemptsUnfinished`: an entry that only its worker has
touched is not finished, so that a failing handler which finds its own entry gives
back a slot that is really held. `WorkAssigned`: a worker in its handler has a
job, so that the entry it looks up exists.
`OneEntryChange` is the accounting argument: when one entry of `jobs` changes, the
number of occupied slots changes by the difference of that entry alone; every
action that touches `jobs` cites it, with the finite-cardinality theorems of the
library. `DedupFacts`, `SortFacts`, `SubSeqFacts` and `EnqueueFacts` state what
the queue operators guarantee: results are sequences of queued jobs, without
duplicates, in order, within the limit. `RankIsNumbering` and `ArrangeFacts` carry
them: the sort places each element at its rank, and ranks number the positions.
`DispatchStep` says that only `tryDequeueWork` begins a dispatch; with the order of
the queue it makes the first fresh entry the one of the highest priority.
`ShedOnlyWhenOutranked` is about what is *not* kept: a position that `Truncate` cuts off
comes after `WorkQueueLimit` positions of the sorted list, all at least as urgent, and a
worker passes over only jobs that the limiter knows already.

The refinement: the limiter's initial states map to initial states of
`JobSlots`, and under the inductive invariant every step maps to a step or leaves
the slots unchanged. `TakeJob` is a `Claim`, a returning handler an `EndDispatch`,
an informer event a `Seen`; queueing, waking, pausing and shutdown are stutters.
The invariant is needed at the claim: the code compares `inFlight` with the limit,
and `SlotAccounting` turns it into the number of slots in use.

### The closed job flow

`PipelineProofs` holds for any jobs, workers and queues, and any combination of the
faults, each of which happens at most once in a behaviour. It builds on the limiter's lemmas: a step of the flow that
is one of the limiter's keeps `LimiterInv`, a step of the environment leaves its
variables alone, and a restart starts it anew (`LimiterKept`).

`FlowInv` adds what ties the limiter and the deduper to the cluster.
`LastEventSays`: the last queued event about a Job says what the informer's cache
holds. `ToldAgrees`: once no event about a Job is queued, the limiter's entry agrees
with the cache. `AttemptBacked`: an entry that an attempt has left behind, and that no
event is about to correct, belongs to a Job that exists. From these follows
`NoSlotLeakHolds`, under the hypothesis `~UnseenJobs`. With `UnseenJobs` it is false: a
Job that comes and goes inside one watch gap takes its slot along (Known limits).
`MarkInv` is the same for the deduper's marks while the watch has not broken, and
gives `MarkBackedHolds`.

`CreateWithinLimitHolds` needs no such hypothesis. `LimitInv` says that for every UUID
but at most one (`a`, of which a create took effect and was reported as an error)
there is one life at a time (`OneLife`): no entry in `jobs` means that no Job exists,
is cached or is announced; a worker that may still create has the entry; and the queue
tells one story that fits cluster and cache (`QueueFits`). Then the running Jobs
other than `a`'s are among the occupied slots. `Within` says that while a worker may go
on to create a Job, the slots other than `a`'s are at most `MaxInFlight`: it is shown
where a slot is claimed, and no later step adds one for a UUID that had none. The
Jobs inherited at a start may exceed the limit, and therefore `Within` does not speak
of other states. The ambiguous create is the one step that picks `a`; that the
code can exceed the limit by this one Job is the reason for the existential quantifier.

### createJob

`JobCreationProofs` holds for any number of attempts at one job, any `Steps`, any calls
that may be refused, lost and late answers, expiring contexts and deletions by others.
`CreationInv` consists of:

* `UidsAssigned`: every UID in sight has been assigned, so a new object is unknown to
  every attempt;
* `MineVerified`: what an attempt holds was verified to be this stack's, and is the
  live Job if it has the live Job's UID;
* `FoundOwned`: the Secret that `cleanupIncompleteJob` is to delete, if it still
  exists, belongs to the Job the attempt holds;
* `SecretsOurs`: no Secret belongs to another stack's Job;
* `IncompleteAnswered`: a Job of this stack without its Secret has an attempt that is
  looking for it, holds it, or gave up on it.

`NoIncompleteJobLeftHolds`, `CreatedJobKeptHolds` and `ForeignJobUntouchedHolds` follow;
the UID preconditions of the deletes are what makes `MineVerified` and `FoundOwned`
enough. The lemmas `JobAppears`, `JobDisappears`, `SecretAppears`, `SecretDisappears` and
`ObjectsKept` state once what each kind of change does to the invariant; the actions
cite them.

### The watchers

`JobWatcherProofs`: `BookkeepingBackedHolds` and `OpenJobKeepsTokenHolds`, for any number
of successive Jobs of one name. Besides the two properties `JobsInv` needs three facts
about the informer's queue: the last event after a Job is gone is its deletion
(`DeletionLast`), UIDs of events have been used (`UidsUsed`), and no event that says a
Job is over is about the Job that is open now (`EndedNotOpen`), so that the clean-up
after a late event takes another Secret.

`PodWatcherProofs`: `EntriesBackedHolds`, `NoAgentCutOffHolds` and
`IgnoredForCauseHolds`, for any number of pods and any choice of failing calls.
`EventsBacked` and `HandlingBacked` say that a pod the watcher is still to hear of, or
is handling, exists or has its deletion queued behind; so every entry is taken
out again. `DeletesFinished` and `IgnoresOver` say that what a checker found out by
its call still holds when it deletes or ignores, several steps later: an agent that
acquires the job in between would break them, and cannot, because `FailJob` succeeded.
Only a refusal of a job that could be failed, which `refused` remembers, leaves a checker
about to ignore such a job.

`CompletionsProofs`: `CleanupNeverExtendsHolds` and `RemainingGetBufferHolds`, for every
grace period, buffer, configured deadline and clock skew. `ExitShown` ties every version
of the pod under way to the agent's exit as the node's clock had it; `HandlerExit` and
`FreshDeadline` carry that through the handler's Get and Update, where `FreshDeadline`
speaks only of an Update that will not conflict; `OursSuits` remembers it once written.
`CeilNotEarlier` is the rounding: a deadline in whole seconds is not before the one
in half seconds.

### Reserver and token issuer

`ReserveAndIssueProofs`: `AnswerComingHolds`, `DispatchWithinReservationHolds` and
`TokenOfOwnJobHolds`, for any number of callers, any batch limit and any lifetime.
`Unanswered` says that a request in a batch has no answer yet and is in that batch
only; `ChannelEmpty` that a result channel is empty before its request is sent.
`GrantedHeld`, `AnswerHeld` and `LeftHeld` follow what is left of a reservation from
the call's response through the answer to the dispatch, and `AnswerOwn` follows the
token.

### Building the pod

`JobBuildProofs` holds for all sets of configurations, jobs and patches, for any number
of containers, sidecars, mounts and patch lines in them, and for any number of builds.

| Theorem | Statement |
|---|---|
| `BuildInvariant` | `Spec => []BuildInv`, the inductive invariant |
| `AgentAwaitsRunningHolds` | IDs of the containers against the count the agent is given |
| `AlwaysPulledHolds` | pull policies against image checks and other init containers |
| `PodSpecAcceptedHolds` | names, volumes and mounts |
| `CommandsUnderAgentHolds` | what containers run after both patches |

`BuildInv` says that a pod is `Build(cfg, job, patch)`: what a build makes of the job
built last and of the controller's patch *as it is now*, rewritten by that build and by
all before it, those that failed included. With it each property is one about `Build`.
The argument follows the pod through the stages of `Build`:

* *Assembled.* `HasShape` and `HasInitShape` describe the two lists position by
  position: command containers numbered on from the checkout container, the agent,
  the checkout container; copy-agent, the image checks, the user's init containers and
  sidecars. Every mount is on a volume that any set which `Covers` configuration and job
  has in it, and `VolumesCover` says that the pod's volumes, with those of the patches,
  are such a set when `ValidVolumes` holds. `ChecksFacts`
  and `ImageChecksFacts` say what culling leaves: for every image that is to be checked
  with Always (`nominalPolicy`), a check or another init container that pulls it so.
* *Patched*, by the controller's patch and the custom image, and *Complete*, by the
  plugin's. `Extension` is what a patch cannot change: containers stay where they
  are with name and ID, and new ones come behind, without ID, each under a name of its
  own. It is transitive, so both patches together are one extension. `Carries` says that a
  patch whose mounts are on volumes of a set keeps all mounts on that set. `Merged` adds
  what the last line of the patch says about image, policy, entrypoint and
  BUILDKITE_COMMAND.
* *Final.* `ComesFrom` maps the containers of the finished pod one to one to those
  that the removal of the checkout container keeps; only mounts differ.

`AgentAwaitsRunning` then counts: the extension has neither new IDs nor lost ones, and
the removal takes the checkout container only when it was not counted.
`PodSpecAccepted` adds that names of both lists, of the generated containers and of
patch lines cannot meet. `CommandsUnderAgent` needs the two patches in order: in each
stage a line that would change the entrypoint of one of the scheduler's containers is
refused (`ProtectedLine`), one for a command container is moved to BUILDKITE_COMMAND
(`CommandLine`), and `HasGiven` says that the container has the command the stage gives
it last, or the one it had; the two in sequence are `LastGiven`. As the property speaks of the
patch *before* the step, it also covers lines that an earlier build has rewritten.

Facts about sequences that the loops rest on are proved first: `PickFacts` (the
elements picked are those at the positions, in order), `DeduplicatedFacts`,
`DistinctConcat`, `MaxFacts`, `SetToSeqFacts`.

### What stays with TLC

* *Liveness*: `WorkersServe`, `DrainTerminates`, `EventuallyCreated`,
  `TakesWhileBelowLimit`, `EveryAttemptEnds`, `StalledJobReaped`,
  `CancelReachesPodless`, `FailingImageResolved`, `StuckPendingResolved`,
  `EveryCallerReturns`, `IssuerFreed` and `LingeringCleanedUp`. Reasoning from fairness
  needs `ENABLED`, which the prover does not support.
* *Closed forms against loops*: `MergeIsTheLoop`, `MergeVolumesIsTheLoop` and
  `DeduplicatedIsTheLoop` compare with folds, and what a fold computes for every input takes induction over sequences,
  which the prover's backends cannot instantiate. The theorems are about the closed
  forms.

## 5. What is not modelled

* *In pod specs*: labels and annotations, resource quantities, env vars other than
  the two that tie a container to the agent, security contexts, generated shell
  scripts, the scanner for POD_NAME in SubPathExpr, cancel timeouts. They are
  copied or formatted and nothing here depends on them.
* *Data races inside a build*: two workers may write defaults into the shared
  `AgentConfig` at the same time (agent_config.go:301-307). Builds are atomic in
  `JobBuild`.
* *HTTP, YAML, logging, metrics, health endpoints.*
* *Durations*, except in `ReserveAndIssue` and `Completions`: timers may fire at any
  time.
* *Tombstones in the job and pod watchers* (their `OnDelete` drops them like the
  deduper's).
* *Cursor and pagination of the monitor*: `Poll` hands over all scheduled jobs.
* *The notification batcher*: best effort by design, nothing depends on it.

## 6. Outlook

Worth adding next:

1. An abstract specification of the job flow (a job is scheduled, has at most one
   dispatch under way, has a Job, is taken), and `Pipeline` shown to implement it on
   top of `FlowInv` and `LimitInv`.
2. `ReserveAndIssue` shown to implement the `Reserve` step of `Pipeline`, from
   `BatchInv`.
3. `Monitor`: cursor, pagination depth, tag matching, changing priorities;
   `Poll` of `Pipeline` as its abstraction.
4. Tombstones and relists in `JobWatcher` and `PodWatcher`; the two watchers composed
   around one cancel checker.
