------------------------------ MODULE Pipeline ------------------------------
(***************************************************************************)
(* The job flow of the controller, limiter -> reserver -> deduper ->       *)
(* scheduler, closed with the Buildkite queue it polls, the cluster it     *)
(* creates Jobs in, and the Job informer that reports back to the limiter  *)
(* and to the deduper, each through its own event queue.                   *)
(*                                                                         *)
(* A limiter worker that is inside handler.Handle goes through the stages  *)
(*   reserve -> dedup -> create -> created | failed -> return.             *)
(***************************************************************************)
EXTENDS Limiter

CONSTANTS
    Faults,          \* which faults may happen: a create that took effect is reported
                     \* as an error, the informer's watch breaks and is relisted,
                     \* the controller crashes and starts again
    MaxFaults,       \* how many of them, each at most once
    UnseenJobs,      \* while the watch is broken Jobs may come and go unreported
    MaxEvents        \* bound on undelivered informer events per listener

FaultKind == {"ambiguousCreate", "watchGap", "restart"}

ASSUME PipelineAssumption ==
    /\ Faults \subseteq FaultKind /\ MaxFaults \in Nat
    /\ UnseenJobs \in BOOLEAN
    /\ MaxEvents \in Nat \ {0}

VARIABLES
    bk,        \* Buildkite's view of each job
    cluster,   \* the Kubernetes Job of each UUID
    watching,  \* the informer's watch is connected
    store,     \* the informer's cache
    toLimiter, \* events queued for the limiter's listener
    toDeduper, \* events queued for the deduper's listener
    marked,    \* deduper.inFlight
    stage,     \* how far each worker is inside handler.Handle
    faults     \* the faults that have happened

envVars == <<bk, cluster, watching, store, toLimiter, toDeduper>>
pipeVars == <<envVars, marked, stage, faults>>
vars == <<limiterVars, pipeVars>>

Event == [id : Job, kind : {"add", "update", "delete", "tombstone"}, finished : BOOLEAN]

Happens(kind) ==
    /\ kind \in Faults \ faults
    /\ Cardinality(faults) < MaxFaults
    /\ faults' = faults \cup {kind}

-----------------------------------------------------------------------------
(* The cluster and the informer. *)

\* MaxEvents holds back the ends of Jobs, never the controller's own steps.
Room == Len(toLimiter) < MaxEvents /\ Len(toDeduper) < MaxEvents

\* A change of j's Job to state s: a connected watch updates the cache and
\* queues one event for every listener.
ClusterChange(j, s, kind) ==
    /\ cluster' = [cluster EXCEPT ![j] = s]
    /\ IF watching
       THEN LET e == [id |-> j, kind |-> kind, finished |-> (s = "finished")]
            IN /\ store' = [store EXCEPT ![j] = s]
               /\ toLimiter' = Append(toLimiter, e)
               /\ toDeduper' = Append(toDeduper, e)
       ELSE UNCHANGED <<store, toLimiter, toDeduper>>
    /\ UNCHANGED watching

JobFinishes(j) ==
    /\ cluster[j] = "running"
    /\ Room
    /\ ClusterChange(j, "finished", "update")
    /\ UNCHANGED <<limiterVars, bk, marked, stage, faults>>

\* TTL after finish, a user, or one of the watchers.
JobDeleted(j) ==
    /\ cluster[j] # "absent"
    /\ watching \/ store[j] # "absent" \/ UnseenJobs
    /\ Room
    /\ ClusterChange(j, "absent", "delete")
    /\ UNCHANGED <<limiterVars, bk, marked, stage, faults>>

WatchBreaks ==
    /\ watching
    /\ Happens("watchGap")
    /\ watching' = FALSE
    /\ UNCHANGED <<limiterVars, bk, cluster, store, toLimiter, toDeduper, marked, stage>>

\* The event a relist produces for j: what the cache and the cluster differ in.
\* An object that is gone is reported as a DeletedFinalStateUnknown tombstone.
RelistEvent(j) ==
    [id |-> j,
     kind |-> IF cluster[j] = "absent" THEN "tombstone"
              ELSE IF store[j] = "absent" THEN "add" ELSE "update",
     finished |-> (cluster[j] = "finished")]

\* The relist reconnects the watch and delivers, object by object in some order,
\* the differences that accumulated.
Relist ==
    /\ ~watching
    /\ \/ \E j \in Job :
            /\ store[j] # cluster[j]
            /\ store' = [store EXCEPT ![j] = cluster[j]]
            /\ toLimiter' = Append(toLimiter, RelistEvent(j))
            /\ toDeduper' = Append(toDeduper, RelistEvent(j))
            /\ UNCHANGED watching
       \/ /\ store = cluster
          /\ watching' = TRUE
          /\ UNCHANGED <<store, toLimiter, toDeduper>>
    /\ UNCHANGED <<limiterVars, bk, cluster, marked, stage, faults>>

-----------------------------------------------------------------------------
(* Buildkite. *)

\* An agent in the pod acquires the job.
AgentAcquires(j) ==
    /\ bk[j] # "taken" /\ cluster[j] = "running"
    /\ bk' = [bk EXCEPT ![j] = "taken"]
    /\ UNCHANGED <<limiterVars, cluster, watching, store, toLimiter, toDeduper, marked, stage, faults>>

\* The reservation lapses before an agent acquired the job.
ReservationExpires(j) ==
    /\ bk[j] = "reserved"
    /\ bk' = [bk EXCEPT ![j] = "scheduled"]
    /\ UNCHANGED <<limiterVars, cluster, watching, store, toLimiter, toDeduper, marked, stage, faults>>

-----------------------------------------------------------------------------
(* The monitor hands the scheduled jobs to the limiter. *)

Scheduled == {j \in Job : bk[j] = "scheduled"}

Polls == {b \in [1..Cardinality(Scheduled) -> QueuedJob] :
             {b[i].id : i \in DOMAIN b} = Scheduled}

Poll == \E b \in Polls : HandleManyStep(b) /\ UNCHANGED pipeVars

-----------------------------------------------------------------------------
(* Inside handler.Handle. *)

Dispatch(w) ==
    /\ tryDequeueWork(w)
    /\ stage' = [stage EXCEPT ![w] = IF pc'[w] = "handle" THEN "reserve" ELSE "none"]
    /\ UNCHANGED <<envVars, marked, faults>>

\* ReserveJobs succeeds for this job and the deadline is not up.
Reserve(w) ==
    /\ stage[w] = "reserve"
    /\ bk[work[w]] = "scheduled"
    /\ bk' = [bk EXCEPT ![work[w]] = "reserved"]
    /\ stage' = [stage EXCEPT ![w] = "dedup"]
    /\ UNCHANGED <<limiterVars, cluster, watching, store, toLimiter, toDeduper, marked, faults>>

\* ReserveJobs fails, or leaves the job out, or no acquisition token is issued for
\* the reserved job; ReserveJobs may have reserved it all the
\* same if the answer was lost or the caller was cancelled meanwhile.
NotReserved(w) ==
    /\ stage[w] = "reserve"
    /\ \/ UNCHANGED bk
       \/ bk[work[w]] = "scheduled" /\ bk' = [bk EXCEPT ![work[w]] = "reserved"]
    /\ stage' = [stage EXCEPT ![w] = "return"]
    /\ UNCHANGED <<limiterVars, cluster, watching, store, toLimiter, toDeduper, marked, faults>>

\* casa(id, true) at the start of Deduper.Handle.
Mark(w) ==
    /\ stage[w] = "dedup"
    /\ marked' = marked \cup {work[w]}
    /\ stage' = [stage EXCEPT ![w] = IF work[w] \in marked THEN "return" ELSE "create"]
    /\ UNCHANGED <<limiterVars, envVars, faults>>

\* The scheduler creates the Job.  An error may hide a create that took effect.
Create(w) ==
    /\ stage[w] = "create"
    /\ cluster[work[w]] = "absent"
    /\ ClusterChange(work[w], "running", "add")
    /\ \/ stage' = [stage EXCEPT ![w] = "created"] /\ UNCHANGED faults
       \/ Happens("ambiguousCreate") /\ stage' = [stage EXCEPT ![w] = "failed"]
    /\ UNCHANGED <<limiterVars, bk, marked>>

\* AlreadyExists becomes ErrDuplicateJob, on which the mark is left in place.
CreateDuplicate(w) ==
    /\ stage[w] = "create"
    /\ cluster[work[w]] # "absent"
    /\ stage' = [stage EXCEPT ![w] = "return"]
    /\ UNCHANGED <<limiterVars, envVars, marked, faults>>

\* The job information cannot be fetched, the job became stale, the API server
\* refuses the Job; for a job it cannot build the scheduler fails it on Buildkite.
CreateFails(w) ==
    /\ stage[w] = "create"
    /\ bk' \in {bk, [bk EXCEPT ![work[w]] = "taken"]}
    /\ stage' = [stage EXCEPT ![w] = "failed"]
    /\ UNCHANGED <<limiterVars, cluster, watching, store, toLimiter, toDeduper, marked, faults>>

\* casa(id, false) on the error path of Deduper.Handle.
Unmark(w) ==
    /\ stage[w] = "failed"
    /\ marked' = marked \ {work[w]}
    /\ stage' = [stage EXCEPT ![w] = "return"]
    /\ UNCHANGED <<limiterVars, envVars, faults>>

Succeed(w) ==
    /\ stage[w] = "created"
    /\ HandlerSucceeds(w)
    /\ stage' = [stage EXCEPT ![w] = "none"]
    /\ UNCHANGED <<envVars, marked, faults>>

Fail(w) ==
    /\ stage[w] = "return"
    /\ HandlerFails(w)
    /\ stage' = [stage EXCEPT ![w] = "none"]
    /\ UNCHANGED <<envVars, marked, faults>>

-----------------------------------------------------------------------------
(* Listeners. *)

\* Mutant: the limiter, too, takes no notice of tombstones.
ReportsEndPlain(e) == e.kind = "delete"

\* OnDelete of the limiter unwraps a tombstone.
ReportsEnd(e) == e.kind \in {"delete", "tombstone"}

LimiterEvent ==
    /\ toLimiter # <<>>
    /\ LET e == Head(toLimiter)
       IN observeJob(e.id, e.finished, ReportsEnd(e))
    /\ toLimiter' = Tail(toLimiter)
    /\ UNCHANGED <<bk, cluster, watching, store, toDeduper, marked, stage, faults>>

\* Mutant: the deduper does not listen to deletions.
DeduperKeeps(e) == marked

\* OnAdd outside the initial list and OnUpdate change nothing; OnDelete returns
\* early for anything but a *batchv1.Job, so a tombstone changes nothing either.
DeduperAfter(e) == IF e.kind = "delete" THEN marked \ {e.id} ELSE marked

DeduperEvent ==
    /\ toDeduper # <<>>
    /\ marked' = DeduperAfter(Head(toDeduper))
    /\ toDeduper' = Tail(toDeduper)
    /\ UNCHANGED <<limiterVars, bk, cluster, watching, store, toLimiter, stage, faults>>

-----------------------------------------------------------------------------

InitiallyListed(c) ==
    [j \in Job |-> IF c[j] = "absent" THEN NoState ELSE InformerState(c[j] = "finished")]

PipelineInit ==
    /\ bk = [j \in Job |-> "scheduled"]
    /\ cluster \in [Job -> {"absent", "running", "finished"}]
    /\ InitWith(InitiallyListed(cluster))
    /\ watching = TRUE
    /\ store = cluster
    /\ toLimiter = <<>> /\ toDeduper = <<>>
    /\ marked = {j \in Job : cluster[j] # "absent"}
    /\ stage = [w \in Worker |-> "none"]
    /\ faults = {}

\* The controller dies and a new one lists the cluster before it polls.
Restart ==
    /\ Happens("restart")
    /\ queue' = <<>> /\ paused' = FALSE /\ stopping' = FALSE
    /\ jobs' = InitiallyListed(cluster)
    /\ inFlight' = Cardinality({j \in Job : cluster[j] = "running"})
    /\ intakeDone' = FALSE /\ dispatchDone' = FALSE /\ drain' = "idle"
    /\ pc' = [w \in Worker |-> "top"]
    /\ work' = [w \in Worker |-> NoJob]
    /\ woken' = [w \in Worker |-> FALSE]
    /\ watching' = TRUE
    /\ store' = cluster
    /\ toLimiter' = <<>> /\ toDeduper' = <<>>
    /\ marked' = {j \in Job : cluster[j] # "absent"}
    /\ stage' = [w \in Worker |-> "none"]
    /\ UNCHANGED <<bk, cluster>>

IdleStep(w) == (WorkerLook(w) \/ WorkerWake(w) \/ WorkerCheck(w)) /\ UNCHANGED pipeVars

HandleStep(w) ==
    \/ Reserve(w) \/ NotReserved(w) \/ Mark(w)
    \/ Create(w) \/ CreateDuplicate(w) \/ CreateFails(w)
    \/ Unmark(w) \/ Succeed(w) \/ Fail(w)

EnvStep ==
    \/ \E j \in Job : JobFinishes(j) \/ JobDeleted(j) \/ AgentAcquires(j) \/ ReservationExpires(j)
    \/ WatchBreaks
    \/ Relist

PipelineNext ==
    \/ Poll
    \/ \E w \in Worker : IdleStep(w) \/ Dispatch(w) \/ HandleStep(w)
    \/ LimiterEvent
    \/ DeduperEvent
    \/ EnvStep
    \/ Restart

PipelineSpec == PipelineInit /\ [][PipelineNext]_vars

\* Goroutines run, the monitor polls again and again, informers deliver their
\* events and relist, pods end and finished Jobs are collected by their TTL,
\* reservations lapse, and the Buildkite and Kubernetes APIs do not fail the
\* same call for the same job for ever.
PipelineFairness ==
    /\ WF_vars(Poll)
    /\ WF_vars(LimiterEvent) /\ WF_vars(DeduperEvent) /\ WF_vars(Relist)
    /\ \A w \in Worker :
          /\ WF_vars(IdleStep(w)) /\ WF_vars(Dispatch(w)) /\ WF_vars(HandleStep(w))
          /\ \A j \in Job : /\ SF_vars(work[w] = j /\ Reserve(w))
                            /\ SF_vars(work[w] = j /\ Create(w))
    /\ \A j \in Job :
          /\ WF_vars(JobFinishes(j))
          /\ WF_vars(cluster[j] = "finished" /\ JobDeleted(j))
          /\ WF_vars(ReservationExpires(j))

PipelineFairSpec == PipelineSpec /\ PipelineFairness

-----------------------------------------------------------------------------
(* Properties. *)

\* The variables keep their types, and exactly the workers inside Handle are at
\* one of its stages.
PipelineTypeOK ==
    /\ TypeOK
    /\ bk \in [Job -> {"scheduled", "reserved", "taken"}]
    /\ cluster \in [Job -> {"absent", "running", "finished"}]
    /\ store \in [Job -> {"absent", "running", "finished"}]
    /\ toLimiter \in Seq(Event) /\ toDeduper \in Seq(Event)
    /\ watching \in BOOLEAN /\ marked \subseteq Job /\ faults \subseteq FaultKind
    /\ stage \in [Worker -> {"none", "reserve", "dedup", "create", "created", "failed", "return"}]
    /\ \A w \in Worker : stage[w] # "none" <=> pc[w] = "handle"

Running == {j \in Job : cluster[j] = "running"}

\* Creating a Job never takes the cluster past MaxInFlight running Jobs, however
\* far the informer lags behind ("MaxInFlight sets the upper limit on number of
\* jobs running concurrently in the cluster", limiter.go:28), except by one Job
\* when a create that took effect was reported as failed: the slot of such a Job
\* is given back before the informer reports the Job.
CreateWithinLimit ==
    [][\A j \in Job : MaxInFlight > 0 /\ cluster[j] = "absent" /\ cluster'[j] = "running"
          => Cardinality(Running') <= MaxInFlight + Cardinality(faults' \cap {"ambiguousCreate"})]_vars

\* Every slot will be given back: it belongs to a dispatch under way, to a
\* running Job, or to a change the informer or the limiter has yet to process.
NoSlotLeak ==
    \A j \in Occupying :
        \/ \E w \in Worker : pc[w] = "handle" /\ work[w] = j
        \/ cluster[j] = "running"
        \/ store[j] # cluster[j]
        \/ \E i \in 1..Len(toLimiter) : toLimiter[i].id = j

\* As long as the watch has not broken, every UUID the deduper refuses is being
\* created, exists, or is about to be unmarked by a queued deletion.
MarkBacked ==
    "watchGap" \notin faults => \A j \in marked :
        \/ \E w \in Worker : work[w] = j /\ stage[w] \in {"create", "created", "failed"}
        \/ cluster[j] # "absent"
        \/ \E i \in 1..Len(toDeduper) : toDeduper[i].id = j /\ toDeduper[i].kind = "delete"

\* "While there are jobs available and less than the MaxInFlight limit running,
\* it will take jobs from the queue" (limiter.go:24): it never happens that from
\* some moment on jobs are queued, the cluster is below the limit, and no
\* worker dispatches.
TakesWhileBelowLimit ==
    []<>(\/ queue = <<>>
         \/ Cardinality(Running) >= MaxInFlight
         \/ \E w \in Worker : pc[w] = "handle")

\* A job Buildkite still wants run is eventually given a Job (or taken off the
\* queue): no slot, mark or lost wakeup shuts it out for good.
EventuallyCreated ==
    \A j \in Job : bk[j] # "taken" ~> (bk[j] = "taken" \/ cluster[j] # "absent")
=============================================================================
