----------------------------- MODULE Completions -----------------------------
(***************************************************************************)
(* The completion watcher (scheduler/completions.go) for one pod: once the *)
(* agent has exited while another regular container has not, the Job gets  *)
(* a deadline, written with Get and Update under optimistic locking.  The  *)
(* watcher acts on the event that first shows the agent terminated and on  *)
(* the initial list after a restart, at no other time.                     *)
(*                                                                         *)
(* Time is counted in half seconds on the control plane's clock, from the  *)
(* Job's start; the node's clock, which gives finishedAt, may be off.      *)
(***************************************************************************)
EXTENDS Integers, Sequences

CONSTANTS
    Grace,           \* terminationGracePeriodSeconds
    Buffer,          \* sidecarCleanupBufferSeconds, 10 in the code
    MaxTries,        \* Steps of retry.DefaultRetry, 5 in client-go
    Configured,      \* deadlines a Job may have been given by configuration or by hand
    Skew,            \* by how much the node's clock may be ahead
    MaxTime,         \* bound on the clock
    MaxEvents,       \* bound on undelivered pod events
    MaxOtherWrites,  \* bound on writes to the Job by others
    MaxCrashes,      \* bound on controller restarts
    None             \* no deadline, no pod seen, no time

ASSUME CompletionsAssumption ==
    /\ {Grace, Buffer, MaxTries, MaxTime, MaxEvents, MaxOtherWrites, MaxCrashes} \subseteq Nat
    /\ Configured \subseteq Nat /\ Skew \subseteq Int /\ None \notin Int

VARIABLES
    now,       \* the control plane's clock
    skew,      \* the node's clock minus now
    started,   \* Job.Status.StartTime is set
    deadline,  \* Job.Spec.ActiveDeadlineSeconds
    pod,       \* the pod as the API server has it
    exited,    \* history: when the agent exited
    up,        \* the controller is running
    seen,      \* the informer's cache of the pod
    queue,     \* versions of the pod not yet delivered to the handler
    h,         \* the handler
    missed,    \* history: since the controller started, a call of the handler failed
               \* or the agent's exit was shown while the node was lost
    ours,      \* history: the deadline is one the watcher wrote knowing the start
    writes,    \* writes to the Job by others so far
    crashes    \* restarts so far

clusterVars == <<started, deadline, pod, exited, ours, writes>>
watcherVars == <<up, seen, queue, h, missed, crashes>>
timeVars == <<now, skew>>
vars == <<clusterVars, watcherVars, timeVars>>

\* others: some other regular container has not terminated.
Pod == [terminated : BOOLEAN, finishedAt : Int \cup {None}, others : BOOLEAN,
        phase : {"running", "unknown", "over"}]

HandlerState == [stage : {"idle", "get", "update"}, exit : Int, tries : Nat, deadline : Nat,
                 fresh : BOOLEAN]
Idle == [stage |-> "idle", exit |-> 0, tries |-> 0, deadline |-> 0, fresh |-> TRUE]

Atmost(a, b) == IF a < b THEN a ELSE b
Atleast(a, b) == IF a > b THEN a ELSE b

\* Mutant: elapsed time is rounded down.
FloorSeconds(ticks) == ticks \div 2

\* math.Ceil of a duration in seconds.
CeilSeconds(ticks) == (ticks + 1) \div 2

\* The grace period from the Job's start, but a buffer after the agent exited; an
\* existing deadline that is sooner is kept.
sidecarCleanupDeadline(exit) ==
    LET buffer == Atmost(Grace, Buffer)
        computed == IF started THEN Atleast(Grace, CeilSeconds(exit) + buffer) ELSE Grace
    IN IF deadline # None /\ deadline < computed THEN deadline ELSE computed

-----------------------------------------------------------------------------
(* The cluster. *)

\* A new version of the pod, which the informer of a running controller queues.
Show(new) ==
    /\ Len(queue) < MaxEvents
    /\ pod' = new
    /\ queue' = IF up THEN Append(queue, new) ELSE queue

Alive == pod.phase # "over"

ClusterQuiet == UNCHANGED <<timeVars, started, deadline, ours, writes, up, seen, h, missed, crashes>>

\* The agent container terminates; the kubelet may not know when it finished.
AgentExits ==
    /\ Alive /\ ~pod.terminated
    /\ \E at \in {now + skew, None} :
         Show([pod EXCEPT !.terminated = TRUE, !.finishedAt = at,
                          !.phase = IF pod.others THEN pod.phase ELSE "over"])
    /\ exited' = now
    /\ ClusterQuiet

OthersExit ==
    /\ Alive /\ pod.others
    /\ Show([pod EXCEPT !.others = FALSE, !.phase = IF pod.terminated THEN "over" ELSE pod.phase])
    /\ UNCHANGED exited /\ ClusterQuiet

\* The node is lost and comes back.
NodeChanges ==
    /\ Alive
    /\ Show([pod EXCEPT !.phase = IF pod.phase = "running" THEN "unknown" ELSE "running"])
    /\ UNCHANGED exited /\ ClusterQuiet

\* The Job controller ends the Job at its deadline.
DeadlineHits ==
    /\ Alive /\ started /\ deadline # None /\ now >= 2 * deadline
    /\ Show([pod EXCEPT !.phase = "over"])
    /\ UNCHANGED exited /\ ClusterQuiet

\* A write to the Job by another client: it makes an Update that is under way
\* conflict.
Outdate == h' = [h EXCEPT !.fresh = h.stage # "update"]

StartShown ==
    /\ ~started /\ started' = TRUE
    /\ Outdate
    /\ UNCHANGED <<deadline, pod, exited, ours, writes, up, seen, queue, missed, crashes, timeVars>>

\* The Job controller writes the status, the job watcher or a user a deadline.
OtherWrites ==
    /\ writes < MaxOtherWrites /\ writes' = writes + 1
    /\ deadline' \in {deadline} \cup {d \in Configured : deadline = None \/ d < deadline}
    /\ ours' = (ours /\ deadline' = deadline)
    /\ Outdate
    /\ UNCHANGED <<started, pod, exited, up, seen, queue, missed, crashes, timeVars>>

Tick ==
    /\ now < MaxTime /\ now' = now + 1
    /\ UNCHANGED <<clusterVars, watcherVars, skew>>

-----------------------------------------------------------------------------
(* The watcher. *)

WatcherQuiet == UNCHANGED <<started, pod, exited, writes, up, crashes, timeVars>>

NeedsCleanup(p) == p.phase = "running" /\ p.terminated /\ p.others

\* Mutant: OnAdd does nothing.
HandlesUpdatesOnly(new) == seen # None /\ ~seen.terminated /\ NeedsCleanup(new)

\* OnAdd (nothing cached) looks at every pod, OnUpdate only if the cached version
\* did not show the agent terminated.
Handles(new) == (seen = None \/ ~seen.terminated) /\ NeedsCleanup(new)

\* FinishedAt, or the present if it is zero.
agentExit(new) == IF new.finishedAt # None THEN new.finishedAt ELSE now

OnEvent ==
    /\ up /\ h = Idle /\ queue # <<>>
    /\ queue' = Tail(queue)
    /\ seen' = Head(queue)
    /\ h' = IF Handles(Head(queue))
            THEN [Idle EXCEPT !.stage = "get", !.exit = agentExit(Head(queue))]
            ELSE Idle
    /\ missed' = (missed \/ (Head(queue).terminated /\ Head(queue).phase = "unknown"))
    /\ UNCHANGED <<deadline, ours>> /\ WatcherQuiet

\* Get, and the computation; nothing to write if the deadline is in place.
GetJob ==
    /\ h.stage = "get"
    /\ \E d \in {sidecarCleanupDeadline(h.exit)} :
         h' = IF d = deadline THEN Idle
              ELSE [h EXCEPT !.stage = "update", !.deadline = d, !.fresh = TRUE]
    /\ UNCHANGED <<deadline, ours, seen, queue, missed>> /\ WatcherQuiet

Wrote == deadline' = h.deadline /\ ours' = started

\* Mutant: the Update carries no resource version.
UpdateJobBlindly ==
    /\ h.stage = "update"
    /\ Wrote /\ h' = Idle
    /\ UNCHANGED <<seen, queue, missed>> /\ WatcherQuiet

UpdateJob ==
    /\ h.stage = "update" /\ h.fresh
    /\ Wrote /\ h' = Idle
    /\ UNCHANGED <<seen, queue, missed>> /\ WatcherQuiet

\* RetryOnConflict tries again, up to MaxTries times in all.
UpdateConflicts ==
    /\ h.stage = "update" /\ ~h.fresh
    /\ IF h.tries + 1 < MaxTries
       THEN h' = [h EXCEPT !.stage = "get", !.tries = @ + 1] /\ UNCHANGED missed
       ELSE h' = Idle /\ missed' = TRUE
    /\ UNCHANGED <<deadline, ours, seen, queue>> /\ WatcherQuiet

\* Any other error ends the attempt; that of a fresh Update may have had effect.
CallFails ==
    /\ h.stage \in {"get", "update"}
    /\ \/ UNCHANGED <<deadline, ours>>
       \/ h.stage = "update" /\ h.fresh /\ Wrote
    /\ h' = Idle /\ missed' = TRUE
    /\ UNCHANGED <<seen, queue>> /\ WatcherQuiet

Crash ==
    /\ up /\ crashes < MaxCrashes
    /\ up' = FALSE /\ crashes' = crashes + 1
    /\ queue' = <<>> /\ seen' = None /\ h' = Idle
    /\ UNCHANGED <<clusterVars, missed, timeVars>>

\* RegisterInformer: the initial list delivers the pod as an addition.
RegisterInformer ==
    /\ ~up /\ up' = TRUE
    /\ queue' = <<pod>>
    /\ missed' = FALSE
    /\ UNCHANGED <<clusterVars, seen, h, crashes, timeVars>>

\* A relist after a broken watch: the versions in between are never delivered.
Relist ==
    /\ up /\ queue # <<>>
    /\ queue' = <<pod>>
    /\ UNCHANGED <<clusterVars, up, seen, h, missed, crashes, timeVars>>

-----------------------------------------------------------------------------

Init ==
    /\ now = 0 /\ skew \in Skew
    /\ started \in BOOLEAN
    /\ deadline \in Configured \cup {None}
    /\ pod = [terminated |-> FALSE, finishedAt |-> None, others |-> TRUE, phase |-> "running"]
    /\ exited = None
    /\ up = TRUE /\ seen = None /\ queue = <<pod>> /\ h = Idle
    /\ missed = FALSE /\ ours = FALSE /\ writes = 0 /\ crashes = 0

Cluster == AgentExits \/ OthersExit \/ NodeChanges \/ DeadlineHits \/ StartShown \/ OtherWrites

WatcherStep == OnEvent \/ GetJob \/ UpdateJob \/ UpdateConflicts

Next == Cluster \/ Tick \/ WatcherStep \/ CallFails \/ Crash \/ RegisterInformer \/ Relist

Spec == Init /\ [][Next]_vars

\* The informer delivers, the handler goroutine runs, a crashed controller is
\* started again by its Deployment.
FairSpec == Spec /\ WF_vars(WatcherStep) /\ WF_vars(RegisterInformer)

-----------------------------------------------------------------------------
(* Properties. *)

\* The variables keep their types.
TypeOK ==
    /\ now \in Nat /\ skew \in Int /\ started \in BOOLEAN
    /\ deadline \in Nat \cup {None}
    /\ pod \in Pod /\ seen \in Pod \cup {None} /\ queue \in Seq(Pod)
    /\ exited \in Nat \cup {None}
    /\ h \in HandlerState
    /\ up \in BOOLEAN /\ missed \in BOOLEAN /\ ours \in BOOLEAN
    /\ writes \in Nat /\ crashes \in Nat

\* "cleanup never extends a job's configured lifetime" (completions.go:241-242):
\* a step of the watcher never replaces a deadline by a later one, even if
\* another client lowers it between the watcher's Get and Update.
CleanupNeverExtends ==
    [][h # Idle /\ writes' = writes /\ deadline # None => deadline' <= deadline]_vars

\* "the deadline is never earlier than sidecarCleanupBufferSeconds (capped at the
\* grace period) after the agent exited", clock skew aside (completions.go:234):
\* a Job does not end at a deadline of the watcher's before its remaining
\* containers had that time, whatever was restarted or retried in between.
RemainingGetBuffer ==
    [][Alive /\ pod'.phase = "over" /\ pod'.others /\ ours
         => now >= exited + 2 * Atmost(Grace, Buffer) + Atmost(skew, 0)]_vars

\* The latest deadline that cleanup should leave on the Job.
CleanedUp ==
    /\ deadline # None
    /\ deadline <= Atleast(Grace, CeilSeconds(agentExit(pod)) + Atmost(Grace, Buffer))

Lingering == NeedsCleanup(pod)

\* A pod whose agent has exited while another container runs on gets its Job a
\* deadline counted from the agent's exit, even if the controller was down then:
\* unless a call of the one attempt failed, in which case only a restart helps,
\* or the node was lost when the event came.
LingeringCleanedUp == Lingering ~> (~Lingering \/ CleanedUp \/ missed)
=============================================================================
