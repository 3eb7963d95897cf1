------------------------------ MODULE Limiter ------------------------------
(***************************************************************************)
(* The limiter (internal/controller/limiter): a bounded priority queue of  *)
(* Buildkite jobs, a pool of worker goroutines that hand jobs to the next  *)
(* handler while fewer than MaxInFlight jobs hold a slot, and the slot     *)
(* accounting shared between the workers and the Kubernetes Job informer.  *)
(*                                                                         *)
(* Everything done under l.mu in one critical section is one action.  The  *)
(* next handler and the informer are the environment: a handler returns    *)
(* nil or an error at any time, and any Job event may arrive at any time.  *)
(* Pipeline.tla closes the system with the real handlers and the cluster.  *)
(***************************************************************************)
EXTENDS Integers, Sequences, FiniteSets

CONSTANTS
    Job,             \* Buildkite job UUIDs
    Worker,          \* worker goroutines; its cardinality is JobCreationConcurrency
    Priority,        \* job priorities, larger is more urgent
    MaxInFlight,     \* upper limit on slots; 0 means unlimited
    WorkQueueLimit,  \* longest queue kept after HandleMany
    NoState,         \* a UUID that has no entry in l.jobs
    NoJob,           \* a worker that holds no job
    Informer         \* owner of an entry the informer has reported

ASSUME LimiterAssumption ==
    /\ IsFiniteSet(Job) /\ IsFiniteSet(Worker)
    /\ Priority \subseteq Int
    /\ MaxInFlight \in Nat
    /\ WorkQueueLimit \in Nat \ {0}
    /\ NoJob \notin Job
    /\ Informer \notin Worker

\* What the limiter keeps of an AgentScheduledJob.
QueuedJob == [id : Job, priority : Priority]

\* jobState.  While it is unobserved, owner is the worker that allocated it,
\* which stands for the identity of the pointer (a worker dispatches one job at a
\* time); once observed, owner is Informer and the pointer no longer matters.
JobState == [owner : Worker \cup {Informer}, finished : BOOLEAN]

ASSUME NoStateAssumption == NoState \notin JobState

VARIABLES
    queue,        \* l.queue
    paused,       \* l.paused
    stopping,     \* l.stopping
    jobs,         \* l.jobs
    inFlight,     \* l.inFlight
    intakeDone,   \* the controller context is cancelled
    dispatchDone, \* l.dispatchCtx is cancelled
    pc,           \* where each worker goroutine is
    work,         \* the UUID each worker is dispatching
    woken,        \* the newWork channel a waiting worker selects on is closed
    drain         \* progress of the shutdown's call of Drain

limiterVars == <<queue, paused, stopping, jobs, inFlight, intakeDone,
                 dispatchDone, pc, work, woken, drain>>

-----------------------------------------------------------------------------
(* Queue arithmetic.  These are pure operators on sequences of QueuedJob.  *)

\* The elements of s at the positions DOMAIN rank, where rank numbers those
\* positions 0, 1, 2, ... in the order in which they are to appear.
Arrange(s, rank) ==
    [n \in 1..Cardinality(DOMAIN rank) |->
        s[CHOOSE i \in DOMAIN rank : rank[i] = n - 1]]

\* Positions that hold the first occurrence of a UUID.
FirstOccurrences(s) == {i \in 1..Len(s) : \A k \in 1..(i - 1) : s[k].id # s[i].id}

DedupRank(s) ==
    [i \in FirstOccurrences(s) |-> Cardinality({k \in FirstOccurrences(s) : k < i})]

\* Mutant: the queue is not deduplicated.
KeepDuplicates(s) == s

\* Drops every later occurrence of a UUID, keeping the order of the rest.
inPlaceDedup(s) == Arrange(s, DedupRank(s))

\* Mutant: lower numbers first.
SortsBeforeAscending(s, i) ==
    {k \in 1..Len(s) : \/ s[k].priority < s[i].priority
                       \/ s[k].priority = s[i].priority /\ k < i}

\* Positions that a stable sort by descending priority puts before i.
SortsBefore(s, i) ==
    {k \in 1..Len(s) : \/ s[k].priority > s[i].priority
                       \/ s[k].priority = s[i].priority /\ k < i}

SortRank(s) == [i \in 1..Len(s) |-> Cardinality(SortsBefore(s, i))]

SortByPriority(s) == Arrange(s, SortRank(s))

Truncate(s) == SubSeq(s, 1, IF Len(s) < WorkQueueLimit THEN Len(s) ELSE WorkQueueLimit)

-----------------------------------------------------------------------------
(* Derived state. *)

\* A state that occupies a slot, and the UUIDs that occupy one in a map of states.
Occupies(state) == state # NoState /\ ~state.finished
OccupiedIn(map) == {j \in Job : Occupies(map[j])}

Occupying == OccupiedIn(jobs)

\* Mutant: one job too many.
AboveCapacity == MaxInFlight > 0 /\ inFlight > MaxInFlight

AtCapacity == MaxInFlight > 0 /\ inFlight >= MaxInFlight

\* The condition a worker computes at the loop top.
Ready == ~paused /\ ~AtCapacity /\ queue # <<>>

\* l.jobs[j] is the very jobState worker w allocated, and it is unobserved.
HoldsState(w, j) == jobs[j] # NoState /\ jobs[j].owner = w

\* Mutants: a signal instead of a broadcast; no notification.
notifyOneWorker ==
    \E v \in Worker : woken' = [w \in Worker |-> woken[w] \/ (w = v /\ pc[w] = "wait")]
notifyNobody == UNCHANGED woken

\* Closes and replaces the channel: every snapshot taken so far is closed, which
\* matters to the workers that select on theirs.
notifyWorkers == woken' = [w \in Worker |-> pc[w] = "wait"]

-----------------------------------------------------------------------------

\* inherited is what the initial list of the informer reports: RegisterInformer
\* waits for it before the monitor starts, so it is counted before any dispatch.
InitWith(inherited) ==
    /\ queue = <<>>
    /\ paused = FALSE
    /\ stopping = FALSE
    /\ jobs = inherited
    /\ inFlight = Cardinality(OccupiedIn(inherited))
    /\ intakeDone = FALSE
    /\ dispatchDone = FALSE
    /\ pc = [w \in Worker |-> "top"]
    /\ work = [w \in Worker |-> NoJob]
    /\ woken = [w \in Worker |-> FALSE]
    /\ drain = "idle"

InformerState(f) == [owner |-> Informer, finished |-> f]

Inherited == [Job -> {NoState} \cup {InformerState(f) : f \in BOOLEAN}]

Init == \E inherited \in Inherited : InitWith(inherited)

-----------------------------------------------------------------------------
(* Operations called by other components. *)

\* Mutant: the queue is cut to its limit before it is sorted.
HandleManyTruncatesFirst(batch) ==
    /\ ~stopping /\ ~intakeDone
    /\ queue \o batch # <<>>
    /\ UNCHANGED <<paused, stopping, jobs, inFlight, intakeDone, dispatchDone,
                   pc, work, drain>>
    /\ notifyWorkers
    /\ queue' = SortByPriority(Truncate(inPlaceDedup(queue \o batch)))

HandleManyStep(batch) ==
    /\ ~stopping /\ ~intakeDone
    /\ queue \o batch # <<>>
    /\ UNCHANGED <<paused, stopping, jobs, inFlight, intakeDone, dispatchDone,
                   pc, work, drain>>
    /\ notifyWorkers
    /\ \E merged \in {inPlaceDedup(queue \o batch)} :
         \E sorted \in {SortByPriority(merged)} : queue' = Truncate(sorted)

PauseStep(p) ==
    /\ paused' = p
    /\ notifyWorkers
    /\ UNCHANGED <<queue, stopping, jobs, inFlight, intakeDone, dispatchDone,
                   pc, work, drain>>

\* Mutant: the slot of a finished job is given back again when it is deleted.
SlotChangeTwice(j, fin, deleted) ==
    IF jobs[j] = NoState THEN (IF fin \/ deleted THEN 0 ELSE 1)
    ELSE IF deleted \/ fin THEN -1 ELSE 0

\* The change of inFlight: an unfinished Job not known before takes a slot, a
\* slot holder that has finished or is gone gives it back.
SlotChange(j, fin, deleted) ==
    IF jobs[j] = NoState THEN (IF fin \/ deleted THEN 0 ELSE 1)
    ELSE IF Occupies(jobs[j]) /\ (deleted \/ fin) THEN -1 ELSE 0

\* observeJob for a Job that carries a UUID label: fin is JobFinished(job).
\* OnAdd and OnUpdate pass deleted = FALSE, OnDelete (tombstones included) TRUE.
observeJob(j, fin, deleted) ==
    LET entry  == IF jobs[j] = NoState
                  THEN InformerState(fin)
                  ELSE InformerState(jobs[j].finished \/ deleted \/ fin)
        change == SlotChange(j, fin, deleted)
    IN /\ jobs' = [jobs EXCEPT ![j] = IF deleted THEN NoState ELSE entry]
       /\ inFlight' = inFlight + change
       /\ IF change # 0 THEN notifyWorkers ELSE UNCHANGED woken
       /\ UNCHANGED <<queue, paused, stopping, intakeDone, dispatchDone, pc, work, drain>>

-----------------------------------------------------------------------------
(* A worker goroutine.  "top": about to lock and look; "wait": in the      *)
(* select; "check": about to test ctx.Err; "dequeue": about to call        *)
(* tryDequeueWork; "handle": inside handler.Handle; "done": returned.      *)

\* Mutant: the loop top does not look at l.stopping.
WorkerLookOnwards(w) ==
    /\ pc[w] = "top"
    /\ pc' = [pc EXCEPT ![w] = IF Ready THEN "check" ELSE "wait"]
    /\ UNCHANGED <<queue, paused, stopping, jobs, inFlight, intakeDone,
                   dispatchDone, work, woken, drain>>

WorkerLook(w) ==
    /\ pc[w] = "top"
    /\ pc' = [pc EXCEPT ![w] = IF stopping THEN "done"
                               ELSE IF Ready THEN "check" ELSE "wait"]
    /\ UNCHANGED <<queue, paused, stopping, jobs, inFlight, intakeDone,
                   dispatchDone, work, woken, drain>>

WorkerWake(w) ==
    /\ pc[w] = "wait"
    /\ \/ intakeDone /\ pc' = [pc EXCEPT ![w] = "done"]
       \/ woken[w] /\ pc' = [pc EXCEPT ![w] = "check"]
    /\ woken' = [woken EXCEPT ![w] = FALSE]
    /\ UNCHANGED <<queue, paused, stopping, jobs, inFlight, intakeDone,
                   dispatchDone, work, drain>>

WorkerCheck(w) ==
    /\ pc[w] = "check"
    /\ pc' = [pc EXCEPT ![w] = IF intakeDone THEN "done" ELSE "dequeue"]
    /\ UNCHANGED <<queue, paused, stopping, jobs, inFlight, intakeDone,
                   dispatchDone, work, woken, drain>>

\* Positions of the queue whose UUID is not known.
Fresh == {i \in 1..Len(queue) : jobs[queue[i].id] = NoState}

MayDequeue == ~stopping /\ ~intakeDone /\ ~paused /\ ~AtCapacity

\* tryDequeueWork drops the known jobs at the head, then takes a slot for the
\* first fresh one.
TakeJob(w) ==
    \E i \in Fresh :
        /\ \A k \in Fresh : i <= k
        /\ queue' = SubSeq(queue, i + 1, Len(queue))
        /\ jobs' = [jobs EXCEPT ![queue[i].id] = [owner |-> w, finished |-> FALSE]]
        /\ inFlight' = inFlight + 1
        /\ notifyWorkers
        /\ work' = [work EXCEPT ![w] = queue[i].id]
        /\ pc' = [pc EXCEPT ![w] = "handle"]

tryDequeueWork(w) ==
    /\ pc[w] = "dequeue"
    /\ \/ MayDequeue /\ TakeJob(w)
       \/ /\ ~MayDequeue \/ Fresh = {}
          /\ queue' = IF MayDequeue THEN <<>> ELSE queue
          /\ pc' = [pc EXCEPT ![w] = "top"]
          /\ UNCHANGED <<jobs, inFlight, woken, work>>
    /\ UNCHANGED <<paused, stopping, intakeDone, dispatchDone, drain>>

HandlerSucceeds(w) ==
    /\ pc[w] = "handle"
    /\ pc' = [pc EXCEPT ![w] = "top"]
    /\ work' = [work EXCEPT ![w] = NoJob]
    /\ UNCHANGED <<queue, paused, stopping, jobs, inFlight, intakeDone,
                   dispatchDone, woken, drain>>

\* Mutant: the slot is released whatever the entry is.
HandlerFailsBlindly(w) ==
    /\ pc[w] = "handle"
    /\ jobs' = [jobs EXCEPT ![work[w]] = NoState]
    /\ inFlight' = inFlight - 1
    /\ notifyWorkers
    /\ pc' = [pc EXCEPT ![w] = "top"]
    /\ work' = [work EXCEPT ![w] = NoJob]
    /\ UNCHANGED <<queue, paused, stopping, intakeDone, dispatchDone, drain>>

\* The slot is released unless the informer has taken the entry over or the
\* entry is another one than this worker made.
HandlerFails(w) ==
    /\ pc[w] = "handle"
    /\ IF HoldsState(w, work[w])
       THEN /\ jobs' = [jobs EXCEPT ![work[w]] = NoState]
            /\ inFlight' = inFlight - 1
            /\ notifyWorkers
       ELSE UNCHANGED <<jobs, inFlight, woken>>
    /\ pc' = [pc EXCEPT ![w] = "top"]
    /\ work' = [work EXCEPT ![w] = NoJob]
    /\ UNCHANGED <<queue, paused, stopping, intakeDone, dispatchDone, drain>>

-----------------------------------------------------------------------------
(* Shutdown. *)

CancelIntake ==
    /\ ~intakeDone
    /\ intakeDone' = TRUE
    /\ UNCHANGED <<queue, paused, stopping, jobs, inFlight, dispatchDone, pc,
                   work, woken, drain>>

DrainBegin ==
    /\ drain = "idle"
    /\ drain' = "waiting"
    /\ stopping' = TRUE
    /\ queue' = <<>>
    /\ notifyWorkers
    /\ UNCHANGED <<paused, jobs, inFlight, intakeDone, dispatchDone, pc, work>>

WorkersDone == \A w \in Worker : pc[w] = "done"

\* Mutant: the dispatch context is a child of the controller context.
CancelledWithIntake ==
    /\ intakeDone /\ ~dispatchDone
    /\ dispatchDone' = TRUE
    /\ UNCHANGED <<queue, paused, stopping, jobs, inFlight, intakeDone, pc,
                   work, woken, drain>>

\* The goroutine started by New: workerWG.Wait, cancelDispatch, close(workersDone).
WorkersExited ==
    /\ WorkersDone /\ ~dispatchDone
    /\ dispatchDone' = TRUE
    /\ UNCHANGED <<queue, paused, stopping, jobs, inFlight, intakeDone, pc,
                   work, woken, drain>>

DrainReturns ==
    /\ drain = "waiting" /\ WorkersDone /\ dispatchDone
    /\ drain' = "drained"
    /\ UNCHANGED <<queue, paused, stopping, jobs, inFlight, intakeDone,
                   dispatchDone, pc, work, woken>>

DrainExpires ==
    /\ drain = "waiting"
    /\ drain' = "expired"
    /\ dispatchDone' = TRUE
    /\ UNCHANGED <<queue, paused, stopping, jobs, inFlight, intakeDone, pc,
                   work, woken>>

-----------------------------------------------------------------------------

\* MaxBatch bounds the batches a poll hands over in one call of HandleMany.
CONSTANT MaxBatch
ASSUME MaxBatchAssumption == MaxBatch \in Nat

Batches == UNION {[1..n -> QueuedJob] : n \in 0..MaxBatch}

HandleMany == \E b \in Batches : HandleManyStep(b)
Pause == \E p \in BOOLEAN : PauseStep(p)
\* Whether a Job that is deleted had finished makes no difference.
OnEvent ==
    \E j \in Job, fin, deleted \in BOOLEAN : ~(fin /\ deleted) /\ observeJob(j, fin, deleted)

WorkerStep(w) ==
    WorkerLook(w) \/ WorkerWake(w) \/ WorkerCheck(w) \/ tryDequeueWork(w)

HandlerReturns(w) == HandlerSucceeds(w) \/ HandlerFails(w)

Shutdown == CancelIntake \/ DrainBegin \/ WorkersExited \/ DrainReturns \/ DrainExpires

Next ==
    \/ HandleMany
    \/ Pause
    \/ OnEvent
    \/ \E w \in Worker : WorkerStep(w) \/ HandlerReturns(w)
    \/ Shutdown

Spec == Init /\ [][Next]_limiterVars

\* The Go scheduler runs every goroutine, handlers return (every call they make
\* is bounded by a deadline or by dispatchCtx), and the goroutine started by New
\* and the select of Drain run once their channels are ready.
Fairness ==
    /\ \A w \in Worker : WF_limiterVars(WorkerStep(w)) /\ WF_limiterVars(HandlerReturns(w))
    /\ WF_limiterVars(WorkersExited)
    /\ WF_limiterVars(DrainReturns)

FairSpec == Spec /\ Fairness

-----------------------------------------------------------------------------
(* Properties. *)

\* Every variable of the limiter stays in its Go type; inFlight never goes
\* negative.
TypeOK ==
    /\ queue \in Seq(QueuedJob)
    /\ paused \in BOOLEAN
    /\ stopping \in BOOLEAN
    /\ jobs \in [Job -> JobState \cup {NoState}]
    /\ inFlight \in Nat
    /\ intakeDone \in BOOLEAN
    /\ dispatchDone \in BOOLEAN
    /\ pc \in [Worker -> {"top", "wait", "check", "dequeue", "handle", "done"}]
    /\ work \in [Worker -> Job \cup {NoJob}]
    /\ woken \in [Worker -> BOOLEAN]
    /\ drain \in {"idle", "waiting", "drained", "expired"}

\* l.inFlight, which is only ever incremented and decremented, is the number of
\* known and unfinished jobs, whatever order dispatch results and informer
\* events come in: a slot is neither freed twice nor leaked.
SlotAccounting == inFlight = Cardinality(Occupying)

\* A worker that computed "not ready" and sleeps on a channel nobody has closed
\* since is right to sleep: no job could be dispatched (limiter.go:245-279).
NoLostWakeup == \A w \in Worker : pc[w] = "wait" /\ ~woken[w] => ~Ready

\* The queue holds each UUID once, in descending priority, within its limit.
QueueOrdered ==
    /\ Len(queue) <= WorkQueueLimit
    /\ \A i, k \in 1..Len(queue) :
          i < k => queue[i].id # queue[k].id /\ queue[i].priority >= queue[k].priority

\* The dispatch context, which carries the reservations and creations under
\* way, outlives the intake context: it is cancelled only when Drain's deadline
\* passed or no worker is left (limiter.go:56-57), and Drain reports success
\* only when no dispatch is under way.
DispatchSurvivesIntake ==
    /\ dispatchDone => WorkersDone \/ drain = "expired"
    /\ drain = "drained" => WorkersDone

\* What the proofs need besides: only an entry the informer has reported is
\* finished, and a worker inside the handler has a job.
AttemptsUnfinished ==
    \A j \in Job : jobs[j] # NoState /\ jobs[j].owner \in Worker => ~jobs[j].finished
WorkAssigned == \A w \in Worker : pc[w] = "handle" => work[w] \in Job

\* The inductive invariant.
LimiterInv ==
    /\ TypeOK
    /\ SlotAccounting
    /\ NoLostWakeup
    /\ QueueOrdered
    /\ DispatchSurvivesIntake
    /\ AttemptsUnfinished
    /\ WorkAssigned

\* Worker w starts dispatching in this step.
Dispatches(w) == pc[w] # "handle" /\ pc'[w] = "handle"

\* Of the jobs that could be dispatched, a worker takes one of the highest
\* priority, and takes it out of the queue.
HighestPriorityFirst ==
    [][\A w \in Worker : Dispatches(w) =>
          \E i \in Fresh :
              /\ queue[i].id = work'[w]
              /\ \A k \in Fresh : queue[k].priority <= queue[i].priority
              /\ \A k \in 1..Len(queue') : queue'[k].id # work'[w]]_limiterVars

Lists(q, j) == \E k \in 1..Len(q) : q[k].id = j

\* q is full of jobs at least as urgent as e.
Outranked(e, q) ==
    /\ Len(q) = WorkQueueLimit
    /\ \A k \in 1..Len(q) : q[k].priority >= e.priority

\* A queued job leaves the queue only because it is dispatched or already known,
\* because Drain empties the queue, or because it is outranked.
LeavesForAReason ==
    \A i \in 1..Len(queue) :
        \/ Lists(queue', queue[i].id)
        \/ stopping' \/ jobs'[queue[i].id] # NoState
        \/ Outranked(queue[i], queue')

\* A job that a poll brings is in the queue the poll leaves, or outranked by it.
EntersUnlessOutranked ==
    \A b \in Batches : \A i \in FirstOccurrences(b) :
        \/ Lists(queue, b[i].id) \/ Lists(queue', b[i].id)
        \/ Outranked(b[i], queue')
        \/ ~HandleManyStep(b)

\* No job is shed in favour of a less urgent one, neither a queued one nor one a
\* poll brings: HandleMany drops jobs only after sorting and only from a full
\* queue (limiter.go:204-213), and a worker drops only known jobs.  The priority
\* of a job is the one it was queued with: inPlaceDedup drops later reports of it.
ShedOnlyWhenOutranked ==
    [][LeavesForAReason /\ EntersUnlessOutranked]_limiterVars

\* Workers serve: it is never the case that from some moment on there is
\* dispatchable work and free capacity and yet no worker dispatches.
WorkersServe ==
    []<>(~Ready \/ intakeDone \/ \E w \in Worker : pc[w] = "handle")

\* Drain brings every worker to an end, whatever it was doing.
DrainTerminates == stopping ~> (WorkersDone /\ dispatchDone)
=============================================================================
