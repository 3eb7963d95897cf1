--------------------------- MODULE PipelineProofs ---------------------------
(***************************************************************************)
(* Theorems about the closed job flow, for any number of jobs and workers, *)
(* any queue lengths and any combination of the faults.                    *)
(***************************************************************************)
EXTENDS Pipeline, LimiterProofs

-----------------------------------------------------------------------------
(* The inductive invariant. *)

\* The flow keeps the limiter's invariant, and the types of its own state.
FlowTypes == LimiterInv /\ PipelineTypeOK

\* What an event says of a Job, as the informer's cache has it.
Says(e, s) ==
    /\ ReportsEnd(e) <=> s = "absent"
    /\ s = "finished" => e.finished
    /\ s = "running" => ~e.finished

\* No event about j is on its way to the limiter.
Told(j) == \A i \in 1..Len(toLimiter) : toLimiter[i].id # j

\* The last event about a Job that is queued for the limiter says what the cache
\* holds.
LastEventSays ==
    \A i \in 1..Len(toLimiter) :
        (\A k \in (i + 1)..Len(toLimiter) : toLimiter[k].id # toLimiter[i].id)
            => Says(toLimiter[i], store[toLimiter[i].id])

\* What the limiter knows of a Job once it has been told everything.
Agrees(state, s) ==
    /\ s = "absent" => state = NoState \/ state.owner \in Worker
    /\ s # "absent" => state # NoState /\ state.owner = Informer
    /\ s = "finished" => state.finished
ToldAgrees == \A j \in Job : Told(j) => Agrees(jobs[j], store[j])

\* Worker w may still create the Job of j, or return without it.
Attempting(w, j) == pc[w] = "handle" /\ work[w] = j /\ stage[w] # "created"

\* A slot that is held for an attempt outlives it only together with a Job, of
\* which the limiter has yet to be told.  A Job that comes and goes unseen would
\* take it along.
AttemptBacked ==
    ~UnseenJobs => \A j \in Job, w \in Worker :
        jobs[j] # NoState /\ jobs[j].owner = w /\ ~Attempting(w, j) /\ Told(j)
            => cluster[j] # "absent"

SlotInv == LastEventSays /\ ToldAgrees /\ AttemptBacked

\* The deduper is about to be told that the Job of j was deleted.
Unmarking(j) == \E i \in 1..Len(toDeduper) : toDeduper[i].id = j /\ toDeduper[i].kind = "delete"

\* A mark is backed without the worker that has created the Job.
MarkInv ==
    "watchGap" \notin faults =>
        /\ watching
        /\ \A j \in marked :
              \/ \E w \in Worker : work[w] = j /\ stage[w] \in {"create", "failed"}
              \/ cluster[j] # "absent"
              \/ Unmarking(j)

FlowInv == FlowTypes /\ SlotInv /\ MarkInv

-----------------------------------------------------------------------------
(* The listeners' queues. *)

\* What appending to a queue of events, and taking from it, leave.
LEMMA AppendEvent ==
    ASSUME NEW q \in Seq(Event), NEW e \in Event, NEW r, r = Append(q, e)
    PROVE  /\ r \in Seq(Event) /\ Len(q) \in Nat /\ Len(r) = Len(q) + 1 /\ r[Len(r)] = e
           /\ \A i \in 1..Len(q) : i \in 1..Len(r) /\ r[i] = q[i]
           /\ \A i \in 1..Len(r) : i = Len(r) \/ i \in 1..Len(q)
OBVIOUS

LEMMA TailEvent ==
    ASSUME NEW q \in Seq(Event), q # <<>>, NEW r, r = Tail(q)
    PROVE  /\ r \in Seq(Event) /\ Len(q) \in Nat \ {0} /\ Len(r) = Len(q) - 1
           /\ Head(q) = q[1] /\ q[1] \in Event
           /\ \A i \in 1..Len(r) : i + 1 \in 1..Len(q) /\ r[i] = q[i + 1]
           /\ \A i \in 2..Len(q) : i - 1 \in 1..Len(r) /\ r[i - 1] = q[i]
<1>1. r \in Seq(Event) /\ Len(q) \in Nat \ {0} /\ Len(r) = Len(q) - 1
      /\ \A i \in 1..Len(r) : i + 1 \in 1..Len(q) /\ r[i] = q[i + 1]
  OBVIOUS
<1>2. ASSUME NEW i \in 2..Len(q) PROVE i - 1 \in 1..Len(r) /\ r[i - 1] = q[i]
  BY <1>1
<1>3. Head(q) = q[1] /\ q[1] \in Event
  OBVIOUS
<1> QED BY <1>1, <1>2, <1>3

\* An event about j that says what the cache now holds is queued for the limiter.
LEMMA LimiterQueued ==
    ASSUME FlowTypes, SlotInv, NEW j \in Job, NEW s \in {"absent", "running", "finished"},
           NEW e \in Event, e.id = j, Says(e, s),
           toLimiter' = Append(toLimiter, e), store' = [store EXCEPT ![j] = s], UNCHANGED jobs
    PROVE  /\ LastEventSays' /\ ToldAgrees'
           /\ \A k \in Job : Told(k)' => Told(k) /\ k # j
<1>1. /\ toLimiter' \in Seq(Event) /\ Len(toLimiter) \in Nat
      /\ Len(toLimiter') = Len(toLimiter) + 1 /\ toLimiter'[Len(toLimiter')] = e
      /\ \A i \in 1..Len(toLimiter) : i \in 1..Len(toLimiter') /\ toLimiter'[i] = toLimiter[i]
      /\ \A i \in 1..Len(toLimiter') : i = Len(toLimiter') \/ i \in 1..Len(toLimiter)
  BY AppendEvent DEF FlowTypes, PipelineTypeOK
<1>2. store \in [Job -> {"absent", "running", "finished"}] /\ store'[j] = s
      /\ \A k \in Job : k # j => store'[k] = store[k]
  BY DEF FlowTypes, PipelineTypeOK
<1>3. ASSUME NEW k \in Job, Told(k)' PROVE Told(k) /\ k # j
  <2>1. Len(toLimiter') \in 1..Len(toLimiter')
    BY <1>1
  <2> QED BY <1>1, <1>3, <2>1 DEF Told
<1>4. ToldAgrees'
  <2> SUFFICES ASSUME NEW k \in Job, Told(k)' PROVE Agrees(jobs[k], store[k])'
    BY DEF ToldAgrees
  <2>1. Told(k) /\ k # j
    BY <1>3
  <2> QED BY <1>2, <2>1 DEF SlotInv, ToldAgrees, Agrees
<1>5. LastEventSays'
  <2> SUFFICES ASSUME NEW i \in 1..Len(toLimiter'),
                      \A k \in (i + 1)..Len(toLimiter') : toLimiter'[k].id # toLimiter'[i].id
               PROVE  Says(toLimiter'[i], store'[toLimiter'[i].id])
    BY DEF LastEventSays, Says, ReportsEnd
  <2>1. CASE i = Len(toLimiter')
    BY <1>1, <1>2, <2>1
  <2>2. CASE i \in 1..Len(toLimiter)
    <3>1. Len(toLimiter') \in (i + 1)..Len(toLimiter') /\ toLimiter'[i] = toLimiter[i]
      BY <1>1, <2>2
    <3>2. toLimiter[i].id # j
      BY <1>1, <3>1
    <3>3. \A k \in (i + 1)..Len(toLimiter) : toLimiter[k].id # toLimiter[i].id
      BY <1>1, <2>2, <3>1
    <3>4. Says(toLimiter[i], store[toLimiter[i].id])
      BY <2>2, <3>3 DEF SlotInv, LastEventSays
    <3>5. toLimiter[i].id \in Job
      <4>1. toLimiter[i] \in Event
        BY <2>2 DEF FlowTypes, PipelineTypeOK
      <4> QED BY <4>1 DEF Event
    <3> QED BY <1>2, <3>1, <3>2, <3>4, <3>5
  <2> QED BY <1>1, <2>1, <2>2
<1> QED BY <1>3, <1>4, <1>5

-----------------------------------------------------------------------------
(* What is left to show of a step that keeps part of the state. *)

LEMMA SlotKept ==
    ASSUME SlotInv, UNCHANGED <<jobs, store, toLimiter, cluster>>,
           \A w \in Worker, j \in Job : Attempting(w, j) => Attempting(w, j)'
    PROVE  SlotInv'
<1>1. LastEventSays' /\ ToldAgrees'
  BY DEF SlotInv, LastEventSays, ToldAgrees, Told, Agrees, Says, ReportsEnd
<1>2. AttemptBacked'
  BY DEF SlotInv, AttemptBacked, Told
<1> QED BY <1>1, <1>2 DEF SlotInv

LEMMA MarkKept ==
    ASSUME MarkInv, UNCHANGED <<marked, cluster, toDeduper, watching>>, faults \subseteq faults',
           \A w \in Worker : stage[w] \in {"create", "failed"} =>
                               stage'[w] = stage[w] /\ work'[w] = work[w]
    PROVE  MarkInv'
BY DEF MarkInv, Unmarking

LEMMA TypesKept ==
    ASSUME FlowTypes, LimiterInv', UNCHANGED <<envVars, marked, faults>>,
           stage' \in [Worker -> {"none", "reserve", "dedup", "create", "created", "failed", "return"}],
           \A w \in Worker : stage'[w] # "none" <=> pc'[w] = "handle"
    PROVE  FlowTypes'
BY DEF FlowTypes, PipelineTypeOK, LimiterInv, envVars

\* A worker that is not inside Handle is at no stage and attempts nothing.
LEMMA OutsideHandle ==
    ASSUME FlowTypes, NEW w \in Worker, pc[w] # "handle"
    PROVE  stage[w] = "none" /\ \A j \in Job : ~Attempting(w, j)
BY DEF FlowTypes, PipelineTypeOK, Attempting

-----------------------------------------------------------------------------
(* The cluster, the informer and Buildkite. *)

\* A Job changes: a connected watch tells both listeners, a broken one nobody.
LEMMA ClusterChangeFacts ==
    ASSUME FlowInv, NEW j \in Job, NEW s \in {"absent", "running", "finished"},
           NEW kind \in {"add", "update", "delete"}, kind = "delete" <=> s = "absent",
           ClusterChange(j, s, kind), UNCHANGED jobs
    PROVE  /\ cluster' \in [Job -> {"absent", "running", "finished"}] /\ cluster'[j] = s
           /\ \A k \in Job : k # j => cluster'[k] = cluster[k]
           /\ store' \in [Job -> {"absent", "running", "finished"}]
           /\ toLimiter' \in Seq(Event) /\ toDeduper' \in Seq(Event)
           /\ LastEventSays' /\ ToldAgrees'
           /\ \A k \in Job : Told(k)' => Told(k) /\ (watching => k # j)
           /\ \A k \in Job : Unmarking(k) => Unmarking(k)'
           /\ watching /\ kind = "delete" => Unmarking(j)'
<1> USE DEF FlowInv
<1> DEFINE e == [id |-> j, kind |-> kind, finished |-> (s = "finished")]
<1>1. e \in Event /\ e.id = j /\ e.kind = kind /\ Says(e, s)
  BY DEF Event, Says, ReportsEnd
<1>2. cluster' \in [Job -> {"absent", "running", "finished"}] /\ cluster'[j] = s
      /\ \A k \in Job : k # j => cluster'[k] = cluster[k]
  BY DEF ClusterChange, FlowTypes, PipelineTypeOK
<1>3. toLimiter \in Seq(Event) /\ toDeduper \in Seq(Event)
      /\ store \in [Job -> {"absent", "running", "finished"}]
  BY DEF FlowTypes, PipelineTypeOK
<1>4. CASE watching
  <2>1. store' = [store EXCEPT ![j] = s] /\ toLimiter' = Append(toLimiter, e)
        /\ toDeduper' = Append(toDeduper, e)
    BY <1>4 DEF ClusterChange
  <2> HIDE DEF e
  <2>2. LastEventSays' /\ ToldAgrees' /\ \A k \in Job : Told(k)' => Told(k) /\ k # j
    BY <1>1, <2>1, LimiterQueued
  <2>3. toLimiter' \in Seq(Event) /\ store' \in [Job -> {"absent", "running", "finished"}]
    BY <1>1, <1>3, <2>1, AppendEvent
  <2>4. /\ toDeduper' \in Seq(Event) /\ Len(toDeduper') \in 1..Len(toDeduper')
        /\ toDeduper'[Len(toDeduper')] = e
        /\ \A i \in 1..Len(toDeduper) : i \in 1..Len(toDeduper') /\ toDeduper'[i] = toDeduper[i]
    BY <1>1, <1>3, <2>1, AppendEvent
  <2>5. \A k \in Job : Unmarking(k) => Unmarking(k)'
    BY <2>4 DEF Unmarking
  <2>6. kind = "delete" => Unmarking(j)'
    BY <1>1, <2>4 DEF Unmarking
  <2> QED BY <1>2, <1>4, <2>2, <2>3, <2>4, <2>5, <2>6
<1>5. CASE ~watching
  <2>1. UNCHANGED <<store, toLimiter, toDeduper>>
    BY <1>5 DEF ClusterChange
  <2>2. LastEventSays' /\ ToldAgrees' /\ \A k \in Job : Told(k)' => Told(k)
    BY <2>1 DEF SlotInv, LastEventSays, ToldAgrees, Told, Agrees, Says, ReportsEnd
  <2>3. \A k \in Job : Unmarking(k) => Unmarking(k)'
    BY <2>1 DEF Unmarking
  <2> QED BY <1>2, <1>3, <1>5, <2>1, <2>2, <2>3
<1> QED BY <1>4, <1>5 DEF FlowTypes, PipelineTypeOK

\* A Job ends or goes.  Where no Job goes unseen, one that is deleted while the
\* watch is broken is still in the cache.
LEMMA JobEndsInv ==
    ASSUME FlowInv, NEW j \in Job, JobFinishes(j) \/ JobDeleted(j)
    PROVE  FlowInv'
<1> USE DEF FlowInv
<1>1. PICK s \in {"absent", "finished"}, kind \in {"update", "delete"} :
         /\ kind = "delete" <=> s = "absent"
         /\ ClusterChange(j, s, kind)
         /\ s = "absent" => watching \/ store[j] # "absent" \/ UnseenJobs
  BY DEF JobFinishes, JobDeleted
<1>2. UNCHANGED <<limiterVars, bk, marked, stage, faults, watching>>
  BY <1>1 DEF JobFinishes, JobDeleted, ClusterChange
<1>3. UNCHANGED <<jobs, pc, work>>
  BY <1>2 DEF limiterVars
<1>4. /\ cluster' \in [Job -> {"absent", "running", "finished"}] /\ cluster'[j] = s
      /\ \A k \in Job : k # j => cluster'[k] = cluster[k]
      /\ store' \in [Job -> {"absent", "running", "finished"}]
      /\ toLimiter' \in Seq(Event) /\ toDeduper' \in Seq(Event)
      /\ LastEventSays' /\ ToldAgrees'
      /\ \A k \in Job : Told(k)' => Told(k) /\ (watching => k # j)
      /\ \A k \in Job : Unmarking(k) => Unmarking(k)'
      /\ watching /\ kind = "delete" => Unmarking(j)'
  BY <1>1, <1>3, ClusterChangeFacts
<1>5. LimiterInv'
  BY <1>2, StutterInv DEF FlowTypes
<1>6. FlowTypes'
  BY <1>2, <1>3, <1>4, <1>5 DEF FlowTypes, PipelineTypeOK, LimiterInv
<1>7. AttemptBacked'
  <2> SUFFICES ASSUME ~UnseenJobs, NEW k \in Job, NEW w \in Worker, jobs[k] # NoState, jobs[k].owner = w,
                      ~Attempting(w, k), Told(k)'
               PROVE  cluster'[k] # "absent"
    BY <1>2, <1>3 DEF AttemptBacked, Attempting
  <2>1. Told(k) /\ cluster[k] # "absent"
    BY <1>4 DEF SlotInv, AttemptBacked
  <2>2. CASE k # j
    BY <1>4, <2>1, <2>2
  <2>3. CASE k = j
    \* The watch is broken and the limiter was told that the cache has a Job.
    <3>1. ~watching
      BY <1>4, <2>3
    <3>2. store[k] = "absent"
      <4>1. Agrees(jobs[k], store[k])
        BY <2>1 DEF SlotInv, ToldAgrees
      <4> QED BY <4>1, LimiterAssumption DEF Agrees
    <3> QED BY <1>1, <1>4, <2>3, <3>1, <3>2
  <2> QED BY <2>2, <2>3
<1>8. MarkInv'
  <2> SUFFICES ASSUME "watchGap" \notin faults PROVE MarkInv'
    BY <1>2 DEF MarkInv
  <2>1. watching
    BY DEF MarkInv
  <2>2. ASSUME NEW k \in marked
        PROVE  \/ \E w \in Worker : work[w] = k /\ stage[w] \in {"create", "failed"}
               \/ cluster'[k] # "absent"
               \/ Unmarking(k)'
    <3>1. k \in Job
      BY DEF FlowTypes, PipelineTypeOK
    <3>2. CASE k # j
      BY <1>4, <2>2, <3>1, <3>2 DEF MarkInv
    <3>3. CASE k = j
      BY <1>1, <1>4, <2>1, <3>3
    <3> QED BY <3>2, <3>3
  <2> QED BY <1>2, <1>3, <2>1, <2>2 DEF MarkInv
<1> QED BY <1>4, <1>6, <1>7, <1>8 DEF SlotInv

\* The watch breaks.
LEMMA WatchBreaksInv == ASSUME FlowInv, WatchBreaks PROVE FlowInv'
<1> USE DEF FlowInv
<1>1. /\ UNCHANGED <<limiterVars, bk, cluster, store, toLimiter, toDeduper, marked, stage>>
      /\ watching' = FALSE /\ faults' = faults \cup {"watchGap"}
  BY DEF WatchBreaks, Happens
<1>2. UNCHANGED <<jobs, pc, work>>
  BY <1>1 DEF limiterVars
<1>3. LimiterInv'
  BY <1>1, StutterInv DEF FlowTypes
<1>4. FlowTypes'
  BY <1>1, <1>2, <1>3 DEF FlowTypes, PipelineTypeOK, LimiterInv, FaultKind
<1>5. SlotInv'
  <2>1. \A w \in Worker, j \in Job : Attempting(w, j) => Attempting(w, j)'
    BY <1>1, <1>2 DEF Attempting
  <2> QED BY <1>1, <1>2, <2>1, SlotKept
<1>6. MarkInv'
  BY <1>1 DEF MarkInv
<1> QED BY <1>4, <1>5, <1>6

\* The relist tells both listeners of one Job, or finds nothing more to tell.
LEMMA RelistInv == ASSUME FlowInv, Relist PROVE FlowInv'
<1> USE DEF FlowInv
<1>1. ~watching /\ UNCHANGED <<limiterVars, bk, cluster, marked, stage, faults>>
  BY DEF Relist
<1>2. UNCHANGED <<jobs, pc, work>>
  BY <1>1 DEF limiterVars
<1>3. LimiterInv'
  BY <1>1, StutterInv DEF FlowTypes
<1>4. \A w \in Worker, j \in Job : Attempting(w, j)' <=> Attempting(w, j)
  BY <1>1, <1>2 DEF Attempting
<1>5. MarkInv'
  BY <1>1 DEF MarkInv
<1>6. ASSUME NEW j \in Job,
             store' = [store EXCEPT ![j] = cluster[j]],
             toLimiter' = Append(toLimiter, RelistEvent(j)),
             toDeduper' = Append(toDeduper, RelistEvent(j)),
             UNCHANGED watching
      PROVE  FlowInv'
  <2> DEFINE e == RelistEvent(j)
  <2>1. cluster \in [Job -> {"absent", "running", "finished"}]
        /\ store \in [Job -> {"absent", "running", "finished"}]
        /\ toLimiter \in Seq(Event) /\ toDeduper \in Seq(Event)
    BY DEF FlowTypes, PipelineTypeOK
  <2>2. e \in Event /\ e.id = j /\ Says(e, cluster[j])
    BY <2>1 DEF RelistEvent, Event, Says, ReportsEnd
  <2> HIDE DEF e
  <2>3. toLimiter' = Append(toLimiter, e) /\ toDeduper' = Append(toDeduper, e)
    BY <1>6 DEF e
  <2>4. LastEventSays' /\ ToldAgrees' /\ \A k \in Job : Told(k)' => Told(k) /\ k # j
    <3>1. PICK s \in {"absent", "running", "finished"} : s = cluster[j]
      BY <2>1
    <3>2. FlowTypes /\ SlotInv
      OBVIOUS
    <3>3. Says(e, s) /\ store' = [store EXCEPT ![j] = s] /\ UNCHANGED jobs
      BY <1>2, <1>6, <2>2, <3>1
    <3> HIDE DEF FlowInv
    <3> QED BY <2>2, <2>3, <3>2, <3>3, LimiterQueued
  <2>5. AttemptBacked'
    BY <1>1, <1>2, <1>4, <2>4 DEF SlotInv, AttemptBacked
  <2>6. store' \in [Job -> {"absent", "running", "finished"}]
        /\ toLimiter' \in Seq(Event) /\ toDeduper' \in Seq(Event)
    BY <1>6, <2>1, <2>2, <2>3, AppendEvent
  <2>7. FlowTypes'
    BY <1>1, <1>2, <1>3, <1>6, <2>6 DEF FlowTypes, PipelineTypeOK, LimiterInv
  <2> QED BY <1>5, <2>4, <2>5, <2>7 DEF SlotInv
<1>7. ASSUME watching' = TRUE, UNCHANGED <<store, toLimiter, toDeduper>>
      PROVE  FlowInv'
  <2>1. FlowTypes'
    BY <1>1, <1>2, <1>3, <1>7 DEF FlowTypes, PipelineTypeOK, LimiterInv
  <2>2. SlotInv'
    BY <1>1, <1>2, <1>4, <1>7, SlotKept
  <2> QED BY <1>5, <2>1, <2>2
<1> QED BY <1>6, <1>7 DEF Relist

\* Buildkite changes its mind about a job.
LEMMA BuildkiteInv ==
    ASSUME FlowInv, NEW j \in Job, AgentAcquires(j) \/ ReservationExpires(j)
    PROVE  FlowInv'
<1> USE DEF FlowInv
<1>1. /\ UNCHANGED <<limiterVars, cluster, watching, store, toLimiter, toDeduper, marked, stage, faults>>
      /\ bk' \in [Job -> {"scheduled", "reserved", "taken"}]
  BY DEF AgentAcquires, ReservationExpires, FlowTypes, PipelineTypeOK
<1>2. UNCHANGED <<jobs, pc, work>>
  BY <1>1 DEF limiterVars
<1>3. LimiterInv'
  BY <1>1, StutterInv DEF FlowTypes
<1>4. FlowTypes'
  BY <1>1, <1>2, <1>3 DEF FlowTypes, PipelineTypeOK, LimiterInv
<1>5. SlotInv'
  <2>1. \A w \in Worker, k \in Job : Attempting(w, k) => Attempting(w, k)'
    BY <1>1, <1>2 DEF Attempting
  <2> QED BY <1>1, <1>2, <2>1, SlotKept
<1>6. MarkInv'
  BY <1>1, <1>2, MarkKept
<1> QED BY <1>4, <1>5, <1>6

-----------------------------------------------------------------------------
(* The limiter. *)

\* A poll reaches the limiter only.
LEMMA PollInv == ASSUME FlowInv, Poll PROVE FlowInv'
<1> USE DEF FlowInv
<1>1. PICK b \in Polls : HandleManyStep(b) /\ UNCHANGED pipeVars
  BY DEF Poll
<1>2. b \in Seq(QueuedJob)
  <2>1. Cardinality(Scheduled) \in Nat
    <3>1. Scheduled \in SUBSET Job
      BY DEF Scheduled
    <3> QED BY <3>1, LimiterAssumption, FS_Subset, FS_CardinalityType
  <2> QED BY <1>1, <2>1, SeqDef DEF Polls
<1>3. LimiterInv'
  BY <1>1, <1>2, HandleManyStepInv DEF FlowTypes
<1>4. UNCHANGED <<jobs, pc, work, bk, cluster, watching, store, toLimiter, toDeduper, marked, stage, faults>>
  BY <1>1 DEF HandleManyStep, pipeVars, envVars
<1>5. FlowTypes'
  BY <1>3, <1>4 DEF FlowTypes, PipelineTypeOK, LimiterInv
<1>6. SlotInv'
  <2>1. \A w \in Worker, k \in Job : Attempting(w, k) => Attempting(w, k)'
    BY <1>4 DEF Attempting
  <2> QED BY <1>4, <2>1, SlotKept
<1>7. MarkInv'
  BY <1>4, MarkKept
<1> QED BY <1>5, <1>6, <1>7

\* A worker that looks, wakes up or checks was not inside Handle, and does not
\* get there.
LEMMA IdleStepInv == ASSUME FlowInv, NEW w \in Worker, IdleStep(w) PROVE FlowInv'
<1> USE DEF FlowInv
<1>1. LimiterInv'
  BY WorkerMoveInv DEF IdleStep, FlowTypes
<1>2. UNCHANGED <<jobs, work, bk, cluster, watching, store, toLimiter, toDeduper, marked, stage, faults>>
  BY DEF IdleStep, WorkerLook, WorkerWake, WorkerCheck, pipeVars, envVars
<1>3. /\ pc[w] # "handle" /\ pc'[w] # "handle"
      /\ \A v \in Worker : v # w => pc'[v] = pc[v]
  <2>1. pc \in [Worker -> {"top", "wait", "check", "dequeue", "handle", "done"}]
    BY DEF FlowTypes, LimiterInv, TypeOK
  <2> QED BY <2>1 DEF IdleStep, WorkerLook, WorkerWake, WorkerCheck
<1>4. FlowTypes'
  BY <1>1, <1>2, <1>3 DEF FlowTypes, PipelineTypeOK, LimiterInv
<1>5. SlotInv'
  <2>1. \A v \in Worker, k \in Job : Attempting(v, k) => Attempting(v, k)'
    BY <1>2, <1>3 DEF Attempting
  <2> QED BY <1>2, <2>1, SlotKept
<1>6. MarkInv'
  BY <1>2, MarkKept
<1> QED BY <1>4, <1>5, <1>6

\* A slot is taken only for a UUID the limiter does not know: if it has been told
\* everything, the cache does not know it either.
LEMMA DispatchInv == ASSUME FlowInv, NEW w \in Worker, Dispatch(w) PROVE FlowInv'
<1> USE DEF FlowInv
<1>1. LimiterInv'
  BY DequeueInv DEF Dispatch, FlowTypes
<1>2. /\ UNCHANGED <<bk, cluster, watching, store, toLimiter, toDeduper, marked, faults>>
      /\ UNCHANGED envVars
      /\ stage' = [stage EXCEPT ![w] = IF pc'[w] = "handle" THEN "reserve" ELSE "none"]
  BY DEF Dispatch, envVars
<1>3. /\ queue \in Seq(QueuedJob)
      /\ jobs \in [Job -> JobState \cup {NoState}]
      /\ pc \in [Worker -> {"top", "wait", "check", "dequeue", "handle", "done"}]
      /\ work \in [Worker -> Job \cup {NoJob}]
      /\ stage \in [Worker -> {"none", "reserve", "dedup", "create", "created", "failed", "return"}]
  BY DEF FlowTypes, PipelineTypeOK, LimiterInv, TypeOK
<1>4. /\ pc[w] = "dequeue"
      /\ \A v \in Worker : v # w => pc'[v] = pc[v] /\ work'[v] = work[v] /\ stage'[v] = stage[v]
  BY <1>2, <1>3 DEF Dispatch, tryDequeueWork, TakeJob
<1>5. stage[w] = "none" /\ \A k \in Job : ~Attempting(w, k)
  BY <1>4, OutsideHandle
<1>6. FlowTypes'
  <2>1. stage' \in [Worker -> {"none", "reserve", "dedup", "create", "created", "failed", "return"}]
    BY <1>2, <1>3
  <2>2. \A v \in Worker : stage'[v] # "none" <=> pc'[v] = "handle"
    BY <1>2, <1>3, <1>4 DEF FlowTypes, PipelineTypeOK
  <2> QED BY <1>1, <1>2, <2>1, <2>2, TypesKept
<1>7. MarkInv'
  BY <1>2, <1>4, <1>5, MarkKept
<1>8. \A v \in Worker, k \in Job : Attempting(v, k) => Attempting(v, k)'
  BY <1>4, <1>5 DEF Attempting
<1>9. CASE TakeJob(w)
  <2>1. PICK i \in Fresh :
           /\ jobs' = [jobs EXCEPT ![queue[i].id] = [owner |-> w, finished |-> FALSE]]
           /\ work' = [work EXCEPT ![w] = queue[i].id]
           /\ pc' = [pc EXCEPT ![w] = "handle"]
    BY <1>9 DEF TakeJob
  <2> DEFINE j == queue[i].id
  <2>2. j \in Job /\ jobs[j] = NoState
    <3>1. i \in 1..Len(queue) /\ jobs[j] = NoState
      BY DEF Fresh
    <3>2. queue[i] \in QueuedJob
      BY <1>3, <3>1
    <3> QED BY <3>1, <3>2 DEF QueuedJob
  <2> HIDE DEF j
  <2>3. /\ jobs'[j] = [owner |-> w, finished |-> FALSE]
        /\ \A k \in Job : k # j => jobs'[k] = jobs[k]
        /\ work'[w] = j /\ pc'[w] = "handle" /\ stage'[w] = "reserve"
    BY <1>2, <1>3, <2>1, <2>2 DEF j
  <2>4. LastEventSays'
    BY <1>2 DEF SlotInv, LastEventSays, Says, ReportsEnd
  <2>5. ToldAgrees'
    <3> SUFFICES ASSUME NEW k \in Job, Told(k)' PROVE Agrees(jobs'[k], store'[k])
      BY DEF ToldAgrees, Agrees
    <3>1. Agrees(jobs[k], store[k])
      BY <1>2 DEF SlotInv, ToldAgrees, Told
    <3>2. CASE k # j
      BY <1>2, <2>3, <3>1, <3>2
    <3>3. CASE k = j
      <4>1. store[k] = "absent"
        BY <2>2, <3>1, <3>3 DEF Agrees
      <4>2. jobs'[k].owner = w
        BY <2>3, <3>3
      <4> QED BY <1>2, <4>1, <4>2 DEF Agrees
    <3> QED BY <3>2, <3>3
  <2>6. AttemptBacked'
    <3> SUFFICES ASSUME ~UnseenJobs, NEW k \in Job, NEW v \in Worker,
                        jobs'[k] # NoState, jobs'[k].owner = v,
                        ~Attempting(v, k)', Told(k)'
                 PROVE  cluster'[k] # "absent"
      BY DEF AttemptBacked
    <3>1. k # j
      BY <2>3 DEF Attempting
    <3>2. jobs[k] # NoState /\ jobs[k].owner = v /\ ~Attempting(v, k) /\ Told(k)
      BY <1>2, <1>8, <2>3, <3>1 DEF Told
    <3> QED BY <1>2, <3>2 DEF SlotInv, AttemptBacked
  <2> QED BY <1>6, <1>7, <2>4, <2>5, <2>6 DEF SlotInv
<1>10. CASE UNCHANGED jobs
  BY <1>2, <1>6, <1>7, <1>8, <1>10, SlotKept
<1> QED BY <1>9, <1>10 DEF Dispatch, tryDequeueWork

\* A slot is given back only by the attempt that holds it, and only if the limiter
\* has been told of no Job.
LEMMA ReturnInv == ASSUME FlowInv, NEW w \in Worker, Succeed(w) \/ Fail(w) PROVE FlowInv'
<1> USE DEF FlowInv
<1>1. LimiterInv'
  BY HandlerInv DEF Succeed, Fail, HandlerReturns, FlowTypes
<1>2. /\ UNCHANGED <<bk, cluster, watching, store, toLimiter, toDeduper, marked, faults>>
      /\ UNCHANGED envVars
      /\ stage[w] \in {"created", "return"}
      /\ stage' = [stage EXCEPT ![w] = "none"]
      /\ pc[w] = "handle"
      /\ pc' = [pc EXCEPT ![w] = "top"] /\ work' = [work EXCEPT ![w] = NoJob]
  BY DEF Succeed, Fail, envVars, HandlerSucceeds, HandlerFails
<1>3. /\ jobs \in [Job -> JobState \cup {NoState}]
      /\ pc \in [Worker -> {"top", "wait", "check", "dequeue", "handle", "done"}]
      /\ work \in [Worker -> Job \cup {NoJob}]
      /\ stage \in [Worker -> {"none", "reserve", "dedup", "create", "created", "failed", "return"}]
      /\ work[w] \in Job
  BY <1>2 DEF FlowTypes, PipelineTypeOK, LimiterInv, TypeOK, WorkAssigned
<1>4. \A v \in Worker : v # w => pc'[v] = pc[v] /\ work'[v] = work[v] /\ stage'[v] = stage[v]
  BY <1>2, <1>3
<1>5. FlowTypes'
  <2>1. stage' \in [Worker -> {"none", "reserve", "dedup", "create", "created", "failed", "return"}]
    BY <1>2, <1>3
  <2>2. \A v \in Worker : stage'[v] # "none" <=> pc'[v] = "handle"
    BY <1>2, <1>3, <1>4 DEF FlowTypes, PipelineTypeOK
  <2> QED BY <1>1, <1>2, <2>1, <2>2, TypesKept
<1>6. MarkInv'
  BY <1>2, <1>4, MarkKept
<1>7. CASE Succeed(w)
  <2>1. UNCHANGED jobs /\ stage[w] = "created"
    BY <1>7 DEF Succeed, HandlerSucceeds
  <2>2. \A v \in Worker, k \in Job : Attempting(v, k) => Attempting(v, k)'
    BY <1>4, <2>1 DEF Attempting
  <2> QED BY <1>2, <1>5, <1>6, <2>1, <2>2, SlotKept
<1>8. CASE Fail(w)
  <2> DEFINE j == work[w]
  <2>1. /\ HoldsState(w, j) => jobs' = [jobs EXCEPT ![j] = NoState]
        /\ ~HoldsState(w, j) => jobs' = jobs
    BY <1>8 DEF Fail, HandlerFails
  <2>2. /\ \A k \in Job : k # j => jobs'[k] = jobs[k]
        /\ \/ HoldsState(w, j) /\ jobs'[j] = NoState
           \/ ~HoldsState(w, j) /\ jobs'[j] = jobs[j]
    BY <1>3, <2>1
  <2>3. LastEventSays'
    BY <1>2 DEF SlotInv, LastEventSays, Says, ReportsEnd
  <2>4. ToldAgrees'
    <3> SUFFICES ASSUME NEW k \in Job, Told(k)' PROVE Agrees(jobs'[k], store'[k])
      BY DEF ToldAgrees, Agrees
    <3>1. Agrees(jobs[k], store[k])
      BY <1>2 DEF SlotInv, ToldAgrees, Told
    <3>2. CASE jobs'[k] = jobs[k]
      BY <1>2, <3>1, <3>2
    <3>3. CASE k = j /\ HoldsState(w, j) /\ jobs'[j] = NoState
      <4>1. store[k] = "absent"
        BY <3>1, <3>3, LimiterAssumption DEF Agrees, HoldsState
      <4> QED BY <1>2, <3>3, <4>1 DEF Agrees
    <3> QED BY <2>2, <3>2, <3>3
  <2>5. AttemptBacked'
    <3> SUFFICES ASSUME ~UnseenJobs, NEW k \in Job, NEW v \in Worker,
                        jobs'[k] # NoState, jobs'[k].owner = v,
                        ~Attempting(v, k)', Told(k)'
                 PROVE  cluster'[k] # "absent"
      BY DEF AttemptBacked
    <3>1. jobs[k] # NoState /\ jobs[k].owner = v /\ ~(k = j /\ v = w)
      BY <2>2 DEF HoldsState
    <3>2. ~Attempting(v, k)
      BY <1>4, <3>1 DEF Attempting
    <3> QED BY <1>2, <3>1, <3>2 DEF SlotInv, AttemptBacked, Told
  <2> QED BY <1>5, <1>6, <2>3, <2>4, <2>5 DEF SlotInv
<1> QED BY <1>7, <1>8

-----------------------------------------------------------------------------
(* Inside handler.Handle. *)

\* A worker goes on to another stage before it has created a Job: it holds its
\* slot as before.
LEMMA StageMove ==
    ASSUME FlowInv, NEW w \in Worker, NEW s \in {"dedup", "create", "failed", "return"},
           stage[w] \in {"reserve", "dedup", "create", "failed"}, stage' = [stage EXCEPT ![w] = s],
           bk' \in [Job -> {"scheduled", "reserved", "taken"}], marked' \subseteq Job,
           UNCHANGED <<limiterVars, cluster, watching, store, toLimiter, toDeduper, faults>>
    PROVE  /\ FlowTypes' /\ SlotInv' /\ UNCHANGED work /\ stage'[w] = s
           /\ \A v \in Worker : v # w => stage'[v] = stage[v]
<1> USE DEF FlowInv
<1>1. UNCHANGED <<jobs, pc, work>>
  BY DEF limiterVars
<1>2. stage \in [Worker -> {"none", "reserve", "dedup", "create", "created", "failed", "return"}]
      /\ \A v \in Worker : stage[v] # "none" <=> pc[v] = "handle"
  BY DEF FlowTypes, PipelineTypeOK
<1>3. stage'[w] = s /\ \A v \in Worker : v # w => stage'[v] = stage[v]
  BY <1>2
<1>4. LimiterInv'
  BY StutterInv DEF FlowTypes
<1>5. FlowTypes'
  <2>1. stage' \in [Worker -> {"none", "reserve", "dedup", "create", "created", "failed", "return"}]
    BY <1>2
  <2>2. \A v \in Worker : stage'[v] # "none" <=> pc'[v] = "handle"
    BY <1>1, <1>2, <1>3
  <2> QED BY <1>4, <2>1, <2>2 DEF FlowTypes, PipelineTypeOK, LimiterInv
<1>6. SlotInv'
  <2>1. \A v \in Worker, k \in Job : Attempting(v, k) => Attempting(v, k)'
    BY <1>1, <1>3 DEF Attempting
  <2> QED BY <1>1, <2>1, SlotKept
<1> QED BY <1>1, <1>3, <1>5, <1>6

\* The reserver.
LEMMA ReserveInv == ASSUME FlowInv, NEW w \in Worker, Reserve(w) \/ NotReserved(w) PROVE FlowInv'
<1> USE DEF FlowInv
<1>1. PICK s \in {"dedup", "return"} : stage' = [stage EXCEPT ![w] = s]
  BY DEF Reserve, NotReserved
<1>2. stage[w] = "reserve"
      /\ UNCHANGED <<limiterVars, cluster, watching, store, toLimiter, toDeduper, marked, faults>>
  BY DEF Reserve, NotReserved
<1>3. bk' \in [Job -> {"scheduled", "reserved", "taken"}] /\ marked' \subseteq Job
  BY <1>2 DEF Reserve, NotReserved, FlowTypes, PipelineTypeOK
<1>4. FlowTypes' /\ SlotInv' /\ UNCHANGED work
      /\ \A v \in Worker : v # w => stage'[v] = stage[v]
  BY <1>1, <1>2, <1>3, StageMove
<1>5. MarkInv'
  BY <1>2, <1>4, MarkKept
<1> QED BY <1>4, <1>5

\* The deduper: a new mark belongs to the worker that goes on to create the Job,
\* and is withdrawn when that worker fails.
LEMMA DedupInv == ASSUME FlowInv, NEW w \in Worker, Mark(w) \/ Unmark(w) PROVE FlowInv'
<1> USE DEF FlowInv
<1>1. PICK s \in {"create", "return"} : stage' = [stage EXCEPT ![w] = s]
  BY DEF Mark, Unmark
<1>2. /\ stage[w] \in {"dedup", "failed"}
      /\ UNCHANGED <<limiterVars, bk, cluster, watching, store, toLimiter, toDeduper, faults>>
      /\ marked' \subseteq marked \cup {work[w]}
  BY DEF Mark, Unmark, envVars
<1>3. work[w] \in Job
  BY <1>2 DEF FlowTypes, PipelineTypeOK, LimiterInv, WorkAssigned
<1>4. bk' \in [Job -> {"scheduled", "reserved", "taken"}] /\ marked' \subseteq Job
  BY <1>2, <1>3 DEF FlowTypes, PipelineTypeOK
<1>5. FlowTypes' /\ SlotInv' /\ UNCHANGED work /\ stage'[w] = s
      /\ \A v \in Worker : v # w => stage'[v] = stage[v]
  BY <1>1, <1>2, <1>4, StageMove
<1>6. MarkInv'
  <2> SUFFICES ASSUME "watchGap" \notin faults, NEW k \in marked'
               PROVE  \/ \E v \in Worker : work[v] = k /\ stage'[v] \in {"create", "failed"}
                      \/ cluster[k] # "absent"
                      \/ Unmarking(k)
    <3>1. \A k : Unmarking(k)' <=> Unmarking(k)
      BY <1>2 DEF Unmarking
    <3>2. "watchGap" \notin faults => watching
      BY DEF MarkInv
    <3> QED BY <1>2, <1>5, <3>1, <3>2 DEF MarkInv
  <2>1. CASE k \in marked /\ (Mark(w) \/ k # work[w])
    <3>1. \/ \E v \in Worker : work[v] = k /\ stage[v] \in {"create", "failed"}
          \/ cluster[k] # "absent"
          \/ Unmarking(k)
      BY <2>1 DEF MarkInv
    <3>2. ASSUME NEW v \in Worker, work[v] = k, stage[v] \in {"create", "failed"}
          PROVE  stage'[v] \in {"create", "failed"}
      <4>1. v # w
        BY <2>1, <3>2 DEF Mark
      <4> QED BY <1>5, <3>2, <4>1
    <3> QED BY <3>1, <3>2
  <2>2. CASE k \notin marked
    <3>1. k = work[w] /\ Mark(w)
      BY <2>2 DEF Mark, Unmark
    <3>2. s = "create"
      <4>1. stage' = [stage EXCEPT ![w] = "create"]
        BY <2>2, <3>1 DEF Mark
      <4>2. stage'[w] = "create"
        BY <4>1 DEF FlowTypes, PipelineTypeOK
      <4> QED BY <1>5, <4>2
    <3> QED BY <1>5, <3>1, <3>2
  <2>3. CASE Unmark(w) /\ k = work[w]
    BY <2>3 DEF Unmark
  <2> QED BY <2>1, <2>2, <2>3
<1> QED BY <1>5, <1>6

\* The scheduler finds a Job in its way, or fails: a mark it leaves in place is
\* that of an existing Job.
LEMMA NotCreatedInv ==
    ASSUME FlowInv, NEW w \in Worker, CreateDuplicate(w) \/ CreateFails(w) PROVE FlowInv'
<1> USE DEF FlowInv
<1>1. PICK s \in {"return", "failed"} :
         /\ stage' = [stage EXCEPT ![w] = s]
         /\ s = "return" => cluster[work[w]] # "absent"
  BY DEF CreateDuplicate, CreateFails
<1>2. stage[w] = "create"
      /\ UNCHANGED <<limiterVars, cluster, watching, store, toLimiter, toDeduper, marked, faults>>
  BY DEF CreateDuplicate, CreateFails, envVars
<1>3. bk' \in [Job -> {"scheduled", "reserved", "taken"}] /\ marked' \subseteq Job
  BY <1>2 DEF CreateDuplicate, CreateFails, envVars, FlowTypes, PipelineTypeOK
<1>4. FlowTypes' /\ SlotInv' /\ UNCHANGED work /\ stage'[w] = s
      /\ \A v \in Worker : v # w => stage'[v] = stage[v]
  BY <1>1, <1>2, <1>3, StageMove
<1>5. MarkInv'
  <2>1. \A k : Unmarking(k)' <=> Unmarking(k)
    BY <1>2 DEF Unmarking
  <2>2. ASSUME NEW v \in Worker, stage[v] \in {"create", "failed"}
        PROVE  stage'[v] \in {"create", "failed"} \/ cluster[work[v]] # "absent"
    BY <1>1, <1>4, <2>2
  <2>3. ASSUME "watchGap" \notin faults, NEW k \in marked
        PROVE  \/ \E v \in Worker : work[v] = k /\ stage'[v] \in {"create", "failed"}
               \/ cluster[k] # "absent"
               \/ Unmarking(k)
    BY <2>2, <2>3 DEF MarkInv
  <2> QED BY <1>2, <1>4, <2>1, <2>3 DEF MarkInv
<1> QED BY <1>4, <1>5

\* The scheduler creates the Job, whatever it is told about that: the slot and the
\* mark are backed by the Job from now on.
LEMMA CreateInv == ASSUME FlowInv, NEW w \in Worker, Create(w) PROVE FlowInv'
<1> USE DEF FlowInv
<1> DEFINE j == work[w]
<1>1. PICK s \in {"created", "failed"} :
         /\ stage' = [stage EXCEPT ![w] = s]
         /\ faults \subseteq faults' /\ faults' \subseteq FaultKind
  BY DEF Create, Happens, FaultKind, FlowTypes, PipelineTypeOK
<1>2. stage[w] = "create" /\ ClusterChange(j, "running", "add")
      /\ UNCHANGED <<limiterVars, bk, marked, watching>>
  BY DEF Create, ClusterChange
<1>3. UNCHANGED <<jobs, pc, work>>
  BY <1>2 DEF limiterVars
<1>4. /\ stage \in [Worker -> {"none", "reserve", "dedup", "create", "created", "failed", "return"}]
      /\ \A v \in Worker : stage[v] # "none" <=> pc[v] = "handle"
      /\ j \in Job
  BY <1>2 DEF FlowTypes, PipelineTypeOK, LimiterInv, WorkAssigned
<1>5. stage'[w] = s /\ \A v \in Worker : v # w => stage'[v] = stage[v]
  BY <1>1, <1>4
<1> HIDE DEF j
<1>6. /\ cluster' \in [Job -> {"absent", "running", "finished"}] /\ cluster'[j] = "running"
      /\ \A k \in Job : k # j => cluster'[k] = cluster[k]
      /\ store' \in [Job -> {"absent", "running", "finished"}]
      /\ toLimiter' \in Seq(Event) /\ toDeduper' \in Seq(Event)
      /\ LastEventSays' /\ ToldAgrees'
      /\ \A k \in Job : Told(k)' => Told(k)
      /\ \A k \in Job : Unmarking(k) => Unmarking(k)'
  BY <1>2, <1>3, <1>4, ClusterChangeFacts
<1>7. FlowTypes'
  <2>1. LimiterInv'
    BY <1>2, StutterInv DEF FlowTypes
  <2>2. stage' \in [Worker -> {"none", "reserve", "dedup", "create", "created", "failed", "return"}]
    BY <1>1, <1>4
  <2>3. \A v \in Worker : stage'[v] # "none" <=> pc'[v] = "handle"
    BY <1>2, <1>3, <1>4, <1>5
  <2> QED BY <1>1, <1>2, <1>3, <1>6, <2>1, <2>2, <2>3 DEF FlowTypes, PipelineTypeOK, LimiterInv
<1>8. AttemptBacked'
  <2> SUFFICES ASSUME ~UnseenJobs, NEW k \in Job, NEW v \in Worker, jobs[k] # NoState, jobs[k].owner = v,
                      ~Attempting(v, k)', Told(k)', k # j
               PROVE  cluster'[k] # "absent"
    BY <1>3, <1>6 DEF AttemptBacked
  <2>1. ~Attempting(v, k)
    BY <1>3, <1>5 DEF Attempting, j
  <2> QED BY <1>6, <2>1 DEF SlotInv, AttemptBacked
<1>9. MarkInv'
  <2>1. ASSUME "watchGap" \notin faults, NEW k \in marked
        PROVE  \/ \E v \in Worker : work[v] = k /\ stage'[v] \in {"create", "failed"}
               \/ cluster'[k] # "absent"
               \/ Unmarking(k)'
    <3>1. k \in Job
      BY DEF FlowTypes, PipelineTypeOK
    <3>2. CASE k = j
      BY <1>6, <3>2
    <3>3. CASE k # j
      <4>1. \/ \E v \in Worker : work[v] = k /\ stage[v] \in {"create", "failed"}
            \/ cluster[k] # "absent"
            \/ Unmarking(k)
        BY <2>1 DEF MarkInv
      <4>2. \A v \in Worker : work[v] = k => stage'[v] = stage[v]
        BY <1>5, <3>3 DEF j
      <4> QED BY <1>6, <3>1, <3>3, <4>1, <4>2
    <3> QED BY <3>2, <3>3
  <2> QED BY <1>1, <1>2, <1>3, <2>1 DEF MarkInv
<1> QED BY <1>6, <1>7, <1>8, <1>9 DEF SlotInv

-----------------------------------------------------------------------------
(* The listeners. *)

\* An entry of the informer's.
LEMMA ListedEntry ==
    ASSUME NEW f \in BOOLEAN
    PROVE  /\ InformerState(f) # NoState
           /\ InformerState(f).owner = Informer /\ InformerState(f).finished = f
<1>1. InformerState(f) \in JobState
  BY DEF InformerState, JobState
<1> QED BY <1>1, NoStateAssumption DEF InformerState

\* The limiter takes an event: if it is the last one about its Job, the entry
\* agrees with the cache afterwards.
LEMMA LimiterEventInv == ASSUME FlowInv, LimiterEvent PROVE FlowInv'
<1> USE DEF FlowInv
<1> DEFINE e == Head(toLimiter)
           j == e.id
<1>1. /\ toLimiter # <<>> /\ toLimiter' = Tail(toLimiter)
      /\ observeJob(j, e.finished, ReportsEnd(e))
      /\ UNCHANGED <<bk, cluster, watching, store, toDeduper, marked, stage, faults>>
  BY DEF LimiterEvent
<1>2. /\ toLimiter' \in Seq(Event) /\ Len(toLimiter) \in Nat \ {0}
      /\ Len(toLimiter') = Len(toLimiter) - 1
      /\ e = toLimiter[1] /\ e \in Event
      /\ \A i \in 1..Len(toLimiter') : i + 1 \in 1..Len(toLimiter) /\ toLimiter'[i] = toLimiter[i + 1]
      /\ \A i \in 2..Len(toLimiter) : i - 1 \in 1..Len(toLimiter') /\ toLimiter'[i - 1] = toLimiter[i]
  <2>1. toLimiter \in Seq(Event)
    BY DEF FlowTypes, PipelineTypeOK
  <2> QED BY <1>1, <2>1, TailEvent
<1>3. j \in Job /\ e.finished \in BOOLEAN /\ ReportsEnd(e) \in BOOLEAN
  BY <1>2 DEF Event, ReportsEnd
<1> HIDE DEF e, j
<1>4. LimiterInv'
  BY <1>1, <1>3, ObserveInv DEF FlowTypes
<1>5. jobs \in [Job -> JobState \cup {NoState}]
      /\ store \in [Job -> {"absent", "running", "finished"}]
  BY DEF FlowTypes, PipelineTypeOK, LimiterInv, TypeOK
<1>6. /\ UNCHANGED <<pc, work>>
      /\ \A k \in Job : k # j => jobs'[k] = jobs[k]
      /\ ReportsEnd(e) => jobs'[j] = NoState
      /\ ~ReportsEnd(e) => \E f \in BOOLEAN : (e.finished => f) /\ jobs'[j] = InformerState(f)
  <2>1. UNCHANGED <<pc, work>>
    BY <1>1 DEF observeJob
  <2>2. jobs' = [jobs EXCEPT ![j] = IF ReportsEnd(e) THEN NoState
                                    ELSE IF jobs[j] = NoState THEN InformerState(e.finished)
                                    ELSE InformerState(jobs[j].finished \/ ReportsEnd(e) \/ e.finished)]
    BY <1>1 DEF observeJob
  <2>3. (jobs[j].finished \/ ReportsEnd(e) \/ e.finished) \in BOOLEAN
        /\ (e.finished => (jobs[j].finished \/ ReportsEnd(e) \/ e.finished))
    OBVIOUS
  <2> DEFINE g == (jobs[j].finished \/ ReportsEnd(e) \/ e.finished)
  <2> HIDE DEF g
  <2>4. g \in BOOLEAN /\ (e.finished => g)
    BY <2>3 DEF g
  <2>5. jobs'[j] = IF ReportsEnd(e) THEN NoState
                   ELSE IF jobs[j] = NoState THEN InformerState(e.finished) ELSE InformerState(g)
    BY <1>3, <1>5, <2>2 DEF g
  <2> QED BY <1>3, <1>5, <2>1, <2>2, <2>4, <2>5
<1>7. ~ReportsEnd(e) => jobs'[j] # NoState /\ jobs'[j].owner = Informer /\ (e.finished => jobs'[j].finished)
  BY <1>6, ListedEntry
<1>8. FlowTypes'
  BY <1>1, <1>2, <1>4, <1>6 DEF FlowTypes, PipelineTypeOK, LimiterInv
<1>9. ASSUME NEW k \in Job, Told(k)', k # j PROVE Told(k)
  <2> SUFFICES ASSUME NEW i \in 1..Len(toLimiter), toLimiter[i].id = k PROVE FALSE
    BY DEF Told
  <2>1. i # 1
    BY <1>2, <1>9 DEF j
  <2>2. i \in 2..Len(toLimiter)
    BY <1>2, <2>1
  <2> QED BY <1>2, <1>9, <2>2 DEF Told
<1>10. LastEventSays'
  <2> SUFFICES ASSUME NEW i \in 1..Len(toLimiter'),
                      \A k \in (i + 1)..Len(toLimiter') : toLimiter'[k].id # toLimiter'[i].id
               PROVE  Says(toLimiter'[i], store'[toLimiter'[i].id])
    BY DEF LastEventSays, Says, ReportsEnd
  <2>1. i + 1 \in 1..Len(toLimiter) /\ toLimiter'[i] = toLimiter[i + 1]
    BY <1>2
  <2>2. ASSUME NEW k \in (i + 2)..Len(toLimiter) PROVE toLimiter[k].id # toLimiter[i + 1].id
    <3>1. k \in 2..Len(toLimiter) /\ k - 1 \in (i + 1)..Len(toLimiter')
      BY <1>2, <2>2
    <3> QED BY <1>2, <2>1, <3>1
  <2>3. \A k \in ((i + 1) + 1)..Len(toLimiter) : toLimiter[k].id # toLimiter[i + 1].id
    BY <2>1, <2>2
  <2>4. Says(toLimiter[i + 1], store[toLimiter[i + 1].id])
    BY <2>1, <2>3 DEF SlotInv, LastEventSays
  <2> QED BY <1>1, <2>1, <2>4
<1>11. ToldAgrees'
  <2> SUFFICES ASSUME NEW k \in Job, Told(k)' PROVE Agrees(jobs'[k], store'[k])
    BY DEF ToldAgrees, Agrees
  <2>1. CASE k # j
    BY <1>1, <1>6, <1>9, <2>1 DEF SlotInv, ToldAgrees
  <2>2. CASE k = j
    <3>1. \A i \in (1 + 1)..Len(toLimiter) : toLimiter[i].id # toLimiter[1].id
      BY <1>2, <2>2 DEF Told, j
    <3>2. 1 \in 1..Len(toLimiter)
      BY <1>2
    <3>3. Says(e, store[j])
      BY <1>2, <3>1, <3>2 DEF SlotInv, LastEventSays, j
    <3> QED BY <1>1, <1>3, <1>5, <1>6, <1>7, <2>2, <3>3 DEF Says, Agrees
  <2> QED BY <2>1, <2>2
<1>12. AttemptBacked'
  <2> SUFFICES ASSUME ~UnseenJobs, NEW k \in Job, NEW v \in Worker,
                      jobs'[k] # NoState, jobs'[k].owner = v,
                      ~Attempting(v, k)', Told(k)'
               PROVE  cluster'[k] # "absent"
    BY DEF AttemptBacked
  <2>1. k # j
    BY <1>6, <1>7, LimiterAssumption
  <2>2. ~Attempting(v, k) /\ Told(k)
    BY <1>1, <1>6, <1>9, <2>1 DEF Attempting
  <2> QED BY <1>1, <1>6, <2>1, <2>2 DEF SlotInv, AttemptBacked
<1>13. MarkInv'
  BY <1>1, <1>6, MarkKept
<1> QED BY <1>8, <1>10, <1>11, <1>12, <1>13 DEF SlotInv

\* The deduper takes an event: a deletion takes the mark with it.
LEMMA DeduperEventInv == ASSUME FlowInv, DeduperEvent PROVE FlowInv'
<1> USE DEF FlowInv
<1> DEFINE e == Head(toDeduper)
<1>1. /\ toDeduper # <<>> /\ toDeduper' = Tail(toDeduper)
      /\ marked' = IF e.kind = "delete" THEN marked \ {e.id} ELSE marked
      /\ UNCHANGED <<limiterVars, bk, cluster, watching, store, toLimiter, stage, faults>>
  BY DEF DeduperEvent, DeduperAfter
<1>2. /\ toDeduper' \in Seq(Event) /\ Len(toDeduper) \in Nat \ {0}
      /\ e = toDeduper[1]
      /\ \A i \in 2..Len(toDeduper) : i - 1 \in 1..Len(toDeduper') /\ toDeduper'[i - 1] = toDeduper[i]
  <2>1. toDeduper \in Seq(Event)
    BY DEF FlowTypes, PipelineTypeOK
  <2> QED BY <1>1, <2>1, TailEvent
<1> HIDE DEF e
<1>3. UNCHANGED <<jobs, pc, work>>
  BY <1>1 DEF limiterVars
<1>4. FlowTypes'
  <2>1. LimiterInv'
    BY <1>1, StutterInv DEF FlowTypes
  <2>2. marked' \subseteq Job
    BY <1>1 DEF FlowTypes, PipelineTypeOK
  <2> QED BY <1>1, <1>2, <1>3, <2>1, <2>2 DEF FlowTypes, PipelineTypeOK, LimiterInv
<1>5. SlotInv'
  <2>1. \A v \in Worker, k \in Job : Attempting(v, k) => Attempting(v, k)'
    BY <1>1, <1>3 DEF Attempting
  <2> QED BY <1>1, <1>3, <2>1, SlotKept
<1>6. ASSUME NEW k \in marked', Unmarking(k) PROVE Unmarking(k)'
  <2>1. PICK i \in 1..Len(toDeduper) : toDeduper[i].id = k /\ toDeduper[i].kind = "delete"
    BY <1>6 DEF Unmarking
  <2>2. i # 1
    BY <1>1, <1>2, <1>6, <2>1
  <2>3. i \in 2..Len(toDeduper)
    BY <1>2, <2>1, <2>2
  <2> QED BY <1>2, <2>1, <2>3 DEF Unmarking
<1>7. marked' \subseteq marked
  BY <1>1
<1>8. MarkInv'
  BY <1>1, <1>3, <1>6, <1>7 DEF MarkInv
<1> QED BY <1>4, <1>5, <1>8

-----------------------------------------------------------------------------
(* The start of the controller. *)

\* The limiter starts with the Jobs of the initial list.
LEMMA ListedFacts ==
    ASSUME NEW c \in [Job -> {"absent", "running", "finished"}]
    PROVE  /\ InitiallyListed(c) \in Inherited
           /\ OccupiedIn(InitiallyListed(c)) = {j \in Job : c[j] = "running"}
           /\ \A j \in Job : /\ Agrees(InitiallyListed(c)[j], c[j])
                             /\ InitiallyListed(c)[j] # NoState
                                   => InitiallyListed(c)[j].owner = Informer
<1>1. \A f \in BOOLEAN : /\ InformerState(f) # NoState
                         /\ InformerState(f).owner = Informer /\ InformerState(f).finished = f
  BY ListedEntry
<1>2. ASSUME NEW j \in Job
      PROVE  /\ c[j] = "absent" => InitiallyListed(c)[j] = NoState
             /\ c[j] = "running" => InitiallyListed(c)[j] = InformerState(FALSE)
             /\ c[j] = "finished" => InitiallyListed(c)[j] = InformerState(TRUE)
  <2>1. InitiallyListed(c)[j] = IF c[j] = "absent" THEN NoState ELSE InformerState(c[j] = "finished")
    BY DEF InitiallyListed
  <2> QED BY <2>1
<1>3. InitiallyListed(c) \in Inherited
  <2>1. \A j \in Job : InitiallyListed(c)[j] \in {NoState} \cup {InformerState(f) : f \in BOOLEAN}
    BY <1>2
  <2> QED BY <2>1 DEF InitiallyListed, Inherited
<1>4. \A j \in Job : Occupies(InitiallyListed(c)[j]) <=> c[j] = "running"
  BY <1>1, <1>2 DEF Occupies
<1>5. \A j \in Job : Agrees(InitiallyListed(c)[j], c[j])
  BY <1>1, <1>2 DEF Agrees
<1>6. \A j \in Job : InitiallyListed(c)[j] # NoState => InitiallyListed(c)[j].owner = Informer
  BY <1>1, <1>2
<1> QED BY <1>3, <1>4, <1>5, <1>6 DEF OccupiedIn

\* The controller has just started: the queues are empty, and the cache, the
\* entries and the marks are those of the initial list.
Started ==
    /\ bk \in [Job -> {"scheduled", "reserved", "taken"}] /\ faults \subseteq FaultKind
    /\ cluster \in [Job -> {"absent", "running", "finished"}]
    /\ InitWith(InitiallyListed(cluster))
    /\ watching = TRUE /\ store = cluster
    /\ toLimiter = <<>> /\ toDeduper = <<>>
    /\ marked = {j \in Job : cluster[j] # "absent"}
    /\ stage = [w \in Worker |-> "none"]

\* The invariant holds then; nothing of an earlier run of the controller is needed.
LEMMA StartInv == Started => FlowInv
<1> SUFFICES ASSUME Started PROVE FlowInv
  OBVIOUS
<1> USE DEF Started
<1>1. pc = [w \in Worker |-> "top"] /\ jobs = InitiallyListed(cluster)
  BY DEF InitWith
<1>2. /\ InitiallyListed(cluster) \in Inherited
      /\ \A j \in Job : /\ Agrees(InitiallyListed(cluster)[j], cluster[j])
                        /\ InitiallyListed(cluster)[j] # NoState
                              => InitiallyListed(cluster)[j].owner = Informer
  BY ListedFacts
<1>3. LimiterInv
  BY <1>2, InitInv DEF Init
<1>4. toLimiter \in Seq(Event) /\ toDeduper \in Seq(Event) /\ Len(toLimiter) = 0
  OBVIOUS
<1>5. FlowTypes
  BY <1>1, <1>3, <1>4 DEF FlowTypes, PipelineTypeOK, LimiterInv
<1>6. SlotInv
  <2>1. LastEventSays
    BY <1>4 DEF LastEventSays
  <2>2. \A j \in Job : Agrees(jobs[j], store[j]) /\ (jobs[j] # NoState => jobs[j].owner = Informer)
    BY <1>1, <1>2
  <2> QED BY <2>1, <2>2, LimiterAssumption DEF SlotInv, ToldAgrees, AttemptBacked
<1>7. MarkInv
  BY DEF MarkInv
<1> QED BY <1>5, <1>6, <1>7 DEF FlowInv

\* A restart puts the controller there, whatever the faults before it left behind.
LEMMA RestartStarts == ASSUME FlowInv, Restart PROVE Started'
<1>1. /\ cluster \in [Job -> {"absent", "running", "finished"}]
      /\ bk \in [Job -> {"scheduled", "reserved", "taken"}] /\ faults \subseteq FaultKind
  BY DEF FlowInv, FlowTypes, PipelineTypeOK
<1>2. UNCHANGED <<bk, cluster>> /\ faults' \subseteq FaultKind
  BY <1>1 DEF Restart, Happens, FaultKind
<1>3. OccupiedIn(InitiallyListed(cluster)) = {j \in Job : cluster[j] = "running"}
  BY <1>1, ListedFacts
<1>4. InitiallyListed(cluster') = InitiallyListed(cluster)
  BY <1>2
<1>5. InitWith(InitiallyListed(cluster))'
  BY <1>3, <1>4 DEF Restart, InitWith
<1> QED BY <1>1, <1>2, <1>5 DEF Started, Restart

LEMMA RestartInv == ASSUME FlowInv, Restart PROVE FlowInv'
<1>1. Started'
  BY RestartStarts
<1> QED BY <1>1, StartInv, PTL

-----------------------------------------------------------------------------
(* The theorems. *)

\* The inductive invariant holds in every reachable state of the closed flow,
\* whichever faults happen.
THEOREM FlowInvariant == PipelineSpec => []FlowInv
<1>1. PipelineInit => FlowInv
  <2> SUFFICES ASSUME PipelineInit PROVE FlowInv
    OBVIOUS
  <2>1. Started
    BY DEF PipelineInit, Started
  <2> QED BY <2>1, StartInv
<1>2. FlowInv /\ [PipelineNext]_vars => FlowInv'
  <2> SUFFICES ASSUME FlowInv, [PipelineNext]_vars PROVE FlowInv'
    OBVIOUS
  <2>1. CASE Poll
    BY <2>1, PollInv
  <2>2. ASSUME NEW w \in Worker, IdleStep(w) \/ Dispatch(w) PROVE FlowInv'
    BY <2>2, IdleStepInv, DispatchInv
  <2>3. ASSUME NEW w \in Worker, HandleStep(w) PROVE FlowInv'
    BY <2>3, ReserveInv, DedupInv, CreateInv, NotCreatedInv, ReturnInv DEF HandleStep
  <2>4. CASE LimiterEvent
    BY <2>4, LimiterEventInv
  <2>5. CASE DeduperEvent
    BY <2>5, DeduperEventInv
  <2>6. CASE EnvStep
    BY <2>6, JobEndsInv, BuildkiteInv, WatchBreaksInv, RelistInv DEF EnvStep
  <2>7. CASE Restart
    BY <2>7, RestartInv
  <2>8. CASE UNCHANGED vars
    <3>1. UNCHANGED limiterVars /\ UNCHANGED <<jobs, pc, work>> /\ UNCHANGED <<envVars, marked, stage, faults>>
      BY <2>8 DEF vars, pipeVars, limiterVars
    <3>2. UNCHANGED <<bk, cluster, watching, store, toLimiter, toDeduper>>
      BY <3>1 DEF envVars
    <3>3. LimiterInv'
      BY <3>1, StutterInv DEF FlowInv, FlowTypes
    <3>4. FlowTypes'
      BY <3>1, <3>2, <3>3 DEF FlowInv, FlowTypes, PipelineTypeOK, LimiterInv
    <3>5. \A v \in Worker, k \in Job : Attempting(v, k) => Attempting(v, k)'
      BY <3>1 DEF Attempting
    <3>6. SlotInv'
      BY <3>1, <3>2, <3>5, SlotKept DEF FlowInv
    <3>7. MarkInv'
      BY <3>1, <3>2, MarkKept DEF FlowInv
    <3> QED BY <3>4, <3>6, <3>7 DEF FlowInv
  <2> QED BY <2>1, <2>2, <2>3, <2>4, <2>5, <2>6, <2>7, <2>8 DEF PipelineNext
<1> QED BY <1>1, <1>2, PTL DEF PipelineSpec

\* For every instance and every combination of faults, as long as no Job comes and
\* goes while the watch is broken, no slot of the limiter is lost: it belongs to a
\* dispatch under way, to a running Job, or to a change that is still on its way to
\* the limiter.
THEOREM NoSlotLeakHolds == ASSUME ~UnseenJobs PROVE PipelineSpec => []NoSlotLeak
<1>1. FlowInv => NoSlotLeak
  <2> SUFFICES ASSUME FlowInv, NEW j \in Occupying,
                      \A w \in Worker : ~(pc[w] = "handle" /\ work[w] = j),
                      store[j] = cluster[j],
                      \A i \in 1..Len(toLimiter) : toLimiter[i].id # j
               PROVE  cluster[j] = "running"
    BY DEF NoSlotLeak
  <2>1. j \in Job /\ jobs[j] # NoState /\ ~jobs[j].finished
    BY DEF Occupying, OccupiedIn, Occupies
  <2>2. jobs[j] \in JobState /\ cluster[j] \in {"absent", "running", "finished"}
    BY <2>1 DEF FlowInv, FlowTypes, PipelineTypeOK, LimiterInv, TypeOK
  <2>3. Told(j) /\ Agrees(jobs[j], store[j])
    BY <2>1 DEF Told, FlowInv, SlotInv, ToldAgrees
  <2>4. CASE jobs[j].owner \in Worker
    <3>1. ~Attempting(jobs[j].owner, j)
      BY <2>4 DEF Attempting
    <3>2. cluster[j] # "absent"
      BY <2>1, <2>3, <2>4, <3>1 DEF FlowInv, SlotInv, AttemptBacked
    <3> QED BY <2>3, <2>4, <3>2, LimiterAssumption DEF Agrees
  <2>5. CASE jobs[j].owner = Informer
    BY <2>1, <2>2, <2>3, <2>5, LimiterAssumption DEF Agrees
  <2> QED BY <2>2, <2>4, <2>5 DEF JobState
<1> QED BY <1>1, FlowInvariant, PTL

\* For every instance, as long as the watch has not broken, a UUID the deduper
\* refuses is being created, exists, or is about to be unmarked.
THEOREM MarkBackedHolds == PipelineSpec => []MarkBacked
<1>1. FlowInv => MarkBacked
  <2> SUFFICES ASSUME FlowInv, "watchGap" \notin faults, NEW j \in marked
               PROVE  \/ \E w \in Worker : work[w] = j /\ stage[w] \in {"create", "created", "failed"}
                      \/ cluster[j] # "absent"
                      \/ Unmarking(j)
    BY DEF MarkBacked, Unmarking
  <2> QED BY DEF FlowInv, MarkInv
<1> QED BY <1>1, FlowInvariant, PTL

\* For every instance, the closed flow keeps the limiter's slot accounting, wakeups
\* and queue: what is proved of the limiter alone also holds between the real
\* handlers, across a restart.
THEOREM LimiterKept == PipelineSpec => [](SlotAccounting /\ NoLostWakeup /\ QueueOrdered)
<1>1. FlowInv => SlotAccounting /\ NoLostWakeup /\ QueueOrdered
  BY DEF FlowInv, FlowTypes, LimiterInv
<1> QED BY <1>1, FlowInvariant, PTL

-----------------------------------------------------------------------------
(* The limit on running Jobs.  A UUID lives one Job at a time: no Job of it *)
(* exists, and no event about it is under way, when a slot is taken for it; *)
(* so a running Job has its slot.  The one exception is the UUID of a Job   *)
(* whose creation was reported as an error.                                 *)

\* Until it creates the Job, and when it returns without one.
BeforeCreate == {"reserve", "dedup", "create"}
WithoutJob == BeforeCreate \cup {"failed", "return"}

\* Nothing of j is in the cluster, in the cache or on its way to the limiter.
Unborn(j) == cluster[j] = "absent" /\ store[j] = "absent" /\ Told(j)

\* The events about j that are queued in q belong to the Job the cluster has, in
\* state c, or had, if the end of it is the last of them; s is the cache's state.
QueueFits(q, j, c, s) ==
    \A i \in 1..Len(q) : q[i].id = j =>
        /\ c = "running" => ~q[i].finished
        /\ ReportsEnd(q[i]) => /\ c = "absent" /\ s = "absent"
                               /\ \A k \in (i + 1)..Len(q) : q[k].id # j

OneLife(j) ==
    /\ jobs[j] = NoState => Unborn(j)
    /\ \A w \in Worker : work[w] = j /\ stage[w] \in WithoutJob
          => Unborn(j) /\ jobs[j] # NoState /\ jobs[j].owner = w
    /\ cluster[j] = "running" => Occupies(jobs[j])
    /\ QueueFits(toLimiter, j, cluster[j], store[j])

\* While a worker may go on to create a Job, the other slots stay within the limit.
Within(a) ==
    MaxInFlight > 0 /\ (\E w \in Worker : stage[w] \in BeforeCreate)
        => Cardinality(Occupying \ {a}) <= MaxInFlight

\* a is the UUID of the ambiguous create, NoJob as long as there was none.
LimitFor(a) ==
    /\ a # NoJob => "ambiguousCreate" \in faults
    /\ \A j \in Job \ {a} : OneLife(j)
    /\ Within(a)

LimitInv == \E a \in Job \cup {NoJob} : LimitFor(a)

\* Events about other UUIDs make no difference.
LEMMA FitsOther ==
    ASSUME NEW q \in Seq(Event), NEW e \in Event, NEW j \in Job, e.id # j, NEW c, NEW s,
           QueueFits(q, j, c, s), NEW r, r = Append(q, e)
    PROVE  QueueFits(r, j, c, s)
<1>1. /\ Len(q) \in Nat /\ Len(r) = Len(q) + 1 /\ r[Len(r)] = e
      /\ \A i \in 1..Len(q) : i \in 1..Len(r) /\ r[i] = q[i]
      /\ \A i \in 1..Len(r) : i = Len(r) \/ i \in 1..Len(q)
  BY AppendEvent
<1> SUFFICES ASSUME NEW i \in 1..Len(r), r[i].id = j
             PROVE  /\ c = "running" => ~r[i].finished
                    /\ ReportsEnd(r[i]) => /\ c = "absent" /\ s = "absent"
                                           /\ \A k \in (i + 1)..Len(r) : r[k].id # j
  BY DEF QueueFits
<1>2. i \in 1..Len(q) /\ r[i] = q[i]
  BY <1>1
<1>3. ASSUME ReportsEnd(q[i]), NEW k \in (i + 1)..Len(r) PROVE r[k].id # j
  <2>1. CASE k = Len(r)
    BY <1>1, <2>1
  <2>2. CASE k # Len(r)
    <3>1. k \in (i + 1)..Len(q) /\ r[k] = q[k]
      BY <1>1, <1>2, <2>2
    <3> QED BY <1>2, <1>3, <3>1 DEF QueueFits
  <2> QED BY <2>1, <2>2
<1> QED BY <1>2, <1>3 DEF QueueFits

\* An event about j itself, when no end of a Job of j is queued.
LEMMA FitsOwn ==
    ASSUME NEW q \in Seq(Event), NEW e \in Event, NEW j \in Job, e.id = j, NEW c, NEW s,
           \A i \in 1..Len(q) : q[i].id = j =>
               ~ReportsEnd(q[i]) /\ (c = "running" => ~q[i].finished),
           Says(e, c), c = "absent" => s = "absent", NEW r, r = Append(q, e)
    PROVE  QueueFits(r, j, c, s)
<1>1. /\ Len(q) \in Nat /\ Len(r) = Len(q) + 1 /\ r[Len(r)] = e
      /\ \A i \in 1..Len(q) : i \in 1..Len(r) /\ r[i] = q[i]
      /\ \A i \in 1..Len(r) : i = Len(r) \/ i \in 1..Len(q)
  BY AppendEvent
<1> SUFFICES ASSUME NEW i \in 1..Len(r), r[i].id = j
             PROVE  /\ c = "running" => ~r[i].finished
                    /\ ReportsEnd(r[i]) => /\ c = "absent" /\ s = "absent"
                                           /\ \A k \in (i + 1)..Len(r) : r[k].id # j
  BY DEF QueueFits
<1>2. CASE i \in 1..Len(q)
  BY <1>1, <1>2
<1>3. CASE i = Len(r)
  <2>1. (i + 1)..Len(r) = {}
    BY <1>1, <1>3
  <2> QED BY <1>1, <1>3, <2>1 DEF Says
<1> QED BY <1>1, <1>2, <1>3

\* Taking an event away; the end of a Job is the last event about it.
LEMMA FitsTail ==
    ASSUME NEW q \in Seq(Event), q # <<>>, NEW j \in Job, NEW c, NEW s,
           QueueFits(q, j, c, s), NEW r, r = Tail(q)
    PROVE  /\ QueueFits(r, j, c, s)
           /\ Head(q).id = j /\ ReportsEnd(Head(q)) =>
                 c = "absent" /\ s = "absent" /\ \A i \in 1..Len(r) : r[i].id # j
<1>1. /\ Len(q) \in Nat \ {0} /\ Len(r) = Len(q) - 1
      /\ Head(q) = q[1]
      /\ \A i \in 1..Len(r) : i + 1 \in 1..Len(q) /\ r[i] = q[i + 1]
  BY TailEvent
<1>2. QueueFits(r, j, c, s)
  <2> SUFFICES ASSUME NEW i \in 1..Len(r), r[i].id = j
               PROVE  /\ c = "running" => ~r[i].finished
                      /\ ReportsEnd(r[i]) => /\ c = "absent" /\ s = "absent"
                                             /\ \A k \in (i + 1)..Len(r) : r[k].id # j
    BY DEF QueueFits
  <2>1. i + 1 \in 1..Len(q) /\ r[i] = q[i + 1]
    BY <1>1
  <2>2. ASSUME ReportsEnd(r[i]), NEW k \in (i + 1)..Len(r) PROVE r[k].id # j
    <3>1. k + 1 \in ((i + 1) + 1)..Len(q) /\ r[k] = q[k + 1]
      BY <1>1, <2>1
    <3> QED BY <2>1, <2>2, <3>1 DEF QueueFits
  <2> QED BY <2>1, <2>2 DEF QueueFits
<1>3. ASSUME Head(q).id = j, ReportsEnd(Head(q))
      PROVE  c = "absent" /\ s = "absent" /\ \A i \in 1..Len(r) : r[i].id # j
  <2>1. 1 \in 1..Len(q)
    BY <1>1
  <2>2. c = "absent" /\ s = "absent" /\ \A k \in (1 + 1)..Len(q) : q[k].id # j
    BY <1>1, <1>3, <2>1 DEF QueueFits
  <2>3. \A i \in 1..Len(r) : i + 1 \in (1 + 1)..Len(q)
    BY <1>1
  <2> QED BY <1>1, <2>2, <2>3
<1> QED BY <1>2, <1>3

\* The workers without a Job had none before, and hold the same UUID.
SameWorkers ==
    \A w \in Worker :
        /\ stage'[w] \in WithoutJob => stage[w] \in WithoutJob /\ work'[w] = work[w]
        /\ stage'[w] \in BeforeCreate => stage[w] \in BeforeCreate

LEMMA LifeKept ==
    ASSUME NEW j \in Job, OneLife(j), SameWorkers,
           jobs'[j] = jobs[j], UNCHANGED <<cluster, store, toLimiter>>
    PROVE  OneLife(j)'
<1>1. Unborn(j)' <=> Unborn(j)
  BY DEF Unborn, Told
<1>2. QueueFits(toLimiter', j, cluster'[j], store'[j])
  BY DEF OneLife
<1>3. \A w \in Worker : work'[w] = j /\ stage'[w] \in WithoutJob
         => Unborn(j)' /\ jobs'[j] # NoState /\ jobs'[j].owner = w
  BY <1>1 DEF OneLife, SameWorkers
<1>4. cluster'[j] = "running" => Occupies(jobs'[j])
  BY DEF OneLife
<1> QED BY <1>1, <1>2, <1>3, <1>4 DEF OneLife, Occupies, QueueFits, ReportsEnd

\* The slots besides a's can only have become fewer.
LEMMA WithinKept ==
    ASSUME NEW a, NEW b, Within(a), SameWorkers, Occupying' \ {b} \subseteq Occupying \ {a}
    PROVE  Within(b)'
<1>1. IsFiniteSet(Occupying \ {a})
  <2>1. Occupying \ {a} \subseteq Job
    BY DEF Occupying, OccupiedIn
  <2> QED BY <2>1, LimiterAssumption, FS_Subset
<1>2. /\ Cardinality(Occupying' \ {b}) <= Cardinality(Occupying \ {a})
      /\ Cardinality(Occupying' \ {b}) \in Nat /\ Cardinality(Occupying \ {a}) \in Nat
  <2>1. IsFiniteSet(Occupying' \ {b})
    BY <1>1, FS_Subset
  <2> QED BY <1>1, <2>1, FS_Subset, FS_CardinalityType
<1>3. (\E w \in Worker : stage'[w] \in BeforeCreate) => \E w \in Worker : stage[w] \in BeforeCreate
  BY DEF SameWorkers
<1> QED BY <1>2, <1>3, LimiterAssumption DEF Within

\* A step that touches no slot, no Job and no event to the limiter.
LEMMA LimitKept ==
    ASSUME NEW a \in Job \cup {NoJob}, LimitFor(a), SameWorkers, faults \subseteq faults',
           UNCHANGED <<jobs, cluster, store, toLimiter>>
    PROVE  LimitFor(a)'
<1>1. \A j \in Job \ {a} : OneLife(j)'
  BY LifeKept DEF LimitFor
<1>2. Within(a)'
  <2>1. Occupying' = Occupying
    BY DEF Occupying, OccupiedIn, Occupies
  <2> QED BY <2>1, WithinKept DEF LimitFor
<1> QED BY <1>1, <1>2 DEF LimitFor

LEMMA QuietSteps ==
    ASSUME FlowInv, NEW a \in Job \cup {NoJob}, LimitFor(a),
           \/ Poll \/ \E w \in Worker : IdleStep(w)
           \/ \E j \in Job : AgentAcquires(j) \/ ReservationExpires(j)
           \/ WatchBreaks \/ DeduperEvent \/ UNCHANGED vars
    PROVE  LimitFor(a)'
<1> DEFINE Untouched == UNCHANGED <<jobs, work, cluster, store, toLimiter, stage>> /\ faults \subseteq faults'
<1>1. Untouched
  <2>1. CASE Poll
    BY <2>1 DEF Poll, HandleManyStep, pipeVars, envVars
  <2>2. ASSUME NEW w \in Worker, IdleStep(w) PROVE Untouched
    BY <2>2 DEF IdleStep, WorkerLook, WorkerWake, WorkerCheck, pipeVars, envVars
  <2>3. ASSUME NEW j \in Job, AgentAcquires(j) \/ ReservationExpires(j) PROVE Untouched
    BY <2>3 DEF AgentAcquires, ReservationExpires, limiterVars
  <2>4. CASE WatchBreaks \/ DeduperEvent
    BY <2>4 DEF WatchBreaks, Happens, DeduperEvent, limiterVars
  <2>5. CASE UNCHANGED vars
    BY <2>5 DEF vars, limiterVars, pipeVars, envVars
  <2> QED BY <2>1, <2>2, <2>3, <2>4, <2>5
<1>2. SameWorkers
  BY <1>1 DEF SameWorkers
<1> QED BY <1>1, <1>2, LimitKept

\* The stages at which a worker neither creates a Job nor gives back its slot.
LEMMA StageSteps ==
    ASSUME FlowInv, NEW a \in Job \cup {NoJob}, LimitFor(a), NEW w \in Worker,
           \/ Reserve(w) \/ NotReserved(w) \/ Mark(w) \/ Unmark(w)
           \/ CreateDuplicate(w) \/ CreateFails(w) \/ Succeed(w)
    PROVE  LimitFor(a)'
<1>1. stage \in [Worker -> {"none", "reserve", "dedup", "create", "created", "failed", "return"}]
      /\ work \in [Worker -> Job \cup {NoJob}]
  BY DEF FlowInv, FlowTypes, PipelineTypeOK, LimiterInv, TypeOK
<1>2. CASE Succeed(w)
  <2>1. UNCHANGED <<jobs, cluster, store, toLimiter, faults>>
        /\ work' = [work EXCEPT ![w] = NoJob] /\ stage' = [stage EXCEPT ![w] = "none"]
    BY <1>2 DEF Succeed, HandlerSucceeds, envVars
  <2>2. SameWorkers
    BY <1>1, <2>1 DEF SameWorkers, WithoutJob, BeforeCreate
  <2> QED BY <2>1, <2>2, LimitKept
<1>3. CASE ~Succeed(w)
  <2>1. UNCHANGED limiterVars /\ UNCHANGED <<cluster, store, toLimiter, faults>>
    BY <1>3 DEF Reserve, NotReserved, Mark, Unmark, CreateDuplicate, CreateFails, envVars
  <2>2. UNCHANGED <<jobs, work>>
    BY <2>1 DEF limiterVars
  <2>3. PICK s \in {"dedup", "create", "failed", "return"} :
           /\ stage' = [stage EXCEPT ![w] = s]
           /\ stage[w] \in WithoutJob
           /\ s \in BeforeCreate => stage[w] \in BeforeCreate
    BY <1>3 DEF Reserve, NotReserved, Mark, Unmark, CreateDuplicate, CreateFails, WithoutJob, BeforeCreate
  <2>4. SameWorkers
    BY <1>1, <2>2, <2>3 DEF SameWorkers, WithoutJob, BeforeCreate
  <2> QED BY <2>1, <2>2, <2>4, LimitKept
<1> QED BY <1>2, <1>3

\* A slot is taken below the limit, and for a UUID of which nothing is left.
LEMMA DispatchLimit ==
    ASSUME FlowInv, NEW a \in Job \cup {NoJob}, LimitFor(a), NEW w \in Worker, Dispatch(w)
    PROVE  LimitFor(a)'
<1>1. /\ UNCHANGED <<cluster, store, toLimiter, faults>>
      /\ stage' = [stage EXCEPT ![w] = IF pc'[w] = "handle" THEN "reserve" ELSE "none"]
  BY DEF Dispatch, envVars
<1>2. /\ queue \in Seq(QueuedJob)
      /\ jobs \in [Job -> JobState \cup {NoState}]
      /\ pc \in [Worker -> {"top", "wait", "check", "dequeue", "handle", "done"}]
      /\ work \in [Worker -> Job \cup {NoJob}]
      /\ stage \in [Worker -> {"none", "reserve", "dedup", "create", "created", "failed", "return"}]
      /\ inFlight \in Nat /\ inFlight = Cardinality(Occupying)
  BY DEF FlowInv, FlowTypes, PipelineTypeOK, LimiterInv, TypeOK, SlotAccounting
<1>3. CASE ~TakeJob(w)
  <2>1. UNCHANGED <<jobs, work>> /\ pc' = [pc EXCEPT ![w] = "top"]
    BY <1>3 DEF Dispatch, tryDequeueWork
  <2>2. stage' = [stage EXCEPT ![w] = "none"]
    BY <1>1, <1>2, <2>1
  <2>3. SameWorkers
    BY <1>2, <2>1, <2>2 DEF SameWorkers, WithoutJob, BeforeCreate
  <2> QED BY <1>1, <2>1, <2>3, LimitKept
<1>4. CASE TakeJob(w)
  <2>1. PICK i \in Fresh :
           /\ jobs' = [jobs EXCEPT ![queue[i].id] = [owner |-> w, finished |-> FALSE]]
           /\ inFlight' = inFlight + 1
           /\ work' = [work EXCEPT ![w] = queue[i].id]
           /\ pc' = [pc EXCEPT ![w] = "handle"]
    BY <1>4 DEF TakeJob
  <2> DEFINE j == queue[i].id
  <2>2. j \in Job /\ jobs[j] = NoState
    <3>1. i \in 1..Len(queue) /\ jobs[j] = NoState
      BY DEF Fresh
    <3>2. queue[i] \in QueuedJob
      BY <1>2, <3>1
    <3> QED BY <3>1, <3>2 DEF QueuedJob
  <2> HIDE DEF j
  <2>3. /\ jobs'[j] = [owner |-> w, finished |-> FALSE] /\ jobs'[j] # NoState
        /\ \A k \in Job : k # j => jobs'[k] = jobs[k]
        /\ work'[w] = j /\ stage'[w] = "reserve"
        /\ \A v \in Worker : v # w => work'[v] = work[v] /\ stage'[v] = stage[v]
    <3>1. [owner |-> w, finished |-> FALSE] \in JobState
      BY DEF JobState
    <3> QED BY <1>1, <1>2, <2>1, <2>2, <3>1, NoStateAssumption DEF j
  <2>4. Within(a)'
    <3> SUFFICES ASSUME MaxInFlight > 0 PROVE Cardinality(Occupying' \ {a}) <= MaxInFlight
      BY DEF Within
    <3>1. MayDequeue
      BY <1>4, <2>1, <2>3, <1>2 DEF Dispatch, tryDequeueWork
    <3>2. inFlight < MaxInFlight
      BY <1>2, <3>1, LimiterAssumption DEF MayDequeue, AtCapacity
    <3>3. inFlight' = Cardinality(Occupying')
      <4>1. LimiterInv'
        BY DequeueInv DEF Dispatch, FlowInv, FlowTypes
      <4> QED BY <4>1 DEF LimiterInv, SlotAccounting
    <3>4. Cardinality(Occupying' \ {a}) <= Cardinality(Occupying')
          /\ Cardinality(Occupying' \ {a}) \in Nat
      <4>1. Occupying' \subseteq Job
        BY DEF Occupying, OccupiedIn
      <4>2. IsFiniteSet(Occupying')
        BY <4>1, LimiterAssumption, FS_Subset
      <4>3. Occupying' \ {a} \subseteq Occupying'
        OBVIOUS
      <4> QED BY <4>2, <4>3, FS_Subset, FS_CardinalityType
    <3> QED BY <1>2, <2>1, <3>2, <3>3, <3>4, LimiterAssumption
  <2>5. ASSUME NEW k \in Job \ {a} PROVE OneLife(k)'
    <3>1. OneLife(k)
      BY DEF LimitFor
    <3>2. Unborn(k)' <=> Unborn(k)
      BY <1>1 DEF Unborn, Told
    <3>3. QueueFits(toLimiter', k, cluster'[k], store'[k])
      BY <1>1, <3>1 DEF OneLife
    <3>4. CASE k # j
      <4>1. \A v \in Worker : work'[v] = k => work[v] = k /\ stage'[v] = stage[v]
        BY <2>3, <3>4
      <4> QED BY <1>1, <2>3, <3>1, <3>2, <3>3, <3>4, <4>1 DEF OneLife, Occupies, QueueFits, ReportsEnd
    <3>5. CASE k = j
      <4>1. Unborn(j)
        BY <2>2, <3>1, <3>5 DEF OneLife
      <4>2. ASSUME NEW v \in Worker, work'[v] = j, stage'[v] \in WithoutJob PROVE v = w
        BY <2>2, <2>3, <3>1, <3>5, <4>2 DEF OneLife
      <4>3. cluster'[j] # "running"
        BY <1>1, <4>1 DEF Unborn
      <4>4. jobs'[j].owner = w
        BY <2>3
      <4> QED BY <2>3, <3>2, <3>3, <3>5, <4>1, <4>2, <4>3, <4>4 DEF OneLife, QueueFits, ReportsEnd
    <3> QED BY <3>4, <3>5
  <2> QED BY <1>1, <2>4, <2>5 DEF LimitFor
<1> QED BY <1>3, <1>4

\* A slot is given back by a worker that has no Job to show for it.
LEMMA FailLimit ==
    ASSUME FlowInv, NEW a \in Job \cup {NoJob}, LimitFor(a), NEW w \in Worker, Fail(w)
    PROVE  LimitFor(a)'
<1> DEFINE j == work[w]
<1>1. /\ jobs \in [Job -> JobState \cup {NoState}]
      /\ work \in [Worker -> Job \cup {NoJob}]
      /\ stage \in [Worker -> {"none", "reserve", "dedup", "create", "created", "failed", "return"}]
  BY DEF FlowInv, FlowTypes, PipelineTypeOK, LimiterInv, TypeOK
<1>2. /\ UNCHANGED <<cluster, store, toLimiter, faults>> /\ stage[w] = "return"
      /\ stage' = [stage EXCEPT ![w] = "none"] /\ work' = [work EXCEPT ![w] = NoJob]
      /\ pc[w] = "handle"
      /\ HoldsState(w, j) => jobs' = [jobs EXCEPT ![j] = NoState]
      /\ ~HoldsState(w, j) => jobs' = jobs
  BY DEF Fail, HandlerFails, envVars
<1>3. j \in Job
  BY <1>2 DEF FlowInv, FlowTypes, LimiterInv, WorkAssigned
<1> HIDE DEF j
<1>4. /\ \A k \in Job : k # j => jobs'[k] = jobs[k]
      /\ jobs'[j] = jobs[j] \/ jobs'[j] = NoState
  BY <1>1, <1>2, <1>3
<1>5. SameWorkers
  BY <1>1, <1>2 DEF SameWorkers, WithoutJob, BeforeCreate
<1>6. Within(a)'
  <2>1. Occupying' \subseteq Occupying
    BY <1>4 DEF Occupying, OccupiedIn, Occupies
  <2> QED BY <1>5, <2>1, WithinKept DEF LimitFor
<1>7. ASSUME NEW k \in Job \ {a} PROVE OneLife(k)'
  <2>1. OneLife(k)
    BY DEF LimitFor
  <2>2. CASE jobs'[k] = jobs[k]
    BY <1>2, <1>5, <2>1, <2>2, LifeKept
  <2>3. CASE k = j /\ jobs'[j] = NoState
    <3>1. Unborn(k)
      BY <1>2, <2>1, <2>3 DEF OneLife, WithoutJob, j
    <3>2. Unborn(k)'
      BY <1>2, <3>1 DEF Unborn, Told
    <3>3. QueueFits(toLimiter', k, cluster'[k], store'[k])
      BY <1>2, <2>1, <2>3 DEF OneLife
    <3>4. ASSUME NEW v \in Worker, work'[v] = k, stage'[v] \in WithoutJob PROVE FALSE
      \* Two workers cannot both hold the slot.
      <4>1. stage[v] \in WithoutJob /\ work[v] = k /\ v # w
        BY <1>1, <1>2, <1>5, <3>4 DEF SameWorkers, WithoutJob, BeforeCreate
      <4>2. jobs[k].owner = v /\ jobs[k].owner = w
        BY <1>2, <2>1, <2>3, <4>1 DEF OneLife, WithoutJob, j
      <4> QED BY <4>1, <4>2
    <3>5. cluster'[k] # "running"
      BY <3>2 DEF Unborn
    <3> QED BY <2>3, <3>2, <3>3, <3>4, <3>5 DEF OneLife, QueueFits, ReportsEnd
  <2> QED BY <1>4, <2>2, <2>3
<1> QED BY <1>2, <1>6, <1>7 DEF LimitFor

\* The limiter takes an event.  Only about the Job of the ambiguous create can it be
\* news to the limiter.
LEMMA LimiterEventLimit ==
    ASSUME FlowInv, NEW a \in Job \cup {NoJob}, LimitFor(a), LimiterEvent
    PROVE  LimitFor(a)'
<1>1. PICK e, j : e = Head(toLimiter) /\ j = e.id
  OBVIOUS
<1>2. /\ toLimiter # <<>> /\ toLimiter' = Tail(toLimiter)
      /\ observeJob(j, e.finished, ReportsEnd(e))
      /\ UNCHANGED <<cluster, store, stage, faults>>
  BY <1>1 DEF LimiterEvent
<1>3. jobs \in [Job -> JobState \cup {NoState}] /\ toLimiter \in Seq(Event)
  BY DEF FlowInv, FlowTypes, PipelineTypeOK, LimiterInv, TypeOK
<1>4. /\ Len(toLimiter) \in Nat \ {0} /\ e = toLimiter[1] /\ e \in Event
      /\ \A i \in 1..Len(toLimiter') : i + 1 \in 1..Len(toLimiter) /\ toLimiter'[i] = toLimiter[i + 1]
  BY <1>1, <1>2, <1>3, TailEvent
<1>5. j \in Job /\ e.finished \in BOOLEAN
  BY <1>1, <1>4 DEF Event
<1>6. UNCHANGED work /\ \A k \in Job : k # j => jobs'[k] = jobs[k]
  BY <1>2, <1>3, <1>5 DEF observeJob
<1>7. SameWorkers
  BY <1>2, <1>6 DEF SameWorkers
<1>8. ASSUME NEW k \in Job, Told(k) PROVE Told(k)' /\ k # j
  <2>1. 1 \in 1..Len(toLimiter)
    BY <1>4
  <2> QED BY <1>1, <1>4, <1>8, <2>1 DEF Told
<1>9. ASSUME NEW k \in Job \ {a}, k # j PROVE OneLife(k)'
  <2>1. OneLife(k) /\ jobs'[k] = jobs[k]
    BY <1>6, <1>9 DEF LimitFor
  <2>2. Unborn(k) => Unborn(k)'
    BY <1>2, <1>8 DEF Unborn
  <2>3. QueueFits(toLimiter', k, cluster'[k], store'[k])
    <3>1. QueueFits(toLimiter', k, cluster[k], store[k])
      BY <1>2, <1>3, <2>1, FitsTail DEF OneLife
    <3> QED BY <1>2, <3>1
  <2> QED BY <1>2, <1>6, <2>1, <2>2, <2>3 DEF OneLife, Occupies, QueueFits, ReportsEnd
<1>10. ASSUME j # a
       PROVE  /\ OneLife(j)'
              /\ jobs[j] # NoState /\ (jobs'[j] = NoState \/ (~Occupies(jobs[j]) => ~Occupies(jobs'[j])))
  <2>1. OneLife(j) /\ ~Told(j)
    BY <1>5, <1>8, <1>10 DEF LimitFor
  <2>2. jobs[j] # NoState /\ jobs[j] \in JobState
    BY <1>3, <1>5, <2>1 DEF OneLife, Unborn
  <2>3. jobs[j].finished \in BOOLEAN
    BY <2>2 DEF JobState
  <2> DEFINE g == (jobs[j].finished \/ ReportsEnd(e) \/ e.finished)
  <2>4. g \in BOOLEAN
    OBVIOUS
  <2>5. jobs'[j] = IF ReportsEnd(e) THEN NoState ELSE InformerState(g)
    BY <1>2, <1>3, <1>5, <2>2 DEF observeJob
  <2>6. ~ReportsEnd(e) => (g <=> jobs[j].finished \/ e.finished)
    OBVIOUS
  <2> HIDE DEF g
  <2>7. ~ReportsEnd(e) => jobs'[j] # NoState /\ (Occupies(jobs'[j]) <=> ~g)
    BY <2>4, <2>5, ListedEntry DEF Occupies
  <2>8. /\ QueueFits(toLimiter', j, cluster[j], store[j])
        /\ ReportsEnd(e) => cluster[j] = "absent" /\ store[j] = "absent" /\ Told(j)'
    <3>1. QueueFits(toLimiter, j, cluster[j], store[j])
      BY <2>1 DEF OneLife
    <3>2. QueueFits(toLimiter', j, cluster[j], store[j])
      BY <1>2, <1>3, <1>5, <3>1, FitsTail
    <3>3. ASSUME ReportsEnd(e)
          PROVE  cluster[j] = "absent" /\ store[j] = "absent"
                 /\ \A i \in 1..Len(toLimiter') : toLimiter'[i].id # j
      <4>1. Head(toLimiter).id = j /\ ReportsEnd(Head(toLimiter))
        BY <1>1, <3>3
      <4> QED BY <1>2, <1>3, <1>5, <3>1, <4>1, FitsTail
    <3> QED BY <3>2, <3>3 DEF Told
  <2>9. QueueFits(toLimiter', j, cluster'[j], store'[j])
    BY <1>2, <2>8
  <2>10. jobs'[j] = NoState => Unborn(j)'
    BY <1>2, <2>7, <2>8 DEF Unborn
  <2>11. \A w \in Worker : ~(work'[w] = j /\ stage'[w] \in WithoutJob)
    BY <1>2, <1>6, <2>1 DEF OneLife, Unborn
  <2>12. cluster'[j] = "running" => Occupies(jobs'[j])
    <3> SUFFICES ASSUME cluster[j] = "running" PROVE Occupies(jobs'[j])
      BY <1>2
    <3>1. 1 \in 1..Len(toLimiter) /\ toLimiter[1].id = j
      BY <1>1, <1>4
    <3>2. ~e.finished /\ ~ReportsEnd(e)
      BY <1>4, <2>1, <3>1 DEF OneLife, QueueFits
    <3>3. ~jobs[j].finished
      BY <2>1 DEF OneLife, Occupies
    <3> QED BY <2>6, <2>7, <3>2, <3>3
  <2>13. OneLife(j)'
    BY <2>9, <2>10, <2>11, <2>12 DEF OneLife, Occupies, QueueFits, ReportsEnd
  <2>14. jobs'[j] = NoState \/ (~Occupies(jobs[j]) => ~Occupies(jobs'[j]))
    BY <2>2, <2>5, <2>6, <2>7 DEF Occupies
  <2> QED BY <2>2, <2>13, <2>14
<1>11. Within(a)'
  <2>1. ASSUME NEW k \in Occupying' \ {a} PROVE k \in Occupying \ {a}
    <3>1. k \in Job /\ Occupies(jobs'[k])
      BY DEF Occupying, OccupiedIn
    <3>2. Occupies(jobs[k])
      BY <1>6, <1>10, <2>1, <3>1 DEF Occupies
    <3> QED BY <3>1, <3>2 DEF Occupying, OccupiedIn
  <2> QED BY <1>7, <2>1, WithinKept DEF LimitFor
<1> QED BY <1>2, <1>9, <1>10, <1>11 DEF LimitFor

\* The step is about the Job of another UUID.
LEMMA LifeElsewhere ==
    ASSUME FlowInv, NEW j \in Job, NEW k \in Job, k # j, OneLife(k),
           UNCHANGED <<jobs, work>>, cluster'[k] = cluster[k], store'[k] = store[k],
           \A w \in Worker : work[w] = k => stage'[w] = stage[w],
           \/ UNCHANGED toLimiter
           \/ \E e \in Event : e.id = j /\ toLimiter' = Append(toLimiter, e)
    PROVE  OneLife(k)'
<1>1. toLimiter \in Seq(Event)
  BY DEF FlowInv, FlowTypes, PipelineTypeOK
<1>2. Told(k) => Told(k)'
  <2>1. CASE UNCHANGED toLimiter
    BY <2>1 DEF Told
  <2>2. ASSUME NEW e \in Event, e.id = j, toLimiter' = Append(toLimiter, e) PROVE Told(k) => Told(k)'
    <3>1. /\ toLimiter'[Len(toLimiter')] = e
          /\ \A i \in 1..Len(toLimiter) : toLimiter'[i] = toLimiter[i]
          /\ \A i \in 1..Len(toLimiter') : i = Len(toLimiter') \/ i \in 1..Len(toLimiter)
      BY <1>1, <2>2, AppendEvent
    <3> QED BY <2>2, <3>1 DEF Told
  <2> QED BY <2>1, <2>2
<1>3. QueueFits(toLimiter', k, cluster'[k], store'[k])
  <2>1. QueueFits(toLimiter, k, cluster[k], store[k])
    BY DEF OneLife
  <2>2. CASE UNCHANGED toLimiter
    BY <2>1, <2>2
  <2>3. ASSUME NEW e \in Event, e.id = j, toLimiter' = Append(toLimiter, e)
        PROVE  QueueFits(toLimiter', k, cluster[k], store[k])
    BY <1>1, <2>1, <2>3, FitsOther
  <2> QED BY <2>2, <2>3
<1>4. Unborn(k) => Unborn(k)'
  BY <1>2 DEF Unborn
<1> QED BY <1>3, <1>4 DEF OneLife, Occupies, QueueFits, ReportsEnd

\* A Job that ends had its slot; nobody is about to create it.
LEMMA JobEndsLimit ==
    ASSUME FlowInv, NEW a \in Job \cup {NoJob}, LimitFor(a), NEW j \in Job,
           JobFinishes(j) \/ JobDeleted(j)
    PROVE  LimitFor(a)'
<1>1. PICK s \in {"absent", "finished"}, kind \in {"update", "delete"} :
         /\ kind = "delete" <=> s = "absent"
         /\ ClusterChange(j, s, kind)
         /\ cluster[j] # "absent"
  BY DEF JobFinishes, JobDeleted
<1>2. UNCHANGED <<jobs, work, stage, faults>>
  BY DEF JobFinishes, JobDeleted, limiterVars
<1>3. /\ toLimiter \in Seq(Event)
      /\ cluster \in [Job -> {"absent", "running", "finished"}]
      /\ store \in [Job -> {"absent", "running", "finished"}]
  BY DEF FlowInv, FlowTypes, PipelineTypeOK
<1>4. /\ cluster'[j] = s
      /\ \A k \in Job : k # j => cluster'[k] = cluster[k] /\ store'[k] = store[k]
  BY <1>1, <1>3 DEF ClusterChange
<1>5. PICK e \in Event :
         /\ e.id = j /\ Says(e, s)
         /\ \/ UNCHANGED <<store, toLimiter>>
            \/ store'[j] = s /\ toLimiter' = Append(toLimiter, e)
  <2> DEFINE e == [id |-> j, kind |-> kind, finished |-> (s = "finished")]
  <2>1. e \in Event /\ e.id = j /\ Says(e, s)
    BY <1>1 DEF Event, Says, ReportsEnd
  <2>2. \/ UNCHANGED <<store, toLimiter>>
        \/ store'[j] = s /\ toLimiter' = Append(toLimiter, e)
    BY <1>1, <1>3 DEF ClusterChange
  <2> QED BY <2>1, <2>2
<1>6. ASSUME NEW k \in Job \ {a}, k # j PROVE OneLife(k)'
  <2>1. OneLife(k)
    BY DEF LimitFor
  <2> QED BY <1>2, <1>4, <1>5, <1>6, <2>1, LifeElsewhere
<1>7. ASSUME j # a PROVE OneLife(j)'
  <2>1. OneLife(j)
    BY <1>7 DEF LimitFor
  <2>2. jobs'[j] # NoState
    BY <1>1, <1>2, <2>1 DEF OneLife, Unborn
  <2>3. \A w \in Worker : ~(work'[w] = j /\ stage'[w] \in WithoutJob)
    BY <1>1, <1>2, <2>1 DEF OneLife, Unborn
  <2>4. cluster'[j] # "running"
    BY <1>1, <1>4
  <2>5. \A i \in 1..Len(toLimiter) : toLimiter[i].id = j => ~ReportsEnd(toLimiter[i])
    BY <1>1, <2>1 DEF OneLife, QueueFits
  <2>6. QueueFits(toLimiter', j, cluster'[j], store'[j])
    <3>1. CASE UNCHANGED <<store, toLimiter>>
      BY <2>4, <2>5, <3>1 DEF QueueFits
    <3>2. CASE store'[j] = s /\ toLimiter' = Append(toLimiter, e)
      BY <1>3, <1>4, <1>5, <2>4, <2>5, <3>2, FitsOwn
    <3> QED BY <1>5, <3>1, <3>2
  <2> QED BY <2>2, <2>3, <2>4, <2>6 DEF OneLife, QueueFits, ReportsEnd
<1>8. Within(a)'
  <2>1. Occupying' = Occupying
    BY <1>2 DEF Occupying, OccupiedIn, Occupies
  <2>2. SameWorkers
    BY <1>2 DEF SameWorkers
  <2> QED BY <2>1, <2>2, WithinKept DEF LimitFor
<1> QED BY <1>2, <1>6, <1>7, <1>8 DEF LimitFor

\* A relist reports what has happened to a Job that had its slot.
LEMMA RelistLimit ==
    ASSUME FlowInv, NEW a \in Job \cup {NoJob}, LimitFor(a), Relist
    PROVE  LimitFor(a)'
<1>1. UNCHANGED <<jobs, work, cluster, stage, faults>>
  BY DEF Relist, limiterVars
<1>2. SameWorkers
  BY <1>1 DEF SameWorkers
<1>3. CASE UNCHANGED <<store, toLimiter>>
  BY <1>1, <1>2, <1>3, LimitKept
<1>4. ASSUME NEW j \in Job, store[j] # cluster[j],
             store' = [store EXCEPT ![j] = cluster[j]],
             toLimiter' = Append(toLimiter, RelistEvent(j))
      PROVE  LimitFor(a)'
  <2>1. /\ toLimiter \in Seq(Event)
        /\ cluster \in [Job -> {"absent", "running", "finished"}]
        /\ store \in [Job -> {"absent", "running", "finished"}]
    BY DEF FlowInv, FlowTypes, PipelineTypeOK
  <2>2. PICK e \in Event : e.id = j /\ Says(e, cluster[j]) /\ toLimiter' = Append(toLimiter, e)
    <3>1. RelistEvent(j) \in Event /\ RelistEvent(j).id = j /\ Says(RelistEvent(j), cluster[j])
      BY <2>1 DEF RelistEvent, Event, Says, ReportsEnd
    <3> QED BY <1>4, <3>1
  <2>3. store'[j] = cluster[j] /\ \A k \in Job : k # j => store'[k] = store[k]
    BY <1>4, <2>1
  <2>4. ASSUME NEW k \in Job \ {a}, k # j PROVE OneLife(k)'
    <3>1. OneLife(k)
      BY DEF LimitFor
    <3> QED BY <1>1, <2>2, <2>3, <2>4, <3>1, LifeElsewhere
  <2>5. ASSUME j # a PROVE OneLife(j)'
    <3>1. OneLife(j)
      BY <2>5 DEF LimitFor
    <3>2. ~Unborn(j)
      BY <1>4 DEF Unborn
    <3>3. \A i \in 1..Len(toLimiter) : toLimiter[i].id = j =>
             ~ReportsEnd(toLimiter[i]) /\ (cluster[j] = "running" => ~toLimiter[i].finished)
      BY <1>4, <3>1 DEF OneLife, QueueFits
    <3>4. QueueFits(toLimiter', j, cluster[j], cluster[j])
      BY <2>1, <2>2, <3>3, FitsOwn
    <3>5. QueueFits(toLimiter', j, cluster'[j], store'[j])
      BY <1>1, <2>3, <3>4
    <3> QED BY <1>1, <3>1, <3>2, <3>5 DEF OneLife, Occupies, QueueFits, ReportsEnd
  <2>6. Within(a)'
    <3>1. Occupying' = Occupying
      BY <1>1 DEF Occupying, OccupiedIn, Occupies
    <3> QED BY <1>2, <3>1, WithinKept DEF LimitFor
  <2> QED BY <1>1, <2>4, <2>5, <2>6 DEF LimitFor
<1> QED BY <1>3, <1>4 DEF Relist

\* A Job is created in the slot taken for it.  If the create is reported as an error
\* its UUID becomes the exception; there was none before.
LEMMA CreateLimit ==
    ASSUME FlowInv, NEW a \in Job \cup {NoJob}, LimitFor(a), NEW w \in Worker, Create(w)
    PROVE  LimitInv'
<1>1. PICK j, s : /\ j = work[w] /\ s \in {"created", "failed"}
                  /\ stage' = [stage EXCEPT ![w] = s]
                  /\ faults \subseteq faults'
                  /\ s = "failed" => "ambiguousCreate" \in faults' \ faults
  BY DEF Create, Happens
<1>2. /\ stage[w] = "create" /\ cluster[j] = "absent"
      /\ ClusterChange(j, "running", "add") /\ UNCHANGED <<jobs, work>>
  BY <1>1 DEF Create, limiterVars
<1>3. /\ toLimiter \in Seq(Event)
      /\ cluster \in [Job -> {"absent", "running", "finished"}]
      /\ store \in [Job -> {"absent", "running", "finished"}]
      /\ stage \in [Worker -> {"none", "reserve", "dedup", "create", "created", "failed", "return"}]
      /\ \A v \in Worker : stage[v] # "none" => pc[v] = "handle"
  BY DEF FlowInv, FlowTypes, PipelineTypeOK
<1>4. j \in Job
  BY <1>1, <1>2, <1>3 DEF FlowInv, FlowTypes, LimiterInv, WorkAssigned
<1>5. /\ cluster'[j] = "running"
      /\ \A k \in Job : k # j => cluster'[k] = cluster[k] /\ store'[k] = store[k]
  BY <1>2, <1>3, <1>4 DEF ClusterChange
<1>6. PICK e \in Event :
         /\ e.id = j /\ Says(e, "running")
         /\ UNCHANGED toLimiter \/ toLimiter' = Append(toLimiter, e)
  <2> DEFINE e == [id |-> j, kind |-> "add", finished |-> FALSE]
  <2>1. e \in Event /\ e.id = j /\ Says(e, "running")
    BY <1>4 DEF Event, Says, ReportsEnd
  <2>2. UNCHANGED toLimiter \/ toLimiter' = Append(toLimiter, e)
    BY <1>2 DEF ClusterChange
  <2> QED BY <2>1, <2>2
<1>7. stage'[w] = s /\ \A v \in Worker : v # w => stage'[v] = stage[v]
  BY <1>1, <1>3
<1>8. ASSUME NEW k \in Job \ {a}, k # j PROVE OneLife(k)'
  <2>1. OneLife(k)
    BY DEF LimitFor
  <2>2. \A v \in Worker : work[v] = k => stage'[v] = stage[v]
    BY <1>1, <1>7, <1>8
  <2> QED BY <1>2, <1>4, <1>5, <1>6, <1>8, <2>1, <2>2, LifeElsewhere
<1>9. SameWorkers
  BY <1>1, <1>2, <1>7 DEF SameWorkers, WithoutJob, BeforeCreate
<1>10. Occupying' = Occupying
  BY <1>2 DEF Occupying, OccupiedIn, Occupies
<1>11. CASE s = "created" \/ j = a
  <2>1. ASSUME j # a PROVE OneLife(j)'
    <3>1. OneLife(j) /\ s = "created"
      BY <1>4, <1>11, <2>1 DEF LimitFor
    <3>2. Unborn(j) /\ jobs[j] # NoState /\ jobs[j].owner = w
      BY <1>1, <1>2, <3>1 DEF OneLife, WithoutJob, BeforeCreate
    <3>3. ASSUME NEW v \in Worker, work'[v] = j, stage'[v] \in WithoutJob PROVE FALSE
      <4>1. v # w
        BY <1>7, <3>1, <3>3 DEF WithoutJob, BeforeCreate
      <4>2. jobs[j].owner = v
        BY <1>2, <1>7, <3>1, <3>3, <4>1 DEF OneLife
      <4> QED BY <3>2, <4>1, <4>2
    <3>4. Occupies(jobs'[j])
      BY <1>2, <1>4, <3>2 DEF Occupies, FlowInv, FlowTypes, LimiterInv, AttemptsUnfinished
    <3>5. QueueFits(toLimiter', j, "running", store'[j])
      <4>1. \A i \in 1..Len(toLimiter) : toLimiter[i].id # j
        BY <3>2 DEF Unborn, Told
      <4>2. CASE UNCHANGED toLimiter
        BY <4>1, <4>2 DEF QueueFits
      <4>3. CASE toLimiter' = Append(toLimiter, e)
        BY <1>3, <1>4, <1>6, <4>1, <4>3, FitsOwn
      <4> QED BY <1>6, <4>2, <4>3
    <3>6. QueueFits(toLimiter', j, cluster'[j], store'[j])
      BY <1>5, <3>5
    <3> QED BY <1>2, <3>2, <3>3, <3>4, <3>6 DEF OneLife, Occupies, QueueFits, ReportsEnd
  <2>2. Within(a)'
    BY <1>9, <1>10, WithinKept DEF LimitFor
  <2>3. LimitFor(a)'
    BY <1>1, <1>8, <2>1, <2>2 DEF LimitFor
  <2> QED BY <2>3 DEF LimitInv
<1>12. CASE s = "failed" /\ j # a
  <2>1. a = NoJob /\ "ambiguousCreate" \in faults'
    BY <1>1, <1>12 DEF LimitFor
  <2>2. \A k \in Job \ {j} : OneLife(k)'
    BY <1>8, <2>1, LimiterAssumption
  <2>3. Within(j)'
    <3>1. Occupying' \ {j} \subseteq Occupying \ {a}
      BY <1>10, <2>1, LimiterAssumption DEF Occupying, OccupiedIn
    <3> QED BY <1>9, <3>1, WithinKept DEF LimitFor
  <2>4. LimitFor(j)'
    BY <2>1, <2>2, <2>3 DEF LimitFor
  <2> QED BY <1>4, <2>4 DEF LimitInv
<1> QED BY <1>1, <1>11, <1>12

\* The controller starts with a slot for every running Job, and no exception.
LEMMA StartLimit == Started => LimitInv
<1> SUFFICES ASSUME Started PROVE LimitFor(NoJob)
  BY DEF LimitInv
<1>1. /\ cluster \in [Job -> {"absent", "running", "finished"}]
      /\ jobs = InitiallyListed(cluster) /\ store = cluster /\ toLimiter = <<>>
      /\ stage = [w \in Worker |-> "none"]
  BY DEF Started, InitWith
<1>2. ASSUME NEW j \in Job PROVE OneLife(j)
  <2>1. Agrees(jobs[j], cluster[j])
    BY <1>1, ListedFacts
  <2>2. cluster[j] = "running" => Occupies(jobs[j])
    <3>1. OccupiedIn(InitiallyListed(cluster)) = {k \in Job : cluster[k] = "running"}
      BY <1>1, ListedFacts
    <3> QED BY <1>1, <3>1 DEF OccupiedIn
  <2>3. jobs[j] = NoState => Unborn(j)
    BY <1>1, <2>1 DEF Agrees, Unborn, Told
  <2>4. QueueFits(toLimiter, j, cluster[j], store[j])
    BY <1>1 DEF QueueFits
  <2>5. \A w \in Worker : stage[w] \notin WithoutJob
    BY <1>1 DEF WithoutJob, BeforeCreate
  <2> QED BY <2>2, <2>3, <2>4, <2>5 DEF OneLife
<1>3. Within(NoJob)
  BY <1>1 DEF Within, BeforeCreate
<1> QED BY <1>2, <1>3 DEF LimitFor

\* Every step keeps what the limit rests on.
LEMMA LimitStep ==
    ASSUME FlowInv, LimitInv, [PipelineNext]_vars PROVE LimitInv'
<1>1. PICK a \in Job \cup {NoJob} : LimitFor(a)
  BY DEF LimitInv
<1>2. LimitFor(a)' => LimitInv'
  BY DEF LimitInv
<1>3. CASE Poll \/ DeduperEvent \/ UNCHANGED vars
  BY <1>1, <1>2, <1>3, QuietSteps
<1>4. ASSUME NEW w \in Worker, IdleStep(w) \/ Dispatch(w) PROVE LimitInv'
  BY <1>1, <1>2, <1>4, QuietSteps, DispatchLimit
<1>5. ASSUME NEW w \in Worker, HandleStep(w) PROVE LimitInv'
  BY <1>1, <1>2, <1>5, StageSteps, FailLimit, CreateLimit DEF HandleStep
<1>6. CASE LimiterEvent
  BY <1>1, <1>2, <1>6, LimiterEventLimit
<1>7. CASE EnvStep
  BY <1>1, <1>2, <1>7, QuietSteps, JobEndsLimit, RelistLimit DEF EnvStep
<1>8. CASE Restart
  <2>1. Started'
    BY <1>8, RestartStarts
  <2> QED BY <2>1, StartLimit, PTL
<1> QED BY <1>3, <1>4, <1>5, <1>6, <1>7, <1>8 DEF PipelineNext

\* A create leaves the running Jobs within the slots taken for them, and the one of
\* the ambiguous create.
LEMMA CreateStaysWithin ==
    ASSUME FlowInv, LimitInv, NEW w \in Worker, Create(w), MaxInFlight > 0
    PROVE  Cardinality(Running') <= MaxInFlight + Cardinality(faults' \cap {"ambiguousCreate"})
<1>1. PICK a \in Job \cup {NoJob} : LimitFor(a)
  BY DEF LimitInv
<1>2. /\ stage[w] = "create" /\ faults \subseteq faults'
      /\ cluster' = [cluster EXCEPT ![work[w]] = "running"]
  BY DEF Create, ClusterChange, Happens
<1>3. /\ cluster \in [Job -> {"absent", "running", "finished"}] /\ work[w] \in Job
  BY <1>2 DEF FlowInv, FlowTypes, PipelineTypeOK, LimiterInv, WorkAssigned
<1> DEFINE S == Occupying \ {a}
<1>4. ASSUME NEW k \in Running', k # a PROVE k \in S
  <2>1. k \in Job /\ cluster'[k] = "running" /\ OneLife(k)
    BY <1>1, <1>4 DEF Running, LimitFor
  <2>2. CASE k # work[w]
    <3>1. Occupies(jobs[k])
      BY <1>2, <1>3, <2>1, <2>2 DEF OneLife
    <3> QED BY <1>4, <2>1, <3>1 DEF Occupying, OccupiedIn
  <2>3. CASE k = work[w]
    <3>1. jobs[k] # NoState /\ jobs[k].owner = w
      BY <1>2, <2>1, <2>3 DEF OneLife, WithoutJob, BeforeCreate
    <3>2. Occupies(jobs[k])
      BY <2>1, <3>1 DEF Occupies, FlowInv, FlowTypes, LimiterInv, AttemptsUnfinished
    <3> QED BY <1>4, <2>1, <3>2 DEF Occupying, OccupiedIn
  <2> QED BY <2>2, <2>3
<1>5. IsFiniteSet(S) /\ a \notin S
  <2>1. S \subseteq Job
    BY DEF Occupying, OccupiedIn
  <2> QED BY <2>1, LimiterAssumption, FS_Subset
<1>6. Cardinality(S) <= MaxInFlight
  BY <1>1, <1>2 DEF LimitFor, Within, BeforeCreate
<1> HIDE DEF S
<1>7. Cardinality(S) \in Nat /\ MaxInFlight \in Nat
  BY <1>5, LimiterAssumption, FS_CardinalityType
<1>8. CASE a = NoJob
  <2>1. Running' \subseteq S
    BY <1>4, <1>8, LimiterAssumption DEF Running
  <2>2. Cardinality(Running') <= Cardinality(S) /\ Cardinality(Running') \in Nat
    BY <1>5, <2>1, FS_Subset, FS_CardinalityType
  <2>3. Cardinality(faults' \cap {"ambiguousCreate"}) \in Nat
    <3>1. IsFiniteSet({"ambiguousCreate"})
      BY FS_Singleton
    <3> QED BY <3>1, FS_Subset, FS_CardinalityType
  <2> QED BY <1>6, <1>7, <2>2, <2>3
<1>9. CASE a # NoJob
  <2>1. faults' \cap {"ambiguousCreate"} = {"ambiguousCreate"}
    BY <1>1, <1>2, <1>9 DEF LimitFor
  <2>2. Cardinality(faults' \cap {"ambiguousCreate"}) = 1
    BY <2>1, FS_Singleton
  <2>3. Running' \subseteq S \cup {a}
    BY <1>4
  <2>4. IsFiniteSet(S \cup {a}) /\ Cardinality(S \cup {a}) = Cardinality(S) + 1
    BY <1>5, FS_AddElement
  <2>5. Cardinality(Running') <= Cardinality(S \cup {a}) /\ Cardinality(Running') \in Nat
    BY <2>3, <2>4, FS_Subset, FS_CardinalityType
  <2> QED BY <1>6, <1>7, <2>2, <2>4, <2>5
<1> QED BY <1>8, <1>9

\* For every instance and every combination of faults: creating a Job never takes
\* the cluster past MaxInFlight running Jobs, except by one Job if a create that
\* took effect was reported as an error.
THEOREM CreateWithinLimitHolds == PipelineSpec => CreateWithinLimit
<1> DEFINE Kept == \A j \in Job : MaxInFlight > 0 /\ cluster[j] = "absent" /\ cluster'[j] = "running"
             => Cardinality(Running') <= MaxInFlight + Cardinality(faults' \cap {"ambiguousCreate"})
<1>1. PipelineInit => LimitInv
  <2>1. PipelineInit => Started
    BY DEF PipelineInit, Started
  <2> QED BY <2>1, StartLimit
<1>2. FlowInv /\ LimitInv /\ [PipelineNext]_vars => LimitInv'
  BY LimitStep
<1>3. FlowInv /\ LimitInv /\ [PipelineNext]_vars => [Kept]_vars
  <2> SUFFICES ASSUME FlowInv, LimitInv, PipelineNext, NEW j \in Job, MaxInFlight > 0,
                      cluster[j] = "absent", cluster'[j] = "running"
               PROVE  Cardinality(Running') <= MaxInFlight + Cardinality(faults' \cap {"ambiguousCreate"})
    OBVIOUS
  <2>1. cluster \in [Job -> {"absent", "running", "finished"}]
    BY DEF FlowInv, FlowTypes, PipelineTypeOK
  <2>2. cluster' # cluster
    OBVIOUS
  <2>3. \A k \in Job : ~JobFinishes(k) /\ ~JobDeleted(k)
    BY <2>1 DEF JobFinishes, JobDeleted, ClusterChange
  <2>4. ~EnvStep
    BY <2>2, <2>3 DEF EnvStep, AgentAcquires, ReservationExpires, WatchBreaks, Relist
  <2>5. ~Poll /\ ~LimiterEvent /\ ~DeduperEvent /\ ~Restart
    BY <2>2 DEF Poll, pipeVars, envVars, LimiterEvent, DeduperEvent, Restart
  <2>6. \A w \in Worker : ~IdleStep(w) /\ ~Dispatch(w)
    BY <2>2 DEF IdleStep, Dispatch, pipeVars, envVars
  <2>7. \A w \in Worker : HandleStep(w) => Create(w)
    BY <2>2 DEF HandleStep, Reserve, NotReserved, Mark, CreateDuplicate, CreateFails, Unmark,
                Succeed, Fail, envVars
  <2>8. PICK w \in Worker : Create(w)
    BY <2>4, <2>5, <2>6, <2>7 DEF PipelineNext
  <2> QED BY <2>8, CreateStaysWithin
<1> QED BY <1>1, <1>2, <1>3, FlowInvariant, PTL DEF PipelineSpec, CreateWithinLimit
=============================================================================
