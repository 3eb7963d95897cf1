------------------------------ MODULE JobSlots ------------------------------
(***************************************************************************)
(* What the limiter promises the rest of the controller, without queue,    *)
(* locks, counters or wakeups: a Buildkite job is dispatched only into a   *)
(* free slot while fewer than Limit slots are in use, and a slot, once its *)
(* Job has been seen in the cluster, is given back by the cluster alone.   *)
(***************************************************************************)
EXTENDS Naturals, FiniteSets

CONSTANTS Job, Worker, Limit, NoJob, Nobody

VARIABLES
    slot,  \* the slot of each job, and who claimed it
    busy   \* the job each worker is dispatching

slotVars == <<slot, busy>>

Slot(stage, by) == [stage |-> stage, by |-> by]

Free       == Slot("free", Nobody)
Claimed(w) == Slot("claimed", w)
Running    == Slot("running", Nobody)
Over       == Slot("over", Nobody)

InUse == {j \in Job : slot[j].stage \in {"claimed", "running"}}

SlotsInit ==
    /\ slot \in [Job -> {Free, Running, Over}]
    /\ busy = [w \in Worker |-> NoJob]

Set(j, s) == slot' = [slot EXCEPT ![j] = s]

\* A worker claims a slot for a job it starts to dispatch, one job at a time.
Claim(w, j) ==
    /\ busy[w] = NoJob
    /\ slot[j] = Free
    /\ Limit > 0 => Cardinality(InUse) < Limit
    /\ busy' = [busy EXCEPT ![w] = j]
    /\ Set(j, Claimed(w))

\* The dispatch is over.  A failed one gives up the worker's own claim, and only
\* if it is still a claim.
EndDispatch(w) ==
    /\ busy[w] # NoJob
    /\ busy' = [busy EXCEPT ![w] = NoJob]
    /\ \/ UNCHANGED slot
       \/ slot[busy[w]] = Claimed(w) /\ Set(busy[w], Free)

\* The cluster shows the job's Job: gone, over, or running.  A Job that is over
\* holds no slot again before it is gone.
Seen(j) ==
    /\ UNCHANGED busy
    /\ \/ Set(j, Free)
       \/ Set(j, Over)
       \/ slot[j].stage # "over" /\ Set(j, Running)

SlotsNext ==
    \/ \E j \in Job : Seen(j)
    \/ \E w \in Worker : EndDispatch(w)
    \/ \E w \in Worker, j \in Job : Claim(w, j)

SlotsSpec == SlotsInit /\ [][SlotsNext]_slotVars
=============================================================================
