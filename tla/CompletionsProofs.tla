-------------------------- MODULE CompletionsProofs --------------------------
(***************************************************************************)
(* Theorems about the completion watcher, for every grace period, buffer,  *)
(* clock skew, configured deadline, and number of retries, restarts and    *)
(* writes by others.                                                       *)
(***************************************************************************)
EXTENDS Completions, SequenceTheorems, TLAPS

-----------------------------------------------------------------------------
(* The inductive invariant. *)

\* Every version of the pod agrees with the agent's exit, as the node's clock had it.
ShowsExit(p) == p.terminated => pod.terminated /\ p.finishedAt \in {None, exited + skew}
ExitShown ==
    /\ pod.terminated <=> exited # None
    /\ exited # None => exited <= now
    /\ ShowsExit(pod)
    /\ \A i \in 1..Len(queue) : ShowsExit(queue[i])

\* When the remaining containers have had their time.
BufferEnd == exited + 2 * Atmost(Grace, Buffer) + Atmost(skew, 0)

\* The exit the handler counts from is not before the agent's exit, skew aside.
HandlerExit == h.stage # "idle" => pod.terminated /\ h.exit >= exited + Atmost(skew, 0)

\* The deadline of an Update that will be accepted still suits the Job.
FreshDeadline ==
    h.stage = "update" /\ h.fresh =>
        /\ deadline # None => h.deadline <= deadline
        /\ started => 2 * h.deadline >= BufferEnd

\* So does one the watcher wrote.
OursSuits == ours => pod.terminated /\ deadline # None /\ 2 * deadline >= BufferEnd

CleanupInv == TypeOK /\ ExitShown /\ HandlerExit /\ FreshDeadline /\ OursSuits

USE DEF HandlerState

-----------------------------------------------------------------------------
(* The deadline. *)

\* Rounding up to seconds loses no time.
LEMMA CeilNotEarlier == \A ticks \in Int : CeilSeconds(ticks) \in Int /\ 2 * CeilSeconds(ticks) >= ticks
BY DEF CeilSeconds

LEMMA BufferType == Grace \in Nat /\ Buffer \in Nat /\ Atmost(Grace, Buffer) \in Nat
BY CompletionsAssumption DEF Atmost

\* sidecarCleanupDeadline is no later than the deadline in place, and one that is
\* going to be written leaves the remaining containers the buffer.
LEMMA DeadlineSuits ==
    ASSUME TypeOK, NEW x \in Int, NEW d, d = sidecarCleanupDeadline(x)
    PROVE  /\ d \in Nat
           /\ deadline # None => d <= deadline
           /\ d # deadline /\ started => 2 * d >= x + 2 * Atmost(Grace, Buffer)
<1> DEFINE c == CeilSeconds(x) + Atmost(Grace, Buffer)
           computed == IF started THEN Atleast(Grace, c) ELSE Grace
<1>1. c \in Int /\ 2 * c >= x + 2 * Atmost(Grace, Buffer)
  BY CeilNotEarlier, BufferType
<1>2. d = IF deadline # None /\ deadline < computed THEN deadline ELSE computed
  BY DEF sidecarCleanupDeadline
<1> HIDE DEF c
<1>3. computed \in Nat /\ (started => computed >= c)
  BY <1>1, BufferType DEF Atleast
<1>4. started => 2 * computed >= x + 2 * Atmost(Grace, Buffer)
  BY <1>1, <1>3, BufferType
<1> HIDE DEF computed
<1> QED BY <1>2, <1>3, <1>4 DEF TypeOK

-----------------------------------------------------------------------------
(* The cluster. *)

LEMMA InitInv == Init => CleanupInv
<1> SUFFICES ASSUME Init PROVE CleanupInv
  OBVIOUS
<1>1. pod = [terminated |-> FALSE, finishedAt |-> None, others |-> TRUE, phase |-> "running"]
      /\ queue = <<pod>> /\ h = Idle /\ ours = FALSE /\ exited = None
  BY DEF Init
<1>2. pod \in Pod /\ ~pod.terminated
  BY <1>1 DEF Pod
<1>3. queue \in Seq(Pod) /\ Len(queue) = 1 /\ queue[1] = pod
  BY <1>1, <1>2
<1>4. h \in HandlerState /\ h.stage = "idle"
  BY <1>1 DEF Idle
<1>5. TypeOK
  BY <1>1, <1>2, <1>3, <1>4, CompletionsAssumption DEF Init, TypeOK
<1>6. ExitShown
  BY <1>1, <1>2, <1>3 DEF ExitShown, ShowsExit
<1>7. HandlerExit /\ FreshDeadline /\ OursSuits
  BY <1>1, <1>4 DEF HandlerExit, FreshDeadline, OursSuits
<1> QED BY <1>5, <1>6, <1>7 DEF CleanupInv

\* A new version of the pod is queued, or missed by a controller that is down.
LEMMA ShowType ==
    ASSUME TypeOK, NEW new \in Pod, Show(new)
    PROVE  /\ pod' = new /\ queue' \in Seq(Pod)
           /\ \A i \in 1..Len(queue') :
                 queue'[i] = new \/ (i \in 1..Len(queue) /\ queue'[i] = queue[i])
<1>1. CASE up
  <2>1. queue' = Append(queue, new) /\ pod' = new /\ queue \in Seq(Pod)
    BY <1>1 DEF Show, TypeOK
  <2>2. queue' \in Seq(Pod) /\ Len(queue') = Len(queue) + 1 /\ Len(queue) \in Nat
    BY <2>1
  <2>3. ASSUME NEW i \in 1..Len(queue')
        PROVE  queue'[i] = new \/ (i \in 1..Len(queue) /\ queue'[i] = queue[i])
    <3>1. i \in 1..(Len(queue) + 1)
      BY <2>2
    <3>2. CASE i = Len(queue) + 1
      BY <2>1, <3>2
    <3>3. CASE i \in 1..Len(queue)
      BY <2>1, <3>3
    <3> QED BY <2>2, <3>1, <3>2, <3>3
  <2> QED BY <2>1, <2>2, <2>3
<1>2. CASE ~up
  BY <1>2 DEF TypeOK, Show
<1> QED BY <1>1, <1>2 DEF TypeOK

\* The pod changes, but not in what it says of the agent.
LEMMA ShowInv ==
    ASSUME CleanupInv, NEW new \in Pod, Show(new), new.terminated = pod.terminated,
           new.finishedAt = pod.finishedAt, UNCHANGED exited, ClusterQuiet
    PROVE  CleanupInv'
<1> USE DEF ClusterQuiet, timeVars
<1>1. /\ pod' = new /\ queue' \in Seq(Pod)
      /\ \A i \in 1..Len(queue') : queue'[i] = new \/ (i \in 1..Len(queue) /\ queue'[i] = queue[i])
  BY ShowType DEF CleanupInv
<1>2. TypeOK'
  BY <1>1 DEF CleanupInv, TypeOK
<1>3. ExitShown'
  <2>1. ShowsExit(pod)' /\ (pod'.terminated <=> exited' # None) /\ (exited' # None => exited' <= now')
    BY <1>1 DEF CleanupInv, ExitShown, ShowsExit
  <2>2. ASSUME NEW i \in 1..Len(queue') PROVE ShowsExit(queue[i])'
    BY <1>1, <2>1 DEF CleanupInv, ExitShown, ShowsExit
  <2> QED BY <2>1, <2>2 DEF ExitShown
<1>4. HandlerExit' /\ FreshDeadline' /\ OursSuits'
  BY <1>1 DEF CleanupInv, HandlerExit, FreshDeadline, OursSuits, BufferEnd
<1> QED BY <1>2, <1>3, <1>4 DEF CleanupInv

LEMMA PodChangesInv == ASSUME CleanupInv, OthersExit \/ NodeChanges \/ DeadlineHits PROVE CleanupInv'
<1>1. pod \in Pod
  BY DEF CleanupInv, TypeOK
<1>2. CASE OthersExit
  <2>1. PICK new \in Pod :
           new = [pod EXCEPT !.others = FALSE, !.phase = IF pod.terminated THEN "over" ELSE pod.phase]
    BY <1>1 DEF Pod
  <2>2. new.terminated = pod.terminated /\ new.finishedAt = pod.finishedAt
    BY <1>1, <2>1 DEF Pod
  <2> QED BY <1>2, <2>1, <2>2, ShowInv DEF OthersExit
<1>3. CASE NodeChanges
  <2>1. PICK new \in Pod :
           new = [pod EXCEPT !.phase = IF pod.phase = "running" THEN "unknown" ELSE "running"]
    BY <1>1 DEF Pod
  <2>2. new.terminated = pod.terminated /\ new.finishedAt = pod.finishedAt
    BY <1>1, <2>1 DEF Pod
  <2> QED BY <1>3, <2>1, <2>2, ShowInv DEF NodeChanges
<1>4. CASE DeadlineHits
  <2>1. PICK new \in Pod : new = [pod EXCEPT !.phase = "over"]
    BY <1>1 DEF Pod
  <2>2. new.terminated = pod.terminated /\ new.finishedAt = pod.finishedAt
    BY <1>1, <2>1 DEF Pod
  <2> QED BY <1>4, <2>1, <2>2, ShowInv DEF DeadlineHits
<1> QED BY <1>2, <1>3, <1>4

\* Nothing shows the agent's exit before it exits.
LEMMA AgentExitsInv == ASSUME CleanupInv, AgentExits PROVE CleanupInv'
<1>1. PICK at \in {now + skew, None} :
         Show([pod EXCEPT !.terminated = TRUE, !.finishedAt = at,
                          !.phase = IF pod.others THEN pod.phase ELSE "over"])
  BY DEF AgentExits
<1>2. pod \in Pod /\ at \in Int \cup {None} /\ ~pod.terminated
  BY DEF CleanupInv, TypeOK, AgentExits
<1>3. PICK new \in Pod :
         new = [pod EXCEPT !.terminated = TRUE, !.finishedAt = at,
                           !.phase = IF pod.others THEN pod.phase ELSE "over"]
  BY <1>2 DEF Pod
<1>4. new.terminated /\ new.finishedAt = at
  BY <1>2, <1>3 DEF Pod
<1>5. /\ pod' = new /\ queue' \in Seq(Pod)
      /\ \A i \in 1..Len(queue') : queue'[i] = new \/ (i \in 1..Len(queue) /\ queue'[i] = queue[i])
  BY <1>1, <1>3, ShowType DEF CleanupInv
<1>6. exited' = now /\ now \in Nat /\ exited = None /\ ClusterQuiet
  BY <1>2 DEF AgentExits, CleanupInv, TypeOK, ExitShown
<1> USE DEF ClusterQuiet, timeVars
<1>7. TypeOK'
  BY <1>5, <1>6 DEF CleanupInv, TypeOK
<1>8. ExitShown'
  <2>1. ShowsExit(pod)' /\ (pod'.terminated <=> exited' # None) /\ exited' <= now'
    BY <1>4, <1>5, <1>6, CompletionsAssumption DEF ShowsExit
  <2>2. ASSUME NEW i \in 1..Len(queue') PROVE ShowsExit(queue[i])'
    <3>1. CASE queue'[i] = new
      BY <1>5, <2>1, <3>1 DEF ShowsExit
    <3>2. CASE i \in 1..Len(queue) /\ queue'[i] = queue[i]
      <4>1. ~queue[i].terminated
        BY <1>2, <3>2 DEF CleanupInv, ExitShown, ShowsExit
      <4> QED BY <3>2, <4>1 DEF ShowsExit
    <3> QED BY <1>5, <3>1, <3>2
  <2> QED BY <2>1, <2>2 DEF ExitShown
<1>9. ~ours /\ h.stage = "idle"
  BY <1>2 DEF CleanupInv, HandlerExit, OursSuits
<1>10. HandlerExit' /\ FreshDeadline' /\ OursSuits'
  BY <1>6, <1>9 DEF HandlerExit, FreshDeadline, OursSuits
<1> QED BY <1>7, <1>8, <1>10 DEF CleanupInv

\* Another client's write makes an Update that is under way conflict.
LEMMA OutdateType ==
    ASSUME TypeOK, Outdate
    PROVE  /\ h' \in HandlerState
           /\ h'.stage = h.stage /\ h'.exit = h.exit /\ ~(h'.stage = "update" /\ h'.fresh)
<1>1. h' = [h EXCEPT !.fresh = (h.stage # "update")]
  BY DEF Outdate
<1> QED BY <1>1 DEF TypeOK

LEMMA WritesInv == ASSUME CleanupInv, StartShown \/ OtherWrites PROVE CleanupInv'
<1>1. /\ Outdate /\ UNCHANGED <<pod, exited, up, seen, queue, missed, crashes, timeVars>>
      /\ started' \in BOOLEAN /\ writes' \in Nat
      /\ deadline' \in Nat \cup {None} /\ ours' \in BOOLEAN
      /\ ours' => ours /\ deadline' = deadline
  <2>1. CASE StartShown
    BY <2>1 DEF StartShown, CleanupInv, TypeOK
  <2>2. CASE OtherWrites
    <3>1. deadline' \in Nat \cup {None} /\ writes' \in Nat
      BY <2>2, CompletionsAssumption DEF OtherWrites, CleanupInv, TypeOK
    <3>2. ours' \in BOOLEAN /\ (ours' => ours /\ deadline' = deadline)
      BY <2>2 DEF OtherWrites, CleanupInv, TypeOK
    <3> QED BY <2>2, <3>1, <3>2 DEF OtherWrites, CleanupInv, TypeOK
  <2> QED BY <2>1, <2>2
<1>2. /\ h' \in HandlerState
      /\ h'.stage = h.stage /\ h'.exit = h.exit /\ ~(h'.stage = "update" /\ h'.fresh)
  BY <1>1, OutdateType DEF CleanupInv
<1>3. TypeOK'
  BY <1>1, <1>2 DEF CleanupInv, TypeOK, timeVars
<1>4. ExitShown'
  BY <1>1 DEF CleanupInv, ExitShown, ShowsExit, timeVars
<1>5. HandlerExit' /\ FreshDeadline'
  BY <1>1, <1>2 DEF CleanupInv, HandlerExit, FreshDeadline, timeVars
<1>6. OursSuits'
  BY <1>1 DEF CleanupInv, OursSuits, BufferEnd, timeVars
<1> QED BY <1>3, <1>4, <1>5, <1>6 DEF CleanupInv

LEMMA TickInv == ASSUME CleanupInv, Tick PROVE CleanupInv'
<1>1. now' \in Nat /\ now' >= now /\ UNCHANGED <<clusterVars, watcherVars, skew>>
  BY DEF Tick, CleanupInv, TypeOK
<1> USE DEF clusterVars, watcherVars
<1>2. TypeOK'
  BY <1>1 DEF CleanupInv, TypeOK
<1>3. ExitShown'
  <2>1. exited' # None => exited' <= now'
    BY <1>1 DEF CleanupInv, TypeOK, ExitShown
  <2> QED BY <1>1, <2>1 DEF CleanupInv, ExitShown, ShowsExit
<1>4. HandlerExit' /\ FreshDeadline' /\ OursSuits'
  BY <1>1 DEF CleanupInv, HandlerExit, FreshDeadline, OursSuits, BufferEnd
<1> QED BY <1>2, <1>3, <1>4 DEF CleanupInv

-----------------------------------------------------------------------------
(* The watcher. *)

\* What a step of the watcher leaves of the invariant to show.
LEMMA WatcherInv ==
    ASSUME CleanupInv, UNCHANGED <<started, pod, exited, writes, timeVars>>,
           up' \in BOOLEAN, crashes' \in Nat, missed' \in BOOLEAN, ours' \in BOOLEAN,
           deadline' \in Nat \cup {None}, seen' \in Pod \cup {None}, queue' \in Seq(Pod),
           \A i \in 1..Len(queue') : ShowsExit(queue'[i]),
           h' \in HandlerState,
           HandlerExit', FreshDeadline', OursSuits'
    PROVE  CleanupInv'
<1>1. TypeOK'
  BY DEF CleanupInv, TypeOK, timeVars
<1>2. ExitShown'
  BY DEF CleanupInv, ExitShown, ShowsExit, timeVars
<1> QED BY <1>1, <1>2 DEF CleanupInv

LEMMA IdleType ==
    /\ Idle \in HandlerState
    /\ Idle.stage = "idle"
BY DEF Idle

LEMMA OnEventInv == ASSUME CleanupInv, OnEvent PROVE CleanupInv'
<1> DEFINE new == Head(queue)
<1>1. /\ queue \in Seq(Pod) /\ queue # <<>> /\ queue' = Tail(queue) /\ seen' = new
      /\ UNCHANGED <<started, pod, exited, writes, up, crashes, timeVars, deadline, ours>>
      /\ missed' \in BOOLEAN
  BY DEF OnEvent, WatcherQuiet, CleanupInv, TypeOK
<1>2. new \in Pod /\ ShowsExit(new) /\ queue' \in Seq(Pod)
      /\ \A i \in 1..Len(queue') : ShowsExit(queue'[i])
  <2>1. new = queue[1] /\ queue[1] \in Pod /\ Len(queue) \in Nat \ {0}
    BY <1>1
  <2>2. queue' \in Seq(Pod) /\ Len(queue') = Len(queue) - 1
        /\ \A i \in 1..Len(queue') : queue'[i] = queue[i + 1]
    BY <1>1
  <2>3. \A i \in 1..Len(queue') : i + 1 \in 1..Len(queue)
    BY <2>1, <2>2
  <2> HIDE DEF new
  <2> QED BY <2>1, <2>2, <2>3 DEF CleanupInv, ExitShown
<1>3. CASE Handles(new)
  <2>1. h' = [Idle EXCEPT !.stage = "get", !.exit = agentExit(new)]
    BY <1>3 DEF OnEvent
  <2>2. agentExit(new) \in Int /\ pod.terminated /\ agentExit(new) >= exited + Atmost(skew, 0)
    <3>1. pod.terminated /\ exited \in Nat /\ exited <= now /\ now \in Nat /\ skew \in Int
          /\ new.finishedAt \in {None, exited + skew}
      BY <1>2, <1>3 DEF Handles, NeedsCleanup, CleanupInv, TypeOK, ExitShown, ShowsExit
    <3> QED BY <3>1, CompletionsAssumption DEF agentExit, Atmost
  <2>3. /\ h' \in HandlerState
        /\ h'.stage = "get" /\ h'.exit = agentExit(new)
    BY <2>1, <2>2 DEF Idle
  <2>4. HandlerExit' /\ FreshDeadline'
    BY <1>1, <2>2, <2>3 DEF HandlerExit, FreshDeadline, timeVars
  <2>5. OursSuits'
    BY <1>1 DEF CleanupInv, OursSuits, BufferEnd, timeVars
  <2> HIDE DEF new
  <2> QED BY <1>1, <1>2, <2>3, <2>4, <2>5, WatcherInv DEF CleanupInv, TypeOK
<1>4. CASE ~Handles(new)
  <2>1. h' = Idle
    BY <1>4 DEF OnEvent
  <2>2. HandlerExit' /\ FreshDeadline'
    BY <2>1, IdleType DEF HandlerExit, FreshDeadline
  <2>3. OursSuits'
    BY <1>1 DEF CleanupInv, OursSuits, BufferEnd, timeVars
  <2> HIDE DEF new
  <2> QED BY <1>1, <1>2, <2>1, <2>2, <2>3, IdleType, WatcherInv DEF CleanupInv, TypeOK
<1> QED BY <1>3, <1>4

\* Steps between two events leave the queue alone.
LEMMA CallInv ==
    ASSUME CleanupInv, UNCHANGED <<seen, queue>>, WatcherQuiet, missed' \in BOOLEAN,
           ours' \in BOOLEAN, deadline' \in Nat \cup {None},
           h' \in HandlerState,
           HandlerExit', FreshDeadline', OursSuits'
    PROVE  CleanupInv'
<1>1. \A i \in 1..Len(queue') : ShowsExit(queue'[i])
  BY DEF CleanupInv, ExitShown
<1> QED BY <1>1, WatcherInv DEF WatcherQuiet, CleanupInv, TypeOK

LEMMA GetJobInv == ASSUME CleanupInv, GetJob PROVE CleanupInv'
<1>1. PICK d : /\ d = sidecarCleanupDeadline(h.exit)
               /\ h' = IF d = deadline THEN Idle
                       ELSE [h EXCEPT !.stage = "update", !.deadline = d, !.fresh = TRUE]
  BY DEF GetJob
<1>2. h.exit \in Int /\ h.stage = "get"
  BY DEF GetJob, CleanupInv, TypeOK
<1>3. /\ d \in Nat /\ (deadline # None => d <= deadline)
      /\ d # deadline /\ started => 2 * d >= h.exit + 2 * Atmost(Grace, Buffer)
  BY <1>1, <1>2, DeadlineSuits DEF CleanupInv
<1>4. /\ UNCHANGED <<deadline, ours, seen, queue, missed>> /\ WatcherQuiet
  BY DEF GetJob
<1>5. OursSuits'
  BY <1>4 DEF CleanupInv, OursSuits, BufferEnd, WatcherQuiet, timeVars
<1>6. CASE d = deadline
  <2>1. h' = Idle
    BY <1>1, <1>6
  <2>2. HandlerExit' /\ FreshDeadline'
    BY <2>1, IdleType DEF HandlerExit, FreshDeadline
  <2> QED BY <1>4, <1>5, <2>1, <2>2, IdleType, CallInv DEF CleanupInv, TypeOK
<1>7. CASE d # deadline
  <2>1. h' = [h EXCEPT !.stage = "update", !.deadline = d, !.fresh = TRUE]
    BY <1>1, <1>7
  <2>2. /\ h' \in HandlerState
        /\ h'.exit = h.exit /\ h'.deadline = d
    BY <1>3, <2>1 DEF CleanupInv, TypeOK
  <2>3. pod.terminated /\ h.exit >= exited + Atmost(skew, 0)
    BY <1>2 DEF CleanupInv, HandlerExit
  <2>4. HandlerExit'
    BY <1>4, <2>2, <2>3 DEF HandlerExit, WatcherQuiet, timeVars
  <2>5. started => 2 * d >= BufferEnd
    <3>1. exited \in Int /\ skew \in Int /\ Atmost(skew, 0) \in Int
      BY <2>3 DEF CleanupInv, TypeOK, ExitShown, Atmost
    <3> QED BY <1>2, <1>3, <1>7, <2>3, <3>1, BufferType DEF BufferEnd
  <2>6. FreshDeadline'
    BY <1>3, <1>4, <2>2, <2>5 DEF FreshDeadline, BufferEnd, WatcherQuiet, timeVars
  <2> QED BY <1>4, <1>5, <2>2, <2>4, <2>6, CallInv DEF CleanupInv, TypeOK
<1> QED BY <1>6, <1>7

\* A write that is accepted: nobody changed the Job since the watcher's Get.
LEMMA WroteSuits ==
    ASSUME CleanupInv, h.stage = "update", h.fresh, Wrote, WatcherQuiet
    PROVE  /\ deadline' \in Nat /\ ours' \in BOOLEAN /\ OursSuits'
           /\ deadline # None => deadline' <= deadline
<1>1. deadline' = h.deadline /\ ours' = started /\ h.deadline \in Nat
  BY DEF Wrote, CleanupInv, TypeOK
<1>2. pod.terminated /\ (started => 2 * h.deadline >= BufferEnd)
      /\ (deadline # None => h.deadline <= deadline)
  BY DEF CleanupInv, HandlerExit, FreshDeadline
<1>3. OursSuits'
  BY <1>1, <1>2, CompletionsAssumption DEF OursSuits, BufferEnd, WatcherQuiet, timeVars
<1> QED BY <1>1, <1>2, <1>3 DEF CleanupInv, TypeOK

LEMMA UpdateInv == ASSUME CleanupInv, UpdateJob \/ CallFails PROVE CleanupInv'
<1>1. h' = Idle /\ UNCHANGED <<seen, queue>> /\ WatcherQuiet /\ missed' \in BOOLEAN
  BY DEF UpdateJob, CallFails, CleanupInv, TypeOK
<1>2. deadline' \in Nat \cup {None} /\ ours' \in BOOLEAN /\ OursSuits'
  <2>1. CASE UNCHANGED <<deadline, ours>>
    BY <1>1, <2>1 DEF CleanupInv, TypeOK, OursSuits, BufferEnd, WatcherQuiet, timeVars
  <2>2. CASE h.stage = "update" /\ h.fresh /\ Wrote
    BY <1>1, <2>2, WroteSuits
  <2> QED BY <2>1, <2>2 DEF UpdateJob, CallFails
<1>3. HandlerExit' /\ FreshDeadline'
  BY <1>1, IdleType DEF HandlerExit, FreshDeadline
<1> QED BY <1>1, <1>2, <1>3, IdleType, CallInv

LEMMA ConflictInv == ASSUME CleanupInv, UpdateConflicts PROVE CleanupInv'
<1>1. UNCHANGED <<deadline, ours, seen, queue>> /\ WatcherQuiet /\ missed' \in BOOLEAN
  BY DEF UpdateConflicts, CleanupInv, TypeOK
<1>2. /\ h' \in HandlerState
      /\ h'.stage = "idle" \/ (h'.stage = "get" /\ h'.exit = h.exit /\ h.stage = "update")
  <2>1. h.stage = "update" /\ (h' = Idle \/ h' = [h EXCEPT !.stage = "get", !.tries = @ + 1])
    BY DEF UpdateConflicts
  <2>2. CASE h' = Idle
    BY <2>2, IdleType
  <2>3. CASE h' = [h EXCEPT !.stage = "get", !.tries = @ + 1]
    <3>1. h \in HandlerState
      BY DEF CleanupInv, TypeOK
    <3>2. h.tries + 1 \in Nat
      BY <3>1
    <3> QED BY <2>1, <2>3, <3>1, <3>2
  <2> QED BY <2>1, <2>2, <2>3
<1>3. HandlerExit' /\ FreshDeadline'
  BY <1>1, <1>2 DEF CleanupInv, HandlerExit, FreshDeadline, WatcherQuiet, timeVars
<1>4. OursSuits'
  BY <1>1 DEF CleanupInv, OursSuits, BufferEnd, WatcherQuiet, timeVars
<1> QED BY <1>1, <1>2, <1>3, <1>4, CallInv DEF CleanupInv, TypeOK

\* After a crash or a relist the queue holds the pod as it is, or nothing.
LEMMA RestartInv == ASSUME CleanupInv, Crash \/ RegisterInformer \/ Relist PROVE CleanupInv'
<1>1. UNCHANGED <<clusterVars, timeVars>> /\ missed' \in BOOLEAN /\ up' \in BOOLEAN
      /\ crashes' \in Nat /\ h' \in {h, Idle} /\ seen' \in {seen, None} /\ queue' \in {<<>>, <<pod>>}
  <2>1. CASE Crash
    <3>1. crashes' \in Nat
      BY <2>1 DEF Crash, CleanupInv, TypeOK
    <3> QED BY <2>1, <3>1 DEF Crash, CleanupInv, TypeOK
  <2>2. CASE RegisterInformer
    BY <2>2 DEF RegisterInformer, CleanupInv, TypeOK
  <2>3. CASE Relist
    BY <2>3 DEF Relist, CleanupInv, TypeOK
  <2> QED BY <2>1, <2>2, <2>3
<1>2. queue' \in Seq(Pod) /\ \A i \in 1..Len(queue') : ShowsExit(queue'[i])
  <2>1. CASE queue' = <<>>
    BY <2>1
  <2>2. CASE queue' = <<pod>>
    <3>1. queue' \in Seq(Pod) /\ Len(queue') = 1 /\ queue'[1] = pod
      BY <2>2 DEF CleanupInv, TypeOK
    <3> QED BY <3>1 DEF CleanupInv, ExitShown
  <2> QED BY <1>1, <2>1, <2>2
<1>3. HandlerExit' /\ FreshDeadline'
  BY <1>1, IdleType DEF CleanupInv, HandlerExit, FreshDeadline, BufferEnd, clusterVars, timeVars
<1>4. OursSuits'
  BY <1>1 DEF CleanupInv, OursSuits, BufferEnd, clusterVars, timeVars
<1>5. h' \in HandlerState /\ seen' \in Pod \cup {None}
  BY <1>1, IdleType DEF CleanupInv, TypeOK
<1> QED BY <1>1, <1>2, <1>3, <1>4, <1>5, WatcherInv DEF clusterVars, CleanupInv, TypeOK

-----------------------------------------------------------------------------
(* The theorems. *)

\* CleanupInv holds throughout: the invariant the other theorems rest on.
THEOREM CleanupInvariant == Spec => []CleanupInv
<1>1. CleanupInv /\ [Next]_vars => CleanupInv'
  <2> SUFFICES ASSUME CleanupInv, [Next]_vars PROVE CleanupInv'
    OBVIOUS
  <2>1. CASE Cluster
    BY <2>1, AgentExitsInv, PodChangesInv, WritesInv DEF Cluster
  <2>2. CASE Tick \/ Crash \/ RegisterInformer \/ Relist
    BY <2>2, TickInv, RestartInv
  <2>3. CASE WatcherStep \/ CallFails
    BY <2>3, OnEventInv, GetJobInv, UpdateInv, ConflictInv DEF WatcherStep
  <2>4. CASE UNCHANGED vars
    BY <2>4 DEF vars, clusterVars, watcherVars, timeVars, CleanupInv, TypeOK, ExitShown, ShowsExit,
                HandlerExit, FreshDeadline, OursSuits, BufferEnd
  <2> QED BY <2>1, <2>2, <2>3, <2>4 DEF Next
<1> QED BY InitInv, <1>1, PTL DEF Spec

\* "cleanup never extends a job's configured lifetime" (completions.go:241-242),
\* because the Update of a deadline that no longer suits the Job conflicts.
THEOREM CleanupNeverExtendsHolds == Spec => CleanupNeverExtends
<1>1. ASSUME CleanupInv, [Next]_vars
      PROVE  [h # Idle /\ writes' = writes /\ deadline # None => deadline' <= deadline]_vars
  <2> SUFFICES ASSUME Next, h # Idle, writes' = writes, deadline # None PROVE deadline' <= deadline
    BY <1>1
  <2>1. deadline \in Nat
    BY <1>1 DEF CleanupInv, TypeOK
  <2>2. CASE UNCHANGED deadline
    BY <2>1, <2>2
  <2>3. CASE h.stage = "update" /\ h.fresh /\ Wrote /\ WatcherQuiet
    BY <1>1, <2>3, WroteSuits
  <2>4. ~OtherWrites
    <3>1. writes \in Nat
      BY <1>1 DEF CleanupInv, TypeOK
    <3> QED BY <3>1 DEF OtherWrites
  <2> QED BY <2>2, <2>3, <2>4
          DEF Next, Cluster, AgentExits, OthersExit, NodeChanges, DeadlineHits, StartShown,
              ClusterQuiet, Tick, WatcherStep, OnEvent, GetJob, UpdateJob, UpdateConflicts,
              CallFails, Crash, RegisterInformer, Relist, clusterVars
<1> QED BY CleanupInvariant, <1>1, PTL DEF Spec, CleanupNeverExtends

\* A Job does not end at a deadline of the watcher's before its remaining containers
\* had the buffer after the agent's exit (completions.go:234), whatever the skew of
\* the node's clock, and whatever was retried, restarted or relisted.
THEOREM RemainingGetBufferHolds == Spec => RemainingGetBuffer
<1>1. ASSUME CleanupInv, [Next]_vars
      PROVE  [Alive /\ pod'.phase = "over" /\ pod'.others /\ ours
                => now >= exited + 2 * Atmost(Grace, Buffer) + Atmost(skew, 0)]_vars
  <2> SUFFICES ASSUME Next, Alive, pod'.phase = "over", pod'.others, ours
               PROVE  now >= BufferEnd
    BY <1>1 DEF BufferEnd
  <2>1. pod \in Pod /\ pod.phase # "over" /\ pod.terminated /\ now \in Nat
        /\ deadline \in Nat /\ exited \in Nat /\ skew \in Int /\ 2 * deadline >= BufferEnd
    BY <1>1 DEF CleanupInv, TypeOK, OursSuits, Alive, ExitShown
  <2>2. pod' # pod /\ ~AgentExits
    BY <2>1 DEF AgentExits
  <2>3. ASSUME OthersExit PROVE FALSE
    <3>1. pod' = [pod EXCEPT !.others = FALSE, !.phase = IF pod.terminated THEN "over" ELSE pod.phase]
      BY <2>3 DEF OthersExit, Show
    <3> QED BY <2>1, <3>1 DEF Pod
  <2>4. ASSUME NodeChanges PROVE FALSE
    <3>1. pod' = [pod EXCEPT !.phase = IF pod.phase = "running" THEN "unknown" ELSE "running"]
      BY <2>4 DEF NodeChanges, Show
    <3> QED BY <2>1, <3>1 DEF Pod
  <2>5. CASE DeadlineHits
    <3>1. now >= 2 * deadline
      BY <2>5 DEF DeadlineHits
    <3>2. BufferEnd \in Int
      BY <2>1, BufferType DEF BufferEnd, Atmost
    <3> QED BY <2>1, <3>1, <3>2
  <2> QED BY <2>2, <2>3, <2>4, <2>5
          DEF Next, Cluster, StartShown, OtherWrites, Tick, WatcherStep, OnEvent, GetJob,
              UpdateJob, UpdateConflicts, CallFails, WatcherQuiet, Crash, RegisterInformer, Relist,
              clusterVars
<1> QED BY CleanupInvariant, <1>1, PTL DEF Spec, RemainingGetBuffer
=============================================================================
