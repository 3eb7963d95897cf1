-------------------------- MODULE PodWatcherProofs --------------------------
(***************************************************************************)
(* Theorems about the pod watcher, for any number of pods, any length of   *)
(* the informer's queue and any choice of calls that may fail.             *)
(***************************************************************************)
EXTENDS PodWatcher, SequenceTheorems, TLAPS

-----------------------------------------------------------------------------
(* The inductive invariant. *)

\* The pod with this UID exists, or its deletion is an event at or after a place
\* in the queue.
Backed(uid, from) ==
    \/ pod # None /\ pod.uid = uid
    \/ \E j \in from..Len(events) : events[j].kind = "delete" /\ events[j].pod.uid = uid

\* A pod the watcher is still to hear of exists, or its deletion comes later.
EventsBacked ==
    \A i \in 1..Len(events) :
        events[i].kind # "delete" => Backed(events[i].pod.uid, i + 1)

\* So does the pod whose init failure is being reported.
HandlingBacked == handling # None => Backed(handling.uid, 1)

\* The job cannot be failed any more, or Buildkite has refused to.
GivenUp == ~Accepts \/ refused

\* A job no agent may acquire any more can never be failed again, and a refusal is
\* not taken back: what a checker has found out before it deletes or ignores is
\* still true when it does.
DeletesFinished == "delete" \in {image.stage, pending.stage} => bk = "finished"
IgnoresOver == "ignore" \in {image.stage, pending.stage} => GivenUp

QueueInv == EventsBacked /\ HandlingBacked /\ EntriesBacked
StateInv == DeletesFinished /\ IgnoresOver /\ IgnoredForCause
WatchInv == TypeOK /\ QueueInv /\ StateInv

-----------------------------------------------------------------------------
(* Types. *)

LEMMA InitInv == Init => WatchInv
<1> SUFFICES ASSUME Init PROVE WatchInv
  OBVIOUS
<1>1. image = Resting /\ pending = Resting /\ bk = "scheduled" /\ ignored = FALSE /\ events = <<>>
  BY DEF Init
<1>2. TypeOK
  <2>1. /\ uids \in 0..MaxPods /\ aged = {} /\ overdue = {}
        /\ notified = FALSE /\ refused = FALSE
    BY PodWatcherAssumption DEF Init
  <2>2. {pod, handling, watchImage, watchPending} \subseteq Pod \cup {None}
    BY DEF Init
  <2>3. events \in Seq(Event)
    BY <1>1
  <2> QED BY <1>1, <2>1, <2>2, <2>3 DEF TypeOK
<1>3. QueueInv
  BY <1>1 DEF Init, CheckerInit, QueueInv, EventsBacked, HandlingBacked, EntriesBacked, Entries
<1>4. StateInv
  BY <1>1 DEF Resting, StateInv, DeletesFinished, IgnoresOver, IgnoredForCause, GivenUp
<1> QED BY <1>2, <1>3, <1>4 DEF WatchInv

\* An event is put at the end of the queue.
LEMMA ReportType ==
    ASSUME TypeOK, NEW kind \in {"add", "update", "delete"}, NEW p \in Pod, Report(kind, p)
    PROVE  /\ events' \in Seq(Event)
           /\ Len(events') = Len(events) + 1
           /\ \A i \in 1..Len(events) : events'[i] = events[i]
           /\ events'[Len(events) + 1] = [kind |-> kind, pod |-> p]
<1>1. [kind |-> kind, pod |-> p] \in Event
  BY DEF Event
<1> QED BY <1>1 DEF TypeOK, Report

\* An event is taken from the front.
LEMMA TakeType ==
    ASSUME TypeOK, Take
    PROVE  /\ events' \in Seq(Event)
           /\ Len(events) \in Nat \ {0} /\ Len(events') = Len(events) - 1
           /\ \A i \in 1..Len(events') : events'[i] = events[i + 1]
           /\ Head(events) = events[1] /\ This = events[1].pod
           /\ events[1] \in Event /\ This \in Pod
<1>1. events \in Seq(Event) /\ events # <<>> /\ events' = Tail(events)
  BY DEF TypeOK, Take
<1>2. events[1] \in Event /\ Head(events) = events[1]
  BY <1>1
<1> QED BY <1>1, <1>2 DEF This, Event

-----------------------------------------------------------------------------
(* The queue. *)

\* DeletionQueued is Backed without the pod.
LEMMA EntriesBackedAlt == EntriesBacked <=> \A e \in Entries : Backed(e.uid, 1)
BY DEF EntriesBacked, Backed, DeletionQueued

\* A change of the pod, its creation and its removal are reported, and whatever
\* was backed stays backed.
LEMMA ReportBacks ==
    ASSUME TypeOK, QueueInv, NEW kind \in {"add", "update", "delete"}, NEW p \in Pod,
           Report(kind, p),
           \/ kind = "delete" /\ pod = p /\ pod' = None
           \/ kind # "delete" /\ pod' = p /\ (pod = None \/ pod.uid = p.uid)
    PROVE  /\ \A k \in 1..(Len(events) + 1) : \A uid : Backed(uid, k) => Backed(uid, k)'
           /\ EventsBacked'
<1> USE NoneAssumption
<1>1. Len(events) \in Nat /\ Len(events') = Len(events) + 1
      /\ (\A i \in 1..Len(events) : events'[i] = events[i])
      /\ events'[Len(events) + 1] = [kind |-> kind, pod |-> p]
  BY ReportType DEF TypeOK
<1>2. ASSUME NEW k \in 1..(Len(events) + 1), NEW uid, Backed(uid, k) PROVE Backed(uid, k)'
  <2>1. CASE pod # None /\ pod.uid = uid
    <3>1. CASE kind = "delete" /\ pod = p
      <4>1. Len(events) + 1 \in k..Len(events') /\ events'[Len(events) + 1].kind = "delete"
            /\ events'[Len(events) + 1].pod.uid = uid
        BY <1>1, <2>1, <3>1
      <4> QED BY <4>1 DEF Backed
    <3>2. CASE pod' = p /\ pod.uid = p.uid
      BY <2>1, <3>2 DEF Backed
    <3> QED BY <2>1, <3>1, <3>2
  <2>2. CASE \E j \in k..Len(events) : events[j].kind = "delete" /\ events[j].pod.uid = uid
    <3>1. PICK j \in k..Len(events) : events[j].kind = "delete" /\ events[j].pod.uid = uid
      BY <2>2
    <3>2. j \in k..Len(events') /\ events'[j] = events[j]
      BY <1>1
    <3> QED BY <3>1, <3>2 DEF Backed
  <2> QED BY <1>2, <2>1, <2>2 DEF Backed
<1>3. EventsBacked'
  <2> SUFFICES ASSUME NEW i \in 1..Len(events'), events'[i].kind # "delete"
               PROVE  Backed(events[i].pod.uid, i + 1)'
    BY DEF EventsBacked
  <2>1. CASE i \in 1..Len(events)
    <3>1. events'[i] = events[i] /\ i + 1 \in 1..(Len(events) + 1)
      BY <1>1, <2>1
    <3>2. PICK uid : uid = events[i].pod.uid
      OBVIOUS
    <3>3. Backed(uid, i + 1)
      BY <2>1, <3>1, <3>2 DEF QueueInv, EventsBacked
    <3>4. Backed(uid, i + 1)'
      BY <1>2, <3>1, <3>3
    <3> QED BY <3>1, <3>2, <3>4 DEF Backed
  <2>2. CASE i = Len(events) + 1
    BY <1>1, <2>2 DEF Backed
  <2> QED BY <1>1, <2>1, <2>2
<1> QED BY <1>2, <1>3

\* Taking an event leaves backed what its own deletion does not end.
LEMMA TakeBacks ==
    ASSUME TypeOK, QueueInv, Take, UNCHANGED pod
    PROVE  /\ EventsBacked'
           /\ Head(events).kind # "delete" =>
                 /\ \A uid : Backed(uid, 1) => Backed(uid, 1)'
                 /\ \A uid : uid = This.uid => Backed(uid, 1)'
<1>1. /\ Len(events) \in Nat \ {0} /\ Len(events') = Len(events) - 1
      /\ \A i \in 1..Len(events') : events'[i] = events[i + 1]
      /\ Head(events) = events[1] /\ This = events[1].pod
  BY TakeType
<1>2. ASSUME NEW k \in 1..Len(events), NEW uid, Backed(uid, k + 1) PROVE Backed(uid, k)'
  <2>1. CASE pod # None /\ pod.uid = uid
    BY <2>1 DEF Backed
  <2>2. CASE \E j \in (k + 1)..Len(events) : events[j].kind = "delete" /\ events[j].pod.uid = uid
    <3>1. PICK j \in (k + 1)..Len(events) : events[j].kind = "delete" /\ events[j].pod.uid = uid
      BY <2>2
    <3>2. j - 1 \in k..Len(events') /\ events'[j - 1] = events[j]
      BY <1>1
    <3> QED BY <3>1, <3>2 DEF Backed
  <2> QED BY <1>2, <2>1, <2>2 DEF Backed
<1>3. EventsBacked'
  <2> SUFFICES ASSUME NEW i \in 1..Len(events'), events'[i].kind # "delete"
               PROVE  Backed(events[i].pod.uid, i + 1)'
    BY DEF EventsBacked
  <2>1. events'[i] = events[i + 1] /\ i + 1 \in 1..Len(events)
    BY <1>1
  <2>2. PICK uid : uid = events[i + 1].pod.uid
    OBVIOUS
  <2>3. Backed(uid, (i + 1) + 1)
    BY <2>1, <2>2 DEF QueueInv, EventsBacked
  <2>4. Backed(uid, i + 1)'
    BY <1>2, <2>1, <2>3
  <2> QED BY <2>1, <2>2, <2>4 DEF Backed
<1>4. ASSUME Head(events).kind # "delete", NEW uid, Backed(uid, 1) PROVE Backed(uid, 1)'
  <2>1. Backed(uid, 2)
    <3>1. CASE pod # None /\ pod.uid = uid
      BY <3>1 DEF Backed
    <3>2. CASE \E j \in 1..Len(events) : events[j].kind = "delete" /\ events[j].pod.uid = uid
      <4>1. PICK j \in 1..Len(events) : events[j].kind = "delete" /\ events[j].pod.uid = uid
        BY <3>2
      <4>2. j \in 2..Len(events)
        BY <1>1, <1>4, <4>1
      <4> QED BY <4>1, <4>2 DEF Backed
    <3> QED BY <1>4, <3>1, <3>2 DEF Backed
  <2> QED BY <2>1, <1>1, <1>2
<1>5. ASSUME Head(events).kind # "delete", NEW uid, uid = This.uid PROVE Backed(uid, 1)'
  <2>1. Backed(events[1].pod.uid, 1 + 1)
    BY <1>1, <1>5 DEF QueueInv, EventsBacked
  <2> QED BY <2>1, <1>1, <1>2, <1>5
<1> QED BY <1>3, <1>4, <1>5

\* What is to be shown of a step that puts nothing unbacked into the watcher.
LEMMA QueueStep ==
    ASSUME QueueInv, EventsBacked', \A uid : Backed(uid, 1) => Backed(uid, 1)',
           \A e \in Entries' : e \in Entries \/ Backed(e.uid, 1)',
           handling' # None => handling' = handling \/ Backed(handling.uid, 1)'
    PROVE  QueueInv'
<1>1. EntriesBacked'
  BY EntriesBackedAlt DEF QueueInv, EntriesBacked, Backed, DeletionQueued
<1>2. HandlingBacked'
  <2> SUFFICES ASSUME handling' # None PROVE Backed(handling.uid, 1)'
    BY DEF HandlingBacked
  <2>1. CASE handling' = handling
    <3>1. PICK uid : uid = handling.uid
      OBVIOUS
    <3>2. Backed(uid, 1)'
      BY <2>1, <3>1 DEF QueueInv, HandlingBacked
    <3> QED BY <2>1, <3>1, <3>2 DEF Backed
  <2> QED BY <2>1
<1> QED BY <1>1, <1>2 DEF QueueInv

\* A step that leaves the queue and the pod alone, and at most empties entries.
LEMMA QueueKept ==
    ASSUME QueueInv, UNCHANGED <<pod, events>>, handling' \in {handling, None},
           watchImage' \in {watchImage, None}, watchPending' \in {watchPending, None},
           checking' \in {checking, None}
    PROVE  QueueInv'
<1>1. EventsBacked' /\ \A uid : Backed(uid, 1) => Backed(uid, 1)'
  BY DEF QueueInv, EventsBacked, Backed
<1>2. Entries' \subseteq Entries
  BY DEF Entries
<1> QED BY <1>1, <1>2, QueueStep

\* What the checkers have found out is not undone: a Buildkite job that is
\* finished, or past failing, stays so.
LEMMA StateKept ==
    ASSUME StateInv, UNCHANGED <<image, pending>>, ignored' => ignored,
           bk = "finished" => bk' = "finished", GivenUp => GivenUp'
    PROVE  StateInv'
BY DEF StateInv, DeletesFinished, IgnoresOver, IgnoredForCause, GivenUp

\* The ways a FailJob call can end.
LEMMA FailJobType ==
    ASSUME TypeOK, FailJobSucceeds \/ FailJobRefused \/ \E c \in Caller : FailJobTransient(c)
    PROVE  /\ bk' \in {bk, "finished"} /\ (GivenUp => GivenUp')
           /\ refused' \in BOOLEAN /\ (FailJobRefused => GivenUp')
BY DEF FailJobSucceeds, FailJobRefused, FailJobTransient, Accepts, GivenUp, TypeOK

-----------------------------------------------------------------------------
(* The cluster and Buildkite. *)

LEMMA CreatePodInv == ASSUME WatchInv, CreatePod PROVE WatchInv'
<1> USE NoneAssumption DEF WatchInv, CreatePod, Controller, watchVars, checkerVars
<1> DEFINE p == [uid |-> uids + 1, phase |-> "Pending", images |-> "fine", initFailed |-> FALSE]
<1>1. uids' \in 0..MaxPods /\ uids + 1 \in 1..MaxPods
  BY PodWatcherAssumption DEF TypeOK
<1>2. p \in Pod /\ pod' = p /\ Report("add", p)
  BY <1>1 DEF Pod, Report
<1>3. TypeOK'
  <2>1. events' \in Seq(Event)
    BY <1>2, ReportType
  <2> QED BY <1>1, <1>2, <2>1 DEF TypeOK
<1>4. EventsBacked' /\ \A uid : Backed(uid, 1) => Backed(uid, 1)'
  BY <1>2, ReportBacks DEF TypeOK
<1>5. QueueInv'
  BY <1>4, QueueStep DEF Entries
<1>6. StateInv'
  BY StateKept DEF Accepts, GivenUp
<1> QED BY <1>3, <1>5, <1>6

\* The pod changes, and the change is reported.
LEMMA ChangeInv ==
    ASSUME WatchInv, NEW p \in Pod, pod # None, p.uid = pod.uid, Change(p),
           UNCHANGED <<uids, aged, overdue, bk, Controller>>
    PROVE  WatchInv'
<1> USE NoneAssumption DEF WatchInv, Controller, watchVars, checkerVars
<1>1. pod' = p /\ Report("update", p)
  BY DEF Change
<1>2. TypeOK'
  <2>1. events' \in Seq(Event)
    BY <1>1, ReportType
  <2> QED BY <1>1, <2>1 DEF TypeOK
<1>3. EventsBacked' /\ \A uid : Backed(uid, 1) => Backed(uid, 1)'
  BY <1>1, ReportBacks DEF TypeOK
<1>4. QueueInv'
  BY <1>3, QueueStep DEF Entries
<1>5. StateInv'
  BY StateKept DEF Accepts, GivenUp
<1> QED BY <1>2, <1>4, <1>5

LEMMA PodProgressInv == ASSUME WatchInv, PodProgress \/ PullFailsAgain PROVE WatchInv'
<1>1. pod \in Pod
  BY DEF WatchInv, TypeOK, PodProgress, PullFailsAgain
<1>2. UNCHANGED <<uids, aged, overdue, bk, Controller>> /\ pod # None
  BY DEF PodProgress, PullFailsAgain
<1>3. \E p \in Pod : p.uid = pod.uid /\ Change(p)
  <2>1. CASE PullFailsAgain
    BY <1>1, <2>1 DEF PullFailsAgain
  <2>2. ASSUME NEW i \in {"fine", "other", "failing", "blocked", "invalid"}
        PROVE  [pod EXCEPT !.images = i] \in Pod /\ [pod EXCEPT !.images = i].uid = pod.uid
    BY <1>1 DEF Pod
  <2>3. ASSUME NEW h \in {"Running", "Over"}
        PROVE  [pod EXCEPT !.phase = h] \in Pod /\ [pod EXCEPT !.phase = h].uid = pod.uid
    BY <1>1 DEF Pod
  <2>4. [pod EXCEPT !.initFailed = TRUE] \in Pod /\ [pod EXCEPT !.initFailed = TRUE].uid = pod.uid
    BY <1>1 DEF Pod
  <2> QED BY <2>1, <2>2, <2>3, <2>4 DEF PodProgress
<1> QED BY <1>2, <1>3, ChangeInv

\* The pod goes, and its deletion is reported.
LEMMA RemoveBacks ==
    ASSUME WatchInv, pod # None, RemovePod
    PROVE  /\ events' \in Seq(Event) /\ pod' = None
           /\ EventsBacked' /\ \A uid : Backed(uid, 1) => Backed(uid, 1)'
<1>1. pod \in Pod /\ pod' = None /\ Report("delete", pod)
  BY DEF WatchInv, TypeOK, RemovePod
<1>2. PICK p \in Pod : p = pod /\ Report("delete", p)
  BY <1>1
<1>3. events' \in Seq(Event)
  BY <1>2, ReportType DEF WatchInv
<1>4. EventsBacked' /\ \A k \in 1..(Len(events) + 1) : \A uid : Backed(uid, k) => Backed(uid, k)'
  BY <1>1, <1>2, ReportBacks DEF WatchInv
<1>5. 1 \in 1..(Len(events) + 1)
  BY DEF WatchInv, TypeOK
<1> QED BY <1>1, <1>3, <1>4, <1>5

LEMMA PodDeletedInv == ASSUME WatchInv, PodDeleted PROVE WatchInv'
<1> USE DEF PodDeleted, Controller, watchVars, checkerVars
<1>1. events' \in Seq(Event) /\ pod' = None
      /\ EventsBacked' /\ \A uid : Backed(uid, 1) => Backed(uid, 1)'
  BY RemoveBacks
<1>2. TypeOK'
  BY <1>1 DEF WatchInv, TypeOK
<1>3. QueueInv'
  BY <1>1, QueueStep DEF WatchInv, Entries
<1>4. StateInv'
  BY StateKept DEF WatchInv, Accepts, GivenUp
<1> QED BY <1>2, <1>3, <1>4 DEF WatchInv

LEMMA TimePassesInv ==
    ASSUME WatchInv, GracePeriodPasses \/ PendingTimeoutPasses \/ BuildkiteChanges
    PROVE  WatchInv'
<1> USE DEF GracePeriodPasses, PendingTimeoutPasses, BuildkiteChanges, Controller, clusterVars,
            watchVars, checkerVars
<1>1. UNCHANGED <<pod, events, uids, handling, watchVars, ignored, image, pending, checkerVars>>
  OBVIOUS
<1>2. aged' \subseteq 1..MaxPods /\ overdue' \subseteq 1..MaxPods
  <2>1. pod # None => pod.uid \in 1..MaxPods
    BY DEF WatchInv, TypeOK, Pod
  <2> QED BY <2>1 DEF WatchInv, TypeOK
<1>3. /\ bk' \in {"scheduled", "reserved", "running", "canceling", "canceled", "expired", "finished"}
      /\ bk = "finished" => bk' = "finished"
      /\ GivenUp => GivenUp'
  BY DEF WatchInv, TypeOK, Accepts, GivenUp
<1>4. TypeOK'
  BY <1>1, <1>2, <1>3 DEF WatchInv, TypeOK
<1>5. QueueInv'
  BY <1>1, QueueKept DEF WatchInv
<1>6. StateInv'
  BY <1>1, <1>3, StateKept DEF WatchInv
<1> QED BY <1>4, <1>5, <1>6 DEF WatchInv

-----------------------------------------------------------------------------
(* The informer handlers. *)

\* The switches of runChecks register the pod they were called with, or nothing.
LEMMA PhaseTypes ==
    ASSUME TypeOK, NEW p \in Pod, StopByPhase(p) \/ WatchByPhase(p)
    PROVE  /\ watchImage' \in {watchImage, p, None} /\ watchPending' \in {watchPending, p, None}
           /\ checking' \in {checking, [kind |-> "pod", uid |-> p.uid], None}
           /\ notified' \in BOOLEAN
BY DEF TypeOK, StopByPhase, WatchByPhase, stopWatchingForImageFailure, StopCheckingJob, AddPod,
       watchVars

LEMMA PhaseEntries ==
    ASSUME TypeOK, NEW p \in Pod, StopByPhase(p) \/ WatchByPhase(p), Backed(p.uid, 1)'
    PROVE  \A e \in Entries' : e \in Entries \/ Backed(e.uid, 1)'
<1> SUFFICES ASSUME NEW e \in Entries' PROVE e \in Entries \/ Backed(e.uid, 1)'
  OBVIOUS
<1>1. e \in {watchImage', watchPending', checking'} /\ e # None
  BY DEF Entries
<1>2. e \in {watchImage, watchPending, checking} \/ e.uid = p.uid
  BY <1>1, PhaseTypes
<1> QED BY <1>1, <1>2 DEF Entries

LEMMA OnDeleteInv == ASSUME WatchInv, OnDelete PROVE WatchInv'
<1> USE DEF OnDelete, stopWatchingForImageFailure, StopCheckingJob
<1>1. events' \in Seq(Event)
  BY TakeType DEF WatchInv
<1>2. TypeOK'
  BY <1>1 DEF WatchInv, TypeOK
<1>3. QueueInv'
  <2>1. EventsBacked'
    BY TakeBacks DEF WatchInv
  <2>2. Entries' = {} /\ handling' = None
    BY DEF Entries, Take
  <2> QED BY <2>1, <2>2 DEF QueueInv, EntriesBacked, HandlingBacked
<1>4. StateInv'
  BY StateKept DEF WatchInv, Accepts, GivenUp
<1> QED BY <1>2, <1>3, <1>4 DEF WatchInv

\* An event is handled: what it makes the watcher keep is backed.
LEMMA RunChecksInv == ASSUME WatchInv, RunChecks \/ RunChecksInitFailed PROVE WatchInv'
<1> USE DEF RunChecks, RunChecksInitFailed
<1>1. PICK p \in Pod : p = This
  BY TakeType DEF WatchInv
<1>2. /\ Take /\ Head(events).kind # "delete" /\ (StopByPhase(p) \/ WatchByPhase(p))
      /\ handling' \in {handling, p} /\ events' \in Seq(Event)
      /\ UNCHANGED <<pod, uids, aged, overdue, bk, refused, ignored, image, pending>>
  BY <1>1, TakeType DEF WatchInv
<1>3. TypeOK'
  BY <1>2, PhaseTypes DEF WatchInv, TypeOK
<1>4. QueueInv'
  <2>1. EventsBacked' /\ (\A uid : Backed(uid, 1) => Backed(uid, 1)') /\ Backed(p.uid, 1)'
    BY <1>1, <1>2, TakeBacks DEF WatchInv
  <2>2. \A e \in Entries' : e \in Entries \/ Backed(e.uid, 1)'
    BY <1>2, <2>1, PhaseEntries DEF WatchInv
  <2>3. handling' # None => handling' = handling \/ Backed(handling.uid, 1)'
    <3>1. CASE handling' = p
      BY <2>1, <3>1 DEF Backed
    <3> QED BY <1>2, <3>1
  <2> QED BY <2>1, <2>2, <2>3, QueueStep DEF WatchInv
<1>5. StateInv'
  BY <1>2, StateKept DEF WatchInv, Accepts, GivenUp
<1> QED BY <1>3, <1>4, <1>5 DEF WatchInv

\* The report of an init failure returns: after a refusal the job is ignored.
LEMMA InitFailureInv == ASSUME WatchInv, failOnInitContainerFailure PROVE WatchInv'
<1> USE DEF failOnInitContainerFailure, clusterVars
<1>1. PICK p \in Pod : p = handling
  BY DEF WatchInv, TypeOK
<1>2. handling # None /\ WatchByPhase(p) /\ handling' = None /\ UNCHANGED <<clusterVars, image, pending>>
  BY <1>1
<1>3. bk' \in {bk, "finished"} /\ refused' \in BOOLEAN /\ (GivenUp => GivenUp')
      /\ (FailJobRefused => GivenUp')
  BY FailJobType DEF WatchInv, Caller
<1>4. TypeOK'
  BY <1>2, <1>3, PhaseTypes DEF WatchInv, TypeOK
<1>5. QueueInv'
  <2>1. EventsBacked' /\ \A uid : Backed(uid, 1) <=> Backed(uid, 1)'
    BY <1>2 DEF WatchInv, QueueInv, EventsBacked, Backed
  <2>2. Backed(p.uid, 1)'
    <3>1. Backed(p.uid, 1)
      BY <1>1, <1>2 DEF WatchInv, QueueInv, HandlingBacked
    <3> QED BY <2>1, <3>1
  <2>3. \A e \in Entries' : e \in Entries \/ Backed(e.uid, 1)'
    BY <1>2, <2>2, PhaseEntries DEF WatchInv
  <2> QED BY <1>2, <2>1, <2>3, QueueStep DEF WatchInv
<1>6. StateInv'
  <2>1. ignored' => GivenUp'
    BY <1>3 DEF WatchInv, StateInv, IgnoredForCause, GivenUp
  <2> QED BY <1>2, <1>3, <2>1 DEF WatchInv, StateInv, DeletesFinished, IgnoresOver, IgnoredForCause, GivenUp
<1> QED BY <1>4, <1>5, <1>6 DEF WatchInv

-----------------------------------------------------------------------------
(* The checkers. *)

\* A checker gets on to its next stage, or ends.
LEMMA ImageTypes ==
    ASSUME TypeOK, image.stage # "idle"
    PROVE  /\ image \in [stage : {"ask", "fail", "delete", "ignore", "notify"}, pod : Pod]
           /\ \A s \in {"ask", "fail", "delete", "ignore", "notify"} :
                 ImageStage(s) =>
                     /\ image' \in [stage : {"ask", "fail", "delete", "ignore", "notify"}, pod : Pod]
                     /\ image'.stage = s
           /\ ImageEnds => image' = Resting /\ image'.stage = "idle"
<1>1. image \in [stage : {"ask", "fail", "delete", "ignore", "notify"}, pod : Pod]
  BY DEF TypeOK, Resting
<1> QED BY <1>1 DEF ImageStage, ImageEnds, Resting

LEMMA PendingTypes ==
    ASSUME TypeOK, pending.stage # "idle"
    PROVE  /\ pending \in [stage : {"fail", "delete", "ignore"}, pod : Pod]
           /\ \A s \in {"fail", "delete", "ignore"} :
                 PendingStage(s) =>
                     /\ pending' \in [stage : {"fail", "delete", "ignore"}, pod : Pod]
                     /\ pending'.stage = s
           /\ PendingEnds => pending' = Resting /\ pending'.stage = "idle"
<1>1. pending \in [stage : {"fail", "delete", "ignore"}, pod : Pod]
  BY DEF TypeOK, Resting
<1> QED BY <1>1 DEF PendingStage, PendingEnds, Resting

\* The parts of the state a checker's call may not reach are as they were.
CheckerFrame ==
    /\ UNCHANGED <<uids, aged, overdue, handling, checkerVars>>
    /\ watchImage' \in {watchImage, None} /\ watchPending' \in {watchPending, None}
    /\ notified' \in {notified, TRUE}
    /\ \/ UNCHANGED <<pod, events>>
       \/ pod # None /\ RemovePod

LEMMA CheckerQueue == ASSUME WatchInv, CheckerFrame PROVE QueueInv'
<1> USE DEF CheckerFrame, checkerVars
<1>1. CASE UNCHANGED <<pod, events>>
  BY <1>1, QueueKept DEF WatchInv
<1>2. CASE pod # None /\ RemovePod
  <2>1. EventsBacked' /\ \A uid : Backed(uid, 1) => Backed(uid, 1)'
    BY <1>2, RemoveBacks
  <2>2. Entries' \subseteq Entries
    BY DEF Entries
  <2> QED BY <2>1, <2>2, QueueStep DEF WatchInv
<1> QED BY <1>1, <1>2

LEMMA CheckerTypes ==
    ASSUME WatchInv, CheckerFrame, bk' \in {bk, "finished"}, refused' \in BOOLEAN,
           ignored' \in {ignored, TRUE},
           image' \in {Resting} \cup [stage : {"ask", "fail", "delete", "ignore", "notify"}, pod : Pod],
           pending' \in {Resting} \cup [stage : {"fail", "delete", "ignore"}, pod : Pod]
    PROVE  TypeOK'
<1>1. events' \in Seq(Event) /\ pod' \in {pod, None}
  BY RemoveBacks DEF CheckerFrame, WatchInv, TypeOK
<1> QED BY <1>1 DEF CheckerFrame, checkerVars, WatchInv, TypeOK

\* What an action of the image failure checker has found out, stage by stage.
ImageFound ==
    /\ image'.stage = "delete" => bk' = "finished"
    /\ image'.stage = "ignore" => GivenUp'
    /\ ignored' => ignored \/ GivenUp'

LEMMA ImageStepFinds ==
    ASSUME WatchInv, ImageStep \/ ImageGivesUp
    PROVE  /\ CheckerFrame /\ UNCHANGED pending /\ ImageFound
           /\ bk' \in {bk, "finished"} /\ refused' \in BOOLEAN /\ ignored' \in {ignored, TRUE}
           /\ (GivenUp => GivenUp')
           /\ image' \in {Resting} \cup [stage : {"ask", "fail", "delete", "ignore", "notify"}, pod : Pod]
<1> USE DEF CheckerFrame, ImageFound, clusterVars, watchVars, checkerVars
<1>0. TypeOK /\ refused \in BOOLEAN
  BY DEF WatchInv, TypeOK
<1>1. CASE ImageBegins
  <2>1. image' = [stage |-> "ask", pod |-> watchImage] /\ watchImage \in Pod
    BY <1>1 DEF ImageBegins, WatchInv, TypeOK
  <2> QED BY <1>0, <1>1, <2>1 DEF ImageBegins, Accepts, GivenUp
<1>2. CASE ImageAsks
  <2>1. \/ ImageStage("fail") \/ ImageStage("notify")
        \/ ImageStage("ignore") /\ bk \in {"canceling", "canceled", "finished"}
        \/ ImageEnds
    BY <1>2 DEF ImageAsks
  <2> QED BY <1>0, <1>2, <2>1, ImageTypes DEF ImageAsks, Accepts, GivenUp
<1>3. CASE ImageFails
  <2>1. bk' \in {bk, "finished"} /\ refused' \in BOOLEAN /\ (GivenUp => GivenUp')
    BY <1>0, <1>3, FailJobType DEF ImageFails
  <2> QED BY <1>0, <1>3, <2>1, ImageTypes DEF ImageFails, FailJobSucceeds
<1>4. CASE ImageDeletes
  <2>1. ImageStage("ignore") /\ image.stage = "delete" /\ UNCHANGED <<bk, refused, ignored, pending>>
        /\ CheckerFrame
    BY <1>4 DEF ImageDeletes, forcefullyDeletePod
  <2>2. bk = "finished"
    BY <2>1 DEF WatchInv, StateInv, DeletesFinished
  <2> QED BY <1>0, <2>1, <2>2, ImageTypes DEF Accepts, GivenUp
<1>5. CASE ImageIgnores
  <2>1. GivenUp
    BY <1>5 DEF ImageIgnores, WatchInv, StateInv, IgnoresOver
  <2> QED BY <1>0, <1>5, <2>1, ImageTypes DEF ImageIgnores, Accepts, GivenUp
<1>6. CASE ImageNotifies
  BY <1>0, <1>6, ImageTypes DEF ImageNotifies, Accepts, GivenUp
<1>7. CASE ImageGivesUp
  <2>1. bk' \in {bk, "finished"} /\ refused' \in BOOLEAN /\ (GivenUp => GivenUp')
    BY <1>0, <1>7, FailJobType DEF ImageGivesUp, Caller, Accepts, GivenUp
  <2> QED BY <1>0, <1>7, <2>1, ImageTypes DEF ImageGivesUp
<1> QED BY <1>1, <1>2, <1>3, <1>4, <1>5, <1>6, <1>7 DEF ImageStep

LEMMA ImageInv == ASSUME WatchInv, ImageStep \/ ImageGivesUp PROVE WatchInv'
<1>1. TypeOK'
  BY ImageStepFinds, CheckerTypes DEF WatchInv, TypeOK
<1>2. QueueInv'
  BY ImageStepFinds, CheckerQueue
<1>3. StateInv'
  BY ImageStepFinds
     DEF ImageFound, WatchInv, StateInv, DeletesFinished, IgnoresOver, IgnoredForCause, GivenUp
<1> QED BY <1>1, <1>2, <1>3 DEF WatchInv

\* Likewise for the pending timeout checker.
PendingFound ==
    /\ pending'.stage = "delete" => bk' = "finished"
    /\ pending'.stage = "ignore" => GivenUp'
    /\ ignored' => ignored \/ GivenUp'

LEMMA PendingStepFinds ==
    ASSUME WatchInv, PendingStep \/ PendingGivesUp
    PROVE  /\ CheckerFrame /\ UNCHANGED image /\ PendingFound
           /\ bk' \in {bk, "finished"} /\ refused' \in BOOLEAN /\ ignored' \in {ignored, TRUE}
           /\ (GivenUp => GivenUp')
           /\ pending' \in {Resting} \cup [stage : {"fail", "delete", "ignore"}, pod : Pod]
<1> USE DEF CheckerFrame, PendingFound, clusterVars, watchVars, checkerVars
<1>0. TypeOK /\ refused \in BOOLEAN
  BY DEF WatchInv, TypeOK
<1>1. CASE PendingBegins
  <2>1. pending' = [stage |-> "fail", pod |-> watchPending] /\ watchPending \in Pod
    BY <1>1 DEF PendingBegins, WatchInv, TypeOK
  <2> QED BY <1>0, <1>1, <2>1 DEF PendingBegins, Accepts, GivenUp
<1>2. CASE PendingFails
  <2>1. bk' \in {bk, "finished"} /\ refused' \in BOOLEAN /\ (GivenUp => GivenUp')
    BY <1>0, <1>2, FailJobType DEF PendingFails
  <2>2. \/ PendingStage("delete") /\ bk' = "finished"
        \/ PendingStage("ignore") /\ GivenUp'
    BY <1>0, <1>2, FailJobType DEF PendingFails, FailJobSucceeds
  <2> QED BY <1>0, <1>2, <2>1, <2>2, PendingTypes DEF PendingFails
<1>3. CASE PendingDeletes
  <2>1. PendingStage("ignore") /\ pending.stage = "delete" /\ UNCHANGED <<bk, refused, ignored, image>>
        /\ CheckerFrame
    BY <1>3 DEF PendingDeletes, forcefullyDeletePod
  <2>2. bk = "finished"
    BY <2>1 DEF WatchInv, StateInv, DeletesFinished
  <2> QED BY <1>0, <2>1, <2>2, PendingTypes DEF Accepts, GivenUp
<1>4. CASE PendingIgnores
  <2>1. GivenUp
    BY <1>4 DEF PendingIgnores, WatchInv, StateInv, IgnoresOver
  <2> QED BY <1>0, <1>4, <2>1, PendingTypes DEF PendingIgnores, Accepts, GivenUp
<1>5. CASE PendingGivesUp
  <2>1. bk' \in {bk, "finished"} /\ refused' \in BOOLEAN /\ (GivenUp => GivenUp')
    BY <1>0, <1>5, FailJobType DEF PendingGivesUp, Caller, Accepts, GivenUp
  <2> QED BY <1>0, <1>5, <2>1, PendingTypes DEF PendingGivesUp
<1> QED BY <1>1, <1>2, <1>3, <1>4, <1>5 DEF PendingStep

LEMMA PendingInv == ASSUME WatchInv, PendingStep \/ PendingGivesUp PROVE WatchInv'
<1>1. TypeOK'
  BY PendingStepFinds, CheckerTypes DEF WatchInv, TypeOK
<1>2. QueueInv'
  BY PendingStepFinds, CheckerQueue
<1>3. StateInv'
  BY PendingStepFinds
     DEF PendingFound, WatchInv, StateInv, DeletesFinished, IgnoresOver, IgnoredForCause, GivenUp
<1> QED BY <1>1, <1>2, <1>3 DEF WatchInv

LEMMA CancelCheckerInv == ASSUME WatchInv, CancelCheckerStops PROVE WatchInv'
<1> USE DEF CancelCheckerStops, StopCheckingJob, clusterVars, watchVars
<1>1. TypeOK'
  BY DEF WatchInv, TypeOK
<1>2. QueueInv'
  BY QueueKept DEF WatchInv
<1>3. StateInv'
  BY StateKept DEF WatchInv, Accepts, GivenUp
<1> QED BY <1>1, <1>2, <1>3 DEF WatchInv

-----------------------------------------------------------------------------
(* The theorems. *)

\* WatchInv holds throughout: the invariant the other theorems rest on.
THEOREM WatchInvariant == Spec => []WatchInv
<1>1. WatchInv /\ [Next]_vars => WatchInv'
  <2> SUFFICES ASSUME WatchInv, [Next]_vars PROVE WatchInv'
    OBVIOUS
  <2>1. CASE Step(Environment)
    BY <2>1, CreatePodInv, PodProgressInv, PodDeletedInv, TimePassesInv DEF Step, Environment
  <2>2. CASE Step(Handler)
    BY <2>2, OnDeleteInv, RunChecksInv, InitFailureInv DEF Step, Handler
  <2>3. CASE Step(ImageStep \/ ImageGivesUp)
    BY <2>3, ImageInv DEF Step
  <2>4. CASE Step(PendingStep \/ PendingGivesUp)
    BY <2>4, PendingInv DEF Step
  <2>5. CASE Step(CancelCheckerStops)
    BY <2>5, CancelCheckerInv DEF Step
  <2>6. CASE UNCHANGED vars
    <3> USE <2>6 DEF vars, clusterVars, watchVars, checkerVars
    <3>1. TypeOK'
      BY DEF WatchInv, TypeOK
    <3>2. QueueInv'
      BY QueueKept DEF WatchInv
    <3>3. StateInv'
      BY StateKept DEF WatchInv, Accepts, GivenUp
    <3> QED BY <3>1, <3>2, <3>3 DEF WatchInv
  <2> QED BY <2>1, <2>2, <2>3, <2>4, <2>5, <2>6 DEF Next
<1> QED BY InitInv, <1>1, PTL DEF Spec

\* What the watcher and the cancel checker keep about a pod ends with that pod,
\* in whatever order events, checkers and calls come (pod_watcher.go: OnDelete,
\* runChecks).
THEOREM EntriesBackedHolds == Spec => []EntriesBacked
<1>1. WatchInv => EntriesBacked
  BY DEF WatchInv, QueueInv
<1> QED BY WatchInvariant, <1>1, PTL

\* No checker force-deletes a pod an agent works in: the job's acquisition may race
\* with FailJob at any point (pod_watcher.go: failForImageFailure and
\* failForPendingTimeout delete only after FailJob succeeded).
THEOREM NoAgentCutOffHolds == Spec => []NoAgentCutOff
<1>1. WatchInv => NoAgentCutOff
  BY DEF WatchInv, StateInv, DeletesFinished, NoAgentCutOff
<1> QED BY WatchInvariant, <1>1, PTL

\* For any number of pods, whichever calls fail: a job is ignored only once it can no
\* longer be failed, or after Buildkite has refused to fail it (pod_watcher.go:45-46,
\* 408, 709).
THEOREM IgnoredForCauseHolds == Spec => []IgnoredForCause
<1>1. WatchInv => IgnoredForCause
  BY DEF WatchInv, StateInv
<1> QED BY WatchInvariant, <1>1, PTL
=============================================================================
