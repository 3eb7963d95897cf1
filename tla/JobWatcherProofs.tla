-------------------------- MODULE JobWatcherProofs --------------------------
(***************************************************************************)
(* Theorems about the job watcher, its reaper and the cancel checker, for  *)
(* any number of Jobs of the same name and any length of the informer's    *)
(* queue.                                                                  *)
(***************************************************************************)
EXTENDS JobWatcher, SequenceTheorems, TLAPS

-----------------------------------------------------------------------------
(* The inductive invariant. *)

\* The last the watcher hears of a Job that is gone is its deletion.
DeletionLast == kjob = None /\ events # <<>> => events[Len(events)].kind = "delete"

\* UIDs are handed out in order.
UidsUsed ==
    /\ kjob # None => kjob.uid <= uids
    /\ \A i \in 1..Len(events) : events[i].job.uid <= uids

\* An event that says a Job is over is not about the Job that is open now.
Ended(e) == e.kind = "delete" \/ Finished(e.job)
EndedNotOpen ==
    \A i \in 1..Len(events) : Ended(events[i]) /\ Open => events[i].job.uid # kjob.uid

QueueInv == DeletionLast /\ UidsUsed /\ EndedNotOpen
JobsInv == TypeOK /\ QueueInv /\ BookkeepingBacked /\ OpenJobKeepsToken

-----------------------------------------------------------------------------
(* The queue. *)

LEMMA InitInv == Init => JobsInv
<1> SUFFICES ASSUME Init PROVE JobsInv
  OBVIOUS
<1>1. events = <<>> /\ kjob = None /\ stalling = None /\ checking = None
  BY DEF Init, CheckerInit
<1>2. TypeOK
  <2>1. uids \in 0..MaxUid /\ hadPod = {} /\ tokens = {}
    BY JobWatcherAssumption DEF Init
  <2>2. events \in Seq(Event)
    BY <1>1
  <2> QED BY <2>1, <2>2 DEF Init, TypeOK
<1>3. QueueInv
  BY <1>1 DEF QueueInv, DeletionLast, UidsUsed, EndedNotOpen
<1>4. BookkeepingBacked /\ OpenJobKeepsToken
  BY <1>1 DEF BookkeepingBacked, CheckingJob, OpenJobKeepsToken, Open
<1> QED BY <1>2, <1>3, <1>4 DEF JobsInv

\* An event is put at the end of the queue.
LEMMA ReportType ==
    ASSUME TypeOK, NEW kind \in {"add", "update", "delete"}, NEW job \in KJob, Report(kind, job)
    PROVE  /\ events' \in Seq(Event)
           /\ Len(events) \in Nat /\ Len(events') = Len(events) + 1
           /\ \A i \in 1..Len(events) : events'[i] = events[i]
           /\ events'[Len(events) + 1] = [kind |-> kind, job |-> job]
<1>1. [kind |-> kind, job |-> job] \in Event
  BY DEF Event
<1> QED BY <1>1 DEF TypeOK, Report

\* An event is taken from the front.
LEMMA TakeType ==
    ASSUME TypeOK, Take
    PROVE  /\ events' \in Seq(Event)
           /\ Len(events) \in Nat \ {0} /\ Len(events') = Len(events) - 1
           /\ \A i \in 1..Len(events') : events'[i] = events[i + 1]
           /\ Next1 = events[1] /\ Next1 \in Event /\ Next1.job \in KJob /\ Next1.job.uid \in 1..MaxUid
<1>1. events \in Seq(Event) /\ events # <<>> /\ events' = Tail(events)
  BY DEF TypeOK, Take
<1>2. Next1 = events[1] /\ events[1] \in Event
  BY <1>1 DEF Next1
<1>3. Next1.job \in KJob
  BY <1>2 DEF Event
<1>4. Next1.job.uid \in 1..MaxUid
  BY <1>3 DEF KJob
<1> QED BY <1>1, <1>2, <1>3, <1>4

\* The Job changes, and the change is reported.  It does not open again.
LEMMA ChangeQueue ==
    ASSUME JobsInv, kjob # None, NEW job \in KJob, job.uid = kjob.uid, Change(job),
           job.outcome = "open" => kjob.outcome = "open", UNCHANGED <<uids, tokens>>
    PROVE  /\ events' \in Seq(Event) /\ kjob' \in KJob
           /\ QueueInv' /\ BookkeepingBacked' /\ OpenJobKeepsToken'
<1> USE NoneAssumption DEF JobsInv
<1>1. kjob' = job /\ kjob' # None /\ Report("update", job)
  BY DEF Change
<1>2. /\ events' \in Seq(Event) /\ Len(events) \in Nat /\ Len(events') = Len(events) + 1
      /\ \A i \in 1..Len(events) : events'[i] = events[i]
      /\ events'[Len(events) + 1] = [kind |-> "update", job |-> job]
  BY <1>1, ReportType
<1>3. \A i \in 1..Len(events') : i \in 1..Len(events) \/ i = Len(events) + 1
  BY <1>2
<1>4. UidsUsed'
  BY <1>1, <1>2, <1>3 DEF QueueInv, UidsUsed
<1>5. EndedNotOpen'
  <2> SUFFICES ASSUME NEW i \in 1..Len(events'), Ended(events[i])', Open'
               PROVE  events'[i].job.uid # kjob'.uid
    BY DEF EndedNotOpen
  <2>1. job.outcome = "open" /\ Open
    BY <1>1 DEF Open
  <2>2. CASE i \in 1..Len(events)
    BY <1>1, <1>2, <2>1, <2>2 DEF QueueInv, EndedNotOpen, Ended, Finished
  <2>3. CASE i = Len(events) + 1
    BY <1>2, <2>1, <2>3 DEF Ended, Finished
  <2> QED BY <1>3, <2>2, <2>3
<1>6. BookkeepingBacked' /\ DeletionLast'
  BY <1>1 DEF BookkeepingBacked, DeletionLast
<1>7. OpenJobKeepsToken'
  BY <1>1 DEF OpenJobKeepsToken, Open
<1> QED BY <1>1, <1>2, <1>4, <1>5, <1>6, <1>7 DEF QueueInv

\* The Job is deleted with its Secret, and the deletion is reported.
LEMMA DeleteQueue ==
    ASSUME JobsInv, kjob # None, DeleteFromCluster, UNCHANGED uids
    PROVE  /\ events' \in Seq(Event) /\ kjob' = None /\ tokens' \subseteq tokens
           /\ QueueInv' /\ BookkeepingBacked' /\ OpenJobKeepsToken'
<1> USE DEF JobsInv
<1>1. kjob' = None /\ tokens' \subseteq tokens /\ ~Open'
  BY DEF DeleteFromCluster, Open
<1>2. PICK job \in KJob : job = kjob
  BY DEF TypeOK
<1>3. /\ events' \in Seq(Event) /\ Len(events) \in Nat /\ Len(events') = Len(events) + 1
      /\ \A i \in 1..Len(events) : events'[i] = events[i]
      /\ events'[Len(events) + 1] = [kind |-> "delete", job |-> job]
  BY <1>2, ReportType DEF DeleteFromCluster
<1>4. \A i \in 1..Len(events') : i \in 1..Len(events) \/ i = Len(events) + 1
  BY <1>3
<1>5. UidsUsed'
  BY <1>1, <1>2, <1>3, <1>4 DEF QueueInv, UidsUsed
<1>6. DeletionLast' /\ EndedNotOpen' /\ OpenJobKeepsToken'
  BY <1>1, <1>3 DEF DeletionLast, EndedNotOpen, OpenJobKeepsToken
<1>7. BookkeepingBacked'
  <2>1. DeletionQueued'
    BY <1>3 DEF DeletionQueued
  <2> QED BY <2>1 DEF BookkeepingBacked
<1> QED BY <1>1, <1>3, <1>5, <1>6, <1>7 DEF QueueInv

\* An event is taken; if the Job is gone, its deletion is still to come, unless
\* that is the event taken.
LEMMA TakeQueue ==
    ASSUME JobsInv, Take, UNCHANGED <<kjob, uids>>
    PROVE  /\ QueueInv'
           /\ Next1.kind # "delete" => kjob # None \/ DeletionQueued'
           /\ Ended(Next1) /\ Open => Next1.job.uid # kjob.uid
<1> USE DEF JobsInv
<1>1. /\ Len(events) \in Nat \ {0} /\ Len(events') = Len(events) - 1
      /\ \A i \in 1..Len(events') : i + 1 \in 1..Len(events) /\ events'[i] = events[i + 1]
      /\ Next1 = events[1]
  BY TakeType
<1>2. UidsUsed'
  BY <1>1 DEF QueueInv, UidsUsed
<1>3. EndedNotOpen'
  BY <1>1 DEF QueueInv, EndedNotOpen, Ended, Open, Finished
<1>4. kjob = None => events[Len(events)].kind = "delete"
  BY <1>1 DEF QueueInv, DeletionLast
<1>5. Len(events') # 0 => events'[Len(events')] = events[Len(events)]
  BY <1>1
<1>6. DeletionLast'
  BY <1>1, <1>4, <1>5, TakeType DEF DeletionLast
<1>7. ASSUME kjob = None, Next1.kind # "delete" PROVE DeletionQueued'
  <2>1. Len(events) # 1
    BY <1>1, <1>4, <1>7
  <2>2. Len(events') \in 1..Len(events')
    BY <1>1, <2>1
  <2> QED BY <1>4, <1>5, <1>7, <2>2 DEF DeletionQueued
<1>8. Ended(Next1) /\ Open => Next1.job.uid # kjob.uid
  BY <1>1 DEF QueueInv, EndedNotOpen
<1> QED BY <1>2, <1>3, <1>6, <1>7, <1>8 DEF QueueInv

\* A Secret that is cleaned up is never the open Job's.
LEMMA CleanupKeeps ==
    ASSUME JobsInv, Take, UNCHANGED <<kjob, uids>>, Ended(Next1), CleanupSecret(Next1.job.uid)
    PROVE  OpenJobKeepsToken' /\ tokens' \subseteq tokens
<1>1. tokens' \subseteq tokens /\ \A u \in tokens : u # Next1.job.uid => u \in tokens'
  BY DEF CleanupSecret
<1>2. Open => Next1.job.uid # kjob.uid
  BY TakeQueue
<1> QED BY <1>1, <1>2 DEF JobsInv, OpenJobKeepsToken, Open

\* A step that leaves the cluster alone, and at most empties the watcher's maps.
LEMMA QuietQueue ==
    ASSUME JobsInv, UNCHANGED <<kjob, uids, tokens, events>>,
           stalling' # None => stalling # None, CheckingJob' => CheckingJob
    PROVE  QueueInv' /\ BookkeepingBacked' /\ OpenJobKeepsToken'
BY DEF JobsInv, QueueInv, DeletionLast, UidsUsed, EndedNotOpen, Ended, Finished, Open,
       BookkeepingBacked, DeletionQueued, OpenJobKeepsToken

-----------------------------------------------------------------------------
(* The cluster and Buildkite. *)

LEMMA CreateJobInv == ASSUME JobsInv, CreateJob PROVE JobsInv'
<1> USE NoneAssumption DEF JobsInv, CreateJob, watcherVars, reaperVars, checkerVars
<1> DEFINE job == [uid |-> uids + 1, started |-> FALSE, pods |-> FALSE, deadline |-> FALSE,
                   outcome |-> "open"]
<1>1. uids \in Nat /\ uids' = uids + 1 /\ uids' \in 1..MaxUid
  BY JobWatcherAssumption DEF TypeOK
<1>2. job \in KJob /\ kjob' = job /\ Report("add", job)
  BY <1>1 DEF KJob, Report
<1>3. job.uid = uids + 1 /\ job.outcome = "open" /\ kjob' # None
  BY <1>2
<1> HIDE DEF job
<1>4. /\ events' \in Seq(Event) /\ Len(events) \in Nat /\ Len(events') = Len(events) + 1
      /\ \A i \in 1..Len(events) : events'[i] = events[i]
      /\ events'[Len(events) + 1] = [kind |-> "add", job |-> job]
  BY <1>2, ReportType
<1>5. \A i \in 1..Len(events') : i \in 1..Len(events) \/ i = Len(events) + 1
  BY <1>4
<1>6. \A i \in 1..Len(events) : events[i].job.uid \in Int /\ events[i].job.uid <= uids
  <2>1. ASSUME NEW i \in 1..Len(events) PROVE events[i].job.uid \in Int
    <3>1. events[i] \in Event
      BY DEF TypeOK
    <3>2. events[i].job \in KJob
      BY <3>1 DEF Event
    <3> QED BY <3>2 DEF KJob
  <2> QED BY <2>1 DEF QueueInv, UidsUsed
<1>7. TypeOK'
  <2>1. tokens' \subseteq 1..MaxUid /\ bk' = "reserved"
    BY <1>1 DEF TypeOK
  <2>2. UNCHANGED <<hadPod, elsewhere, stalling, ignored, failing, reaper, cand, unreaped>>
    OBVIOUS
  <2> HIDE DEF CreateJob
  <2>3. uids' \in 0..MaxUid /\ kjob' \in KJob \cup {None}
    BY <1>1, <1>2
  <2> QED BY <1>4, <2>1, <2>2, <2>3 DEF TypeOK
<1>8. UidsUsed'
  BY <1>1, <1>2, <1>3, <1>4, <1>5, <1>6 DEF UidsUsed
<1>9. EndedNotOpen'
  <2> SUFFICES ASSUME NEW i \in 1..Len(events'), Ended(events[i])'
               PROVE  events'[i].job.uid # kjob'.uid
    BY DEF EndedNotOpen
  <2>1. CASE i \in 1..Len(events)
    BY <1>1, <1>2, <1>3, <1>4, <1>6, <2>1
  <2>2. CASE i = Len(events) + 1
    BY <1>3, <1>4, <2>2 DEF Ended, Finished
  <2> QED BY <1>5, <2>1, <2>2
<1>10. DeletionLast' /\ BookkeepingBacked' /\ OpenJobKeepsToken'
  BY <1>2, <1>3 DEF DeletionLast, BookkeepingBacked, OpenJobKeepsToken
<1> QED BY <1>7, <1>8, <1>9, <1>10 DEF QueueInv

\* The job controller's steps, as changes of the Job.
LEMMA JobChangeInv ==
    ASSUME JobsInv, kjob # None, NEW job \in KJob, job.uid = kjob.uid, Change(job),
           job.outcome = "open" => kjob.outcome = "open", hadPod' \in {hadPod, hadPod \cup {kjob.uid}},
           UNCHANGED <<uids, tokens, bk, elsewhere, watcherVars, reaper, cand>>, unreaped' \in BOOLEAN
    PROVE  JobsInv'
<1>1. /\ events' \in Seq(Event) /\ kjob' \in KJob
      /\ QueueInv' /\ BookkeepingBacked' /\ OpenJobKeepsToken'
  BY ChangeQueue
<1>2. kjob.uid \in 1..MaxUid
  BY DEF JobsInv, TypeOK, KJob
<1>3. TypeOK'
  BY <1>1, <1>2 DEF JobsInv, TypeOK, watcherVars
<1> QED BY <1>1, <1>3 DEF JobsInv

LEMMA JobProgressInv == ASSUME JobsInv, JobProgress \/ DeadlineHits PROVE JobsInv'
<1>1. kjob \in KJob /\ kjob # None /\ kjob.outcome = "open"
  BY DEF JobsInv, TypeOK, JobProgress, DeadlineHits, Open
<1>2. /\ hadPod' \in {hadPod, hadPod \cup {kjob.uid}}
      /\ UNCHANGED <<uids, tokens, bk, elsewhere, watcherVars, reaper, cand>> /\ unreaped' \in BOOLEAN
  BY DEF JobProgress, DeadlineHits, reaperVars, JobsInv, TypeOK
<1>3. \E job \in KJob : job.uid = kjob.uid /\ Change(job)
  <2>1. [kjob EXCEPT !.started = TRUE] \in KJob /\ [kjob EXCEPT !.started = TRUE].uid = kjob.uid
    BY <1>1 DEF KJob
  <2>2. [kjob EXCEPT !.pods = TRUE] \in KJob /\ [kjob EXCEPT !.pods = TRUE].uid = kjob.uid
    BY <1>1 DEF KJob
  <2>3. ASSUME NEW o \in {"succeeded", "failed", "podless", "deadline"}
        PROVE  [kjob EXCEPT !.outcome = o] \in KJob /\ [kjob EXCEPT !.outcome = o].uid = kjob.uid
    BY <1>1 DEF KJob
  <2> QED BY <2>1, <2>2, <2>3 DEF JobProgress, DeadlineHits
<1> QED BY <1>1, <1>2, <1>3, JobChangeInv

LEMMA JobDeletedInv == ASSUME JobsInv, JobDeleted PROVE JobsInv'
<1> USE DEF JobDeleted, watcherVars, reaperVars
<1>1. /\ events' \in Seq(Event) /\ kjob' = None /\ tokens' \subseteq tokens
      /\ QueueInv' /\ BookkeepingBacked' /\ OpenJobKeepsToken'
  BY DeleteQueue
<1>2. TypeOK'
  BY <1>1 DEF JobsInv, TypeOK
<1> QED BY <1>1, <1>2 DEF JobsInv

LEMMA BuildkiteInv == ASSUME JobsInv, BuildkiteChanges \/ PodWatcherCalls PROVE JobsInv'
<1> USE DEF BuildkiteChanges, PodWatcherCalls, Quiet, clusterVars, watcherVars, reaperVars, checkerVars
<1>1. TypeOK'
  <2>1. CASE BuildkiteChanges
    <3>1. UNCHANGED <<kjob, uids, hadPod, tokens, events, stalling, ignored, failing, reaper, cand, unreaped>>
      BY <2>1
    <3>2. bk' \in {"scheduled", "reserved", "running", "canceling", "canceled", "finished"}
      BY <2>1
    <3>3. elsewhere' = elsewhere \/ elsewhere' = TRUE
      BY <2>1
    <3>4. elsewhere' \in BOOLEAN
      BY <3>3 DEF JobsInv, TypeOK
    <3> HIDE DEF BuildkiteChanges
    <3> QED BY <3>1, <3>2, <3>4 DEF JobsInv, TypeOK
  <2>2. CASE PodWatcherCalls
    BY <2>2 DEF JobsInv, TypeOK
  <2> QED BY <2>1, <2>2
<1>2. CheckingJob' => CheckingJob
  BY DEF AddPod, StopCheckingJob, CheckingJob
<1>3. QueueInv' /\ BookkeepingBacked' /\ OpenJobKeepsToken'
  BY <1>2, QuietQueue
<1> QED BY <1>1, <1>3 DEF JobsInv

-----------------------------------------------------------------------------
(* The informer handlers. *)

LEMMA OnDeleteInv == ASSUME JobsInv, OnDelete PROVE JobsInv'
<1> USE DEF OnDelete, Forget, StopCheckingJob, reaperVars
<1>1. Take /\ UNCHANGED <<kjob, uids>> /\ Ended(Next1) /\ stalling' = None /\ checking' = None
  BY DEF Ended
<1>2. events' \in Seq(Event)
  BY <1>1, TakeType DEF JobsInv
<1>3. OpenJobKeepsToken' /\ tokens' \subseteq tokens
  BY <1>1, CleanupKeeps
<1>4. TypeOK'
  BY <1>2, <1>3 DEF JobsInv, TypeOK
<1>5. BookkeepingBacked'
  BY <1>1 DEF BookkeepingBacked, CheckingJob
<1>6. QueueInv'
  BY <1>1, TakeQueue
<1> QED BY <1>3, <1>4, <1>5, <1>6 DEF JobsInv

LEMMA RunChecksIgnoredInv == ASSUME JobsInv, RunChecksIgnored PROVE JobsInv'
<1> USE DEF RunChecksIgnored, watcherVars, reaperVars, checkerVars
<1>1. events' \in Seq(Event)
  BY TakeType DEF JobsInv
<1>2. TypeOK'
  BY <1>1 DEF JobsInv, TypeOK
<1>3. QueueInv' /\ (kjob # None \/ DeletionQueued')
  BY TakeQueue
<1>4. BookkeepingBacked' /\ OpenJobKeepsToken'
  BY <1>3 DEF JobsInv, BookkeepingBacked, OpenJobKeepsToken, Open
<1> QED BY <1>2, <1>3, <1>4 DEF JobsInv

LEMMA RunChecksFinishedInv == ASSUME JobsInv, RunChecksFinished PROVE JobsInv'
<1> USE DEF RunChecksFinished, Forget, StopCheckingJob, reaperVars
<1>1. Take /\ UNCHANGED <<kjob, uids>> /\ Ended(Next1) /\ stalling' = None /\ checking' = None
  BY DEF Ended
<1>2. events' \in Seq(Event) /\ Next1.job.uid \in 1..MaxUid
  BY <1>1, TakeType DEF JobsInv
<1>3. OpenJobKeepsToken' /\ tokens' \subseteq tokens
  BY <1>1, CleanupKeeps
<1>4. TypeOK'
  <2>1. bk' \in {"scheduled", "reserved", "running", "canceling", "canceled", "finished"}
    BY DEF FailBuildkiteJob, JobsInv, TypeOK
  <2>2. failing' \in 1..MaxUid \cup {None}
    BY <1>2 DEF JobsInv, TypeOK
  <2> QED BY <1>2, <1>3, <2>1, <2>2 DEF JobsInv, TypeOK
<1>5. BookkeepingBacked'
  BY <1>1 DEF BookkeepingBacked, CheckingJob
<1>6. QueueInv'
  BY <1>1, TakeQueue
<1> QED BY <1>3, <1>4, <1>5, <1>6 DEF JobsInv

LEMMA RunChecksOpenInv == ASSUME JobsInv, RunChecksOpen PROVE JobsInv'
<1> USE DEF RunChecksOpen, reaperVars
<1>1. events' \in Seq(Event) /\ Next1.job.uid \in 1..MaxUid
  BY TakeType DEF JobsInv
<1>2. TypeOK'
  BY <1>1 DEF JobsInv, TypeOK
<1>3. QueueInv' /\ (kjob # None \/ DeletionQueued')
  BY TakeQueue
<1>4. BookkeepingBacked' /\ OpenJobKeepsToken'
  BY <1>3 DEF JobsInv, BookkeepingBacked, OpenJobKeepsToken, Open
<1> QED BY <1>2, <1>3, <1>4 DEF JobsInv

LEMMA FailBeforeAgentAcquireInv == ASSUME JobsInv, FailBeforeAgentAcquire PROVE JobsInv'
<1> USE DEF FailBeforeAgentAcquire, clusterVars, reaperVars, checkerVars
<1>1. TypeOK'
  BY DEF FailBuildkiteJob, JobsInv, TypeOK
<1>2. QueueInv' /\ BookkeepingBacked' /\ OpenJobKeepsToken'
  BY QuietQueue DEF CheckingJob
<1> QED BY <1>1, <1>2 DEF JobsInv

-----------------------------------------------------------------------------
(* The reaper and the poll. *)

\* Every step of the reaper but the last leaves the cluster alone, and takes at
\* most its candidate off the stalling Jobs.
LEMMA ReaperInv ==
    ASSUME JobsInv,
           \/ ReaperBegins \/ ConfirmWithBuildkite \/ ConfirmWithCluster \/ ConfirmFails
           \/ ReaperIgnores \/ ReaperUntracks \/ ReaperFailsJob
    PROVE  JobsInv'
<1> USE DEF ReaperBegins, ConfirmWithBuildkite, ConfirmWithCluster, ConfirmFails, ReaperIgnores,
            ReaperUntracks, ReaperFailsJob, ReaperUnchanged, ReaperRests,
            removeCandidateFromStalling, clusterVars, checkerVars
<1>1. UNCHANGED <<kjob, uids, hadPod, tokens, events, failing, elsewhere, unreaped, checking>>
  OBVIOUS
<1>2. stalling' \in {stalling, None} /\ ignored' \in {ignored, TRUE}
  OBVIOUS
<1>3. bk' \in {bk, "finished"}
  BY DEF FailBuildkiteJob
<1>4. /\ reaper' \in {"idle", "askBuildkite", "askCluster", "confirmed", "ignored", "fail", "deadline"}
      /\ cand' \in {cand, stalling, None} /\ (reaper' = "idle" <=> cand' = None)
  BY DEF JobsInv, TypeOK
<1> HIDE DEF ReaperBegins, ConfirmWithBuildkite, ConfirmWithCluster, ConfirmFails, ReaperIgnores,
             ReaperUntracks, ReaperFailsJob
<1>5. TypeOK'
  <2>1. stalling' \in 1..MaxUid \cup {None} /\ cand' \in 1..MaxUid \cup {None} /\ ignored' \in BOOLEAN
    BY <1>2, <1>4 DEF JobsInv, TypeOK
  <2> QED BY <1>1, <1>3, <1>4, <2>1 DEF JobsInv, TypeOK
<1>6. QueueInv' /\ BookkeepingBacked' /\ OpenJobKeepsToken'
  BY <1>1, <1>2, QuietQueue DEF CheckingJob
<1> QED BY <1>5, <1>6 DEF JobsInv

LEMMA ReaperSetsDeadlineInv == ASSUME JobsInv, ReaperSetsDeadline PROVE JobsInv'
<1> USE DEF ReaperSetsDeadline, ReaperRests, watcherVars, checkerVars
<1>1. CASE kjob # None /\ Change([kjob EXCEPT !.deadline = TRUE]) /\ UNCHANGED unreaped
  <2>1. PICK job \in KJob : job = [kjob EXCEPT !.deadline = TRUE]
    BY <1>1 DEF JobsInv, TypeOK, KJob
  <2>2. job.uid = kjob.uid /\ job.outcome = kjob.outcome
    BY <1>1, <2>1 DEF JobsInv, TypeOK, KJob
  <2>3. /\ events' \in Seq(Event) /\ kjob' \in KJob
        /\ QueueInv' /\ BookkeepingBacked' /\ OpenJobKeepsToken'
    BY <1>1, <2>1, <2>2, ChangeQueue
  <2>4. TypeOK'
    BY <1>1, <2>3 DEF JobsInv, TypeOK
  <2> QED BY <2>3, <2>4 DEF JobsInv
<1>2. CASE unreaped' = TRUE /\ UNCHANGED <<kjob, events>>
  <2>1. TypeOK'
    BY <1>2 DEF JobsInv, TypeOK
  <2>2. QueueInv' /\ BookkeepingBacked' /\ OpenJobKeepsToken'
    BY <1>2, QuietQueue DEF CheckingJob
  <2> QED BY <2>1, <2>2 DEF JobsInv
<1> QED BY <1>1, <1>2

LEMMA PollInv == ASSUME JobsInv, PollStep PROVE JobsInv'
<1> USE DEF PollStep, Quiet, clusterVars, watcherVars, reaperVars
<1>1. checking' \in {checking, None}
  BY DEF PollBegins, PollAnswered, PollFails, PollStops, StopCheckingJob
<1>2. TypeOK'
  BY DEF JobsInv, TypeOK
<1>3. QueueInv' /\ BookkeepingBacked' /\ OpenJobKeepsToken'
  BY <1>1, QuietQueue DEF CheckingJob
<1> QED BY <1>2, <1>3 DEF JobsInv

LEMMA PollDeletesInv == ASSUME JobsInv, PollDeletesTarget PROVE JobsInv'
<1> USE DEF PollDeletesTarget, PollDeletes, Quiet, watcherVars, reaperVars
<1>1. CASE kjob # None /\ DeleteFromCluster
  <2>1. /\ events' \in Seq(Event) /\ kjob' = None /\ tokens' \subseteq tokens
        /\ QueueInv' /\ BookkeepingBacked' /\ OpenJobKeepsToken'
    BY <1>1, DeleteQueue
  <2>2. TypeOK'
    BY <2>1 DEF JobsInv, TypeOK
  <2> QED BY <2>1, <2>2 DEF JobsInv
<1>2. CASE Open /\ Change([kjob EXCEPT !.outcome = "failed"]) /\ UNCHANGED tokens
  <2>1. PICK job \in KJob : job = [kjob EXCEPT !.outcome = "failed"]
    BY <1>2 DEF JobsInv, TypeOK, KJob, Open
  <2>2. kjob # None /\ job.uid = kjob.uid /\ kjob.outcome = "open"
    BY <1>2, <2>1 DEF JobsInv, TypeOK, KJob, Open
  <2> QED BY <1>2, <2>1, <2>2, JobChangeInv DEF JobsInv, TypeOK
<1>3. CASE UNCHANGED <<kjob, tokens, events>>
  <2>1. TypeOK'
    BY <1>3 DEF JobsInv, TypeOK
  <2>2. QueueInv' /\ BookkeepingBacked' /\ OpenJobKeepsToken'
    BY <1>3, QuietQueue DEF CheckingJob
  <2> QED BY <2>1, <2>2 DEF JobsInv
<1> QED BY <1>1, <1>2, <1>3

-----------------------------------------------------------------------------
(* The theorems. *)

\* JobsInv holds throughout: the invariant the other theorems rest on.
THEOREM JobsInvariant == Spec => []JobsInv
<1>1. JobsInv /\ [Next]_vars => JobsInv'
  <2> SUFFICES ASSUME JobsInv, [Next]_vars PROVE JobsInv'
    OBVIOUS
  <2>1. CASE Environment
    BY <2>1, CreateJobInv, JobProgressInv, JobDeletedInv, BuildkiteInv DEF Environment
  <2>2. CASE Handler
    BY <2>2, OnDeleteInv, RunChecksIgnoredInv, RunChecksFinishedInv, RunChecksOpenInv,
       FailBeforeAgentAcquireInv DEF Handler
  <2>3. CASE ReaperStep \/ ConfirmFails
    BY <2>3, ReaperInv, ReaperSetsDeadlineInv DEF ReaperStep
  <2>4. CASE PollStep \/ PollDeletesTarget
    BY <2>4, PollInv, PollDeletesInv
  <2>5. CASE UNCHANGED vars
    <3> USE <2>5 DEF vars, clusterVars, watcherVars, reaperVars, checkerVars
    <3>1. TypeOK'
      BY DEF JobsInv, TypeOK
    <3>2. QueueInv' /\ BookkeepingBacked' /\ OpenJobKeepsToken'
      BY QuietQueue DEF CheckingJob
    <3> QED BY <3>1, <3>2 DEF JobsInv
  <2> QED BY <2>1, <2>2, <2>3, <2>4, <2>5 DEF Next
<1> QED BY InitInv, <1>1, PTL DEF Spec

\* The entries for a Job in stallingJobs and in the cancel checker's map go with
\* the Job, although the informer's events reach the watcher late and a later Job
\* has the same name (job_watcher.go: OnDelete, runChecks, stalledJobChecker).
THEOREM BookkeepingBackedHolds == Spec => []BookkeepingBacked
<1>1. JobsInv => BookkeepingBacked
  BY DEF JobsInv
<1> QED BY JobsInvariant, <1>1, PTL

\* A Job that is still open has its token Secret: a late clean-up after one of its
\* predecessors finds the Secret by the UID of its owner
\* (cleanupJobAcquisitionTokenSecret, job_watcher.go).
THEOREM OpenJobKeepsTokenHolds == Spec => []OpenJobKeepsToken
<1>1. JobsInv => OpenJobKeepsToken
  BY DEF JobsInv
<1> QED BY JobsInvariant, <1>1, PTL
=============================================================================
