---------------------------- MODULE JobCreation ----------------------------
(***************************************************************************)
(* scheduler.createJob with job acquisition tokens enabled: an attempt     *)
(* creates the Kubernetes Job of one Buildkite job, then the Secret that   *)
(* the Job's annotation names and that carries the attempt's token, and    *)
(* tears down what it verified when it cannot finish.  Job names are       *)
(* deterministic per Buildkite UUID, so all attempts compete for one name; *)
(* each attempt's Build picks a Secret name of its own.                    *)
(*                                                                         *)
(* API calls are steps.  A call may fail although it took effect, and the  *)
(* deduper's mark decides when the next attempt may start.                 *)
(***************************************************************************)
EXTENDS Integers, FiniteSets

CONSTANTS
    Attempt,      \* calls of createJob for one UUID, each with its own token
    Steps,        \* resourceReconciliationBackoff.Steps
    None,         \* no object
    Refusable,    \* the calls the API server may refuse for good (forbidden, invalid)
    LateCreate,   \* a create that timed out may take effect afterwards
    LateUnmark,   \* the deduper may learn of a deletion late
    Deadlines,    \* a call may outlast the 5 second contexts of recovery and cleanup
    MaxFaults,    \* bound on calls whose answer is lost
    MaxDeletes    \* bound on deletions by others (users, TTL, the watchers)

Call == {"createJob", "getJob", "createSecret", "getSecret", "deleteSecret", "deleteJob"}

ASSUME JobCreationAssumption ==
    /\ IsFiniteSet(Attempt)
    /\ Steps \in Nat \ {0} /\ MaxFaults \in Nat /\ MaxDeletes \in Nat
    /\ Refusable \subseteq Call
    /\ {LateCreate, LateUnmark, Deadlines} \subseteq BOOLEAN

VARIABLES
    kjob,       \* the Job under the UUID's name
    secret,     \* the Secrets, by the attempt whose Build made up the name
    nextUid,    \* the next UID the API server assigns
    inTransit,  \* attempts whose create timed out and may still take effect
    stage,      \* how far each attempt is
    tries,      \* calls left in the attempt's current backoff loop
    mine,       \* the Job (or, in deleteSecret, the Secret) the attempt has verified
    found,      \* UID of the Secret cleanupIncompleteJob is to delete
    detached,   \* the attempt runs on the recovery context, not on dispatchCtx
    gaveUp,     \* attempts with a Job they no longer look for, or could not delete
    cancelled,  \* dispatchCtx is cancelled
    marked,     \* the deduper's mark on the UUID
    deleted,    \* deletions the deduper has not heard of yet
    faults,
    deletes

cluster == <<kjob, secret, nextUid>>
progress == <<stage, tries, mine, found, detached, gaveUp>>
marking == <<marked, deleted>>
bounds == <<faults, deletes>>
vars == <<cluster, inTransit, progress, cancelled, marking, bounds>>

\* ours: hasSameJobIdentity and a Secret annotation the agent container refers to.
KJob == [uid : Nat, secret : Attempt, ours : BOOLEAN]
Secret == [uid : Nat, owner : Nat, token : Attempt]

ASSUME NoneAssumption == None \notin KJob \cup Secret

-----------------------------------------------------------------------------
(* The API server. *)

\* The Job with this UID exists.
Live(uid) == kjob # None /\ kjob.uid = uid

Fault == faults < MaxFaults /\ faults' = faults + 1
NoFault == UNCHANGED faults

\* The Job goes.  The informer, which selects this controller's Jobs by their
\* labels, reports the deletion of such a Job to the deduper, at once or later.
JobGone ==
    /\ kjob' = None
    /\ \/ ~kjob.ours /\ UNCHANGED marking
       \/ kjob.ours /\ LateUnmark /\ deleted' = deleted + 1 /\ UNCHANGED marked
       \/ kjob.ours /\ ~LateUnmark /\ marked' = FALSE /\ UNCHANGED deleted

\* The POST takes effect for attempt a.
CreateTakesEffect(a) ==
    /\ kjob = None
    /\ kjob' = [uid |-> nextUid, secret |-> a, ours |-> TRUE]
    /\ nextUid' = nextUid + 1

\* A create that timed out earlier takes effect now, or never.
LateCreateLands(a) ==
    /\ a \in inTransit
    /\ inTransit' = inTransit \ {a}
    /\ \/ /\ CreateTakesEffect(a)
          /\ gaveUp' = IF stage[a] \in {"reconcile", "recover"} THEN gaveUp ELSE gaveUp \cup {a}
       \/ UNCHANGED <<kjob, nextUid, gaveUp>>
    /\ UNCHANGED <<secret, stage, tries, mine, found, detached, cancelled, marking, bounds>>

\* Others delete the Job: a user, the TTL controller, the watchers.
OthersDelete ==
    /\ deletes < MaxDeletes /\ kjob # None
    /\ deletes' = deletes + 1
    /\ JobGone
    /\ UNCHANGED <<secret, nextUid, inTransit, progress, cancelled, faults>>

\* The garbage collector removes a Secret whose owner no longer exists.
GarbageCollect(n) ==
    /\ secret[n] # None
    /\ ~Live(secret[n].owner)
    /\ secret' = [secret EXCEPT ![n] = None]
    /\ UNCHANGED <<kjob, nextUid, inTransit, progress, cancelled, marking, bounds>>

DeduperHears ==
    /\ deleted > 0
    /\ deleted' = deleted - 1
    /\ marked' = FALSE
    /\ UNCHANGED <<cluster, inTransit, progress, cancelled, bounds>>

-----------------------------------------------------------------------------
(* Moving an attempt. *)

Goto(a, s, n) ==
    /\ stage' = [stage EXCEPT ![a] = s]
    /\ tries' = [tries EXCEPT ![a] = n]

\* One call of a backoff loop has failed: try again from stage s, or, when the
\* steps (or the loop's context) are used up, go on to stage otherwise.
Retry(a, s, otherwise, n) ==
    \/ tries[a] > 1 /\ Goto(a, s, tries[a] - 1)
    \/ (tries[a] = 1 \/ Deadlines) /\ Goto(a, otherwise, n)

Keep == UNCHANGED <<mine, found, detached, gaveUp>>

\* The attempt ends with a Job it may have created and does not know the end of.
GivesUp(a) == gaveUp' = IF stage'[a] = "failed" THEN gaveUp \cup {a} ELSE gaveUp

-----------------------------------------------------------------------------
(* createJob. *)

\* The deduper lets a job through if it is not marked.
Start(a) ==
    /\ stage[a] = "idle" /\ ~marked /\ ~cancelled
    /\ marked' = TRUE
    /\ Goto(a, "create", 0)
    /\ Keep /\ UNCHANGED <<cluster, inTransit, cancelled, deleted, bounds>>

CreateSucceeds(a) ==
    /\ stage[a] = "create" /\ ~cancelled
    /\ CreateTakesEffect(a)
    /\ mine' = [mine EXCEPT ![a] = kjob']
    /\ Goto(a, "secret", Steps)
    /\ UNCHANGED <<secret, inTransit, found, detached, gaveUp, cancelled, marking, bounds>>

\* AlreadyExists, which Handle returns as ErrDuplicateJob: the mark stays.
CreateAlreadyExists(a) ==
    /\ stage[a] = "create" /\ ~cancelled
    /\ kjob # None
    /\ Goto(a, "duplicate", 0)
    /\ Keep /\ UNCHANGED <<cluster, inTransit, cancelled, marking, bounds>>

CreateRefused(a) ==
    /\ stage[a] = "create" /\ "createJob" \in Refusable
    /\ Goto(a, "failed", 0)
    /\ Keep /\ UNCHANGED <<cluster, inTransit, cancelled, marking, bounds>>

\* Mutant: a lost answer is taken for a failed create.
CreateAmbiguousFails(a) ==
    /\ stage[a] = "create"
    /\ Fault
    /\ CreateTakesEffect(a) \/ UNCHANGED <<kjob, nextUid>>
    /\ Goto(a, "failed", 0)
    /\ Keep /\ UNCHANGED <<secret, inTransit, cancelled, marking, deletes>>

\* isAmbiguousKubernetesCreateError: a timeout, a lost answer, or a cancelled
\* context.  The create took effect, did not, or may yet.
CreateAmbiguous(a) ==
    /\ stage[a] = "create"
    /\ \/ Fault /\ \/ CreateTakesEffect(a) /\ UNCHANGED inTransit
                   \/ UNCHANGED <<kjob, nextUid, inTransit>>
                   \/ /\ LateCreate
                      /\ inTransit' = inTransit \cup {a}
                      /\ UNCHANGED <<kjob, nextUid>>
       \/ cancelled /\ NoFault /\ UNCHANGED <<kjob, nextUid, inTransit>>
    /\ Goto(a, "reconcile", Steps)
    /\ detached' = [detached EXCEPT ![a] = TRUE]
    /\ UNCHANGED <<secret, mine, found, gaveUp, cancelled, marking, deletes>>

\* Mutant: whatever holds the name is taken for the attempt's Job.
VerifiedByName == kjob # None

\* hasSameJobIdentity, a UID, and an agent container that refers to the Secret.
Verified == kjob # None /\ kjob.ours

\* One Get of reconcileCreatedJob at stage s; the verified Job leads to stage
\* verified.  NotFound is retried like a transient error.
Lookup(a, s, verified, otherwise) ==
    /\ stage[a] = s
    /\ \/ /\ Verified
          /\ mine' = [mine EXCEPT ![a] = kjob]
          /\ Goto(a, verified, Steps) /\ NoFault
       \/ /\ kjob # None /\ ~Verified
          /\ Goto(a, "failed", 0) /\ NoFault /\ UNCHANGED mine
       \/ /\ "getJob" \in Refusable
          /\ Goto(a, "failed", 0) /\ NoFault /\ UNCHANGED mine
       \/ /\ (kjob = None /\ NoFault) \/ Fault
          /\ Retry(a, s, otherwise, Steps) /\ UNCHANGED mine
    /\ GivesUp(a)
    /\ UNCHANGED <<cluster, inTransit, found, detached, cancelled, marking, deletes>>

Reconcile(a) == Lookup(a, "reconcile", "secret", "recover")

\* Mutant: a failed recovery starts over.
RecoverAgain(a) == Lookup(a, "recover", "cleanup", "reconcile")

Recover(a) == Lookup(a, "recover", "cleanup", "failed")

-----------------------------------------------------------------------------
(* reconcileJobAcquisitionTokenSecret: create, and on failure compare. *)

\* The Secret's name comes from the annotation of the verified Job.
Name(a) == mine[a].secret

SecretTakesEffect(a) ==
    /\ secret[Name(a)] = None
    /\ secret' = [secret EXCEPT ![Name(a)] =
                     [uid |-> nextUid, owner |-> mine[a].uid, token |-> a]]
    /\ nextUid' = nextUid + 1

\* The loop runs on dispatchCtx unless createJob had to recover.
ContextDone(a) == cancelled /\ ~detached[a]

SecretCreate(a) ==
    /\ stage[a] = "secret"
    /\ \/ /\ ~ContextDone(a)
          /\ SecretTakesEffect(a)
          /\ Goto(a, "ok", 0) /\ NoFault
       \/ /\ ~ContextDone(a)
          /\ secret[Name(a)] # None
          /\ Goto(a, "compare", tries[a])
          /\ NoFault /\ UNCHANGED <<secret, nextUid>>
       \/ /\ "createSecret" \in Refusable \/ ContextDone(a)
          /\ Goto(a, "cleanup", Steps)
          /\ NoFault /\ UNCHANGED <<secret, nextUid>>
       \/ /\ Fault
          /\ SecretTakesEffect(a) \/ UNCHANGED <<secret, nextUid>>
          /\ Goto(a, "compare", tries[a])
    /\ Keep /\ UNCHANGED <<kjob, inTransit, cancelled, marking, deletes>>

\* secretControlledByJob and the identity of labels: the owner is the Job's UID.
Controls(a) == secret[Name(a)] # None /\ secret[Name(a)].owner = mine[a].uid

SecretCompare(a) ==
    /\ stage[a] = "compare"
    /\ \/ /\ Controls(a) /\ secret[Name(a)].token = a
          /\ Goto(a, "ok", 0) /\ NoFault
       \/ /\ secret[Name(a)] # None
          /\ ~Controls(a) \/ secret[Name(a)].token # a
          /\ Goto(a, "cleanup", Steps) /\ NoFault
       \/ /\ "getSecret" \in Refusable \/ ContextDone(a)
          /\ Goto(a, "cleanup", Steps) /\ NoFault
       \/ /\ (secret[Name(a)] = None /\ NoFault) \/ Fault
          /\ Retry(a, "secret", "cleanup", Steps)
    /\ Keep /\ UNCHANGED <<cluster, inTransit, cancelled, marking, deletes>>

-----------------------------------------------------------------------------
(* cleanupIncompleteJob, on a context of its own. *)

CleanupLookup(a) ==
    /\ stage[a] = "cleanup"
    /\ \/ /\ Controls(a)
          /\ found' = [found EXCEPT ![a] = secret[Name(a)].uid]
          /\ Goto(a, "deleteSecret", Steps) /\ NoFault
       \/ /\ Fault \/ ((~Controls(a) \/ "getSecret" \in Refusable) /\ NoFault)
          /\ Goto(a, "deleteJob", Steps) /\ UNCHANGED found
    /\ UNCHANGED <<cluster, inTransit, mine, detached, gaveUp, cancelled, marking, deletes>>

\* Mutant: no UID precondition on the Job.
JobMatchesName(a) == kjob # None

\* Deletes carry the UID as a precondition: another object of the same name is
\* a Conflict, which ends the loop like success and NotFound do.
SecretMatches(a) == secret[Name(a)] # None /\ secret[Name(a)].uid = found[a]
JobMatches(a) == Live(mine[a].uid)

DeleteSecret(a) ==
    /\ stage[a] = "deleteSecret"
    /\ \/ /\ NoFault
          /\ IF SecretMatches(a) THEN secret' = [secret EXCEPT ![Name(a)] = None]
                                 ELSE UNCHANGED secret
          /\ Goto(a, "deleteJob", Steps)
       \/ /\ "deleteSecret" \in Refusable
          /\ NoFault /\ UNCHANGED secret
          /\ Goto(a, "deleteJob", Steps)
       \/ /\ Fault
          /\ \/ SecretMatches(a) /\ secret' = [secret EXCEPT ![Name(a)] = None]
             \/ UNCHANGED secret
          /\ Retry(a, "deleteSecret", "deleteJob", Steps)
    /\ Keep /\ UNCHANGED <<kjob, nextUid, inTransit, cancelled, marking, deletes>>

DeleteJob(a) ==
    /\ stage[a] = "deleteJob"
    /\ \/ /\ NoFault
          /\ IF JobMatches(a) THEN JobGone ELSE UNCHANGED <<kjob, marking>>
          /\ Goto(a, "failed", 0)
          /\ UNCHANGED gaveUp
       \/ /\ "deleteJob" \in Refusable
          /\ NoFault /\ UNCHANGED <<kjob, marking>>
          /\ Goto(a, "failed", 0)
          /\ GivesUp(a)
       \/ /\ Fault
          /\ (JobMatches(a) /\ JobGone) \/ UNCHANGED <<kjob, marking>>
          /\ Retry(a, "deleteJob", "failed", 0)
          /\ GivesUp(a)
    /\ UNCHANGED <<secret, nextUid, inTransit, mine, found, detached, cancelled, deletes>>

\* Handle returns the error and the deduper removes its mark.
Unmark(a) ==
    /\ stage[a] = "failed"
    /\ marked' = FALSE
    /\ Goto(a, "returned", 0)
    /\ Keep /\ UNCHANGED <<cluster, inTransit, cancelled, deleted, bounds>>

CancelDispatch ==
    /\ ~cancelled
    /\ cancelled' = TRUE
    /\ UNCHANGED <<cluster, inTransit, progress, marking, bounds>>

-----------------------------------------------------------------------------

Init ==
    /\ kjob \in {None} \cup [uid : {1}, secret : Attempt, ours : {FALSE}]
    /\ secret = [n \in Attempt |-> None]
    /\ nextUid = 2
    /\ inTransit = {}
    /\ stage = [a \in Attempt |-> "idle"]
    /\ tries = [a \in Attempt |-> 0]
    /\ mine = [a \in Attempt |-> None]
    /\ found = [a \in Attempt |-> 0]
    /\ detached = [a \in Attempt |-> FALSE]
    /\ gaveUp = {}
    /\ cancelled = FALSE
    /\ marked = FALSE /\ deleted = 0
    /\ faults = 0 /\ deletes = 0

CreateJob(a) ==
    CreateSucceeds(a) \/ CreateAlreadyExists(a) \/ CreateRefused(a) \/ CreateAmbiguous(a)

AttemptStep(a) ==
    \/ CreateJob(a) \/ Reconcile(a) \/ Recover(a)
    \/ SecretCreate(a) \/ SecretCompare(a)
    \/ CleanupLookup(a) \/ DeleteSecret(a) \/ DeleteJob(a)
    \/ Unmark(a)

Next ==
    \/ \E a \in Attempt : Start(a) \/ AttemptStep(a) \/ LateCreateLands(a) \/ GarbageCollect(a)
    \/ OthersDelete
    \/ DeduperHears
    \/ CancelDispatch

Spec == Init /\ [][Next]_vars

\* Every call returns: it has a context with a deadline.
FairSpec == Spec /\ \A a \in Attempt : WF_vars(AttemptStep(a))

-----------------------------------------------------------------------------
(* Properties. *)

Stage == {"idle", "create", "reconcile", "recover", "secret", "compare", "cleanup",
          "deleteSecret", "deleteJob", "ok", "duplicate", "failed", "returned"}

\* The variables keep their types, and loops never run out below zero.
TypeOK ==
    /\ kjob \in KJob \cup {None}
    /\ secret \in [Attempt -> Secret \cup {None}]
    /\ nextUid \in Nat
    /\ inTransit \subseteq Attempt
    /\ stage \in [Attempt -> Stage]
    /\ tries \in [Attempt -> 0..Steps]
    /\ mine \in [Attempt -> KJob \cup {None}]
    /\ found \in [Attempt -> Nat]
    /\ detached \in [Attempt -> BOOLEAN]
    /\ gaveUp \subseteq Attempt
    /\ cancelled \in BOOLEAN /\ marked \in BOOLEAN
    /\ deleted \in Nat /\ faults \in 0..MaxFaults /\ deletes \in 0..MaxDeletes

\* The Job's agent container finds its token.
Complete ==
    /\ kjob # None /\ secret[kjob.secret] # None
    /\ secret[kjob.secret].owner = kjob.uid

Working(a) == stage[a] \notin {"idle", "ok", "duplicate", "failed", "returned"}

\* Attempt a has verified the live Job, or is still looking for it.
Attends(a) ==
    /\ Working(a)
    /\ stage[a] \in {"reconcile", "recover"} \/ (mine[a] # None /\ Live(mine[a].uid))

\* A Job without its token Secret, whose pod can never start, is always attended
\* to by an attempt that will complete or delete it.  It is left behind only by
\* the attempt that asked for it or verified it, and only when that attempt had
\* to give up looking for it or deleting it, or when the create took effect after
\* the attempt had looked (createJob returns an error only after
\* cleanupIncompleteJob).
NoIncompleteJobLeft ==
    kjob # None /\ kjob.ours /\ ~Complete =>
        \E a \in Attempt :
            \/ Attends(a)
            \/ a \in gaveUp /\ (kjob.secret = a \/ mine[a] = kjob)

\* The Job that attempt a reported as created lives.
Created(a) == stage[a] = "ok" /\ Live(mine[a].uid)
HasToken(a) == Complete /\ secret[kjob.secret].token = a

\* The Job an attempt reported as created keeps its Secret with that attempt's
\* token and is not deleted, except by others or by an attempt that has verified
\* the very same Job: a cleanup never reaches a Job that took the name since.
CreatedJobKept ==
    [][\A a \in Attempt : Created(a) /\ HasToken(a) =>
          \/ kjob' = kjob /\ secret'[kjob.secret] = secret[kjob.secret]
          \/ OthersDelete
          \/ \E b \in Attempt \ {a} : mine[b] = mine[a]]_vars

\* The stronger claim of TestHandleAlreadyExistingJobReportsDuplicateWithout-
\* TouchingExistingResources: while the Job an attempt reported as created
\* lives, no later attempt takes its token away.
CreatedJobKeepsToken == \A a \in Attempt : Created(a) => HasToken(a)

\* A Job of another stack that holds the name is never deleted by an attempt,
\* and never given a Secret, however the answers to the calls are lost
\* (TestCreateJobDoesNotReconcileJobWithDifferentIdentity).
ForeignJobUntouched ==
    [][kjob # None /\ ~kjob.ours =>
          /\ kjob' = kjob \/ OthersDelete
          /\ \A n \in Attempt : secret'[n] # None => secret'[n].owner # kjob.uid]_vars

\* Every attempt comes to an end, whatever fails.
EveryAttemptEnds == \A a \in Attempt : stage[a] # "idle" ~> ~Working(a)
=============================================================================
