------------------------- MODULE JobCreationProofs -------------------------
(***************************************************************************)
(* Theorems about createJob, for any number of competing attempts, any     *)
(* number of lost answers, late creates, refusals and deletions by others. *)
(***************************************************************************)
EXTENDS JobCreation, TLAPS

-----------------------------------------------------------------------------
(* The inductive invariant. *)

\* The stages at which an attempt has a Job it has verified.
Holding == {"secret", "compare", "cleanup", "deleteSecret", "deleteJob"}
Looking == {"reconcile", "recover"}

\* No object has a UID the API server has yet to assign.
UidsAssigned ==
    /\ kjob # None => kjob.uid < nextUid
    /\ \A a \in Attempt :
          /\ mine[a] # None => mine[a].uid < nextUid
          /\ secret[a] # None => secret[a].uid < nextUid /\ secret[a].owner < nextUid
          /\ found[a] < nextUid

\* What an attempt has verified is a Job of this stack, and the live one if the UID
\* is the live one's.
MineVerified ==
    \A a \in Attempt :
        /\ stage[a] \in Holding \cup {"ok"} => mine[a] # None
        /\ mine[a] # None => mine[a].ours /\ (Live(mine[a].uid) => mine[a] = kjob)

\* The Secret that cleanupIncompleteJob is to delete belongs to the verified Job.
FoundOwned ==
    \A a \in Attempt :
        stage[a] = "deleteSecret" /\ SecretMatches(a) => secret[Name(a)].owner = mine[a].uid

\* A Secret whose owner lives is that of a Job of this stack.
SecretsOurs == \A n \in Attempt : secret[n] # None /\ Live(secret[n].owner) => kjob.ours

\* Attempt a looks for its own Job, holds the live one, or gave up on it.
Responsible(a) ==
    \/ stage[a] \in Looking /\ kjob.secret = a
    \/ stage[a] \in Holding /\ mine[a] = kjob
    \/ a \in gaveUp /\ (kjob.secret = a \/ mine[a] = kjob)

IncompleteAnswered == kjob # None /\ kjob.ours /\ ~Complete => \E a \in Attempt : Responsible(a)

CreationInv ==
    /\ TypeOK
    /\ UidsAssigned
    /\ MineVerified
    /\ FoundOwned
    /\ SecretsOurs
    /\ IncompleteAnswered

-----------------------------------------------------------------------------
(* Types. *)

LEMMA GotoType ==
    ASSUME TypeOK, NEW a \in Attempt, NEW s \in Stage, NEW n \in 0..Steps, Goto(a, s, n)
    PROVE  /\ stage' \in [Attempt -> Stage] /\ tries' \in [Attempt -> 0..Steps]
           /\ stage'[a] = s /\ \A b \in Attempt \ {a} : stage'[b] = stage[b]
BY DEF TypeOK, Goto

LEMMA RetryType ==
    ASSUME TypeOK, NEW a \in Attempt, NEW s \in Stage, NEW o \in Stage, NEW n \in {0, Steps},
           Retry(a, s, o, n)
    PROVE  /\ stage' \in [Attempt -> Stage] /\ tries' \in [Attempt -> 0..Steps]
           /\ stage'[a] \in {s, o} /\ \A b \in Attempt \ {a} : stage'[b] = stage[b]
<1>1. tries[a] \in 0..Steps /\ Steps \in Nat \ {0}
  BY JobCreationAssumption DEF TypeOK
<1>2. CASE tries[a] > 1 /\ Goto(a, s, tries[a] - 1)
  <2>1. tries[a] - 1 \in 0..Steps
    BY <1>1, <1>2
  <2> QED BY <1>2, <2>1, GotoType
<1>3. CASE Goto(a, o, n)
  <2>1. n \in 0..Steps
    BY <1>1
  <2> QED BY <1>3, <2>1, GotoType
<1> QED BY <1>2, <1>3 DEF Retry

\* Where a step of an attempt leads.
LEMMA StepStages ==
    ASSUME TypeOK, NEW a \in Attempt, Start(a) \/ AttemptStep(a)
    PROVE  /\ stage' \in [Attempt -> Stage] /\ tries' \in [Attempt -> 0..Steps]
           /\ \A b \in Attempt \ {a} : stage'[b] = stage[b]
<1> DEFINE Goes(s, n) == s \in Stage /\ n \in 0..Steps /\ Goto(a, s, n)
           Tries(s, o, n) == s \in Stage /\ o \in Stage /\ n \in {0, Steps} /\ Retry(a, s, o, n)
<1> SUFFICES (\E s, n : Goes(s, n)) \/ (\E s, o, n : Tries(s, o, n))
  BY GotoType, RetryType
<1>1. /\ {"idle", "create", "reconcile", "recover", "secret", "compare", "cleanup",
           "deleteSecret", "deleteJob", "ok", "duplicate", "failed", "returned"} \subseteq Stage
      /\ 0 \in 0..Steps /\ Steps \in 0..Steps /\ tries[a] \in 0..Steps
  BY JobCreationAssumption DEF Stage, TypeOK
<1>2. CASE Start(a) \/ CreateJob(a) \/ Unmark(a)
  <2>1. \E s \in {"create", "secret", "duplicate", "failed", "reconcile", "returned"}, n \in {0, Steps} : Goto(a, s, n)
    BY <1>2 DEF Start, CreateJob, CreateSucceeds, CreateAlreadyExists, CreateRefused,
                CreateAmbiguous, Unmark
  <2> QED BY <1>1, <2>1
<1>3. CASE Reconcile(a) \/ Recover(a)
  <2>1. \/ \E s \in {"secret", "cleanup", "failed"}, n \in {0, Steps} : Goto(a, s, n)
        \/ \E s \in {"reconcile", "recover"}, o \in {"recover", "failed"} : Retry(a, s, o, Steps)
    BY <1>3 DEF Reconcile, Recover, Lookup
  <2> QED BY <1>1, <2>1
<1>4. CASE SecretCreate(a) \/ SecretCompare(a)
  <2>1. \/ \E s \in {"ok", "compare", "cleanup"}, n \in {0, Steps, tries[a]} : Goto(a, s, n)
        \/ Retry(a, "secret", "cleanup", Steps)
    BY <1>4 DEF SecretCreate, SecretCompare
  <2> QED BY <1>1, <2>1
<1>5. CASE CleanupLookup(a) \/ DeleteSecret(a) \/ DeleteJob(a)
  <2>1. \/ \E s \in {"deleteSecret", "deleteJob", "failed"}, n \in {0, Steps} : Goto(a, s, n)
        \/ Retry(a, "deleteSecret", "deleteJob", Steps)
        \/ Retry(a, "deleteJob", "failed", 0)
    BY <1>5 DEF CleanupLookup, DeleteSecret, DeleteJob
  <2> QED BY <1>1, <2>1
<1> QED BY <1>2, <1>3, <1>4, <1>5 DEF AttemptStep

LEMMA FaultType ==
    ASSUME TypeOK, Fault \/ NoFault PROVE faults' \in 0..MaxFaults
<1>1. faults \in 0..MaxFaults /\ MaxFaults \in Nat
  BY JobCreationAssumption DEF TypeOK
<1>2. faults' = faults \/ (faults < MaxFaults /\ faults' = faults + 1)
  BY DEF Fault, NoFault
<1> QED BY <1>1, <1>2

LEMMA JobGoneType ==
    ASSUME TypeOK, JobGone PROVE kjob' = None /\ marked' \in BOOLEAN /\ deleted' \in Nat
<1>1. marked \in BOOLEAN /\ deleted \in Nat
  BY DEF TypeOK
<1>2. kjob' = None
  BY DEF JobGone
<1>3. marked' \in {FALSE, marked} /\ deleted' \in {deleted, deleted + 1}
  BY DEF JobGone, marking
<1>4. marked' \in BOOLEAN
  BY <1>1, <1>3
<1>5. deleted' \in Nat
  BY <1>1, <1>3
<1> QED BY <1>2, <1>4, <1>5

LEMMA CreateEffectType ==
    ASSUME TypeOK, NEW a \in Attempt, CreateTakesEffect(a)
    PROVE  /\ kjob' \in KJob /\ kjob' # None /\ kjob'.secret = a /\ kjob'.ours
           /\ kjob'.uid = nextUid /\ nextUid' = nextUid + 1 /\ nextUid' \in Nat /\ kjob = None
<1>1. nextUid \in Nat
  BY DEF TypeOK
<1>2. kjob' = [uid |-> nextUid, secret |-> a, ours |-> TRUE] /\ nextUid' = nextUid + 1 /\ kjob = None
  BY DEF CreateTakesEffect
<1>3. kjob' \in KJob
  BY <1>1, <1>2 DEF KJob
<1>4. kjob' # None
  BY <1>3, NoneAssumption
<1>5. kjob'.secret = a /\ kjob'.ours /\ kjob'.uid = nextUid
  BY <1>2
<1> QED BY <1>1, <1>2, <1>3, <1>4, <1>5

LEMMA SecretEffectType ==
    ASSUME TypeOK, NEW a \in Attempt, mine[a] \in KJob, SecretTakesEffect(a)
    PROVE  /\ secret' \in [Attempt -> Secret \cup {None}] /\ nextUid' = nextUid + 1 /\ nextUid' \in Nat
           /\ Name(a) \in Attempt /\ secret[Name(a)] = None
           /\ secret'[Name(a)] # None /\ secret'[Name(a)].uid = nextUid
           /\ secret'[Name(a)].owner = mine[a].uid /\ secret'[Name(a)].token = a
           /\ \A n \in Attempt : n # Name(a) => secret'[n] = secret[n]
<1> DEFINE e == [uid |-> nextUid, owner |-> mine[a].uid, token |-> a]
<1>1. nextUid \in Nat /\ Name(a) \in Attempt /\ mine[a].uid \in Nat
      /\ secret \in [Attempt -> Secret \cup {None}]
  BY DEF TypeOK, KJob, Name
<1>2. secret[Name(a)] = None /\ secret' = [secret EXCEPT ![Name(a)] = e] /\ nextUid' = nextUid + 1
  BY DEF SecretTakesEffect
<1>3. e \in Secret /\ e.uid = nextUid /\ e.owner = mine[a].uid /\ e.token = a
  BY <1>1 DEF Secret
<1> HIDE DEF e
<1>4. e # None
  BY <1>3, NoneAssumption
<1> QED BY <1>1, <1>2, <1>3, <1>4

LEMMA TypeStep == ASSUME TypeOK, MineVerified, [Next]_vars PROVE TypeOK'
<1>1. ASSUME NEW a \in Attempt, Start(a) \/ AttemptStep(a) PROVE TypeOK'
  <2>1. stage' \in [Attempt -> Stage] /\ tries' \in [Attempt -> 0..Steps]
    BY <1>1, StepStages
  <2>2. kjob' \in KJob \cup {None} /\ nextUid' \in Nat /\ mine' \in [Attempt -> KJob \cup {None}]
        /\ marked' \in BOOLEAN /\ deleted' \in Nat
    <3>1. /\ kjob \in KJob \cup {None} /\ nextUid \in Nat /\ mine \in [Attempt -> KJob \cup {None}]
          /\ marked \in BOOLEAN /\ deleted \in Nat
      BY DEF TypeOK
    <3>2. CASE Start(a) \/ Unmark(a) \/ CreateAlreadyExists(a) \/ CreateRefused(a) \/ SecretCompare(a)
               \/ CleanupLookup(a) \/ DeleteSecret(a)
      <4>1. UNCHANGED <<kjob, nextUid, mine, deleted>> /\ marked' \in {TRUE, FALSE, marked}
        BY <3>2 DEF Start, Unmark, CreateAlreadyExists, CreateRefused, SecretCompare, CleanupLookup,
                    DeleteSecret, cluster, marking, Keep
      <4> QED BY <3>1, <4>1
    <3>3. CASE CreateSucceeds(a)
      <4>1. CreateTakesEffect(a) /\ mine' = [mine EXCEPT ![a] = kjob'] /\ UNCHANGED <<marked, deleted>>
        BY <3>3 DEF CreateSucceeds, marking
      <4>2. kjob' \in KJob /\ nextUid' \in Nat
        BY <4>1, CreateEffectType
      <4> QED BY <3>1, <4>1, <4>2
    <3>4. CASE CreateAmbiguous(a)
      <4>1. UNCHANGED <<mine, marked, deleted>> /\ (CreateTakesEffect(a) \/ UNCHANGED <<kjob, nextUid>>)
        BY <3>4 DEF CreateAmbiguous, marking
      <4>2. CreateTakesEffect(a) => kjob' \in KJob /\ nextUid' \in Nat
        BY CreateEffectType
      <4> QED BY <3>1, <4>1, <4>2
    <3>5. CASE Reconcile(a) \/ Recover(a)
      <4>1. UNCHANGED <<kjob, nextUid, marked, deleted>> /\ mine' \in {mine, [mine EXCEPT ![a] = kjob]}
        BY <3>5 DEF Reconcile, Recover, Lookup, cluster, marking
      <4> QED BY <3>1, <4>1
    <3>6. CASE SecretCreate(a)
      <4>1. UNCHANGED <<kjob, mine, marked, deleted>> /\ nextUid' \in {nextUid, nextUid + 1}
        BY <3>6 DEF SecretCreate, SecretTakesEffect, Keep, marking
      <4> QED BY <3>1, <4>1
    <3>7. CASE DeleteJob(a)
      <4>1. UNCHANGED <<nextUid, mine>> /\ (JobGone \/ UNCHANGED <<kjob, marked, deleted>>)
        BY <3>7 DEF DeleteJob, marking
      <4>2. JobGone => kjob' = None /\ marked' \in BOOLEAN /\ deleted' \in Nat
        BY JobGoneType
      <4> QED BY <3>1, <4>1, <4>2
    <3> QED BY <1>1, <3>2, <3>3, <3>4, <3>5, <3>6, <3>7 DEF AttemptStep, CreateJob
  <2>3. secret' \in [Attempt -> Secret \cup {None}]
    <3>1. secret \in [Attempt -> Secret \cup {None}]
      BY DEF TypeOK
    <3>2. CASE SecretCreate(a)
      <4>1. stage[a] = "secret" /\ (SecretTakesEffect(a) \/ UNCHANGED secret)
        BY <3>2 DEF SecretCreate
      <4>2. mine[a] \in KJob
        BY <4>1 DEF TypeOK, MineVerified, Holding
      <4> QED BY <3>1, <4>1, <4>2, SecretEffectType
    <3>3. CASE ~SecretCreate(a)
      <4>1. secret' \in {secret, [secret EXCEPT ![Name(a)] = None]}
        BY <1>1, <3>3 DEF AttemptStep, CreateJob, Start, Unmark, CreateSucceeds, CreateAlreadyExists,
           CreateRefused, CreateAmbiguous, Reconcile, Recover, Lookup, SecretCompare, CleanupLookup,
           DeleteSecret, DeleteJob, cluster
      <4> QED BY <3>1, <4>1
    <3> QED BY <3>2, <3>3
  <2>4. found' \in [Attempt -> Nat]
    <3>1. found \in [Attempt -> Nat] /\ secret \in [Attempt -> Secret \cup {None}]
      BY DEF TypeOK
    <3>2. CASE CleanupLookup(a)
      <4>1. stage[a] = "cleanup"
        BY <3>2 DEF CleanupLookup
      <4>2. mine[a] \in KJob
        BY <4>1 DEF TypeOK, MineVerified, Holding
      <4>3. Name(a) \in Attempt
        BY <4>2 DEF KJob, Name
      <4>4. Controls(a) => secret[Name(a)].uid \in Nat
        BY <3>1, <4>3 DEF Controls, Secret
      <4>5. UNCHANGED found \/ (Controls(a) /\ found' = [found EXCEPT ![a] = secret[Name(a)].uid])
        BY <3>2 DEF CleanupLookup
      <4> QED BY <3>1, <4>4, <4>5
    <3>3. CASE ~CleanupLookup(a)
      <4>1. UNCHANGED found
        BY <1>1, <3>3 DEF AttemptStep, CreateJob, Start, Unmark, CreateSucceeds, CreateAlreadyExists,
           CreateRefused, CreateAmbiguous, Reconcile, Recover, Lookup, SecretCreate, SecretCompare,
           DeleteSecret, DeleteJob, Keep
      <4> QED BY <3>1, <4>1
    <3> QED BY <3>2, <3>3
  <2>5. faults' \in 0..MaxFaults
    <3>1. Fault \/ NoFault
      BY <1>1 DEF AttemptStep, CreateJob, Start, Unmark, CreateSucceeds, CreateAlreadyExists,
         CreateRefused, CreateAmbiguous, Reconcile, Recover, Lookup, SecretCreate, SecretCompare,
         CleanupLookup, DeleteSecret, DeleteJob, NoFault, bounds
    <3> QED BY <3>1, FaultType
  <2>6. inTransit' \subseteq inTransit \cup {a} /\ gaveUp' \subseteq gaveUp \cup {a}
        /\ detached' \in {detached, [detached EXCEPT ![a] = TRUE]} /\ UNCHANGED <<cancelled, deletes>>
    <3>1. CASE Start(a) \/ Unmark(a) \/ CreateJob(a)
      BY <3>1 DEF CreateJob, Start, Unmark, CreateSucceeds, CreateAlreadyExists,
         CreateRefused, CreateAmbiguous, Keep, bounds
    <3>2. CASE Reconcile(a) \/ Recover(a) \/ SecretCreate(a) \/ SecretCompare(a)
      BY <3>2 DEF Reconcile, Recover, Lookup, SecretCreate, SecretCompare, Keep, GivesUp
    <3>3. CASE CleanupLookup(a) \/ DeleteSecret(a) \/ DeleteJob(a)
      BY <3>3 DEF CleanupLookup, DeleteSecret, DeleteJob, Keep, GivesUp
    <3> QED BY <1>1, <3>1, <3>2, <3>3 DEF AttemptStep
  <2>7. inTransit' \subseteq Attempt /\ gaveUp' \subseteq Attempt /\ detached' \in [Attempt -> BOOLEAN]
    BY <2>6 DEF TypeOK
  <2>8. cancelled' \in BOOLEAN /\ deletes' \in 0..MaxDeletes
    BY <2>6 DEF TypeOK
  <2> QED BY <2>1, <2>2, <2>3, <2>4, <2>5, <2>7, <2>8 DEF TypeOK
<1>2. ASSUME NEW a \in Attempt, LateCreateLands(a) PROVE TypeOK'
  <2>1. /\ UNCHANGED <<secret, stage, tries, mine, found, detached, cancelled, marked, deleted, faults, deletes>>
        /\ inTransit' \subseteq inTransit /\ gaveUp' \subseteq gaveUp \cup {a}
        /\ CreateTakesEffect(a) \/ UNCHANGED <<kjob, nextUid>>
    BY <1>2 DEF LateCreateLands, marking, bounds
  <2>2. kjob' \in KJob \cup {None} /\ nextUid' \in Nat
    <3>1. CreateTakesEffect(a) => kjob' \in KJob /\ nextUid' \in Nat
      BY CreateEffectType
    <3> QED BY <2>1, <3>1 DEF TypeOK
  <2> QED BY <2>1, <2>2 DEF TypeOK
<1>3. ASSUME NEW n \in Attempt, GarbageCollect(n) PROVE TypeOK'
  BY <1>3 DEF GarbageCollect, progress, marking, bounds, TypeOK
<1>4. CASE OthersDelete
  <2>1. /\ JobGone /\ UNCHANGED <<secret, nextUid, inTransit, stage, tries, mine, found, detached, gaveUp, cancelled, faults>>
        /\ deletes < MaxDeletes /\ deletes' = deletes + 1
    BY <1>4 DEF OthersDelete, progress
  <2>2. kjob' = None /\ marked' \in BOOLEAN /\ deleted' \in Nat
    BY <2>1, JobGoneType
  <2>3. deletes' \in 0..MaxDeletes
    BY <2>1, JobCreationAssumption DEF TypeOK
  <2> QED BY <2>1, <2>2, <2>3 DEF TypeOK
<1>5. CASE DeduperHears
  <2>1. UNCHANGED <<kjob, secret, nextUid, inTransit, stage, tries, mine, found, detached, gaveUp, cancelled, faults, deletes>>
        /\ marked' = FALSE /\ deleted > 0 /\ deleted' = deleted - 1
    BY <1>5 DEF DeduperHears, cluster, progress, bounds
  <2>2. marked' \in BOOLEAN
    BY <2>1
  <2>3. deleted' \in Nat
    BY <2>1 DEF TypeOK
  <2> QED BY <2>1, <2>2, <2>3 DEF TypeOK
<1>6. CASE CancelDispatch
  <2>1. UNCHANGED <<kjob, secret, nextUid, inTransit, stage, tries, mine, found, detached, gaveUp, marked, deleted, faults, deletes>>
        /\ cancelled' = TRUE
    BY <1>6 DEF CancelDispatch, cluster, progress, marking, bounds
  <2> QED BY <2>1 DEF TypeOK
<1>7. CASE UNCHANGED vars
  <2>1. UNCHANGED <<kjob, secret, nextUid, inTransit, stage, tries, mine, found, detached, gaveUp, cancelled, marked, deleted, faults, deletes>>
    BY <1>7 DEF vars, cluster, progress, marking, bounds
  <2> QED BY <2>1 DEF TypeOK
<1> QED BY <1>1, <1>2, <1>3, <1>4, <1>5, <1>6, <1>7 DEF Next

-----------------------------------------------------------------------------
(* What a step leaves of the objects. *)

\* A step of attempt a that changes no object and no attempt's Job.
LEMMA ObjectsKept ==
    ASSUME CreationInv, TypeOK', NEW a \in Attempt,
           UNCHANGED <<kjob, secret, nextUid, mine>>, gaveUp \subseteq gaveUp',
           \A b \in Attempt \ {a} : stage'[b] = stage[b] /\ found'[b] = found[b],
           stage'[a] \in Holding \cup {"ok"} => stage[a] \in Holding \cup {"ok"},
           found'[a] < nextUid,
           stage'[a] = "deleteSecret" /\ SecretMatches(a)' => secret[Name(a)].owner = mine[a].uid,
           kjob # None /\ Responsible(a) => Responsible(a)' \/ Complete
    PROVE  CreationInv'
<1>1. UidsAssigned'
  BY DEF CreationInv, UidsAssigned
<1>2. MineVerified'
  BY DEF CreationInv, MineVerified, Live
<1>3. FoundOwned'
  <2> SUFFICES ASSUME NEW b \in Attempt, stage'[b] = "deleteSecret", SecretMatches(b)'
               PROVE  secret[Name(b)].owner = mine[b].uid
    BY DEF FoundOwned, Name
  <2>1. CASE b # a
    BY <2>1 DEF CreationInv, FoundOwned, SecretMatches, Name
  <2> QED BY <2>1
<1>4. SecretsOurs'
  BY DEF CreationInv, SecretsOurs, Live
<1>5. IncompleteAnswered'
  <2> SUFFICES ASSUME kjob # None, kjob.ours, ~Complete PROVE \E b \in Attempt : Responsible(b)'
    BY DEF IncompleteAnswered, Complete
  <2>1. PICK b \in Attempt : Responsible(b)
    BY DEF CreationInv, IncompleteAnswered
  <2>2. CASE b = a
    BY <2>1, <2>2
  <2>3. CASE b # a
    BY <2>1, <2>3 DEF Responsible
  <2> QED BY <2>2, <2>3
<1> QED BY <1>1, <1>2, <1>3, <1>4, <1>5 DEF CreationInv

\* A Job that is created is new to every attempt and owns no Secret.
LEMMA JobAppears ==
    ASSUME CreationInv, TypeOK', NEW a \in Attempt, CreateTakesEffect(a),
           UNCHANGED <<secret, found>>,
           \A b \in Attempt : /\ mine'[b] = mine[b] \/ mine'[b] = kjob'
                              /\ stage'[b] = stage[b] \/ stage'[b] \in {"reconcile", "secret"}
                              /\ stage'[b] = "secret" => stage[b] = "secret" \/ mine'[b] = kjob'
                              /\ stage'[b] = "deleteSecret" => mine'[b] = mine[b],
           Responsible(a)'
    PROVE  CreationInv'
<1>1. /\ kjob' # None /\ kjob'.ours /\ kjob'.uid = nextUid /\ nextUid' = nextUid + 1 /\ kjob = None
  BY CreateEffectType DEF CreationInv
<1>2. /\ nextUid \in Nat /\ found \in [Attempt -> Nat]
      /\ \A b \in Attempt : mine[b] # None => mine[b].uid \in Nat /\ mine[b].uid < nextUid
      /\ \A b \in Attempt : secret[b] # None =>
            /\ secret[b].uid \in Nat /\ secret[b].owner \in Nat
            /\ secret[b].uid < nextUid /\ secret[b].owner < nextUid
      /\ \A b \in Attempt : found[b] < nextUid
  BY DEF CreationInv, TypeOK, UidsAssigned, KJob, Secret
<1>3. UidsAssigned'
  BY <1>1, <1>2 DEF UidsAssigned
<1>4. MineVerified'
  <2> SUFFICES ASSUME NEW b \in Attempt
               PROVE  /\ stage'[b] \in Holding \cup {"ok"} => mine'[b] # None
                      /\ mine'[b] # None => mine'[b].ours /\ (kjob'.uid = mine'[b].uid => mine'[b] = kjob')
    BY <1>1 DEF MineVerified, Live
  <2>1. stage'[b] \in Holding \cup {"ok"} => mine'[b] # None
    BY <1>1 DEF Holding, CreationInv, MineVerified
  <2>2. CASE mine'[b] = kjob'
    BY <1>1, <2>1, <2>2
  <2>3. CASE mine'[b] = mine[b]
    <3>1. mine[b] # None => mine[b].uid # nextUid
      BY <1>2
    <3> QED BY <1>1, <2>1, <2>3, <3>1 DEF CreationInv, MineVerified, Live
  <2> QED BY <2>2, <2>3
<1>5. FoundOwned'
  <2> SUFFICES ASSUME NEW b \in Attempt, stage'[b] = "deleteSecret", SecretMatches(b)'
               PROVE  secret'[Name(b)'].owner = mine'[b].uid
    BY DEF FoundOwned
  <2>1. mine'[b] = mine[b] /\ stage[b] = "deleteSecret"
    OBVIOUS
  <2> QED BY <2>1 DEF CreationInv, FoundOwned, SecretMatches, Name
<1>6. SecretsOurs'
  BY <1>1 DEF SecretsOurs
<1>7. IncompleteAnswered'
  BY DEF IncompleteAnswered
<1> QED BY <1>3, <1>4, <1>5, <1>6, <1>7 DEF CreationInv

\* The Job goes.
LEMMA JobDisappears ==
    ASSUME CreationInv, TypeOK', kjob' = None, UNCHANGED <<secret, nextUid, mine, found>>,
           \A b \in Attempt : stage'[b] = stage[b] \/ (stage'[b] \in {"deleteJob", "failed"} /\ mine[b] # None)
    PROVE  CreationInv'
<1>1. \A uid : ~Live(uid)'
  BY DEF Live
<1>2. UidsAssigned'
  BY DEF CreationInv, UidsAssigned
<1>3. MineVerified'
  BY <1>1 DEF CreationInv, MineVerified
<1>4. FoundOwned'
  BY DEF CreationInv, FoundOwned, SecretMatches, Name
<1>5. SecretsOurs' /\ IncompleteAnswered'
  BY <1>1 DEF SecretsOurs, IncompleteAnswered
<1> QED BY <1>2, <1>3, <1>4, <1>5 DEF CreationInv

\* A Secret goes: nobody's, or one that an attempt deletes whose Job it belongs to.
LEMMA SecretDisappears ==
    ASSUME CreationInv, TypeOK', NEW n \in Attempt,
           secret[n] # None, secret' = [secret EXCEPT ![n] = None],
           UNCHANGED <<kjob, nextUid, mine, found, gaveUp>>,
           \A b \in Attempt : stage'[b] = stage[b] \/ (stage[b] = "deleteSecret" /\ stage'[b] = "deleteJob"),
           Live(secret[n].owner) => \E a \in Attempt : stage'[a] \in Holding /\ mine[a] = kjob
    PROVE  CreationInv'
<1>1. secret'[n] = None /\ \A b \in Attempt : b # n => secret'[b] = secret[b]
  BY DEF CreationInv, TypeOK
<1>2. UidsAssigned'
  BY <1>1 DEF CreationInv, UidsAssigned
<1>3. MineVerified'
  BY DEF CreationInv, MineVerified, Live, Holding
<1>4. FoundOwned'
  <2> SUFFICES ASSUME NEW b \in Attempt, stage'[b] = "deleteSecret", SecretMatches(b)'
               PROVE  secret'[Name(b)].owner = mine[b].uid
    BY DEF FoundOwned, Name
  <2>1. stage[b] = "deleteSecret" /\ mine[b] \in KJob
    BY DEF CreationInv, MineVerified, Holding, TypeOK
  <2>2. Name(b) \in Attempt /\ Name(b)' = Name(b)
    BY <2>1 DEF KJob, Name
  <2>3. secret'[Name(b)] = secret[Name(b)] /\ SecretMatches(b)
    BY <1>1, <2>2 DEF SecretMatches
  <2> QED BY <2>1, <2>3 DEF CreationInv, FoundOwned
<1>5. SecretsOurs'
  BY <1>1 DEF CreationInv, SecretsOurs, Live
<1>6. IncompleteAnswered'
  <2> SUFFICES ASSUME kjob # None, kjob.ours, ~Complete' PROVE \E b \in Attempt : Responsible(b)'
    BY DEF IncompleteAnswered
  <2>1. CASE Complete
    <3>1. kjob.secret = n /\ Live(secret[n].owner)
      <4>1. kjob.secret \in Attempt
        BY DEF CreationInv, TypeOK, KJob
      <4> QED BY <1>1, <2>1, <4>1 DEF Complete, Live
    <3> QED BY <3>1 DEF Responsible
  <2>2. CASE ~Complete
    <3>1. PICK b \in Attempt : Responsible(b)
      BY <2>2 DEF CreationInv, IncompleteAnswered
    <3> QED BY <3>1 DEF Responsible, Looking, Holding
  <2> QED BY <2>1, <2>2
<1> QED BY <1>2, <1>3, <1>4, <1>5, <1>6 DEF CreationInv

\* A Secret is created: it completes the Job of the attempt that creates it.
LEMMA SecretAppears ==
    ASSUME CreationInv, TypeOK', NEW a \in Attempt, SecretTakesEffect(a), stage[a] = "secret",
           UNCHANGED <<kjob, mine, found, gaveUp>>, stage'[a] \in {"ok", "compare"},
           \A b \in Attempt \ {a} : stage'[b] = stage[b]
    PROVE  CreationInv'
<1>1. mine[a] \in KJob /\ mine[a].ours /\ (Live(mine[a].uid) => mine[a] = kjob)
  BY DEF CreationInv, MineVerified, Holding, TypeOK
<1>2. /\ nextUid' = nextUid + 1 /\ Name(a) \in Attempt /\ secret[Name(a)] = None
      /\ secret'[Name(a)] # None /\ secret'[Name(a)].uid = nextUid
      /\ secret'[Name(a)].owner = mine[a].uid
      /\ \A n \in Attempt : n # Name(a) => secret'[n] = secret[n]
  BY <1>1, SecretEffectType DEF CreationInv
<1>3. /\ nextUid \in Nat /\ found \in [Attempt -> Nat]
      /\ kjob # None => kjob.uid \in Nat /\ kjob.uid < nextUid
      /\ \A b \in Attempt : mine[b] # None => mine[b].uid \in Nat /\ mine[b].uid < nextUid
      /\ \A b \in Attempt : secret[b] # None =>
            /\ secret[b].uid \in Nat /\ secret[b].owner \in Nat
            /\ secret[b].uid < nextUid /\ secret[b].owner < nextUid
      /\ \A b \in Attempt : found[b] < nextUid
  BY DEF CreationInv, TypeOK, UidsAssigned, KJob, Secret
<1>4. mine[a] # None
  BY <1>1, NoneAssumption
<1>5. UidsAssigned'
  <2>1. \A n \in Attempt : secret'[n] # None => secret'[n].uid < nextUid' /\ secret'[n].owner < nextUid'
    BY <1>2, <1>3, <1>4
  <2> QED BY <1>2, <1>3, <2>1 DEF UidsAssigned
<1>6. MineVerified'
  BY <1>4 DEF CreationInv, MineVerified, Live
<1>7. FoundOwned'
  <2> SUFFICES ASSUME NEW b \in Attempt, stage'[b] = "deleteSecret", SecretMatches(b)'
               PROVE  secret'[Name(b)].owner = mine[b].uid
    BY DEF FoundOwned, Name
  <2>1. stage[b] = "deleteSecret" /\ mine[b] \in KJob
    BY DEF CreationInv, MineVerified, Holding, TypeOK
  <2>2. Name(b) \in Attempt /\ Name(b)' = Name(b)
    BY <2>1 DEF KJob, Name
  <2>3. Name(b) # Name(a)
    BY <1>2, <1>3, <2>2 DEF SecretMatches
  <2>4. secret'[Name(b)] = secret[Name(b)] /\ SecretMatches(b)
    BY <1>2, <2>2, <2>3 DEF SecretMatches
  <2> QED BY <2>1, <2>4 DEF CreationInv, FoundOwned
<1>8. SecretsOurs'
  BY <1>1, <1>2 DEF CreationInv, SecretsOurs, Live
<1>9. IncompleteAnswered'
  <2> SUFFICES ASSUME kjob # None, kjob.ours, ~Complete' PROVE \E b \in Attempt : Responsible(b)'
    BY DEF IncompleteAnswered
  <2>1. kjob.secret \in Attempt
    BY DEF CreationInv, TypeOK, KJob
  <2>2. ~Complete
    BY <1>2, <2>1 DEF Complete
  <2>3. PICK b \in Attempt : Responsible(b)
    BY <2>2 DEF CreationInv, IncompleteAnswered
  <2>4. mine[a] # kjob
    BY <1>2, <2>1 DEF Complete, Name
  <2>5. CASE b = a
    BY <2>3, <2>4, <2>5 DEF Responsible, Looking
  <2>6. CASE b # a
    BY <2>3, <2>6 DEF Responsible
  <2> QED BY <2>5, <2>6
<1> QED BY <1>5, <1>6, <1>7, <1>8, <1>9 DEF CreationInv

-----------------------------------------------------------------------------
(* The inductive invariant, action by action. *)

\* An attempt that starts, is turned away or ends.
LEMMA TurnedAwayInv ==
    ASSUME CreationInv, TypeOK', NEW a \in Attempt,
           Start(a) \/ CreateAlreadyExists(a) \/ CreateRefused(a) \/ Unmark(a)
    PROVE  CreationInv'
<1>1. /\ UNCHANGED <<kjob, secret, nextUid, mine, found, gaveUp>>
      /\ stage[a] \in {"idle", "create", "failed"}
      /\ \E s \in {"create", "duplicate", "failed", "returned"} : stage' = [stage EXCEPT ![a] = s]
  BY DEF Start, CreateAlreadyExists, CreateRefused, Unmark, Goto, Keep, cluster
<1>2. /\ stage'[a] \in {"create", "duplicate", "failed", "returned"}
      /\ \A b \in Attempt \ {a} : stage'[b] = stage[b] /\ found'[b] = found[b]
      /\ found'[a] < nextUid
  BY <1>1 DEF CreationInv, TypeOK, UidsAssigned
<1>3. Responsible(a) => Responsible(a)'
  BY <1>1 DEF Responsible, Looking, Holding
<1>4. stage'[a] \notin Holding \cup {"ok"} /\ stage'[a] # "deleteSecret"
  BY <1>2 DEF Holding
<1> QED BY <1>1, <1>2, <1>3, <1>4, ObjectsKept

\* The create succeeds, or the answer is lost; or a create takes effect late.
LEMMA CreateInv ==
    ASSUME CreationInv, TypeOK', NEW a \in Attempt,
           CreateSucceeds(a) \/ CreateAmbiguous(a) \/ LateCreateLands(a)
    PROVE  CreationInv'
<1>1. stage \in [Attempt -> Stage] /\ mine \in [Attempt -> KJob \cup {None}]
  BY DEF CreationInv, TypeOK
<1>2. ASSUME CreateTakesEffect(a) PROVE kjob'.secret = a
  BY <1>2, CreateEffectType DEF CreationInv
<1>3. CASE CreateSucceeds(a)
  <2>1. /\ CreateTakesEffect(a) /\ UNCHANGED <<secret, found>>
        /\ mine' = [mine EXCEPT ![a] = kjob'] /\ stage' = [stage EXCEPT ![a] = "secret"]
    BY <1>3 DEF CreateSucceeds, Goto
  <2>2. /\ mine'[a] = kjob' /\ stage'[a] = "secret"
        /\ \A b \in Attempt \ {a} : mine'[b] = mine[b] /\ stage'[b] = stage[b]
    BY <1>1, <2>1
  <2>3. Responsible(a)'
    BY <2>2 DEF Responsible, Holding
  <2> QED BY <2>1, <2>2, <2>3, JobAppears
<1>4. CASE CreateAmbiguous(a) /\ CreateTakesEffect(a)
  <2>1. UNCHANGED <<secret, found, mine>> /\ stage' = [stage EXCEPT ![a] = "reconcile"]
    BY <1>4 DEF CreateAmbiguous, Goto
  <2>2. stage'[a] = "reconcile" /\ \A b \in Attempt \ {a} : stage'[b] = stage[b]
    BY <1>1, <2>1
  <2>3. Responsible(a)'
    BY <1>2, <1>4, <2>2 DEF Responsible, Looking
  <2> QED BY <1>4, <2>1, <2>2, <2>3, JobAppears
<1>5. CASE CreateAmbiguous(a) /\ ~CreateTakesEffect(a)
  <2>1. /\ UNCHANGED <<kjob, secret, nextUid, found, mine, gaveUp>>
        /\ stage[a] = "create" /\ stage' = [stage EXCEPT ![a] = "reconcile"]
    BY <1>5 DEF CreateAmbiguous, Goto
  <2>2. stage'[a] = "reconcile" /\ \A b \in Attempt \ {a} : stage'[b] = stage[b] /\ found'[b] = found[b]
    BY <1>1, <2>1
  <2>3. Responsible(a) => Responsible(a)'
    BY <2>1 DEF Responsible, Looking, Holding
  <2>4. found'[a] < nextUid /\ stage'[a] \notin Holding \cup {"ok"} /\ stage'[a] # "deleteSecret"
    BY <2>1, <2>2 DEF Holding, CreationInv, UidsAssigned
  <2> QED BY <2>1, <2>2, <2>3, <2>4, ObjectsKept
<1>6. CASE LateCreateLands(a) /\ CreateTakesEffect(a)
  <2>1. /\ UNCHANGED <<secret, found, mine, stage>>
        /\ gaveUp' = IF stage[a] \in {"reconcile", "recover"} THEN gaveUp ELSE gaveUp \cup {a}
    <3>1. kjob = None /\ kjob' # None
      BY <1>6, CreateEffectType DEF CreationInv
    <3> QED BY <1>6, <3>1 DEF LateCreateLands
  <2>2. Responsible(a)'
    BY <1>2, <1>6, <2>1 DEF Responsible, Looking
  <2> QED BY <1>6, <2>1, <2>2, JobAppears
<1>7. CASE LateCreateLands(a) /\ ~CreateTakesEffect(a)
  <2>1. UNCHANGED <<kjob, secret, nextUid, found, mine, stage, gaveUp>>
    BY <1>7 DEF LateCreateLands
  <2>2. Responsible(a) => Responsible(a)'
    BY <2>1 DEF Responsible
  <2>3. found'[a] < nextUid
    BY <2>1 DEF CreationInv, UidsAssigned
  <2>4. stage'[a] = "deleteSecret" /\ SecretMatches(a)' => secret[Name(a)].owner = mine[a].uid
    BY <2>1 DEF CreationInv, FoundOwned, SecretMatches, Name
  <2> QED BY <2>1, <2>2, <2>3, <2>4, ObjectsKept
<1> QED BY <1>3, <1>4, <1>5, <1>6, <1>7

\* An attempt looks for the Job: it verifies the live one, looks again, or gives up
\* on the one it may have created.
LEMMA LookupInv ==
    ASSUME CreationInv, TypeOK', NEW a \in Attempt, Reconcile(a) \/ Recover(a)
    PROVE  CreationInv'
<1>1. /\ stage \in [Attempt -> Stage] /\ mine \in [Attempt -> KJob \cup {None}]
      /\ kjob \in KJob \cup {None}
      /\ \A b \in Attempt \ {a} : stage'[b] = stage[b]
  BY StepStages DEF CreationInv, TypeOK, AttemptStep
<1>2. /\ UNCHANGED <<kjob, secret, nextUid, found>> /\ stage[a] \in Looking
      /\ gaveUp' = IF stage'[a] = "failed" THEN gaveUp \cup {a} ELSE gaveUp
  BY DEF Reconcile, Recover, Lookup, GivesUp, cluster, Looking
<1>3. \/ /\ Verified /\ mine' = [mine EXCEPT ![a] = kjob]
         /\ \E s \in {"secret", "cleanup"} : stage' = [stage EXCEPT ![a] = s]
      \/ UNCHANGED mine /\ \E s \in {"reconcile", "recover", "failed"} : stage' = [stage EXCEPT ![a] = s]
  BY DEF Reconcile, Recover, Lookup, Retry, Goto
<1>4. CASE /\ Verified /\ mine' = [mine EXCEPT ![a] = kjob]
           /\ \E s \in {"secret", "cleanup"} : stage' = [stage EXCEPT ![a] = s]
  <2>1. /\ mine'[a] = kjob /\ stage'[a] \in {"secret", "cleanup"} /\ kjob # None /\ kjob.ours
        /\ \A b \in Attempt \ {a} : mine'[b] = mine[b]
    BY <1>1, <1>4 DEF Verified
  <2>2. UidsAssigned'
    BY <1>2, <2>1 DEF CreationInv, UidsAssigned
  <2>3. MineVerified'
    BY <1>1, <1>2, <2>1 DEF CreationInv, MineVerified, Live
  <2>4. FoundOwned'
    BY <1>1, <1>2, <2>1 DEF CreationInv, FoundOwned, SecretMatches, Name
  <2>5. SecretsOurs'
    BY <1>2 DEF CreationInv, SecretsOurs, Live
  <2>6. IncompleteAnswered'
    <3>1. Responsible(a)'
      BY <1>2, <2>1 DEF Responsible, Holding
    <3> QED BY <3>1 DEF IncompleteAnswered
  <2> QED BY <2>2, <2>3, <2>4, <2>5, <2>6 DEF CreationInv
<1>5. CASE UNCHANGED mine /\ \E s \in {"reconcile", "recover", "failed"} : stage' = [stage EXCEPT ![a] = s]
  <2>1. stage'[a] \in {"reconcile", "recover", "failed"}
    BY <1>1, <1>5
  <2>2. Responsible(a) => Responsible(a)'
    BY <1>2, <1>5, <2>1 DEF Responsible, Looking, Holding
  <2>3. found'[a] < nextUid /\ stage'[a] \notin Holding \cup {"ok"} /\ stage'[a] # "deleteSecret"
    BY <1>2, <2>1 DEF Holding, CreationInv, UidsAssigned
  <2>4. gaveUp \subseteq gaveUp' /\ \A b \in Attempt \ {a} : found'[b] = found[b]
    BY <1>2
  <2> QED BY <1>1, <1>2, <1>5, <2>2, <2>3, <2>4, ObjectsKept
<1> QED BY <1>3, <1>4, <1>5

\* The Secret is created, or the create failed or lost its answer.
LEMMA SecretCreateInv ==
    ASSUME CreationInv, TypeOK', NEW a \in Attempt, SecretCreate(a)
    PROVE  CreationInv'
<1>1. stage \in [Attempt -> Stage] /\ \A b \in Attempt \ {a} : stage'[b] = stage[b]
  BY StepStages DEF CreationInv, TypeOK, AttemptStep
<1>2. UNCHANGED <<kjob, mine, found, gaveUp>> /\ stage[a] = "secret"
  BY DEF SecretCreate, Keep
<1>3. \/ SecretTakesEffect(a) /\ \E s \in {"ok", "compare"} : stage' = [stage EXCEPT ![a] = s]
      \/ UNCHANGED <<secret, nextUid>> /\ \E s \in {"compare", "cleanup"} : stage' = [stage EXCEPT ![a] = s]
  BY DEF SecretCreate, Goto
<1>4. CASE SecretTakesEffect(a) /\ \E s \in {"ok", "compare"} : stage' = [stage EXCEPT ![a] = s]
  <2>1. stage'[a] \in {"ok", "compare"}
    BY <1>1, <1>4
  <2> QED BY <1>1, <1>2, <1>4, <2>1, SecretAppears
<1>5. CASE UNCHANGED <<secret, nextUid>> /\ \E s \in {"compare", "cleanup"} : stage' = [stage EXCEPT ![a] = s]
  <2>1. stage'[a] \in {"compare", "cleanup"}
    BY <1>1, <1>5
  <2>2. Responsible(a) => Responsible(a)'
    BY <1>2, <2>1 DEF Responsible, Looking, Holding
  <2>3. found'[a] < nextUid /\ stage[a] \in Holding \cup {"ok"} /\ stage'[a] # "deleteSecret"
    BY <1>2, <2>1 DEF Holding, CreationInv, UidsAssigned
  <2>4. \A b \in Attempt \ {a} : found'[b] = found[b]
    BY <1>2
  <2> QED BY <1>1, <1>2, <1>5, <2>2, <2>3, <2>4, ObjectsKept
<1> QED BY <1>3, <1>4, <1>5

\* The Secret is read back: an attempt is content only with one its Job controls.
LEMMA SecretCompareInv ==
    ASSUME CreationInv, TypeOK', NEW a \in Attempt, SecretCompare(a)
    PROVE  CreationInv'
<1>1. stage \in [Attempt -> Stage] /\ \A b \in Attempt \ {a} : stage'[b] = stage[b]
  BY StepStages DEF CreationInv, TypeOK, AttemptStep
<1>2. UNCHANGED <<kjob, secret, nextUid, mine, found, gaveUp>> /\ stage[a] = "compare"
  BY DEF SecretCompare, Keep, cluster
<1>3. \/ Controls(a) /\ stage' = [stage EXCEPT ![a] = "ok"]
      \/ \E s \in {"secret", "cleanup"} : stage' = [stage EXCEPT ![a] = s]
  BY DEF SecretCompare, Retry, Goto
<1>4. \/ Controls(a) /\ stage'[a] = "ok"
      \/ stage'[a] \in {"secret", "cleanup"}
  BY <1>1, <1>3
<1>5. kjob # None /\ Responsible(a) => Responsible(a)' \/ Complete
  BY <1>2, <1>4 DEF Responsible, Looking, Holding, Complete, Controls, Name
<1>6. found'[a] < nextUid /\ stage[a] \in Holding \cup {"ok"} /\ stage'[a] # "deleteSecret"
  BY <1>2, <1>4 DEF Holding, CreationInv, UidsAssigned
<1>7. \A b \in Attempt \ {a} : found'[b] = found[b]
  BY <1>2
<1> QED BY <1>1, <1>2, <1>5, <1>6, <1>7, ObjectsKept

\* cleanupIncompleteJob looks for the Secret of the verified Job.
LEMMA CleanupLookupInv ==
    ASSUME CreationInv, TypeOK', NEW a \in Attempt, CleanupLookup(a)
    PROVE  CreationInv'
<1>1. /\ stage \in [Attempt -> Stage] /\ found \in [Attempt -> Nat]
      /\ \A b \in Attempt \ {a} : stage'[b] = stage[b]
  BY StepStages DEF CreationInv, TypeOK, AttemptStep
<1>2. UNCHANGED <<kjob, secret, nextUid, mine, gaveUp>> /\ stage[a] = "cleanup"
  BY DEF CleanupLookup, cluster
<1>3. \/ /\ Controls(a) /\ found' = [found EXCEPT ![a] = secret[Name(a)].uid]
         /\ stage' = [stage EXCEPT ![a] = "deleteSecret"]
      \/ UNCHANGED found /\ stage' = [stage EXCEPT ![a] = "deleteJob"]
  BY DEF CleanupLookup, Goto
<1>4. mine[a] \in KJob
  BY <1>2 DEF CreationInv, TypeOK, MineVerified, Holding
<1>5. Name(a) \in Attempt
  BY <1>4 DEF KJob, Name
<1>6. found'[a] < nextUid /\ \A b \in Attempt \ {a} : found'[b] = found[b]
  BY <1>1, <1>3, <1>5 DEF CreationInv, UidsAssigned, Controls
<1>7. (stage'[a] = "deleteSecret" /\ Controls(a)) \/ stage'[a] = "deleteJob"
  BY <1>1, <1>3
<1>8. Responsible(a) => Responsible(a)'
  BY <1>2, <1>7 DEF Responsible, Looking, Holding
<1>9. stage[a] \in Holding \cup {"ok"}
  BY <1>2 DEF Holding
<1>10. stage'[a] = "deleteSecret" => secret[Name(a)].owner = mine[a].uid
  BY <1>7 DEF Controls
<1> QED BY <1>1, <1>2, <1>6, <1>8, <1>9, <1>10, ObjectsKept

\* The Secret goes by its UID: it is the verified Job's.
LEMMA DeleteSecretInv ==
    ASSUME CreationInv, TypeOK', NEW a \in Attempt, DeleteSecret(a)
    PROVE  CreationInv'
<1>1. stage \in [Attempt -> Stage] /\ \A b \in Attempt \ {a} : stage'[b] = stage[b]
  BY StepStages DEF CreationInv, TypeOK, AttemptStep
<1>2. UNCHANGED <<kjob, nextUid, mine, found, gaveUp>> /\ stage[a] = "deleteSecret"
  BY DEF DeleteSecret, Keep
<1>3. \E s \in {"deleteSecret", "deleteJob"} : stage' = [stage EXCEPT ![a] = s]
  BY DEF DeleteSecret, Retry, Goto
<1>4. stage'[a] \in {"deleteSecret", "deleteJob"}
  BY <1>1, <1>3
<1>5. stage'[a] \in Holding /\ stage[a] \in Holding
  BY <1>2, <1>4 DEF Holding
<1>6. CASE SecretMatches(a) /\ secret' = [secret EXCEPT ![Name(a)] = None]
  <2>1. mine[a] \in KJob /\ (Live(mine[a].uid) => mine[a] = kjob)
    BY <1>5 DEF CreationInv, TypeOK, MineVerified
  <2>2. Name(a) \in Attempt /\ secret[Name(a)] # None
    BY <1>6, <2>1 DEF KJob, Name, SecretMatches
  <2>3. secret[Name(a)].owner = mine[a].uid
    BY <1>2, <1>6 DEF CreationInv, FoundOwned
  <2>4. \A b \in Attempt : stage'[b] = stage[b] \/ (stage[b] = "deleteSecret" /\ stage'[b] = "deleteJob")
    BY <1>1, <1>2, <1>4
  <2>5. Live(secret[Name(a)].owner) => stage'[a] \in Holding /\ mine[a] = kjob
    BY <1>5, <2>1, <2>3
  <2> QED BY <1>2, <1>6, <2>2, <2>4, <2>5, SecretDisappears
<1>7. CASE UNCHANGED secret
  <2>1. Responsible(a) => Responsible(a)'
    BY <1>2, <1>5 DEF Responsible, Looking
  <2>2. found'[a] < nextUid /\ \A b \in Attempt \ {a} : found'[b] = found[b]
    BY <1>2 DEF CreationInv, UidsAssigned
  <2>3. SecretMatches(a)' => secret[Name(a)].owner = mine[a].uid
    BY <1>2, <1>7 DEF CreationInv, FoundOwned, SecretMatches, Name
  <2> QED BY <1>1, <1>2, <1>5, <1>7, <2>1, <2>2, <2>3, ObjectsKept
<1> QED BY <1>6, <1>7 DEF DeleteSecret

\* The Job goes by its UID, or the attempt gives up on it.
LEMMA DeleteJobInv ==
    ASSUME CreationInv, TypeOK', NEW a \in Attempt, DeleteJob(a)
    PROVE  CreationInv'
<1>1. stage \in [Attempt -> Stage] /\ \A b \in Attempt \ {a} : stage'[b] = stage[b]
  BY StepStages DEF CreationInv, TypeOK, AttemptStep
<1>2. UNCHANGED <<secret, nextUid, mine, found>> /\ stage[a] = "deleteJob"
  BY DEF DeleteJob
<1>3. \E s \in {"deleteJob", "failed"} : stage' = [stage EXCEPT ![a] = s]
  BY DEF DeleteJob, Retry, Goto
<1>4. stage'[a] \in {"deleteJob", "failed"} /\ stage'[a] # "deleteSecret"
  BY <1>1, <1>3
<1>5. CASE JobGone
  <2>1. mine[a] # None
    BY <1>2 DEF CreationInv, MineVerified, Holding
  <2>2. kjob' = None
    BY <1>5 DEF JobGone
  <2>3. \A b \in Attempt : stage'[b] = stage[b] \/ (stage'[b] \in {"deleteJob", "failed"} /\ mine[b] # None)
    BY <1>1, <1>4, <2>1
  <2> QED BY <1>2, <2>2, <2>3, JobDisappears
<1>6. CASE UNCHANGED kjob
  <2>1. gaveUp \subseteq gaveUp'
    BY DEF DeleteJob, GivesUp
  <2>2. \/ ~JobMatches(a)
        \/ gaveUp' = IF stage'[a] = "failed" THEN gaveUp \cup {a} ELSE gaveUp
        \/ kjob = None
    BY <1>6 DEF DeleteJob, GivesUp, JobGone
  <2>3. kjob # None /\ Responsible(a) => Responsible(a)'
    <3> SUFFICES ASSUME kjob # None, Responsible(a) PROVE Responsible(a)'
      OBVIOUS
    <3>1. CASE a \in gaveUp /\ (kjob.secret = a \/ mine[a] = kjob)
      BY <1>2, <1>6, <2>1, <3>1 DEF Responsible
    <3>2. CASE mine[a] = kjob
      <4>1. a \in gaveUp' \/ stage'[a] = "deleteJob"
        BY <1>4, <2>2, <3>2 DEF JobMatches, Live
      <4> QED BY <1>2, <1>6, <3>2, <4>1 DEF Responsible, Holding
    <3> QED BY <1>2, <3>1, <3>2 DEF Responsible, Looking
  <2>4. found'[a] < nextUid /\ \A b \in Attempt \ {a} : found'[b] = found[b]
    BY <1>2 DEF CreationInv, UidsAssigned
  <2>5. stage[a] \in Holding
    BY <1>2 DEF Holding
  <2> QED BY <1>1, <1>2, <1>4, <1>6, <2>1, <2>3, <2>4, <2>5, ObjectsKept
<1> QED BY <1>5, <1>6 DEF DeleteJob

LEMMA CreationStep == ASSUME CreationInv, [Next]_vars PROVE CreationInv'
<1>1. TypeOK'
  BY TypeStep DEF CreationInv
<1>2. ASSUME NEW a \in Attempt, Start(a) \/ AttemptStep(a) PROVE CreationInv'
  BY <1>1, <1>2, TurnedAwayInv, CreateInv, LookupInv, SecretCreateInv, SecretCompareInv,
     CleanupLookupInv, DeleteSecretInv, DeleteJobInv DEF AttemptStep, CreateJob
<1>3. ASSUME NEW a \in Attempt, LateCreateLands(a) PROVE CreationInv'
  BY <1>1, <1>3, CreateInv
<1>4. ASSUME NEW n \in Attempt, GarbageCollect(n) PROVE CreationInv'
  <2>1. /\ secret[n] # None /\ ~Live(secret[n].owner) /\ secret' = [secret EXCEPT ![n] = None]
        /\ UNCHANGED <<kjob, nextUid, mine, found, gaveUp, stage>>
    BY <1>4 DEF GarbageCollect, progress
  <2> QED BY <1>1, <2>1, SecretDisappears
<1>5. CASE OthersDelete
  <2>1. kjob' = None /\ UNCHANGED <<secret, nextUid, mine, found>> /\ UNCHANGED stage
    BY <1>5 DEF OthersDelete, JobGone, progress
  <2>2. \A b \in Attempt : stage'[b] = stage[b] \/ (stage'[b] \in {"deleteJob", "failed"} /\ mine[b] # None)
    BY <2>1
  <2> QED BY <1>1, <2>1, <2>2, JobDisappears
<1>6. CASE DeduperHears \/ CancelDispatch \/ UNCHANGED vars
  <2>1. UNCHANGED <<kjob, secret, nextUid, stage, mine, found, gaveUp>>
    BY <1>6 DEF DeduperHears, CancelDispatch, vars, cluster, progress
  <2>2. UidsAssigned' /\ MineVerified' /\ SecretsOurs'
    BY <2>1 DEF CreationInv, UidsAssigned, MineVerified, SecretsOurs, Live
  <2>3. FoundOwned'
    BY <2>1 DEF CreationInv, FoundOwned, SecretMatches, Name
  <2>4. IncompleteAnswered'
    BY <2>1 DEF CreationInv, IncompleteAnswered, Responsible, Complete
  <2> QED BY <1>1, <2>2, <2>3, <2>4 DEF CreationInv
<1> QED BY <1>2, <1>3, <1>4, <1>5, <1>6 DEF Next

LEMMA CreationStart == ASSUME Init PROVE CreationInv
<1>1. kjob = None \/ (kjob \in KJob /\ kjob.uid = 1 /\ ~kjob.ours)
  <2>1. kjob \in {None} \cup [uid : {1}, secret : Attempt, ours : {FALSE}]
    BY DEF Init
  <2>2. ASSUME NEW k \in [uid : {1}, secret : Attempt, ours : {FALSE}]
        PROVE  k \in KJob /\ k.uid = 1 /\ ~k.ours
    <3>1. PICK n \in Attempt : k = [uid |-> 1, secret |-> n, ours |-> FALSE]
      OBVIOUS
    <3>2. [uid |-> 1, secret |-> n, ours |-> FALSE] \in KJob
      BY DEF KJob
    <3>3. k.uid = 1 /\ ~k.ours
      BY <3>1
    <3> QED BY <3>1, <3>2, <3>3
  <2> QED BY <2>1, <2>2
<1>2. /\ secret = [n \in Attempt |-> None] /\ nextUid = 2 /\ inTransit = {}
      /\ stage = [a \in Attempt |-> "idle"] /\ tries = [a \in Attempt |-> 0]
      /\ mine = [a \in Attempt |-> None] /\ found = [a \in Attempt |-> 0]
      /\ detached = [a \in Attempt |-> FALSE] /\ gaveUp = {}
      /\ cancelled = FALSE /\ marked = FALSE /\ deleted = 0 /\ faults = 0 /\ deletes = 0
  BY DEF Init
<1>3. TypeOK
  <2>1. Steps \in Nat /\ MaxFaults \in Nat /\ MaxDeletes \in Nat
    BY JobCreationAssumption
  <2>2. kjob \in KJob \cup {None}
    BY <1>1
  <2>3. detached \in [Attempt -> BOOLEAN] /\ cancelled \in BOOLEAN /\ marked \in BOOLEAN
    BY <1>2
  <2>4. "idle" \in Stage
    BY DEF Stage
  <2>5. /\ secret \in [Attempt -> Secret \cup {None}] /\ stage \in [Attempt -> Stage]
        /\ mine \in [Attempt -> KJob \cup {None}] /\ inTransit \subseteq Attempt /\ gaveUp \subseteq Attempt
    BY <1>2, <2>4
  <2>6. /\ nextUid \in Nat /\ tries \in [Attempt -> 0..Steps] /\ found \in [Attempt -> Nat]
        /\ deleted \in Nat /\ faults \in 0..MaxFaults /\ deletes \in 0..MaxDeletes
    BY <1>2, <2>1
  <2> QED BY <2>2, <2>3, <2>5, <2>6 DEF TypeOK
<1>4. UidsAssigned
  BY <1>1, <1>2 DEF UidsAssigned
<1>5. MineVerified /\ FoundOwned /\ SecretsOurs
  BY <1>2 DEF MineVerified, FoundOwned, SecretsOurs, Holding
<1>6. IncompleteAnswered
  BY <1>1 DEF IncompleteAnswered
<1> QED BY <1>3, <1>4, <1>5, <1>6 DEF CreationInv

\* Whatever fails, an attempt works only on a Job it has verified as its stack's, by
\* the UID the API server gave it; and a Job of this stack without its Secret has an
\* attempt that answers for it.
THEOREM CreationInvariant == Spec => []CreationInv
<1>1. Init => CreationInv
  BY CreationStart
<1>2. CreationInv /\ [Next]_vars => CreationInv'
  BY CreationStep
<1> QED BY <1>1, <1>2, PTL DEF Spec

-----------------------------------------------------------------------------
(* The properties of the runs. *)

\* createJob leaves no Job behind without its token Secret, except by the attempt
\* that asked for it or verified it and had to give up on it.
THEOREM NoIncompleteJobLeftHolds == Spec => []NoIncompleteJobLeft
<1>1. CreationInv => NoIncompleteJobLeft
  <2> SUFFICES ASSUME CreationInv, kjob # None, kjob.ours, ~Complete
               PROVE  \E a \in Attempt : Attends(a) \/ (a \in gaveUp /\ (kjob.secret = a \/ mine[a] = kjob))
    BY DEF NoIncompleteJobLeft
  <2>1. PICK a \in Attempt : Responsible(a)
    BY DEF CreationInv, IncompleteAnswered
  <2>2. CASE stage[a] \in Looking
    BY <2>2 DEF Attends, Working, Looking
  <2>3. CASE stage[a] \in Holding /\ mine[a] = kjob
    BY <2>3 DEF Attends, Working, Holding, Live
  <2> QED BY <2>1, <2>2, <2>3 DEF Responsible
<1> QED BY <1>1, CreationInvariant, PTL

\* A Job of another stack under the attempt's name is not deleted and gets no Secret
\* (the identity checks of reconcileCreatedJob).
THEOREM ForeignJobUntouchedHolds == Spec => ForeignJobUntouched
<1> DEFINE Untouched == kjob # None /\ ~kjob.ours =>
                          /\ kjob' = kjob \/ OthersDelete
                          /\ \A n \in Attempt : secret'[n] # None => secret'[n].owner # kjob.uid
<1>1. CreationInv /\ CreationInv' /\ [Next]_vars => Untouched
  <2> SUFFICES ASSUME CreationInv, CreationInv', [Next]_vars, kjob # None, ~kjob.ours PROVE Untouched
    OBVIOUS
  <2>1. \A a \in Attempt : mine[a] # None => ~Live(mine[a].uid)
    BY DEF CreationInv, MineVerified
  <2>2. \A n \in Attempt : secret[n] # None => secret[n].owner # kjob.uid
    BY DEF CreationInv, SecretsOurs, Live
  <2>3. kjob' = kjob \/ OthersDelete
    <3>1. ASSUME NEW a \in Attempt, DeleteJob(a) PROVE kjob' = kjob
      <4>1. ~JobMatches(a)
        BY <2>1, <3>1 DEF JobMatches, DeleteJob, CreationInv, MineVerified, Holding
      <4> QED BY <3>1, <4>1 DEF DeleteJob
    <3>2. ASSUME NEW a \in Attempt, Start(a) \/ AttemptStep(a), ~DeleteJob(a) PROVE kjob' = kjob
      BY <3>2 DEF AttemptStep, CreateJob, Start, Unmark, CreateSucceeds, CreateAlreadyExists,
         CreateRefused, CreateAmbiguous, CreateTakesEffect, Reconcile, Recover, Lookup, SecretCreate,
         SecretCompare, CleanupLookup, DeleteSecret, cluster
    <3>3. ASSUME NEW a \in Attempt, LateCreateLands(a) \/ GarbageCollect(a) PROVE kjob' = kjob
      BY <3>3 DEF LateCreateLands, GarbageCollect, CreateTakesEffect
    <3>4. DeduperHears \/ CancelDispatch \/ UNCHANGED vars => kjob' = kjob
      BY DEF DeduperHears, CancelDispatch, vars, cluster
    <3> QED BY <3>1, <3>2, <3>3, <3>4 DEF Next
  <2>4. \A n \in Attempt : secret'[n] # None => secret'[n].owner # kjob.uid
    <3>1. CASE kjob' = kjob
      BY <3>1 DEF CreationInv, SecretsOurs, Live
    <3>2. CASE OthersDelete
      BY <2>2, <3>2 DEF OthersDelete
    <3> QED BY <2>3, <3>1, <3>2
  <2> QED BY <2>3, <2>4
<1> QED BY <1>1, CreationInvariant, PTL DEF Spec, ForeignJobUntouched

\* The Job an attempt reported as created keeps its Secret and stays, except by the
\* hand of others or of an attempt that has verified that same Job.
THEOREM CreatedJobKeptHolds == Spec => CreatedJobKept
<1> DEFINE Kept == \A a \in Attempt : Created(a) /\ HasToken(a) =>
                     \/ kjob' = kjob /\ secret'[kjob.secret] = secret[kjob.secret]
                     \/ OthersDelete
                     \/ \E b \in Attempt \ {a} : mine[b] = mine[a]
<1>1. CreationInv /\ [Next]_vars => Kept
  <2> SUFFICES ASSUME CreationInv, [Next]_vars, NEW a \in Attempt, Created(a), HasToken(a),
                      \A b \in Attempt \ {a} : mine[b] # mine[a], ~OthersDelete
               PROVE  kjob' = kjob /\ secret'[kjob.secret] = secret[kjob.secret]
    OBVIOUS
  <2>1. /\ stage[a] = "ok" /\ kjob # None /\ mine[a] = kjob
        /\ secret[kjob.secret] # None /\ secret[kjob.secret].owner = kjob.uid
    BY DEF Created, HasToken, Complete, Live, CreationInv, MineVerified, Holding
  <2>2. kjob.secret \in Attempt /\ secret \in [Attempt -> Secret \cup {None}]
    BY <2>1 DEF CreationInv, TypeOK, KJob
  <2>3. ASSUME NEW b \in Attempt, stage[b] \in Holding PROVE b # a /\ ~Live(mine[b].uid) /\ mine[b] \in KJob
    BY <2>1, <2>3 DEF Holding, CreationInv, MineVerified, TypeOK
  <2>4. ASSUME NEW b \in Attempt, DeleteJob(b) PROVE UNCHANGED <<kjob, secret>>
    <3>1. ~JobMatches(b)
      BY <2>3, <2>4 DEF JobMatches, DeleteJob, Holding
    <3> QED BY <2>4, <3>1 DEF DeleteJob
  <2>5. ASSUME NEW b \in Attempt, DeleteSecret(b)
        PROVE  kjob' = kjob /\ secret'[kjob.secret] = secret[kjob.secret]
    <3>1. stage[b] = "deleteSecret" /\ stage[b] \in Holding
      BY <2>5 DEF DeleteSecret, Holding
    <3>2. SecretMatches(b) => Name(b) # kjob.secret
      BY <2>1, <2>3, <3>1 DEF CreationInv, FoundOwned, Live
    <3>3. /\ kjob' = kjob
          /\ UNCHANGED secret \/ (SecretMatches(b) /\ secret' = [secret EXCEPT ![Name(b)] = None])
      BY <2>5 DEF DeleteSecret
    <3> QED BY <2>2, <3>2, <3>3
  <2>6. ASSUME NEW b \in Attempt, SecretCreate(b)
        PROVE  kjob' = kjob /\ secret'[kjob.secret] = secret[kjob.secret]
    BY <2>1, <2>2, <2>6 DEF SecretCreate, SecretTakesEffect
  <2>7. ASSUME NEW b \in Attempt, Start(b) \/ AttemptStep(b),
               ~DeleteJob(b), ~DeleteSecret(b), ~SecretCreate(b)
        PROVE  UNCHANGED <<kjob, secret>>
    BY <2>1, <2>7 DEF AttemptStep, CreateJob, Start, Unmark, CreateSucceeds, CreateAlreadyExists,
       CreateRefused, CreateAmbiguous, CreateTakesEffect, Reconcile, Recover, Lookup,
       SecretCompare, CleanupLookup, cluster
  <2>8. ASSUME NEW b \in Attempt, LateCreateLands(b) PROVE UNCHANGED <<kjob, secret>>
    BY <2>1, <2>8 DEF LateCreateLands, CreateTakesEffect
  <2>9. ASSUME NEW n \in Attempt, GarbageCollect(n)
        PROVE  kjob' = kjob /\ secret'[kjob.secret] = secret[kjob.secret]
    BY <2>1, <2>2, <2>9 DEF GarbageCollect, Live
  <2>10. DeduperHears \/ CancelDispatch \/ UNCHANGED vars => UNCHANGED <<kjob, secret>>
    BY DEF DeduperHears, CancelDispatch, vars, cluster
  <2> QED BY <2>4, <2>5, <2>6, <2>7, <2>8, <2>9, <2>10 DEF Next
<1> QED BY <1>1, CreationInvariant, PTL DEF Spec, CreatedJobKept
=============================================================================
