-------------------------- MODULE ReserveAndIssue --------------------------
(***************************************************************************)
(* The two batching stages between the limiter and the deduper: the        *)
(* reserver (reserver/reserver.go) and the issuer of job acquisition       *)
(* tokens (jatissuer/jatissuer.go).  A caller is a limiter worker that     *)
(* dispatches a job of its own.  It hands a request to the stage's one     *)
(* goroutine over an unbuffered channel and waits for the answer, its own  *)
(* context, or the end of the stage.  Time is counted in units of which a  *)
(* reservation lasts Lifetime.                                             *)
(***************************************************************************)
EXTENDS Integers, Sequences, FiniteSets

CONSTANTS
    Caller,      \* dispatches under way, one per Buildkite job
    BatchLimit,  \* the largest batch (1000 in both stages)
    Lifetime,    \* reservationExpirySeconds
    None         \* no answer, no token, no deadline

ASSUME BatchAssumption ==
    /\ IsFiniteSet(Caller) /\ None \notin Int
    /\ BatchLimit \in Nat \ {0} /\ Lifetime \in Nat \ {0}

Stage == {"reserve", "issue"}

VARIABLES
    at,           \* where each caller is: Idle, Sending, Waiting, Forwarded, Failed
    left,         \* time until the caller's context deadline, None before it has one
    answer,       \* the caller's result channel
    token,        \* job.JobAcquisitionToken
    batch,        \* each stage's batch
    phase,        \* how far each stage's goroutine is
    granted,      \* what Buildkite did with the reserve call under way
    elapsed,      \* time since that call was begun, at most Lifetime
    held,         \* time until Buildkite drops the job's reservation
    dispatchDone, \* the limiter's dispatch context, the callers' context, is cancelled
    stagesDone    \* the controller's dispatch context, the stages' own, is cancelled

callerVars == <<at, left, answer, token>>
stageVars == <<batch, phase, granted, elapsed>>
ctxVars == <<dispatchDone, stagesDone>>
vars == <<callerVars, stageVars, held, ctxVars>>

Token == [job : Caller]
Answer == [ok : BOOLEAN, left : 0..Lifetime, token : Token \cup {None}]

ASSUME NoneAssumption == None \notin Answer

Error == [ok |-> FALSE, left |-> 0, token |-> None]

\* Where a caller can be: outside, in one of the two selects of a stage's Handle,
\* past both stages, or returned with an error.
Idle == <<"idle">>
Forwarded == <<"forwarded">>
Failed == <<"failed">>
Sending == {<<"send", s>> : s \in Stage}
Waiting == {<<"wait", s>> : s \in Stage}

\* ctx.Err() # nil
CtxDone(c) == dispatchDone \/ left[c] = 0

-----------------------------------------------------------------------------
(* Callers: Handle of either stage. *)

Start(c) ==
    /\ at[c] = Idle /\ ~dispatchDone
    /\ at' = [at EXCEPT ![c] = <<"send", "reserve">>]
    /\ UNCHANGED <<left, answer, token, stageVars, held, ctxVars>>

HasRoom(s) == Cardinality(batch[s]) < BatchLimit

\* The rendezvous on the requests channel starts a batch or joins one.
Send(c, s) ==
    /\ at[c] = <<"send", s>>
    /\ phase[s] \in {"idle", "collect"} /\ HasRoom(s)
    /\ at' = [at EXCEPT ![c] = <<"wait", s>>]
    /\ batch' = [batch EXCEPT ![s] = @ \cup {c}]
    /\ phase' = [phase EXCEPT ![s] = "collect"]
    /\ UNCHANGED <<left, answer, token, granted, elapsed, held, ctxVars>>

\* Mutant: the send has no alternative.
GiveUpWaiting(c) ==
    /\ at[c] \in Waiting
    /\ CtxDone(c) \/ stagesDone
    /\ at' = [at EXCEPT ![c] = Failed]
    /\ UNCHANGED <<left, answer, token, stageVars, held, ctxVars>>

\* Either select may see the caller's context or the stage's context done.
GiveUp(c) ==
    /\ at[c] \in Sending \cup Waiting
    /\ CtxDone(c) \/ stagesDone
    /\ at' = [at EXCEPT ![c] = Failed]
    /\ UNCHANGED <<left, answer, token, stageVars, held, ctxVars>>

\* The context is checked again after the result is received.
Receive(c, s) ==
    /\ at[c] = <<"wait", s>> /\ answer[c] # None
    /\ answer' = [answer EXCEPT ![c] = None]
    /\ \/ /\ CtxDone(c) \/ ~answer[c].ok
          /\ at' = [at EXCEPT ![c] = Failed]
          /\ UNCHANGED <<left, token>>
       \/ /\ ~CtxDone(c) /\ answer[c].ok /\ s = "reserve"
          /\ at' = [at EXCEPT ![c] = <<"send", "issue">>]
          /\ left' = [left EXCEPT ![c] = answer[c].left]
          /\ UNCHANGED token
       \/ /\ ~CtxDone(c) /\ answer[c].ok /\ s = "issue"
          /\ at' = [at EXCEPT ![c] = Forwarded]
          /\ token' = [token EXCEPT ![c] = answer[c].token]
          /\ UNCHANGED left
    /\ UNCHANGED <<stageVars, held, ctxVars>>

CallerStep(c) == GiveUp(c) \/ \E s \in Stage : Send(c, s) \/ Receive(c, s)

-----------------------------------------------------------------------------
(* The stages' goroutines. *)

\* Mutant: the callers' contexts are not looked at.
WholeBatch(s) == batch[s]

\* The requests whose context is not done.
Active(s) == {c \in batch[s] : ~CtxDone(c)}

Answers(s, to(_)) == answer' = [c \in Caller |-> IF c \in batch[s] THEN to(c) ELSE answer[c]]

NextBatch(s) ==
    /\ batch' = [batch EXCEPT ![s] = {}]
    /\ phase' = [phase EXCEPT ![s] = "idle"]

StageEnds(s) ==
    /\ stagesDone /\ phase[s] # "done"
    /\ phase' = [phase EXCEPT ![s] = "done"]
    /\ UNCHANGED <<callerVars, batch, granted, elapsed, held, ctxVars>>

\* The timer fires or the batch is full.  If nobody is left, reserve returns
\* without a call and without an answer.
ReserveBegins ==
    /\ phase["reserve"] = "collect"
    /\ IF Active("reserve") = {}
       THEN NextBatch("reserve") /\ UNCHANGED <<granted, elapsed>>
       ELSE /\ phase' = [phase EXCEPT !["reserve"] = "call"]
            /\ granted' = [asked |-> Active("reserve"), reserved |-> None]
            /\ elapsed' = 0
            /\ UNCHANGED batch
    /\ UNCHANGED <<callerVars, held, ctxVars>>

\* Buildkite reserves some of the jobs asked for.
BuildkiteReserves ==
    /\ phase["reserve"] = "call" /\ granted.reserved = None
    /\ \E g \in SUBSET granted.asked :
          /\ granted' = [granted EXCEPT !.reserved = g]
          /\ held' = [c \in Caller |-> IF c \in g THEN Lifetime ELSE held[c]]
    /\ UNCHANGED <<callerVars, batch, phase, elapsed, ctxVars>>

\* Mutant: the lifetime is counted from the answer.
FullLifetime == Lifetime

\* What is left of a lifetime that is counted from before the request.
RemainingLifetime == Lifetime - elapsed

\* Mutant: only the jobs Buildkite reserved are answered.
ReserveAnswerGranted(c) ==
    IF c \in granted.reserved THEN [ok |-> TRUE, left |-> RemainingLifetime, token |-> None]
    ELSE answer[c]

ReserveAnswer(c) ==
    IF c \in granted.reserved THEN [ok |-> TRUE, left |-> RemainingLifetime, token |-> None]
    ELSE Error

\* ReserveJobs is not retried.  It may fail whether or not it took effect.
ReserveReturns ==
    /\ phase["reserve"] = "call"
    /\ \/ granted.reserved # None /\ Answers("reserve", ReserveAnswer)
       \/ Answers("reserve", LAMBDA c : Error)
    /\ NextBatch("reserve")
    /\ UNCHANGED <<at, left, token, granted, elapsed, held, ctxVars>>

\* The timer fires or the batch is full.
IssueBegins ==
    /\ phase["issue"] = "collect"
    /\ phase' = [phase EXCEPT !["issue"] = "retry"]
    /\ UNCHANGED <<callerVars, batch, granted, elapsed, held, ctxVars>>

\* One attempt, after the rate limiter and the backoff: callers that have gone
\* are left out from here on.
IssueAttempt ==
    /\ phase["issue"] = "retry" /\ Active("issue") # {}
    /\ batch' = [batch EXCEPT !["issue"] = Active("issue")]
    /\ phase' = [phase EXCEPT !["issue"] = "call"]
    /\ UNCHANGED <<callerVars, granted, elapsed, held, ctxVars>>

\* The last caller's context ends the attempt, the backoff or the wait for the
\* rate limiter.  Nobody waits for the answers.
IssueAbandoned ==
    /\ phase["issue"] \in {"retry", "call"} /\ Active("issue") = {}
    /\ NextBatch("issue")
    /\ UNCHANGED <<callerVars, granted, elapsed, held, ctxVars>>

\* Mutant: the first token of the response.
FirstToken(c, issued, notIssued) ==
    IF issued # <<>> THEN [ok |-> TRUE, left |-> 0, token |-> [job |-> issued[1]]] ELSE Error

\* Tokens are found by UUID; one that is named twice, or also as not issued, is
\* no token.
IssueAnswer(c, issued, notIssued) ==
    LET places == {i \in DOMAIN issued : issued[i] = c}
    IN IF Cardinality(places) = 1 /\ c \notin notIssued
       THEN [ok |-> TRUE, left |-> 0, token |-> [job |-> c]]
       ELSE Error

\* Responses may name any job, any number of times, in any order.
Responses == UNION {[1..n -> Caller] : n \in 0..BatchLimit}

\* A transient error leads to a retry, a permanent one to an error for all.
IssueReturns ==
    /\ phase["issue"] = "call"
    /\ \/ phase' = [phase EXCEPT !["issue"] = "retry"] /\ UNCHANGED <<answer, batch>>
       \/ Answers("issue", LAMBDA c : Error) /\ NextBatch("issue")
       \/ /\ \E issued \in Responses, notIssued \in SUBSET Caller :
                Answers("issue", LAMBDA c : IssueAnswer(c, issued, notIssued))
          /\ NextBatch("issue")
    /\ UNCHANGED <<at, left, token, granted, elapsed, held, ctxVars>>

-----------------------------------------------------------------------------
(* Time and shutdown. *)

Less(t) == IF t = 0 THEN 0 ELSE t - 1

Tick ==
    /\ left' = [c \in Caller |-> IF left[c] = None THEN None ELSE Less(left[c])]
    /\ answer' = [c \in Caller |->
                     IF answer[c] = None THEN None
                     ELSE [answer[c] EXCEPT !.left = Less(@)]]
    /\ held' = [c \in Caller |-> Less(held[c])]
    /\ elapsed' = IF phase["reserve"] = "call" /\ elapsed < Lifetime THEN elapsed + 1 ELSE elapsed
    /\ UNCHANGED <<at, token, batch, phase, granted, ctxVars>>

\* Drain's deadline; then the controller cancels the context of the stages.
CancelDispatch ==
    /\ \/ ~dispatchDone /\ dispatchDone' = TRUE /\ UNCHANGED stagesDone
       \/ dispatchDone /\ ~stagesDone /\ stagesDone' = TRUE /\ UNCHANGED dispatchDone
    /\ UNCHANGED <<callerVars, stageVars, held>>

-----------------------------------------------------------------------------

Init ==
    /\ at = [c \in Caller |-> Idle]
    /\ left = [c \in Caller |-> None]
    /\ answer = [c \in Caller |-> None]
    /\ token = [c \in Caller |-> None]
    /\ batch = [s \in Stage |-> {}]
    /\ phase = [s \in Stage |-> "idle"]
    /\ granted = [asked |-> {}, reserved |-> None]
    /\ elapsed = 0
    /\ held = [c \in Caller |-> 0]
    /\ dispatchDone = FALSE /\ stagesDone = FALSE

StageStep ==
    \/ \E s \in Stage : StageEnds(s)
    \/ ReserveBegins \/ ReserveReturns
    \/ IssueBegins \/ IssueAttempt \/ IssueAbandoned \/ IssueReturns

Next ==
    \/ \E c \in Caller : Start(c) \/ CallerStep(c)
    \/ StageStep
    \/ BuildkiteReserves
    \/ Tick
    \/ CancelDispatch

Spec == Init /\ [][Next]_vars

\* Goroutines run, HTTP calls return, and time passes.
Fairness ==
    /\ \A c \in Caller : WF_vars(CallerStep(c))
    /\ WF_vars(\E s \in Stage : StageEnds(s))
    /\ WF_vars(ReserveBegins) /\ WF_vars(ReserveReturns)
    /\ WF_vars(IssueBegins \/ IssueAttempt \/ IssueAbandoned \/ IssueReturns)
    /\ WF_vars(IssueAbandoned)
    /\ WF_vars(Tick)

FairSpec == Spec /\ Fairness

-----------------------------------------------------------------------------
(* Properties. *)

\* The variables keep their types, and no batch outgrows its limit, which is the
\* API's ("job acquisition token request contains %d UUIDs, maximum is 1000",
\* api/agent_client.go:357).
TypeOK ==
    /\ at \in [Caller -> {Idle, Forwarded, Failed} \cup Sending \cup Waiting]
    /\ left \in [Caller -> 0..Lifetime \cup {None}]
    /\ answer \in [Caller -> Answer \cup {None}]
    /\ token \in [Caller -> Token \cup {None}]
    /\ batch \in [Stage -> SUBSET Caller]
    /\ phase \in [Stage -> {"idle", "collect", "retry", "call", "done"}]
    /\ granted \in [asked : SUBSET Caller, reserved : (SUBSET Caller) \cup {None}]
    /\ elapsed \in 0..Lifetime
    /\ held \in [Caller -> 0..Lifetime]
    /\ dispatchDone \in BOOLEAN /\ stagesDone \in BOOLEAN
    /\ \A s \in Stage : Cardinality(batch[s]) <= BatchLimit

\* A caller that still wants its answer is going to get one: the answer is in
\* its channel, or the stage has the request in its batch.  Neither the requests
\* dropped from a batch nor a partial response leave a caller without one.
AnswerComing ==
    \A c \in Caller, s \in Stage :
        at[c] = <<"wait", s>> /\ ~CtxDone(c) /\ ~stagesDone =>
            answer[c] # None \/ c \in batch[s]

\* While a dispatch's context lives, Buildkite holds the job's reservation for
\* it, however long the request, the answer, the batching and the retries took
\* ("latency cannot extend our local view of the reservation beyond the server's
\* expiry", reserver.go:133-134).
DispatchWithinReservation ==
    \A c \in Caller :
        at[c] \in {Forwarded, <<"send", "issue">>, <<"wait", "issue">>} /\ ~CtxDone(c)
            => left[c] <= held[c] /\ held[c] > 0

\* A job is forwarded with the token issued for it, whatever the response of its
\* batch looked like ("Correlate by UUID, never response order",
\* jatissuer.go:164).
TokenOfOwnJob ==
    \A c \in Caller : at[c] = Forwarded => token[c] = [job |-> c]

\* Every dispatch gets through both stages or fails, so the limiter's worker and
\* slot come back, even if Buildkite never issues a token.
EveryCallerReturns ==
    \A c \in Caller : at[c] # Idle ~> at[c] \in {Forwarded, Failed}

\* The issuer, which retries for ever, is free again for later batches once the
\* callers of this one have reached their deadlines ("Stop even a long
\* Retry-After as soon as every caller has canceled or reached its reservation
\* deadline, so later batches can proceed", jatissuer.go:109-110).
IssuerFreed == phase["issue"] \in {"retry", "call"} ~> phase["issue"] \notin {"retry", "call"}
=============================================================================
