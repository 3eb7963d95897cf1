----------------------- MODULE ReserveAndIssueProofs -----------------------
(***************************************************************************)
(* Theorems about the reserver and the token issuer, for any number of     *)
(* dispatches, any batch limit and any lifetime of a reservation.          *)
(***************************************************************************)
EXTENDS ReserveAndIssue, FiniteSetTheorems, TLAPS

-----------------------------------------------------------------------------
(* The inductive invariant. *)

\* The requests in a stage's batch are unanswered and in that batch only, and
\* their callers wait for that stage or have given up.
Unanswered ==
    \A c \in Caller, s \in Stage :
        c \in batch[s] => /\ answer[c] = None
                         /\ at[c] \in {<<"wait", s>>, Failed}
                         /\ \A t \in Stage : c \in batch[t] => t = s

\* A result channel is empty until its caller has sent a request.
ChannelEmpty == \A c \in Caller : answer[c] # None => at[c] \in Waiting \cup {Failed}

\* What the reserver counts as left of a reservation it is being granted is no
\* more than Buildkite holds it for.
GrantedHeld ==
    phase["reserve"] = "call" /\ granted.reserved # None =>
        \A c \in granted.reserved : Lifetime - elapsed <= held[c]

\* So is what an answer grants, ...
AnswerHeld ==
    \A c \in Caller :
        at[c] = <<"wait", "reserve">> /\ answer[c] # None /\ answer[c].ok =>
            answer[c].left <= held[c]

\* ... and what is left to a dispatch that is past the reserver.
PastReserver == {Forwarded, <<"send", "issue">>, <<"wait", "issue">>}
LeftHeld ==
    \A c \in Caller : at[c] \in PastReserver => left[c] # None /\ left[c] <= held[c]

\* A good answer of the issuer carries the caller's own token.
AnswerOwn ==
    \A c \in Caller :
        at[c] = <<"wait", "issue">> /\ answer[c] # None /\ answer[c].ok =>
            answer[c].token = [job |-> c]

BatchInv ==
    /\ TypeOK
    /\ Unanswered
    /\ ChannelEmpty
    /\ AnswerComing
    /\ GrantedHeld
    /\ AnswerHeld
    /\ LeftHeld
    /\ AnswerOwn
    /\ TokenOfOwnJob

-----------------------------------------------------------------------------
(* Callers. *)

\* The places a caller can be at are distinct.
LEMMA Places ==
    /\ Idle \notin Sending \cup Waiting \cup PastReserver \cup {Failed}
    /\ Failed \notin Sending \cup Waiting \cup PastReserver
    /\ Forwarded \notin Sending \cup Waiting
    /\ Sending \cap Waiting = {}
    /\ {<<"wait", "reserve">>, <<"wait", "issue">>} \subseteq Waiting
    /\ <<"wait", "reserve">> # <<"wait", "issue">>
    /\ <<"wait", "reserve">> \notin PastReserver
    /\ <<"send", "reserve">> \notin PastReserver
    /\ \A s \in Stage : <<"wait", s>> \in Waiting /\ <<"send", s>> \in Sending
BY DEF Idle, Failed, Forwarded, Sending, Waiting, PastReserver, Stage

LEMMA InitInv == Init => BatchInv
<1> SUFFICES ASSUME Init PROVE BatchInv
  OBVIOUS
<1>1. TypeOK
  <2>1. \A s \in Stage : Cardinality(batch[s]) <= BatchLimit
    BY FS_EmptySet, BatchAssumption DEF Init
  <2>2. batch \in [Stage -> SUBSET Caller] /\ phase \in [Stage -> {"idle"}]
    BY DEF Init
  <2>3. granted \in [asked : SUBSET Caller, reserved : (SUBSET Caller) \cup {None}]
    <3>1. granted = [asked |-> {}, reserved |-> None]
      BY DEF Init
    <3> QED BY <3>1
  <2>4. elapsed \in 0..Lifetime /\ held \in [Caller -> 0..Lifetime]
    BY BatchAssumption DEF Init
  <2> QED BY <2>1, <2>2, <2>3, <2>4 DEF Init, TypeOK
<1> QED BY <1>1, Places
        DEF Init, BatchInv, Unanswered, ChannelEmpty, AnswerComing, GrantedHeld, AnswerHeld,
            LeftHeld, AnswerOwn, TokenOfOwnJob, PastReserver

\* A dispatch enters the reserver's Handle.
LEMMA StartInv == ASSUME BatchInv, NEW c \in Caller, Start(c) PROVE BatchInv'
<1>1. TypeOK'
  BY Places DEF BatchInv, Start, TypeOK, stageVars, ctxVars, Stage
<1>2. Unanswered' /\ ChannelEmpty'
  <2>1. at[c] \notin Waiting \cup {Failed}
    BY Places DEF Start
  <2>2. answer[c] = None /\ \A s \in Stage : c \notin batch[s]
    <3>1. answer[c] = None
      BY <2>1 DEF BatchInv, ChannelEmpty
    <3>2. ASSUME NEW s \in Stage PROVE c \notin batch[s]
      <4>1. at[c] \notin {<<"wait", s>>, Failed}
        BY <2>1, Places
      <4> QED BY <4>1 DEF BatchInv, Unanswered
    <3> QED BY <3>1, <3>2
  <2> QED BY <2>2 DEF BatchInv, TypeOK, Start, Unanswered, ChannelEmpty, stageVars
<1>3. AnswerComing'
  BY Places DEF BatchInv, TypeOK, Start, AnswerComing, CtxDone, stageVars, ctxVars
<1>4. GrantedHeld'
  BY DEF BatchInv, Start, GrantedHeld, stageVars
<1>5. AnswerHeld' /\ LeftHeld' /\ AnswerOwn' /\ TokenOfOwnJob'
  BY Places DEF BatchInv, TypeOK, Start, AnswerHeld, LeftHeld, AnswerOwn, TokenOfOwnJob,
                PastReserver, stageVars
<1> QED BY <1>1, <1>2, <1>3, <1>4, <1>5 DEF BatchInv

\* The rendezvous puts an unanswered request into the batch.
LEMMA SendInv == ASSUME BatchInv, NEW c \in Caller, NEW s \in Stage, Send(c, s) PROVE BatchInv'
<1>1. TypeOK'
  <2>1. IsFiniteSet(batch[s]) /\ Cardinality(batch[s]) \in Nat
    BY BatchAssumption, FS_Subset, FS_CardinalityType DEF BatchInv, TypeOK
  <2>2. Cardinality(batch[s] \cup {c}) <= Cardinality(batch[s]) + 1
    <3>1. Cardinality(batch[s] \cup {c})
            = IF c \in batch[s] THEN Cardinality(batch[s]) ELSE Cardinality(batch[s]) + 1
      BY <2>1, FS_AddElement
    <3> QED BY <2>1, <3>1
  <2>3. Cardinality(batch[s] \cup {c}) \in Nat
    BY <2>1, FS_AddElement, FS_CardinalityType
  <2>4. \A t \in Stage : Cardinality(batch'[t]) <= BatchLimit
    BY <2>1, <2>2, <2>3, BatchAssumption DEF BatchInv, TypeOK, Send, HasRoom
  <2>5. at' \in [Caller -> {Idle, Forwarded, Failed} \cup Sending \cup Waiting]
    BY Places DEF BatchInv, TypeOK, Send
  <2>6. batch' \in [Stage -> SUBSET Caller]
        /\ phase' \in [Stage -> {"idle", "collect", "retry", "call", "done"}]
    BY DEF BatchInv, TypeOK, Send
  <2> QED BY <2>4, <2>5, <2>6 DEF BatchInv, TypeOK, Send, ctxVars
<1>2. Unanswered' /\ ChannelEmpty'
  BY Places DEF BatchInv, TypeOK, Send, Unanswered, ChannelEmpty
<1>3. AnswerComing'
  BY Places DEF BatchInv, TypeOK, Send, AnswerComing, CtxDone, ctxVars
<1>4. GrantedHeld'
  BY DEF BatchInv, TypeOK, Send, GrantedHeld, Stage
<1>5. AnswerHeld' /\ AnswerOwn' /\ TokenOfOwnJob'
  BY Places DEF BatchInv, TypeOK, Send, ChannelEmpty, AnswerHeld, AnswerOwn, TokenOfOwnJob
<1>6. LeftHeld'
  BY Places DEF BatchInv, TypeOK, Send, LeftHeld, PastReserver, Stage
<1> QED BY <1>1, <1>2, <1>3, <1>4, <1>5, <1>6 DEF BatchInv

\* A caller that gives up leaves its request, and perhaps an answer, behind.
LEMMA GiveUpInv == ASSUME BatchInv, NEW c \in Caller, GiveUp(c) PROVE BatchInv'
<1>1. TypeOK'
  BY Places DEF BatchInv, GiveUp, TypeOK, stageVars, ctxVars
<1>2. Unanswered' /\ ChannelEmpty'
  BY Places DEF BatchInv, TypeOK, GiveUp, Unanswered, ChannelEmpty, stageVars
<1>3. AnswerComing'
  BY Places DEF BatchInv, TypeOK, GiveUp, AnswerComing, CtxDone, stageVars, ctxVars
<1>4. GrantedHeld'
  BY DEF BatchInv, GiveUp, GrantedHeld, stageVars
<1>5. AnswerHeld' /\ AnswerOwn'
  BY Places DEF BatchInv, TypeOK, GiveUp, AnswerHeld, AnswerOwn
<1>6. LeftHeld'
  <2>1. at'[c] \notin PastReserver /\ \A k \in Caller : k # c => at'[k] = at[k]
    BY Places DEF BatchInv, TypeOK, GiveUp
  <2> QED BY <2>1 DEF BatchInv, GiveUp, LeftHeld
<1>7. TokenOfOwnJob'
  BY Places DEF BatchInv, TypeOK, GiveUp, TokenOfOwnJob, PastReserver
<1> QED BY <1>1, <1>2, <1>3, <1>4, <1>5, <1>6, <1>7 DEF BatchInv

\* An answer is taken once, and only by a caller whose request has left the batch.
LEMMA ReceiveInv ==
    ASSUME BatchInv, NEW c \in Caller, NEW s \in Stage, Receive(c, s) PROVE BatchInv'
<1>1. TypeOK'
  BY Places DEF BatchInv, Receive, TypeOK, stageVars, ctxVars, Answer, Stage
<1>2. Unanswered' /\ ChannelEmpty'
  BY Places DEF BatchInv, TypeOK, Receive, Unanswered, ChannelEmpty, stageVars
<1>3. AnswerComing'
  BY Places DEF BatchInv, TypeOK, Receive, AnswerComing, CtxDone, stageVars, ctxVars, Stage
<1>4. GrantedHeld'
  BY DEF BatchInv, Receive, GrantedHeld, stageVars
<1>5. AnswerHeld' /\ AnswerOwn'
  BY Places DEF BatchInv, TypeOK, Receive, AnswerHeld, AnswerOwn
<1>6. LeftHeld'
  BY Places, BatchAssumption
     DEF BatchInv, TypeOK, Receive, LeftHeld, AnswerHeld, PastReserver, Answer, Stage
<1>7. TokenOfOwnJob'
  <2>1. CASE at'[c] = Forwarded
    BY <2>1, Places DEF BatchInv, TypeOK, Receive, TokenOfOwnJob, AnswerOwn, Stage, PastReserver
  <2>2. CASE at'[c] # Forwarded
    BY <2>2 DEF BatchInv, TypeOK, Receive, TokenOfOwnJob
  <2> QED BY <2>1, <2>2
<1> QED BY <1>1, <1>2, <1>3, <1>4, <1>5, <1>6, <1>7 DEF BatchInv

-----------------------------------------------------------------------------
(* The stages' goroutines. *)

\* A stage that stops leaves its batch as it is.
LEMMA StageEndsInv == ASSUME BatchInv, NEW s \in Stage, StageEnds(s) PROVE BatchInv'
<1>1. TypeOK'
  BY DEF BatchInv, TypeOK, StageEnds, callerVars, ctxVars
<1>2. GrantedHeld'
  BY DEF BatchInv, TypeOK, StageEnds, GrantedHeld, Stage
<1>3. Unanswered' /\ ChannelEmpty' /\ AnswerComing'
  BY DEF BatchInv, StageEnds, Unanswered, ChannelEmpty, AnswerComing, CtxDone, callerVars, ctxVars
<1>4. AnswerHeld' /\ LeftHeld' /\ AnswerOwn' /\ TokenOfOwnJob'
  BY DEF BatchInv, StageEnds, AnswerHeld, LeftHeld, AnswerOwn, TokenOfOwnJob, callerVars
<1> QED BY <1>1, <1>2, <1>3, <1>4 DEF BatchInv

\* What only the callers and Buildkite are concerned with stays as it is when a
\* stage's batch or progress changes.
LEMMA CallersKept ==
    ASSUME BatchInv, UNCHANGED <<callerVars, held>>
    PROVE  ChannelEmpty' /\ AnswerHeld' /\ LeftHeld' /\ AnswerOwn' /\ TokenOfOwnJob'
BY DEF BatchInv, ChannelEmpty, AnswerHeld, LeftHeld, AnswerOwn, TokenOfOwnJob, callerVars

\* A batch that loses only requests whose callers are done leaves no caller
\* without an answer.
LEMMA DropDone ==
    ASSUME BatchInv, UNCHANGED <<callerVars, ctxVars>>, NEW s \in Stage,
           batch' \in [Stage -> SUBSET Caller],
           \A t \in Stage : t # s => batch'[t] = batch[t],
           batch'[s] \subseteq batch[s], Active(s) \subseteq batch'[s]
    PROVE  Unanswered' /\ AnswerComing' /\ \A t \in Stage : Cardinality(batch'[t]) <= BatchLimit
<1>1. \A t \in Stage : batch'[t] \subseteq batch[t]
  OBVIOUS
<1>2. Unanswered'
  BY <1>1 DEF BatchInv, Unanswered, callerVars
<1>3. AnswerComing'
  BY DEF BatchInv, AnswerComing, Active, CtxDone, callerVars, ctxVars
<1>4. ASSUME NEW t \in Stage PROVE Cardinality(batch'[t]) <= BatchLimit
  <2>1. IsFiniteSet(batch[t]) /\ Cardinality(batch[t]) \in Nat
    BY BatchAssumption, FS_Subset, FS_CardinalityType DEF BatchInv, TypeOK
  <2>2. IsFiniteSet(batch'[t]) /\ Cardinality(batch'[t]) <= Cardinality(batch[t])
    BY <1>1, <2>1, FS_Subset
  <2>3. Cardinality(batch'[t]) \in Nat
    BY <2>2, FS_CardinalityType
  <2> QED BY <2>1, <2>2, <2>3, BatchAssumption DEF BatchInv, TypeOK
<1> QED BY <1>2, <1>3, <1>4

LEMMA ReserveBeginsInv == ASSUME BatchInv, ReserveBegins PROVE BatchInv'
<1>1. CASE Active("reserve") = {}
  <2>1. UNCHANGED <<callerVars, granted, elapsed, held, ctxVars>> /\ NextBatch("reserve")
    BY <1>1 DEF ReserveBegins
  <2>2. batch' \in [Stage -> SUBSET Caller] /\ batch'["reserve"] = {}
        /\ batch'["issue"] = batch["issue"]
    BY <2>1 DEF BatchInv, TypeOK, NextBatch, Stage
  <2>3. phase' \in [Stage -> {"idle", "collect", "retry", "call", "done"}]
        /\ phase'["reserve"] = "idle"
    BY <2>1 DEF BatchInv, TypeOK, NextBatch, Stage
  <2>4. Unanswered' /\ AnswerComing' /\ \A t \in Stage : Cardinality(batch'[t]) <= BatchLimit
    BY <1>1, <2>1, <2>2, DropDone DEF Stage
  <2>5. TypeOK'
    BY <2>1, <2>2, <2>3, <2>4 DEF BatchInv, TypeOK, callerVars, ctxVars
  <2> QED BY <2>1, <2>3, <2>4, <2>5, CallersKept DEF BatchInv, GrantedHeld
<1>2. CASE Active("reserve") # {}
  <2>1. UNCHANGED <<callerVars, batch, held, ctxVars>>
        /\ granted' = [asked |-> Active("reserve"), reserved |-> None] /\ elapsed' = 0
        /\ phase' = [phase EXCEPT !["reserve"] = "call"]
    BY <1>2 DEF ReserveBegins
  <2>2. granted' \in [asked : SUBSET Caller, reserved : (SUBSET Caller) \cup {None}]
    BY <2>1 DEF BatchInv, TypeOK, Active, Stage
  <2>3. TypeOK'
    <3>1. phase' \in [Stage -> {"idle", "collect", "retry", "call", "done"}]
      BY <2>1 DEF BatchInv, TypeOK
    <3>2. elapsed' \in 0..Lifetime
      BY <2>1, BatchAssumption
    <3> QED BY <2>1, <2>2, <3>1, <3>2 DEF BatchInv, TypeOK, callerVars, ctxVars
  <2>4. Unanswered' /\ AnswerComing'
    BY <2>1 DEF BatchInv, Unanswered, AnswerComing, CtxDone, callerVars, ctxVars
  <2>5. GrantedHeld'
    BY <2>1 DEF GrantedHeld
  <2> QED BY <2>1, <2>3, <2>4, <2>5, CallersKept DEF BatchInv
<1> QED BY <1>1, <1>2

\* Buildkite counts the lifetime from a moment after the reserver did.
LEMMA BuildkiteReservesInv == ASSUME BatchInv, BuildkiteReserves PROVE BatchInv'
<1>1. PICK g \in SUBSET granted.asked :
        /\ granted' = [granted EXCEPT !.reserved = g]
        /\ held' = [c \in Caller |-> IF c \in g THEN Lifetime ELSE held[c]]
  BY DEF BuildkiteReserves
<1>2. UNCHANGED <<callerVars, batch, phase, elapsed, ctxVars>>
  BY DEF BuildkiteReserves
<1>3. g \in SUBSET Caller /\ granted'.reserved = g
      /\ granted' \in [asked : SUBSET Caller, reserved : (SUBSET Caller) \cup {None}]
  BY <1>1 DEF BatchInv, TypeOK
<1>4. held' \in [Caller -> 0..Lifetime] /\ \A c \in Caller : held[c] <= held'[c]
  BY <1>1, BatchAssumption DEF BatchInv, TypeOK
<1>5. TypeOK'
  BY <1>2, <1>3, <1>4 DEF BatchInv, TypeOK, callerVars, ctxVars
<1>6. Unanswered' /\ ChannelEmpty' /\ AnswerComing' /\ AnswerOwn' /\ TokenOfOwnJob'
  BY <1>2 DEF BatchInv, Unanswered, ChannelEmpty, AnswerComing, AnswerOwn, TokenOfOwnJob, CtxDone,
              callerVars, ctxVars
<1>7. GrantedHeld'
  BY <1>1, <1>2, <1>3, BatchAssumption DEF BatchInv, TypeOK, GrantedHeld
<1>8. AnswerHeld' /\ LeftHeld'
  <2>1. \A c \in Caller : held[c] \in Int /\ held'[c] \in Int
    BY <1>4 DEF BatchInv, TypeOK
  <2>2. AnswerHeld'
    BY <1>2, <1>4, <2>1 DEF BatchInv, TypeOK, AnswerHeld, Answer, callerVars
  <2>3. LeftHeld'
    BY <1>2, <1>4, <2>1 DEF BatchInv, TypeOK, LeftHeld, callerVars
  <2> QED BY <2>2, <2>3
<1> QED BY <1>5, <1>6, <1>7, <1>8 DEF BatchInv

\* Answering a whole batch: what is asked of the answers of either stage.
LEMMA BatchAnswered ==
    ASSUME BatchInv, NEW s \in Stage, NextBatch(s),
           UNCHANGED <<at, left, token, granted, elapsed, held, ctxVars>>,
           answer' \in [Caller -> Answer \cup {None}],
           \A c \in Caller : c \notin batch[s] => answer'[c] = answer[c],
           \A c \in batch[s] :
               /\ answer'[c] # None
               /\ answer'[c].ok /\ s = "reserve" => answer'[c].left <= held[c]
               /\ answer'[c].ok /\ s = "issue" => answer'[c].token = [job |-> c]
    PROVE  BatchInv'
<1>1. batch' \in [Stage -> SUBSET Caller] /\ batch'[s] = {}
      /\ \A t \in Stage : t # s => batch'[t] = batch[t]
  BY DEF BatchInv, TypeOK, NextBatch
<1>2. phase' \in [Stage -> {"idle", "collect", "retry", "call", "done"}] /\ phase'[s] = "idle"
      /\ \A t \in Stage : t # s => phase'[t] = phase[t]
  BY DEF BatchInv, TypeOK, NextBatch
<1>3. TypeOK'
  <2>1. \A t \in Stage : Cardinality(batch'[t]) <= BatchLimit
    <3>1. Cardinality(batch'[s]) <= BatchLimit
      BY <1>1, FS_EmptySet, BatchAssumption
    <3> QED BY <1>1, <3>1 DEF BatchInv, TypeOK
  <2> QED BY <1>1, <1>2, <2>1 DEF BatchInv, TypeOK, ctxVars
<1>4. Unanswered'
  BY <1>1 DEF BatchInv, Unanswered
<1>5. ChannelEmpty'
  <2>1. ASSUME NEW c \in Caller, c \in batch[s] PROVE at[c] \in Waiting \cup {Failed}
    <3>1. at[c] \in {<<"wait", s>>, Failed}
      BY <2>1 DEF BatchInv, Unanswered
    <3>2. <<"wait", s>> \in Waiting
      BY Places
    <3> QED BY <3>1, <3>2
  <2>2. ASSUME NEW c \in Caller, answer'[c] # None PROVE at'[c] \in Waiting \cup {Failed}
    BY <2>1, <2>2 DEF BatchInv, ChannelEmpty
  <2> QED BY <2>2 DEF ChannelEmpty
<1>6. AnswerComing'
  <2> SUFFICES ASSUME NEW c \in Caller, NEW t \in Stage,
                      at[c] = <<"wait", t>>, ~CtxDone(c), ~stagesDone
               PROVE  answer'[c] # None \/ c \in batch'[t]
    BY DEF AnswerComing, CtxDone, ctxVars
  <2>1. answer[c] # None \/ c \in batch[t]
    BY DEF BatchInv, AnswerComing
  <2> QED BY <1>1, <2>1 DEF BatchInv, Unanswered
<1>7. GrantedHeld'
  BY <1>2 DEF BatchInv, GrantedHeld, Stage
<1>8. AnswerHeld' /\ AnswerOwn'
  <2> SUFFICES ASSUME NEW c \in Caller, answer'[c] # None, answer'[c].ok
               PROVE  /\ at[c] = <<"wait", "reserve">> => answer'[c].left <= held[c]
                      /\ at[c] = <<"wait", "issue">> => answer'[c].token = [job |-> c]
    BY DEF AnswerHeld, AnswerOwn
  <2>1. CASE c \notin batch[s]
    BY <2>1 DEF BatchInv, AnswerHeld, AnswerOwn
  <2>2. CASE c \in batch[s]
    BY <2>2, Places DEF BatchInv, Unanswered, Stage
  <2> QED BY <2>1, <2>2
<1>9. LeftHeld' /\ TokenOfOwnJob'
  BY DEF BatchInv, LeftHeld, TokenOfOwnJob
<1> QED BY <1>3, <1>4, <1>5, <1>6, <1>7, <1>8, <1>9 DEF BatchInv

\* An error is an answer that grants nothing.
LEMMA ErrorFacts == Error \in Answer /\ Error # None /\ ~Error.ok
<1>1. Error \in Answer
  <2>1. 0 \in 0..Lifetime
    BY BatchAssumption
  <2> QED BY <2>1 DEF Error, Answer
<1>2. Error.ok = FALSE
  BY DEF Error
<1> QED BY <1>1, <1>2, NoneAssumption

LEMMA ReserveReturnsInv == ASSUME BatchInv, ReserveReturns PROVE BatchInv'
<1>1. /\ NextBatch("reserve") /\ phase["reserve"] = "call"
      /\ UNCHANGED <<at, left, token, granted, elapsed, held, ctxVars>>
  BY DEF ReserveReturns
<1>2. CASE granted.reserved # None /\ Answers("reserve", ReserveAnswer)
  <2>1. ASSUME NEW c \in Caller
        PROVE  /\ ReserveAnswer(c) \in Answer /\ ReserveAnswer(c) # None
               /\ ReserveAnswer(c).ok => ReserveAnswer(c).left <= held[c]
    <3>1. CASE c \in granted.reserved
      <4>1. ReserveAnswer(c) = [ok |-> TRUE, left |-> Lifetime - elapsed, token |-> None]
        BY <3>1 DEF ReserveAnswer, RemainingLifetime
      <4>2. Lifetime - elapsed \in 0..Lifetime /\ Lifetime - elapsed <= held[c]
        BY <1>1, <1>2, <3>1, BatchAssumption DEF BatchInv, TypeOK, GrantedHeld
      <4>3. ReserveAnswer(c) \in Answer
        BY <4>1, <4>2 DEF Answer
      <4>4. ReserveAnswer(c).left = Lifetime - elapsed
        BY <4>1
      <4>5. ReserveAnswer(c) # None
        BY <4>3, NoneAssumption
      <4> QED BY <4>2, <4>3, <4>4, <4>5
    <3>2. CASE c \notin granted.reserved
      BY <3>2, ErrorFacts DEF ReserveAnswer
    <3> QED BY <3>1, <3>2
  <2>2. answer' = [c \in Caller |-> IF c \in batch["reserve"] THEN ReserveAnswer(c) ELSE answer[c]]
    BY <1>2 DEF Answers
  <2>3. "reserve" \in Stage /\ batch["reserve"] \subseteq Caller
    BY DEF BatchInv, TypeOK, Stage
  <2>4. answer' \in [Caller -> Answer \cup {None}]
    BY <2>1, <2>2 DEF BatchInv, TypeOK
  <2> QED BY <1>1, <2>1, <2>2, <2>3, <2>4, BatchAnswered
<1>3. CASE Answers("reserve", LAMBDA c : Error)
  <2>1. answer' = [c \in Caller |-> IF c \in batch["reserve"] THEN Error ELSE answer[c]]
    BY <1>3 DEF Answers
  <2>2. "reserve" \in Stage /\ batch["reserve"] \subseteq Caller
    BY DEF BatchInv, TypeOK, Stage
  <2>3. answer' \in [Caller -> Answer \cup {None}]
    BY <2>1, ErrorFacts DEF BatchInv, TypeOK
  <2> QED BY <1>1, <2>1, <2>2, <2>3, ErrorFacts, BatchAnswered
<1> QED BY <1>2, <1>3 DEF ReserveReturns

LEMMA IssueBeginsInv == ASSUME BatchInv, IssueBegins PROVE BatchInv'
<1>1. UNCHANGED <<callerVars, batch, granted, elapsed, held, ctxVars>>
      /\ phase' = [phase EXCEPT !["issue"] = "retry"]
  BY DEF IssueBegins
<1>2. phase' \in [Stage -> {"idle", "collect", "retry", "call", "done"}]
      /\ phase'["reserve"] = phase["reserve"]
  BY <1>1 DEF BatchInv, TypeOK, Stage
<1>3. TypeOK'
  BY <1>1, <1>2 DEF BatchInv, TypeOK, callerVars, ctxVars
<1>4. Unanswered' /\ AnswerComing' /\ GrantedHeld'
  BY <1>1, <1>2 DEF BatchInv, Unanswered, AnswerComing, GrantedHeld, CtxDone, callerVars, ctxVars
<1> QED BY <1>1, <1>3, <1>4, CallersKept DEF BatchInv

\* Requests whose callers are done leave the batch.
LEMMA IssueDropsInv == ASSUME BatchInv, IssueAttempt \/ IssueAbandoned PROVE BatchInv'
<1>1. UNCHANGED <<callerVars, granted, elapsed, held, ctxVars>>
  BY DEF IssueAttempt, IssueAbandoned
<1>2. /\ batch' \in [Stage -> SUBSET Caller] /\ batch'["reserve"] = batch["reserve"]
      /\ batch'["issue"] = Active("issue")
  BY DEF BatchInv, TypeOK, IssueAttempt, IssueAbandoned, NextBatch, Active, Stage
<1>3. phase' \in [Stage -> {"idle", "collect", "retry", "call", "done"}]
      /\ phase'["reserve"] = phase["reserve"]
  BY DEF BatchInv, TypeOK, IssueAttempt, IssueAbandoned, NextBatch, Stage
<1>4. Unanswered' /\ AnswerComing' /\ \A t \in Stage : Cardinality(batch'[t]) <= BatchLimit
  <2>1. Active("issue") \subseteq batch["issue"]
    BY DEF Active
  <2> QED BY <1>1, <1>2, <2>1, DropDone DEF Stage
<1>5. TypeOK'
  BY <1>1, <1>2, <1>3, <1>4 DEF BatchInv, TypeOK, callerVars, ctxVars
<1>6. GrantedHeld'
  BY <1>1, <1>3 DEF BatchInv, GrantedHeld
<1> QED BY <1>1, <1>4, <1>5, <1>6, CallersKept DEF BatchInv

\* Whatever the response names, a good answer carries the token of its own job.
LEMMA IssueReturnsInv == ASSUME BatchInv, IssueReturns PROVE BatchInv'
<1>1. UNCHANGED <<at, left, token, granted, elapsed, held, ctxVars>>
  BY DEF IssueReturns
<1>2. "issue" \in Stage /\ batch["issue"] \subseteq Caller
  BY DEF BatchInv, TypeOK, Stage
<1>3. CASE phase' = [phase EXCEPT !["issue"] = "retry"] /\ UNCHANGED <<answer, batch>>
  <2>1. phase' \in [Stage -> {"idle", "collect", "retry", "call", "done"}]
        /\ phase'["reserve"] = phase["reserve"]
    BY <1>3 DEF BatchInv, TypeOK, Stage
  <2>2. TypeOK'
    BY <1>1, <1>3, <2>1 DEF BatchInv, TypeOK, ctxVars
  <2>3. Unanswered' /\ AnswerComing' /\ GrantedHeld'
    BY <1>1, <1>3, <2>1 DEF BatchInv, Unanswered, AnswerComing, GrantedHeld, CtxDone, ctxVars
  <2> QED BY <1>1, <1>3, <2>2, <2>3, CallersKept DEF BatchInv, callerVars
<1>4. CASE Answers("issue", LAMBDA c : Error) /\ NextBatch("issue")
  <2>1. answer' = [c \in Caller |-> IF c \in batch["issue"] THEN Error ELSE answer[c]]
    BY <1>4 DEF Answers
  <2>2. answer' \in [Caller -> Answer \cup {None}]
    BY <2>1, ErrorFacts DEF BatchInv, TypeOK
  <2> QED BY <1>1, <1>2, <1>4, <2>1, <2>2, ErrorFacts, BatchAnswered
<1>5. ASSUME NEW issued \in Responses, NEW notIssued \in SUBSET Caller,
             Answers("issue", LAMBDA c : IssueAnswer(c, issued, notIssued)), NextBatch("issue")
      PROVE  BatchInv'
  <2>1. answer' = [c \in Caller |-> IF c \in batch["issue"] THEN IssueAnswer(c, issued, notIssued)
                                    ELSE answer[c]]
    BY <1>5 DEF Answers
  <2>2. ASSUME NEW c \in Caller
        PROVE  /\ IssueAnswer(c, issued, notIssued) \in Answer
               /\ IssueAnswer(c, issued, notIssued) # None
               /\ IssueAnswer(c, issued, notIssued).ok =>
                      IssueAnswer(c, issued, notIssued).token = [job |-> c]
    <3> DEFINE good == [ok |-> TRUE, left |-> 0, token |-> [job |-> c]]
    <3>1. good \in Answer
      <4>1. 0 \in 0..Lifetime
        BY BatchAssumption
      <4> QED BY <4>1 DEF Answer, Token
    <3>2. good.token = [job |-> c] /\ good # None
      BY <3>1, NoneAssumption
    <3>3. IssueAnswer(c, issued, notIssued) \in {good, Error}
      BY DEF IssueAnswer
    <3> HIDE DEF good
    <3> QED BY <3>1, <3>2, <3>3, ErrorFacts
  <2>3. answer' \in [Caller -> Answer \cup {None}]
    BY <2>1, <2>2 DEF BatchInv, TypeOK
  <2> QED BY <1>1, <1>2, <1>5, <2>1, <2>2, <2>3, BatchAnswered
<1> QED BY <1>3, <1>4, <1>5 DEF IssueReturns

-----------------------------------------------------------------------------
(* Time and shutdown. *)

\* Time runs alike for everyone: what the stages and the callers count as left
\* shrinks with what Buildkite holds.
LEMMA TickInv == ASSUME BatchInv, Tick PROVE BatchInv'
<1>1. UNCHANGED <<at, token, batch, phase, granted, ctxVars>>
  BY DEF Tick
<1>2. \A t \in 0..Lifetime : Less(t) \in 0..Lifetime /\ (t = 0 => Less(t) = 0)
  BY BatchAssumption DEF Less
<1>3. \A t, u \in 0..Lifetime : t <= u => Less(t) <= Less(u)
  BY BatchAssumption DEF Less
<1>4. held' = [c \in Caller |-> Less(held[c])] /\ held' \in [Caller -> 0..Lifetime]
  BY <1>2 DEF BatchInv, TypeOK, Tick
<1>5. /\ left' \in [Caller -> 0..Lifetime \cup {None}]
      /\ \A c \in Caller : left[c] # None => left'[c] = Less(left[c]) /\ left'[c] # None
      /\ \A c \in Caller : left[c] = 0 => left'[c] = 0
  BY <1>2, BatchAssumption DEF BatchInv, TypeOK, Tick
<1>6. /\ answer' \in [Caller -> Answer \cup {None}]
      /\ \A c \in Caller : answer[c] = None <=> answer'[c] = None
      /\ \A c \in Caller : answer[c] # None => /\ answer'[c].ok = answer[c].ok
                                               /\ answer'[c].left = Less(answer[c].left)
                                               /\ answer'[c].token = answer[c].token
  <2>1. answer' = [c \in Caller |-> IF answer[c] = None THEN None
                                    ELSE [answer[c] EXCEPT !.left = Less(@)]]
    BY DEF Tick
  <2>2. ASSUME NEW c \in Caller, answer[c] # None
        PROVE  /\ answer'[c] \in Answer /\ answer'[c] # None
               /\ answer'[c].ok = answer[c].ok /\ answer'[c].left = Less(answer[c].left)
               /\ answer'[c].token = answer[c].token
    <3>1. answer[c] \in Answer
      BY <2>2 DEF BatchInv, TypeOK
    <3>2. answer'[c] = [answer[c] EXCEPT !.left = Less(@)]
      BY <2>1, <2>2
    <3>3. answer'[c] \in Answer
      BY <1>2, <3>1, <3>2 DEF Answer
    <3> QED BY <3>1, <3>2, <3>3, NoneAssumption DEF Answer
  <2> QED BY <2>1, <2>2
<1>7. elapsed' \in 0..Lifetime
      /\ (phase["reserve"] = "call" => Lifetime - elapsed' = Less(Lifetime - elapsed))
  BY BatchAssumption DEF BatchInv, TypeOK, Tick, Less
<1>8. TypeOK'
  BY <1>1, <1>4, <1>5, <1>6, <1>7 DEF BatchInv, TypeOK, ctxVars
<1>9. Unanswered' /\ ChannelEmpty' /\ TokenOfOwnJob'
  BY <1>1, <1>6 DEF BatchInv, Unanswered, ChannelEmpty, TokenOfOwnJob
<1>10. AnswerComing'
  BY <1>1, <1>5, <1>6 DEF BatchInv, AnswerComing, CtxDone, ctxVars
<1>11. GrantedHeld'
  <2> SUFFICES ASSUME phase["reserve"] = "call", granted.reserved # None, NEW c \in granted.reserved
               PROVE  Lifetime - elapsed' <= held'[c]
    BY <1>1 DEF GrantedHeld
  <2>1. c \in Caller /\ Lifetime - elapsed <= held[c]
    BY DEF BatchInv, TypeOK, GrantedHeld
  <2>2. Lifetime - elapsed \in 0..Lifetime /\ held[c] \in 0..Lifetime
    BY <2>1, BatchAssumption DEF BatchInv, TypeOK
  <2> QED BY <1>3, <1>4, <1>7, <2>1, <2>2
<1>12. AnswerHeld'
  <2> SUFFICES ASSUME NEW c \in Caller, at[c] = <<"wait", "reserve">>, answer'[c] # None, answer'[c].ok
               PROVE  answer'[c].left <= held'[c]
    BY <1>1 DEF AnswerHeld
  <2>1. answer[c] # None /\ answer[c] \in Answer /\ answer[c].left <= held[c]
    BY <1>6 DEF BatchInv, TypeOK, AnswerHeld
  <2>2. answer[c].left \in 0..Lifetime /\ held[c] \in 0..Lifetime
    BY <2>1 DEF BatchInv, TypeOK, Answer
  <2> QED BY <1>3, <1>4, <1>6, <2>1, <2>2
<1>13. LeftHeld'
  <2> SUFFICES ASSUME NEW c \in Caller, at[c] \in PastReserver
               PROVE  left'[c] # None /\ left'[c] <= held'[c]
    BY <1>1 DEF LeftHeld
  <2>1. left[c] # None /\ left[c] <= held[c]
    BY DEF BatchInv, LeftHeld
  <2>2. left[c] \in 0..Lifetime /\ held[c] \in 0..Lifetime
    BY <2>1 DEF BatchInv, TypeOK
  <2> QED BY <1>3, <1>4, <1>5, <2>1, <2>2
<1>14. AnswerOwn'
  BY <1>1, <1>6 DEF BatchInv, AnswerOwn
<1> QED BY <1>8, <1>9, <1>10, <1>11, <1>12, <1>13, <1>14 DEF BatchInv

LEMMA CancelInv == ASSUME BatchInv, CancelDispatch PROVE BatchInv'
<1>1. UNCHANGED <<callerVars, stageVars, held>> /\ dispatchDone' \in BOOLEAN /\ stagesDone' \in BOOLEAN
      /\ (dispatchDone => dispatchDone') /\ (stagesDone => stagesDone')
  BY DEF BatchInv, TypeOK, CancelDispatch
<1>2. TypeOK'
  BY <1>1 DEF BatchInv, TypeOK, callerVars, stageVars
<1>3. Unanswered' /\ AnswerComing' /\ GrantedHeld'
  BY <1>1 DEF BatchInv, Unanswered, AnswerComing, GrantedHeld, CtxDone, callerVars, stageVars
<1> QED BY <1>1, <1>2, <1>3, CallersKept DEF BatchInv

-----------------------------------------------------------------------------
(* The theorems. *)

\* BatchInv holds throughout: the invariant the other theorems rest on.
THEOREM BatchInvariant == Spec => []BatchInv
<1>1. BatchInv /\ [Next]_vars => BatchInv'
  <2> SUFFICES ASSUME BatchInv, [Next]_vars PROVE BatchInv'
    OBVIOUS
  <2>1. ASSUME NEW c \in Caller, Start(c) \/ CallerStep(c) PROVE BatchInv'
    BY <2>1, StartInv, GiveUpInv, SendInv, ReceiveInv DEF CallerStep
  <2>2. CASE StageStep
    BY <2>2, StageEndsInv, ReserveBeginsInv, ReserveReturnsInv, IssueBeginsInv, IssueDropsInv,
       IssueReturnsInv DEF StageStep
  <2>3. CASE BuildkiteReserves \/ Tick \/ CancelDispatch
    BY <2>3, BuildkiteReservesInv, TickInv, CancelInv
  <2>4. CASE UNCHANGED vars
    BY <2>4 DEF vars, callerVars, stageVars, ctxVars, BatchInv, TypeOK, Unanswered, ChannelEmpty,
                AnswerComing, GrantedHeld, AnswerHeld, LeftHeld, AnswerOwn, TokenOfOwnJob, CtxDone
  <2> QED BY <2>1, <2>2, <2>3, <2>4 DEF Next
<1> QED BY InitInv, <1>1, PTL DEF Spec

\* A caller that still wants its answer is going to get one: no request is lost
\* when batches are filtered, abandoned or answered in part (reserver.go,
\* jatissuer.go: Handle and the stages' loops).
THEOREM AnswerComingHolds == Spec => []AnswerComing
<1>1. BatchInv => AnswerComing
  BY DEF BatchInv
<1> QED BY BatchInvariant, <1>1, PTL

\* The reserver's local view of a reservation never outlasts Buildkite's, whatever
\* the latency of calls, answers, batches and retries (reserver.go:133-134).
THEOREM DispatchWithinReservationHolds == Spec => []DispatchWithinReservation
<1>1. BatchInv => DispatchWithinReservation
  <2> SUFFICES ASSUME BatchInv, NEW c \in Caller, at[c] \in PastReserver, ~CtxDone(c)
               PROVE  left[c] <= held[c] /\ held[c] > 0
    BY DEF DispatchWithinReservation, PastReserver
  <2>1. left[c] # None /\ left[c] <= held[c] /\ left[c] # 0
    BY DEF BatchInv, LeftHeld, CtxDone
  <2>2. left[c] \in 0..Lifetime /\ held[c] \in 0..Lifetime
    BY <2>1 DEF BatchInv, TypeOK
  <2> QED BY <2>1, <2>2, BatchAssumption
<1> QED BY BatchInvariant, <1>1, PTL

\* A job is forwarded with the token issued for it, for every response Buildkite
\* can give (jatissuer.go:164).
THEOREM TokenOfOwnJobHolds == Spec => []TokenOfOwnJob
<1>1. BatchInv => TokenOfOwnJob
  BY DEF BatchInv
<1> QED BY BatchInvariant, <1>1, PTL
=============================================================================
