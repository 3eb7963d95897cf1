---------------------------- MODULE LimiterSlots ----------------------------
(***************************************************************************)
(* The limiter implements JobSlots: l.jobs is the table of slots, and      *)
(* l.inFlight, which decides whether a worker may claim one, counts those  *)
(* in use.                                                                 *)
(***************************************************************************)
EXTENDS Limiter

\* The slot that an entry of l.jobs (or its absence) stands for.
SlotOf(state) ==
    IF state = NoState THEN [stage |-> "free", by |-> Informer]
    ELSE IF state.finished THEN [stage |-> "over", by |-> Informer]
    ELSE IF state.owner = Informer THEN [stage |-> "running", by |-> Informer]
    ELSE [stage |-> "claimed", by |-> state.owner]

Slots == INSTANCE JobSlots WITH
             slot   <- [j \in Job |-> SlotOf(jobs[j])],
             busy   <- work,
             Limit  <- MaxInFlight,
             Nobody <- Informer

\* Every behaviour of the limiter is one of JobSlots: workers that race for the
\* last slot, Jobs observed, finished or deleted before the dispatch that made
\* them returns, and dispatches that fail late neither exceed the limit, nor free
\* a slot they no longer hold, nor revive one that is over.
ImplementsJobSlots == Slots!SlotsSpec
=============================================================================
