----------------------------- MODULE ActionActor -----------------------------
(***************************************************************************)
(* The ActionProvider as the engine uses it, after the reference actor     *)
(* (pkg/action/actiontest/actiontest.go): it deduplicates handoffs by key, *)
(* rejects a fence lower than one it has seen and answers a poll by key.   *)
(*                                                                         *)
(* The wire holds every handoff ever submitted.  The actor may process a   *)
(* handoff late, more than once or never; a receipt that does not reach    *)
(* its engine is a Deliver step here.                                      *)
(***************************************************************************)
EXTENDS ActionJournal

VARIABLES
    wire,       \* handoffs submitted
    highFence,  \* Actor.highFence
    jobs        \* Actor.jobs: what the actor did with each key

actorVars == <<wire, highFence, jobs>>

Handoff == [key : Keys, fence : Nat, digest : Digests]

\* "Unknown": no handoff with this key is known.  "Pending" is live.
JobStates == {"Unknown", "Pending", "Succeeded", "Failed", "Refused"}
Definitive == {"Succeeded", "Failed", "Refused"}
Job == [state : JobStates, fence : Nat, digest : Digests]
NoJob == [state |-> "Unknown", fence |-> 0, digest |-> Blank.digest]

\* Actor.Live: accepted and not yet ended, the actor's own fact.
Live(k) == jobs[k].state = "Pending"

ActorInit ==
    /\ wire = {}
    /\ highFence = 0
    /\ jobs = [k \in Keys |-> NoJob]

ActorTypeOK ==
    /\ wire \in SUBSET Handoff
    /\ highFence \in Nat
    /\ jobs \in [Keys -> Job]

(***************************************************************************)
(* Submit at the actor: a stale fence is rejected; a new key is accepted   *)
(* or refused; a known key is deduplicated and only takes over the fence.  *)
(***************************************************************************)
Handle(h) ==
    /\ h.fence >= highFence
    /\ highFence' = h.fence
    /\ IF jobs[h.key].state = "Unknown"
         THEN \E state \in {"Pending", "Refused"} :
                jobs' = [jobs EXCEPT ![h.key] =
                           [state |-> state, fence |-> h.fence, digest |-> h.digest]]
         ELSE jobs' = [jobs EXCEPT ![h.key].fence = h.fence]

\* A silent actor: the fence is remembered before the handoff is dropped.
Ignore(h) ==
    /\ h.fence > highFence
    /\ highFence' = h.fence
    /\ UNCHANGED jobs

\* A submitted handoff reaches the actor; its receipt is lost.
Deliver(h) == (Handle(h) \/ Ignore(h)) /\ UNCHANGED wire

\* Settle: an accepted handoff ends.
Settle(k) ==
    /\ Live(k)
    /\ \E state \in {"Succeeded", "Failed"} :
         jobs' = [jobs EXCEPT ![k].state = state]
    /\ UNCHANGED <<wire, highFence>>
=============================================================================
