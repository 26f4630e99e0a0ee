--------------------------- MODULE ActionPolicy ---------------------------
(***************************************************************************)
(* What the action engine reads off an assessment: the proposals           *)
(* (pkg/action/proposal.go), whether a proposal may be handed over, and    *)
(* by whose approval (step.gates, step.approval), and the recovery of an   *)
(* ended execution (pkg/action/recovery.go).                               *)
(*                                                                         *)
(* A declared response is as in Interaction, with exec: NoExecution, or    *)
(* [provider, approvers, expected, interrupt, window].  A target is one of *)
(* a snapshot and A the assessment of the snapshot (Operations.Evaluate).  *)
(***************************************************************************)
EXTENDS Operations, Interaction

CONSTANTS Registrations,   \* provider name -> [owner, namespaces, actions]
          Durable          \* whether the journal survives a restart

NoExecution == [provider |-> ""]

-----------------------------------------------------------------------------
(* The profile.                                                             *)

HumanDecisionReasons(r) ==
    (IF r.decide THEN {"declared"} ELSE {}) \cup
    (IF r.exec # NoExecution /\ r.exec.interrupt # {} THEN {"may-interrupt"} ELSE {})

ExecutionValid(r) ==
    /\ r.exec.provider # "" /\ r.for \in r.exec.expected /\ r.exec.window > 0
    /\ HumanDecisionReasons(r) # {} => r.exec.approvers # {}

(* A profile that does not validate is not loaded; the checks of names and   *)
(* lengths are left out.                                                     *)
ProfileValid(P) ==
    \A r \in P.responses : /\ r.states \subseteq {"DEGRADED", "UNAVAILABLE", "UNKNOWN"}
                           /\ r.exec # NoExecution => ExecutionValid(r)

-----------------------------------------------------------------------------
(* derive.                                                                  *)

BindingOf(t) ==
    [ns |-> t.ns, name |-> t.name, uid |-> t.uid, rid |-> t.rid, contract |-> t.contract,
     providers |-> t.binds, deps |-> t.deps]

(* responseKey: what the summary keeps apart; declarationKey adds the        *)
(* execution contract. Trigger states are in neither.                        *)
ResponseKey(r) == [action |-> r.action, for |-> r.for, owner |-> r.owner,
                   decide |-> r.decide, pre |-> r.pre]
DeclarationKey(r) == <<ResponseKey(r), r.exec>>

CapState(A, t, c) == IF <<t.uid, c>> \in DOMAIN A.caps THEN A.caps[<<t.uid, c>>].state ELSE ""

TriggersProposal(r, state) ==
    IF r.states = {} THEN state \in {"DEGRADED", "UNAVAILABLE"} ELSE state \in r.states

Triggered(A, t, P) ==
    {r \in P.responses : /\ r.ns = t.ns /\ r.name = t.name /\ (r.uid # 0 => r.uid = t.uid)
                         /\ CapState(A, t, r.for) # "" /\ TriggersProposal(r, CapState(A, t, r.for))}

Applicable(A, t, r) == \A p \in r.pre : CapState(A, t, p) \notin {"DEGRADED", "UNAVAILABLE"}

(* Mutant of Competing: declarations are told apart by their action alone.  *)
CompetingActions(A, t, P, r) ==
    Cardinality({x.action : x \in {y \in Triggered(A, t, P) : y.for = r.for /\ Applicable(A, t, y)}}) > 1

(* No priority authority: several applicable responses for the capability,   *)
(* or several execution contracts of this one.                               *)
Competing(A, t, P, r) ==
    LET viable == {x \in Triggered(A, t, P) : x.for = r.for /\ Applicable(A, t, x)}
        same == {x \in viable : x.exec # NoExecution /\ ResponseKey(x) = ResponseKey(r)}
    IN \/ Cardinality({ResponseKey(x) : x \in viable}) > 1
       \/ Cardinality({DeclarationKey(x) : x \in same}) > 1

OwnersDeclared(A, t, P, r) ==
    {x.owner : x \in {y \in Triggered(A, t, P) : y.for = r.for /\ y.action = r.action}}

Precondition(state) ==
    CASE state = "AVAILABLE" -> "proven"
      [] state \in {"DEGRADED", "UNAVAILABLE"} -> "unmet"
      [] OTHER -> "unproven"

(* proposalOf: exact duplicates of a declaration are one proposal. What a    *)
(* digest hashes is the record itself.                                       *)
ProposalOf(A, t, P, r) ==
    [subject |-> <<BindingOf(t), DeclarationKey(r), P.rev>>,
     ns |-> t.ns, action |-> r.action, for |-> r.for, owner |-> r.owner, exec |-> r.exec,
     trigger |-> A.caps[<<t.uid, r.for>>],
     pre |-> {<<p, Precondition(CapState(A, t, p))>> : p \in r.pre},
     human |-> HumanDecisionReasons(r) \cup
               (IF Competing(A, t, P, r) THEN {"no-priority-authority"} ELSE {}),
     ownerConflict |-> Cardinality(OwnersDeclared(A, t, P, r)) > 1]

Derive(A, t, P) ==
    {ProposalOf(A, t, P, r) : r \in {x \in Triggered(A, t, P) : x.exec # NoExecution}}

-----------------------------------------------------------------------------
(* The conditions of a handoff.                                             *)

Authorises(provider, p) ==
    LET g == Registrations[provider]
    IN g.owner # "" /\ g.owner = p.owner /\ p.ns \in g.namespaces /\ p.action \in g.actions

Gate(code, closed) == IF closed THEN {code} ELSE {}

(* busy: the target has another execution in flight.                         *)
Gates(p, busy) ==
    Gate("owner-undeclared", p.owner = "") \cup
    Gate("owner-conflict", p.ownerConflict) \cup
    Gate("no-approver", p.human # {} /\ p.exec.approvers = {}) \cup
    Gate("provider-unregistered", p.exec.provider \notin DOMAIN Registrations) \cup
    Gate("authority-insufficient",
         p.exec.provider \in DOMAIN Registrations /\ ~Authorises(p.exec.provider, p)) \cup
    {"precondition-" \o c[2] : c \in {x \in p.pre : x[2] # "proven"}} \cup
    Gate("journal-not-durable", ~Durable) \cup
    Gate("target-busy", busy)

(* approval: without a reason for a person to decide, the profile approves.  *)
ApprovedByPolicy(p) == p.human = {}
HandedOverByPolicy(p) == ApprovedByPolicy(p) /\ Gates(p, FALSE) = {}

-----------------------------------------------------------------------------
(* assessRecovery, for an execution [binding, ended, expected, window] whose *)
(* end lies ended ticks back.                                                *)

(* Mutant of After: evidence of the instant of the end counts.              *)
NotBefore(S, ended) == [S EXCEPT !.obs = {o \in @ : o.age <= ended}]
After(S, ended) == [S EXCEPT !.obs = {o \in @ : o.age < ended}]

(* post is the assessment of what was observed after the end.                *)
AssessRecovery(e, S, post) ==
    LET uid == e.binding.uid
        state(c) == IF <<uid, c>> \in DOMAIN post.caps THEN post.caps[<<uid, c>>].state ELSE "UNKNOWN"
        recovered == {c \in e.expected : state(c) = "AVAILABLE"}
    IN IF SameUID(S, uid) = {} \/ BindingOf(TargetOf(S, uid)) # e.binding
             \/ uid \notin {t.uid : t \in post.valid}
       THEN "Inapplicable"
       ELSE CASE recovered = e.expected -> "Recovered"
              [] recovered # e.expected /\ e.ended < e.window -> "Pending"
              [] OTHER -> IF recovered # {} THEN "Partial"
                          ELSE IF \E c \in e.expected : state(c) \in {"DEGRADED", "UNAVAILABLE"}
                          THEN "NotRecovered" ELSE "Unconfirmed"
=============================================================================
