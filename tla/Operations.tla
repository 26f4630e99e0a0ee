---------------------------- MODULE Operations ----------------------------
(***************************************************************************)
(* The operational evaluator, pkg/operations.Evaluate: a pure function     *)
(* from a snapshot (contracts, targets, observations) to the assessment of *)
(* every target. Stamps are ages at the evaluation instant.                *)
(*                                                                         *)
(* S.contracts  set of [id, sound, slots, deps, caps, envs]: caps maps a   *)
(*              capability to its requirements, envs an envelope to its    *)
(*              predicates; sound summarises the checks of single fields   *)
(*              (names, types, operands, ages, impacts).                   *)
(* S.targets    set of [name, ns, uid, rid, contract, binds, deps, sel]:   *)
(*              binds maps a slot to its provider, deps a dependency slot  *)
(*              to [uid, contract].                                        *)
(* S.obs        set of [name, slot, uid, rid, contract, provider, kind,    *)
(*              val, age, until]; kind is "value" or "unavailable", until  *)
(*              the age at which the provider's own bound ends it.         *)
(***************************************************************************)
EXTENDS CycleSearch

CONSTANTS MaxAge,     \* currentness bound of every slot
          Admitted    \* the values that are canonical and of the slot's type

(* Requirements, and the predicates of envelopes.                           *)
Predicate(slot, ok, impact) ==
    [kind |-> "assertion", ref |-> slot, ok |-> ok, cap |-> "", onUnmet |-> impact]
Dependency(slot, cap, impact) ==
    [kind |-> "dependency", ref |-> slot, ok |-> {}, cap |-> cap, onUnmet |-> impact]
Local(cap, impact) ==
    [kind |-> "local", ref |-> cap, ok |-> {}, cap |-> cap, onUnmet |-> impact]
InEnvelope(env, impact) ==
    [kind |-> "envelope", ref |-> env, ok |-> {}, cap |-> "", onUnmet |-> impact]

-----------------------------------------------------------------------------
(* Contract.Validate: references resolve, nothing is empty, no capability    *)
(* needs itself through local requirements.                                 *)

LocalGraph(c) ==
    [n \in DOMAIN c.caps |->
        {r.ref : r \in {x \in c.caps[n] : x.kind = "local"}} \cap DOMAIN c.caps]

ReferenceOK(c, r) ==
    CASE r.kind = "assertion" -> r.ref \in c.slots
      [] r.kind = "dependency" -> r.ref \in c.deps
      [] r.kind = "local" -> r.ref \in DOMAIN c.caps
      [] r.kind = "envelope" -> r.ref \in DOMAIN c.envs

ContractValid(c) ==
    /\ c.sound
    /\ \A e \in DOMAIN c.envs : c.envs[e] # {} /\ \A p \in c.envs[e] : ReferenceOK(c, p)
    /\ \A n \in DOMAIN c.caps : c.caps[n] # {} /\ \A r \in c.caps[n] : ReferenceOK(c, r)
    /\ ~HasLocalCycle(LocalGraph(c))

-----------------------------------------------------------------------------
(* Target resolution.                                                       *)

SameUID(S, uid) == {t \in S.targets : t.uid = uid}
ContractsOf(S, t) == {c \in S.contracts : c.id = t.contract}
ContractOf(S, t) == CHOOSE c \in ContractsOf(S, t) : TRUE

(* A slot has at most one binding here: duplicates are left out.             *)
BindingDefects(S, t) ==
    LET c == ContractOf(S, t)
    IN (IF \E s \in DOMAIN t.binds : s \notin c.slots THEN {"invalid-binding"} ELSE {}) \cup
       (IF \E d \in DOMAIN t.deps : d \notin c.deps THEN {"invalid-binding"} ELSE {}) \cup
       (IF t.sel # "" /\ t.sel \notin DOMAIN c.envs THEN {"unknown-envelope-selection"} ELSE {})

(* resolveTarget: the defects of t, the ones past the first unresolved       *)
(* stage left out.                                                           *)
Defects(S, t) ==
    (IF Cardinality(SameUID(S, t.uid)) > 1 THEN {"duplicate-target-uid"} ELSE {}) \cup
    CASE t.contract.ns # t.ns -> {"cross-namespace-contract-ref"}
      [] t.contract.ns = t.ns /\ ContractsOf(S, t) = {} -> {"contract-unresolved"}
      [] t.contract.ns = t.ns /\ Cardinality(ContractsOf(S, t)) > 1 -> {"contract-ambiguous"}
      [] OTHER -> IF ContractValid(ContractOf(S, t)) THEN BindingDefects(S, t)
                  ELSE {"invalid-contract"}

(* uniqueValid, before cycles are rejected.                                  *)
Resolved(S) == {t \in S.targets : Defects(S, t) = {}}
TargetOf(S, uid) == CHOOSE t \in S.targets : t.uid = uid

-----------------------------------------------------------------------------
(* Cross-target cycles.                                                     *)

(* A dependency binding resolves exactly: bound, to a target of valid under  *)
(* the pinned contract, that offers the capability.                          *)
Resolves(S, valid, t, r) ==
    /\ r.ref \in DOMAIN t.deps
    /\ \E d \in valid : d.uid = t.deps[r.ref].uid /\ d.contract = t.deps[r.ref].contract
                        /\ r.cap \in DOMAIN ContractOf(S, d).caps

Nodes(S, valid) == UNION {{<<t.uid, n>> : n \in DOMAIN ContractOf(S, t).caps} : t \in valid}

EdgesOf(S, valid, n) ==
    LET t == TargetOf(S, n[1])
        reqs == ContractOf(S, t).caps[n[2]]
    IN {<<n[1], r.ref>> : r \in {x \in reqs : x.kind = "local"}} \cup
       {<<t.deps[r.ref].uid, r.cap>> :
            r \in {x \in reqs : x.kind = "dependency" /\ Resolves(S, valid, t, x)}}

CapabilityGraph(S, valid) == [n \in Nodes(S, valid) |-> EdgesOf(S, valid, n)]

(* rejectCycles: the targets owning a capability on a cycle are invalid.     *)
CyclicTargets(S, valid) == {n[1] : n \in UNION CyclicComponents(CapabilityGraph(S, valid))}

WithoutCycles(resolved, cyclic) == {t \in resolved : t.uid \notin cyclic}
Valid(S) == WithoutCycles(Resolved(S), CyclicTargets(S, Resolved(S)))

-----------------------------------------------------------------------------
(* Evidence.                                                                *)

Exact(t, o) ==
    /\ o.uid = t.uid /\ o.rid = t.rid /\ o.contract = t.contract
    /\ o.provider = t.binds[o.slot]

(* mismatch and worseMismatch: target before contract before provider.       *)
Mismatch(t, O) ==
    CASE \E o \in O : o.uid # t.uid \/ o.rid # t.rid -> "evidence-inapplicable-target-replaced"
      [] \A o \in O : o.uid = t.uid /\ o.rid = t.rid ->
            IF \E o \in O : o.contract # t.contract THEN "evidence-inapplicable-contract-changed"
            ELSE "evidence-inapplicable-provider-changed"

(* Mutant of IsCurrent: the statement's own end of validity is ignored.     *)
CurrentBySlot(o) == o.age <= MaxAge
IsCurrent(o) == o.age <= MaxAge /\ o.age < o.until

Status(status, code) == [status |-> status, code |-> code, val |-> ""]

EvidenceOf(group) ==
    LET o == CHOOSE x \in group : TRUE
    IN IF \E x \in group : ~IsCurrent(x) THEN Status("Stale", "evidence-stale")
       ELSE IF \E x \in group : x.kind = "value" /\ x.val \notin Admitted
       THEN Status("TypeMismatch", "evidence-type-mismatch")
       ELSE IF \E x \in group : x.kind # o.kind \/ x.val # o.val
       THEN Status("Conflicting", "conflicting-authoritative-evidence")
       ELSE IF o.kind = "unavailable" THEN Status("ProviderUnavailable", "provider-unavailable")
       ELSE [status |-> "Current", code |-> "", val |-> o.val]

(* Mutant of LatestOnly: expired statements are passed over.                *)
FallBack(O) ==
    LET fresh == {o \in O : IsCurrent(o)}
    IN IF fresh = {} THEN O ELSE {o \in fresh : \A x \in fresh : o.age <= x.age}

(* Only the latest statements count: there is no fallback to an older one.   *)
LatestOnly(O) == {o \in O : \A x \in O : o.age <= x.age}

(* resolveEvidence for one slot of a target.                                 *)
ResolveEvidence(S, t, slot) ==
    IF slot \notin DOMAIN t.binds THEN Status("Unbound", "evidence-unbound")
    ELSE LET seen == {o \in S.obs : o.name = t.name /\ o.slot = slot /\ o.age >= 0}
             applicable == {o \in seen : Exact(t, o)}
         IN CASE applicable # {} -> EvidenceOf(LatestOnly(applicable))
              [] applicable = {} /\ seen # {} -> Status("Inapplicable", Mismatch(t, seen))
              [] OTHER -> Status("Missing", "evidence-missing")

-----------------------------------------------------------------------------
(* Requirements: [verdict, code, subject], verdict "accepted", "unmet" or    *)
(* "unproven".                                                               *)

Verdict(v, code, r) == [verdict |-> v, code |-> code, subject |-> <<r.kind, r.ref>>]

VerdictOn(ev, p) ==
    CASE ev.status # "Current" -> Verdict("unproven", ev.code, p)
      [] ev.status = "Current" /\ ev.val \in p.ok -> Verdict("accepted", "", p)
      [] OTHER -> Verdict("unmet", "predicate-unmet", p)

PredicateVerdict(S, t, p) == VerdictOn(ResolveEvidence(S, t, p.ref), p)

Reasons(verdicts) == {v \in verdicts : v.verdict # "accepted"}

Envelope(vs) ==
    [state |-> CASE \E v \in vs : v.verdict = "unmet" -> "UNSATISFIED"
                 [] \A v \in vs : v.verdict = "accepted" -> "SATISFIED"
                 [] OTHER -> "UNKNOWN",
     reasons |-> Reasons(vs)]

EnvelopeResult(S, t, e) ==
    Envelope({PredicateVerdict(S, t, p) : p \in ContractOf(S, t).envs[e]})

EnvelopeVerdict(state, r) ==
    CASE state = "SATISFIED" -> Verdict("accepted", "", r)
      [] state = "UNSATISFIED" -> Verdict("unmet", "envelope-unsatisfied", r)
      [] state = "UNKNOWN" -> Verdict("unproven", "envelope-unknown", r)

(* The verdict on a requirement for another capability in a given state.     *)
CapabilityVerdict(r, state) ==
    LET named == IF r.kind = "local" THEN "local-capability" ELSE r.kind
    IN CASE state = "AVAILABLE" -> Verdict("accepted", "", r)
         [] state = "UNKNOWN" -> Verdict("unproven", named \o "-unknown", r)
         [] OTHER -> Verdict("unmet", named \o "-unmet", r)

DependencyDefect(S, valid, t, r) ==
    IF r.ref \notin DOMAIN t.deps THEN "dependency-unbound"
    ELSE LET uid == t.deps[r.ref].uid
         IN IF SameUID(S, uid) = {} THEN "dependency-target-missing"
            ELSE IF \A d \in valid : d.uid # uid THEN "dependency-target-invalid"
            ELSE IF TargetOf(S, uid).contract # t.deps[r.ref].contract
            THEN "dependency-contract-mismatch"
            ELSE "dependency-capability-not-provided"

(* capability(): the result of a capability from the verdicts on its         *)
(* requirements; impacts that disagree are not ordered.                      *)
Unmet(reqs, verdict) == {r.onUnmet : r \in {x \in reqs : verdict[x].verdict = "unmet"}}

StateOf(reqs, verdict) ==
    IF \E r \in reqs : verdict[r].verdict = "unproven" THEN "UNKNOWN"
    ELSE IF Unmet(reqs, verdict) = {} THEN "AVAILABLE"
    ELSE IF Cardinality(Unmet(reqs, verdict)) > 1 THEN "UNKNOWN"
    ELSE CHOOSE i \in Unmet(reqs, verdict) : TRUE

ReasonsOf(reqs, verdict) ==
    Reasons({verdict[r] : r \in reqs}) \cup
    (IF StateOf(reqs, verdict) = "UNKNOWN" /\ \A r \in reqs : verdict[r].verdict # "unproven"
     THEN {[verdict |-> "unproven", code |-> "conflicting-impact", subject |-> <<"capability", "">>]}
     ELSE {})

Capability(reqs, verdict) ==
    [state |-> StateOf(reqs, verdict), reasons |-> ReasonsOf(reqs, verdict)]

(* The verdict on requirement r of capability n, where known holds the       *)
(* results of the capabilities it needs.                                     *)
RequirementVerdict(S, valid, known, n, r) ==
    LET t == TargetOf(S, n[1])
    IN CASE r.kind = "assertion" -> PredicateVerdict(S, t, r)
         [] r.kind = "envelope" -> EnvelopeVerdict(EnvelopeResult(S, t, r.ref).state, r)
         [] r.kind = "local" -> CapabilityVerdict(r, known[<<n[1], r.ref>>].state)
         [] r.kind = "dependency" ->
               IF Resolves(S, valid, t, r)
               THEN CapabilityVerdict(r, known[<<t.deps[r.ref].uid, r.cap>>].state)
               ELSE Verdict("unproven", DependencyDefect(S, valid, t, r), r)

CapabilityOf(S, valid, known, n) ==
    LET reqs == ContractOf(S, TargetOf(S, n[1])).caps[n[2]]
    IN Capability(reqs, [r \in reqs |-> RequirementVerdict(S, valid, known, n, r)])

(* Every capability of the valid targets: [state, reasons].                  *)
Capabilities(S, valid) ==
    LET result[n \in Nodes(S, valid)] == CapabilityOf(S, valid, result, n)
    IN [n \in Nodes(S, valid) |-> result[n]]

(* Evaluate: the valid targets, their capabilities by node; of an invalid    *)
(* target nothing is assessed. Evidence and envelopes follow per target.     *)
Assess(S, valid) == [valid |-> valid, caps |-> Capabilities(S, valid)]
Evaluate(S) == Assess(S, Valid(S))
=============================================================================
