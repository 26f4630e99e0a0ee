------------------------------ MODULE OpsWire ------------------------------
(***************************************************************************)
(* pkg/opswire: from the objects of the cluster to the snapshot the        *)
(* evaluator reads, and from its assessment to the status of a target.     *)
(*                                                                         *)
(* A cluster C has                                                         *)
(*   contracts  set of [ns, name, uid, digest]: also the exact identity    *)
(*   targets    set of [ns, name, uid, contract, binds, deps, sel, work]:  *)
(*              binds maps a slot to [ns, name, rev], deps a dependency    *)
(*              slot to [ns, name, uid, contract] with contract the pin    *)
(*              [name, uid, digest], all as written in the spec; contract  *)
(*              is a name, work the workload's name                        *)
(*   grants     set of [ns, from, type, name]: ns lets targets of from     *)
(*              refer to its name                                          *)
(*   works      set of [ns, name, uid]                                     *)
(***************************************************************************)
EXTENDS Operations

CONSTANT SpecOf     \* the content of a contract by the digest of its spec

(* ContractFromWire: the identity with what the spec says. The conversion of *)
(* a spec field by field is the lookup by its digest, which stands for the   *)
(* normalised spec; sound is whether the evaluator's checks of its fields    *)
(* pass.                                                                     *)
ContractFromWire(c) ==
    LET s == SpecOf[c.digest]
    IN [id |-> c, sound |-> s.sound, slots |-> s.slots, deps |-> s.deps, caps |-> s.caps,
        envs |-> s.envs]

(* A missing contract is passed on with an identity no contract has.         *)
BoundContract(C, t) ==
    LET named == {c \in C.contracts : c.ns = t.ns /\ c.name = t.contract}
    IN IF named = {} THEN [ns |-> t.ns, name |-> t.contract, uid |-> 0, digest |-> ""]
       ELSE CHOOSE c \in named : TRUE

-----------------------------------------------------------------------------
(* Trust: a reference into another namespace needs a grant of exactly that   *)
(* type and name.                                                           *)
Allows(C, from, to, type, name) ==
    from = to \/ [ns |-> to, from |-> from, type |-> type, name |-> name] \in C.grants

GrantedBinds(C, t) ==
    {s \in DOMAIN t.binds : Allows(C, t.ns, t.binds[s].ns, "EvidenceProvider", t.binds[s].name)}
GrantedDeps(C, t) ==
    {d \in DOMAIN t.deps : Allows(C, t.ns, t.deps[d].ns, "Dependency", t.deps[d].name)}

(* Mutant of DeniedReferences: the denied target is looked up first.        *)
DeniedIfPresent(C, t) ==
    {<<"EvidenceProvider", s, t.binds[s].ns>> : s \in DOMAIN t.binds \ GrantedBinds(C, t)} \cup
    {<<"Dependency", d, t.deps[d].ns>> :
        d \in {e \in DOMAIN t.deps \ GrantedDeps(C, t) :
                 \E x \in C.targets : x.ns = t.deps[e].ns /\ x.name = t.deps[e].name}}

DeniedReferences(C, t) ==
    {<<"EvidenceProvider", s, t.binds[s].ns>> : s \in DOMAIN t.binds \ GrantedBinds(C, t)} \cup
    {<<"Dependency", d, t.deps[d].ns>> : d \in DOMAIN t.deps \ GrantedDeps(C, t)}

CrossNamespaceSlots(C, t) == {d \in GrantedDeps(C, t) : t.deps[d].ns # t.ns}

(* A pin that the named target no longer has resolves to nothing.            *)
PinnedUID(C, ref) ==
    IF \E x \in C.targets : x.ns = ref.ns /\ x.name = ref.name /\ x.uid = ref.uid
    THEN ref.uid ELSE 0

(* The pinned contract is looked for in the namespace of the pinned target.  *)
PinnedContract(ref) ==
    [ns |-> ref.ns, name |-> ref.contract.name, uid |-> ref.contract.uid,
     digest |-> ref.contract.digest]

(* resolve: the workloads of that name in the target's own namespace.        *)
WorkloadOf(C, t) == {w.uid : w \in {x \in C.works : x.ns = t.ns /\ x.name = t.work}}

SnapshotTarget(C, t) ==
    [name |-> <<t.ns, t.name>>, ns |-> t.ns, uid |-> t.uid,
     rid |-> CHOOSE u \in WorkloadOf(C, t) : TRUE, contract |-> BoundContract(C, t),
     binds |-> [s \in GrantedBinds(C, t) |-> t.binds[s]],
     deps |-> [d \in GrantedDeps(C, t) |->
                  [uid |-> PinnedUID(C, t.deps[d]), contract |-> PinnedContract(t.deps[d])]],
     sel |-> t.sel]

(* Build, without evidence.                                                  *)
Build(C) ==
    [contracts |-> {ContractFromWire(c) : c \in C.contracts},
     targets |-> {SnapshotTarget(C, t) : t \in {x \in C.targets : WorkloadOf(C, x) # {}}},
     obs |-> {}]

-----------------------------------------------------------------------------
(* Projection. The detail of a reason is the set of the namespaces whose     *)
(* objects it names.                                                        *)
DependencyCodes ==
    {"dependency-unbound", "dependency-target-missing", "dependency-target-invalid",
     "dependency-contract-mismatch", "dependency-capability-not-provided", "dependency-unknown"}

CapabilityDetail(t, r) ==
    IF r.code = "dependency-contract-mismatch" THEN {t.deps[r.subject[2]].ns} ELSE {}

RedactedDetail(C, t, r) ==
    IF r.code \in DependencyCodes /\ r.subject[2] \in CrossNamespaceSlots(C, t)
    THEN {} ELSE CapabilityDetail(t, r)

WireReasons(C, t, reasons) ==
    {[code |-> r.code, subject |-> r.subject, detail |-> RedactedDetail(C, t, r)] : r \in reasons}

(* A cycle is described only when every member is in the same namespace.     *)
CycleReasons(C, S, t) ==
    {LET members == {x.ns : x \in {y \in C.targets : \E n \in scc : n[1] = y.uid}}
     IN [code |-> "dependency-cycle",
         subject |-> <<"capabilities", {n[2] : n \in {m \in scc : m[1] = t.uid}}>>,
         detail |-> IF members = {t.ns} THEN members ELSE {}] :
        scc \in {x \in CyclicComponents(CapabilityGraph(S, Resolved(S))) : \E n \in x : n[1] = t.uid}}

InvalidReasons(C, S, t) ==
    {[code |-> d, subject |-> <<"target", "">>, detail |-> {}] :
        d \in Defects(S, TargetOf(S, t.uid))} \cup CycleReasons(C, S, t)

Unassessed(C, t, rid, reasons) ==
    [uid |-> t.uid, rid |-> rid, contract |-> BoundContract(C, t), valid |-> FALSE,
     invalid |-> reasons, evidence |-> <<>>, caps |-> <<>>, envs |-> <<>>,
     denied |-> DeniedReferences(C, t), sel |-> t.sel]

(* Project: the status of t under assessment a of snapshot S, without its    *)
(* ObservedGeneration; a workload of an unsupported kind is one that is not  *)
(* found.                                                                    *)
ProjectStatus(C, S, a, t) ==
    IF WorkloadOf(C, t) = {}
    THEN Unassessed(C, t, 0, {[code |-> "target-not-found", subject |-> <<"targetRef", t.work>>,
                               detail |-> {}]})
    ELSE LET st == TargetOf(S, t.uid)
             c == ContractOf(S, st)
         IN IF st \notin a.valid THEN Unassessed(C, t, st.rid, InvalidReasons(C, S, t))
            ELSE [Unassessed(C, t, st.rid, {}) EXCEPT
                    !.valid = TRUE,
                    !.evidence = [s \in c.slots |->
                        [state |-> ResolveEvidence(S, st, s).status,
                         provider |-> IF s \in DOMAIN st.binds THEN st.binds[s]
                                      ELSE [ns |-> "", name |-> "", rev |-> 0]]],
                    !.caps = [n \in DOMAIN c.caps |->
                        [state |-> a.caps[<<t.uid, n>>].state,
                         reasons |-> WireReasons(C, t, a.caps[<<t.uid, n>>].reasons)]],
                    !.envs = [e \in DOMAIN c.envs |->
                        [state |-> EnvelopeResult(S, st, e).state,
                         class |-> IF e \in SpecOf[st.contract.digest].minimum
                                   THEN "Minimum" ELSE "Recommended"]]]
=============================================================================
