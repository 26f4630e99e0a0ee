---------------------------- MODULE Evaluation ----------------------------
(***************************************************************************)
(* The evaluator over the life of a snapshot: providers add statements and *)
(* time passes, and the assessment of each snapshot is compared with a     *)
(* declarative definition and with the assessment before the step.         *)
(***************************************************************************)
EXTENDS Candidates, ActionPolicy, Integers

CONSTANTS Snapshots,      \* the snapshots to start from
          Statements,     \* the observations providers may add
          MaxObs,         \* bound on the observations of a snapshot
          Horizon,        \* bound on the age of an observation
          Profiles,       \* the interaction profiles that may be configured
          RecoveryWindow  \* declared wait for evidence after an execution

(* What the types and the checks of single fields give: a requirement is of  *)
(* one of four kinds, an envelope holds predicates, and impacts are declared. *)
IsContract(c) ==
    /\ IsFiniteSet(DOMAIN c.caps)
    /\ \A n \in DOMAIN c.caps : \A r \in c.caps[n] :
          /\ r.kind \in {"assertion", "envelope", "local", "dependency"}
          /\ c.sound => r.onUnmet \in {"DEGRADED", "UNAVAILABLE"}
    /\ \A e \in DOMAIN c.envs : \A p \in c.envs[e] : p.kind = "assertion"

(* Nothing is stated about the future: the investigator takes such an answer *)
(* for none.                                                                 *)
IsStatement(o) ==
    /\ o = [name |-> o.name, slot |-> o.slot, uid |-> o.uid, rid |-> o.rid, contract |-> o.contract,
            provider |-> o.provider, kind |-> o.kind, val |-> o.val, age |-> o.age, until |-> o.until]
    /\ o.kind \in {"value", "unavailable"} /\ o.age \in Nat /\ o.until \in Int

IsSnapshot(S) ==
    /\ S = [contracts |-> S.contracts, targets |-> S.targets, obs |-> S.obs]
    /\ IsFiniteSet(S.targets)
    /\ (\A c \in S.contracts : IsContract(c)) /\ (\A o \in S.obs : IsStatement(o))

ASSUME InputsAssumption ==
    /\ MaxAge \in Nat /\ RecoveryWindow \in Nat /\ Horizon \in Nat
    /\ (\A S \in Snapshots : IsSnapshot(S)) /\ (\A o \in Statements : IsStatement(o))
    /\ \A P \in Profiles : IsFiniteSet(P.responses)

VARIABLES snap,           \* contracts, targets and observations
          result          \* the assessment of snap

vars == <<snap, result>>

Init == snap \in Snapshots /\ result = Evaluate(snap)

(* The operational reconciler evaluates again whenever its inputs changed.   *)
Reevaluate(S) == snap' = S /\ result' = Evaluate(S)

Observe(o) ==
    /\ Cardinality(snap.obs) < MaxObs /\ o \notin snap.obs
    /\ \E t \in snap.targets : t.name = o.name
    /\ Reevaluate([snap EXCEPT !.obs = @ \cup {o}])

Aged(S) == [S EXCEPT !.obs = {[o EXCEPT !.age = @ + 1] : o \in @}]
Tick == snap.obs # {} /\ (\A o \in snap.obs : o.age < Horizon) /\ Reevaluate(Aged(snap))

Next == Tick \/ \E o \in Statements : Observe(o)
Spec == Init /\ [][Next]_vars

-----------------------------------------------------------------------------
(* The reference, written on the snapshot alone.                            *)

About(S, t, s) ==
    {o \in S.obs : /\ o.name = t.name /\ o.slot = s /\ o.age >= 0
                   /\ <<o.uid, o.rid, o.contract>> = <<t.uid, t.rid, t.contract>>
                   /\ s \in DOMAIN t.binds /\ o.provider = t.binds[s]}

(* A value in ok is stated last, alone at its instant, and still holds.      *)
Stated(S, t, s, ok) ==
    \E o \in About(S, t, s) :
        /\ o.kind = "value" /\ o.val \in ok \cap Admitted
        /\ \A x \in About(S, t, s) : x.age >= o.age
        /\ \A x \in About(S, t, s) :
              x.age = o.age => /\ x.kind = "value" /\ x.val = o.val
                               /\ x.age <= MaxAge /\ x.age < x.until

(* The targets without defect and without a capability on a cycle.           *)
OnNoCycle(S) ==
    LET resolved == Resolved(S)
        cyclic == {n[1] : n \in OnCycle(CapabilityGraph(S, resolved))}
    IN {t \in resolved : t.uid \notin cyclic}

(* A requirement is proven, given the capabilities P proven so far.          *)
ProvenRequirement(S, free, P, t, r) ==
    CASE r.kind = "assertion" -> Stated(S, t, r.ref, r.ok)
      [] r.kind = "envelope" -> \A p \in ContractOf(S, t).envs[r.ref] : Stated(S, t, p.ref, p.ok)
      [] r.kind = "local" -> <<t.uid, r.ref>> \in P
      [] r.kind = "dependency" ->
            /\ r.ref \in DOMAIN t.deps
            /\ \E d \in free : /\ d.uid = t.deps[r.ref].uid
                               /\ d.contract = t.deps[r.ref].contract
            /\ <<t.deps[r.ref].uid, r.cap>> \in P

(* Every requirement of a capability is proven, given P.                     *)
Follows(S, free, P, n) ==
    \A r \in ContractOf(S, TargetOf(S, n[1])).caps[n[2]] :
        ProvenRequirement(S, free, P, TargetOf(S, n[1]), r)

(* What is in every set of capabilities that has all that follow from it.    *)
Proven(S, free) ==
    LET nodes == Nodes(S, free)
        closed == {P \in SUBSET nodes : \A n \in nodes \ P : ~Follows(S, free, P, n)}
    IN {n \in nodes : \A P \in closed : n \in P}

-----------------------------------------------------------------------------
(* Properties.                                                              *)

(* Exactly the targets with a capability on a dependency cycle are rejected, *)
(* and exactly the contracts whose local requirements form one: the searches *)
(* find every cycle, self-dependencies included, in whatever order they      *)
(* visit, and reject nothing else.                                           *)
CyclesExact ==
    /\ {t.uid : t \in result.valid} = {t.uid : t \in OnNoCycle(snap)}
    /\ \A c \in snap.contracts : HasLocalCycle(LocalGraph(c)) <=> OnCycle(LocalGraph(c)) # {}

(* The capabilities shown AVAILABLE are exactly the proven ones.             *)
AvailableExact ==
    {n \in DOMAIN result.caps : result.caps[n].state = "AVAILABLE"} =
    Proven(snap, OnNoCycle(snap))

Failing(n) == n \in DOMAIN result.caps /\ result.caps[n].state \in {"DEGRADED", "UNAVAILABLE"}

(* A reported impact is the declared one: no requirement of a DEGRADED or    *)
(* UNAVAILABLE capability is undecided, and every one that failed (another   *)
(* value is stated, or what it needs is failing itself) declares that same   *)
(* impact.                                                                   *)
ImpactDeclared ==
    LET free == OnNoCycle(snap)
        proven == Proven(snap, free)
    IN \A n \in DOMAIN result.caps :
         Failing(n) =>
         LET t == TargetOf(snap, n[1])
             c == ContractOf(snap, t)
         IN \A r \in c.caps[n[2]] :
              \/ ProvenRequirement(snap, free, proven, t, r)
              \/ /\ r.onUnmet = result.caps[n].state
                 /\ r.kind = "assertion" => Stated(snap, t, r.ref, Admitted \ r.ok)
                 /\ r.kind = "envelope" =>
                       \E p \in c.envs[r.ref] : Stated(snap, t, p.ref, Admitted \ p.ok)
                 /\ r.kind = "local" => Failing(<<t.uid, r.ref>>)
                 /\ r.kind = "dependency" =>
                       r.ref \in DOMAIN t.deps /\ Failing(<<t.deps[r.ref].uid, r.cap>>)

(* A capability is AVAILABLE exactly when every requirement it references,   *)
(* through envelopes, local capabilities and dependency targets, rests on    *)
(* the latest, current and uncontradicted statement about the exact binding, *)
(* and DEGRADED or UNAVAILABLE only by what was proven to fail.              *)
StatesExact == AvailableExact /\ ImpactDeclared

(* The investigator asks for exactly the slots that are read by something    *)
(* and have no current evidence: the candidates derived from an assessment   *)
(* neither hide an undecided slot nor keep a decided one open.               *)
OpenExact ==
    \A t \in result.valid :
        OpenSlots(snap, result.caps, t) =
        {s \in UsedSlots(snap, t) : ResolveEvidence(snap, t, s).status # "Current"}

(* A capability changes only by news: the passing of time can only make it  *)
(* UNKNOWN, when a statement it rests on is no longer current, and a         *)
(* statement that is not about the exact current binding, or is older than   *)
(* one already known, changes nothing.                                       *)
OldNews(S, o) ==
    \A t \in S.targets :
        o \in About([S EXCEPT !.obs = @ \cup {o}], t, o.slot) =>
        \E x \in About(S, t, o.slot) : x.age < o.age
OnlyNewsMoves ==
    [][\A n \in DOMAIN result.caps :
          result'.caps[n].state # result.caps[n].state =>
          \/ snap' = Aged(snap) /\ result'.caps[n].state = "UNKNOWN"
          \/ \E o \in snap'.obs \ snap.obs : ~OldNews(snap, o)]_vars

(* Nothing is handed to an action provider without a person while the        *)
(* operator summary asks for one: a proposal the profile approves is the     *)
(* only response the summary has for the capability, shown ready. Conversely *)
(* a response shown ready that declares one execution contract, interrupts   *)
(* nothing and has an authorised provider is handed over.                    *)
InputOf(t, P) ==
    [ns |-> t.ns, name |-> t.name, uid |-> t.uid, profile |-> P,
     st |-> [caps |-> [n \in DOMAIN ContractOf(snap, t).caps |-> result.caps[<<t.uid, n>>]]]]
ShownReady(in, c) == DecideCapability(in, c) = {Notice("declared-response-ready", c)}
PolicyAsShown ==
    \A P \in {Q \in Profiles : ProfileValid(Q)} : \A t \in result.valid :
        LET in == InputOf(t, P)
            proposals == Derive(result, t, P)
            executable == {r \in Declared(in) : r.exec # NoExecution}
        IN /\ \A p \in proposals : HandedOverByPolicy(p) => ShownReady(in, p.for)
           /\ \A r \in executable :
                 (/\ ShownReady(in, r.for) /\ r.exec.interrupt = {}
                  /\ ResponseStatus(in, r) = "Ready"
                  /\ \A x \in executable : x.for = r.for => x.exec = r.exec
                  /\ r.exec.provider \in DOMAIN Registrations /\ Durable
                  /\ r.owner = Registrations[r.exec.provider].owner
                  /\ r.action \in Registrations[r.exec.provider].actions
                  /\ t.ns \in Registrations[r.exec.provider].namespaces) =>
                 \E p \in proposals : p.for = r.for /\ HandedOverByPolicy(p)

(* Recovery is earned by evidence made after the execution ended, and agrees *)
(* with the assessment at that instant: recovered means AVAILABLE now, and   *)
(* proven, through envelopes, local capabilities and dependency targets, by  *)
(* the statements made after the end alone; not recovered means shown        *)
(* DEGRADED or UNAVAILABLE once the window is over; and an execution that    *)
(* could still be proven recovered is not given up before.                   *)
MadeSince(S, ended) == [S EXCEPT !.obs = {o \in @ : o.age < ended}]

RecoveryEarned ==
    \A ended \in 1 .. Horizon :
        LET post == Evaluate(After(snap, ended))
            proven == Proven(MadeSince(snap, ended), OnNoCycle(snap))
        IN \A t \in result.valid : \A E \in (SUBSET DOMAIN ContractOf(snap, t).caps) \ {{}} :
             LET e == [binding |-> BindingOf(t), ended |-> ended, expected |-> E, window |-> RecoveryWindow]
                 verdict == AssessRecovery(e, snap, post)
                 now(c) == result.caps[<<t.uid, c>>].state
             IN /\ verdict = "Recovered" =>
                      \A c \in E : now(c) = "AVAILABLE" /\ <<t.uid, c>> \in proven
                /\ verdict = "Partial" => \E c \in E : now(c) = "AVAILABLE"
                /\ verdict = "NotRecovered" => \E c \in E : now(c) \in {"DEGRADED", "UNAVAILABLE"}
                /\ verdict \in {"Partial", "NotRecovered", "Unconfirmed"} => ended >= RecoveryWindow
=============================================================================
