-------------------------- MODULE ReconcilerProofs --------------------------
(***************************************************************************)
(* What the operational reconciler publishes, for every cluster and every  *)
(* profile.                                                                *)
(***************************************************************************)
EXTENDS OperationalReconciler, ReleaseOrderProofs

-----------------------------------------------------------------------------
(* Targets by name.                                                         *)

(* A name of a cluster names one of its targets.                            *)
LEMMA NamedIn ==
    ASSUME NEW C, NEW n \in Names(C)
    PROVE  Named(C, n) \in C.targets /\ NameOf(Named(C, n)) = n
  BY DEF Names, Named

(* A target of a cluster is the one of its name.                            *)
LEMMA NamedIs ==
    ASSUME NEW C, IsCluster(C), NEW t \in C.targets
    PROVE  NameOf(t) \in Names(C) /\ Named(C, NameOf(t)) = t
  <1>1. NameOf(t) \in Names(C)
    BY DEF Names
  <1> QED
    BY <1>1, NamedIn, Zenon DEF IsCluster

\* The target with another status.
WithStatus(t, a, b) == [t EXCEPT !.st = a, !.summary = b]

(* A new status leaves the rest of a target.                                *)
LEMMA NewStatus ==
    ASSUME NEW t, IsTarget(t), NEW a, NEW b, NEW new, new = WithStatus(t, a, b)
    PROVE  /\ IsTarget(new) /\ new.ns = t.ns /\ new.name = t.name /\ new.uid = t.uid
           /\ new.st = a /\ new.summary = b
  <1>1. PICK ns, name, uid, contract, binds, deps, sel, work, st, summary :
            t = [ns |-> ns, name |-> name, uid |-> uid, contract |-> contract, binds |-> binds,
                 deps |-> deps, sel |-> sel, work |-> work, st |-> st, summary |-> summary]
    BY Zenon DEF IsTarget
  <1>2. new = [ns |-> ns, name |-> name, uid |-> uid, contract |-> contract, binds |-> binds,
               deps |-> deps, sel |-> sel, work |-> work, st |-> a, summary |-> b]
    BY <1>1 DEF WithStatus
  <1> QED
    BY <1>1, <1>2 DEF IsTarget

(* Putting a new version in the place of a target changes no other.         *)
LEMMA Replaced ==
    ASSUME NEW C, IsCluster(C), NEW t \in C.targets, NEW new, IsTarget(new), NameOf(new) = NameOf(t),
           NEW D, D = [C EXCEPT !.targets = (@ \ {t}) \cup {new}]
    PROVE  /\ IsCluster(D) /\ Names(D) = Names(C)
           /\ Named(D, NameOf(t)) = new
           /\ \A n \in Names(C) : n # NameOf(t) => Named(D, n) = Named(C, n)
  <1>1. /\ D.targets = (C.targets \ {t}) \cup {new} /\ D.contracts = C.contracts
        /\ D = [contracts |-> D.contracts, targets |-> D.targets, works |-> D.works, grants |-> D.grants]
    BY DEF IsCluster
  <1>2. ASSUME NEW a \in D.targets, NEW b \in D.targets, NameOf(a) = NameOf(b)
        PROVE  a = b
    <2>1. \A x \in C.targets : NameOf(x) = NameOf(t) => x = t
      BY DEF IsCluster
    <2>2. a \in C.targets /\ b \in C.targets => a = b
      BY <1>2 DEF IsCluster
    <2> QED
      BY <1>1, <1>2, <2>1, <2>2
  <1>3. IsCluster(D)
    BY <1>1, <1>2, Zenon DEF IsCluster
  <1>4. Names(D) = Names(C)
    <2>1. \A a \in D.targets : NameOf(a) \in {NameOf(x) : x \in C.targets}
      BY <1>1
    <2>2. \A a \in C.targets : NameOf(a) \in {NameOf(x) : x \in D.targets}
      BY <1>1
    <2> QED
      BY <2>1, <2>2, Zenon DEF Names
  <1>5. Named(D, NameOf(t)) = new
    BY <1>1, <1>3, NamedIs
  <1>6. ASSUME NEW n \in Names(C), n # NameOf(t) PROVE Named(D, n) = Named(C, n)
    <2>1. Named(C, n) \in C.targets /\ NameOf(Named(C, n)) = n
      BY NamedIn
    <2>2. Named(C, n) \in D.targets
      BY <1>1, <1>6, <2>1
    <2> QED
      BY <1>3, <2>1, <2>2, NamedIs
  <1> QED
    BY <1>3, <1>4, <1>5, <1>6

-----------------------------------------------------------------------------
(* What a pass wants.                                                       *)

\* A valid status: the empty one of the target, filled in.
Filled(C, t, rid, e, m, v) ==
    [Unassessed(C, t, rid, {}) EXCEPT !.valid = TRUE, !.evidence = e, !.caps = m, !.envs = v]

(* What is filled in shows, and the status still carries the instance.      *)
LEMMA FilledIn ==
    ASSUME NEW C, NEW t, NEW rid, NEW e, NEW m, NEW v
    PROVE  /\ Filled(C, t, rid, e, m, v).uid = t.uid
           /\ Filled(C, t, rid, e, m, v).caps = m
           /\ Filled(C, t, rid, e, m, v).valid
  BY DEF Filled, Unassessed

(* Without a workload there is nothing to assess.                           *)
LEMMA StatusMissing ==
    ASSUME NEW C, NEW S, NEW a, NEW t, WorkloadOf(C, t) = {}
    PROVE  ProjectStatus(C, S, a, t) =
             Unassessed(C, t, 0, {[code |-> "target-not-found", subject |-> <<"targetRef", t.work>>,
                                   detail |-> {}]})
  BY Zenon DEF ProjectStatus

(* A target that is not valid shows why.                                    *)
LEMMA StatusInvalid ==
    ASSUME NEW C, NEW S, NEW a, NEW t, WorkloadOf(C, t) # {}, TargetOf(S, t.uid) \notin a.valid
    PROVE  ProjectStatus(C, S, a, t) =
             Unassessed(C, t, TargetOf(S, t.uid).rid, InvalidReasons(C, S, t))
  BY Zenon DEF ProjectStatus

(* A valid target shows the capabilities of its contract.                   *)
LEMMA StatusFilled ==
    ASSUME NEW C, NEW S, NEW a, NEW t, WorkloadOf(C, t) # {}, TargetOf(S, t.uid) \in a.valid
    PROVE  \E rid, e, m, v : /\ ProjectStatus(C, S, a, t) = Filled(C, t, rid, e, m, v)
                             /\ DOMAIN m = DOMAIN ContractOf(S, TargetOf(S, t.uid)).caps
  <1> DEFINE x == TargetOf(S, t.uid)
             c == ContractOf(S, x)
             m == [n \in DOMAIN c.caps |->
                      [state |-> a.caps[<<t.uid, n>>].state,
                       reasons |-> WireReasons(C, t, a.caps[<<t.uid, n>>].reasons)]]
             e == [y \in c.slots |->
                      [state |-> ResolveEvidence(S, x, y).status,
                       provider |-> IF y \in DOMAIN x.binds THEN x.binds[y]
                                    ELSE [ns |-> "", name |-> "", rev |-> 0]]]
             v == [y \in DOMAIN c.envs |->
                      [state |-> EnvelopeResult(S, x, y).state,
                       class |-> IF y \in SpecOf[x.contract.digest].minimum
                                 THEN "Minimum" ELSE "Recommended"]]
  <1>1. ProjectStatus(C, S, a, t) = Filled(C, t, x.rid, e, m, v)
    BY Zenon DEF ProjectStatus, Filled
  <1>2. DOMAIN m = DOMAIN ContractOf(S, TargetOf(S, t.uid)).caps
    BY Zenon
  <1> HIDE DEF m, e, v
  <1> QED
    BY <1>1, <1>2, Zenon

(* The status carries the instance it assesses.                             *)
LEMMA StatusInstance ==
    ASSUME NEW C, NEW S, NEW a, NEW t
    PROVE  ProjectStatus(C, S, a, t).uid = t.uid
  <1>1. \A rid, rs : Unassessed(C, t, rid, rs).uid = t.uid
    BY DEF Unassessed
  <1>2. CASE WorkloadOf(C, t) = {}
    <2>1. ProjectStatus(C, S, a, t) =
             Unassessed(C, t, 0, {[code |-> "target-not-found", subject |-> <<"targetRef", t.work>>,
                                   detail |-> {}]})
      BY <1>2, StatusMissing
    <2> DEFINE shown == {[code |-> "target-not-found", subject |-> <<"targetRef", t.work>>,
                          detail |-> {}]}
    <2>2. Unassessed(C, t, 0, shown).uid = t.uid
      <3> HIDE DEF shown
      <3> QED
        BY <1>1
    <2> QED
      BY <2>1, <2>2, Zenon
  <1>3. CASE WorkloadOf(C, t) # {} /\ TargetOf(S, t.uid) \notin a.valid
    BY <1>1, <1>3, StatusInvalid
  <1>4. CASE WorkloadOf(C, t) # {} /\ TargetOf(S, t.uid) \in a.valid
    <2>1. PICK rid, e, m, v : ProjectStatus(C, S, a, t) = Filled(C, t, rid, e, m, v)
      BY <1>4, StatusFilled
    <2> QED
      BY <2>1, FilledIn
  <1> QED
    BY <1>2, <1>3, <1>4

(* A summary shows the meaning it was given, whatever history it continues.  *)
LEMMA ContinueShows ==
    ASSUME NEW prev, NEW f, NEW inv
    PROVE  Continue(prev, f, inv).fingerprint = f /\ Continue(prev, f, inv).inv = inv
  BY DEF Continue

(* What a pass over cluster C wants for one of its targets.                 *)
LEMMA Wanted ==
    ASSUME NEW C, NEW n \in Names(C), NEW w, NEW rec, NEW vs, NEW want,
           want = DesiredOf(C, w, rec, vs)[n]
    PROVE  LET t == Named(C, n)
               S == Observed(Build(C), w)
               in == [ns |-> t.ns, name |-> t.name, uid |-> t.uid, st |-> want.st,
                      inv |-> rec[NameOf(t)], profile |-> profile, acts |-> vs[NameOf(t)]]
           IN /\ want.st = ProjectStatus(C, S, Evaluate(S), t)
              /\ want.st.uid = t.uid
              /\ want.summary.fingerprint = Meaning(in)
              /\ want.summary = Continue(t.summary, want.summary.fingerprint, want.summary.inv)
  <1> DEFINE t == Named(C, n)
             S == Observed(Build(C), w)
             in == [ns |-> t.ns, name |-> t.name, uid |-> t.uid, st |-> want.st,
                    inv |-> rec[NameOf(t)], profile |-> profile, acts |-> vs[NameOf(t)]]
             inv == IF in.st.valid THEN <<OutcomeClass(in.inv.outcome), Relevant(in)>> ELSE <<"NotRun", {}>>
  <1>1. want = WithSummary(t, ProjectStatus(C, S, Evaluate(S), t), rec, vs)
    BY Zenon DEF DesiredOf, Assessed, DesiredUnder
  <1>2. /\ want.st = ProjectStatus(C, S, Evaluate(S), t)
        /\ want.summary = Summarise([ns |-> t.ns, name |-> t.name, uid |-> t.uid,
                                     st |-> ProjectStatus(C, S, Evaluate(S), t),
                                     inv |-> rec[NameOf(t)], profile |-> profile,
                                     acts |-> vs[NameOf(t)]], t.summary)
    BY <1>1 DEF WithSummary
  <1>3. want.summary = Continue(t.summary, Meaning(in), inv)
    BY <1>2, Zenon DEF Summarise
  <1>4. want.summary.fingerprint = Meaning(in) /\ want.summary.inv = inv
    BY <1>3, ContinueShows
  <1>5. want.st.uid = t.uid
    BY <1>2, StatusInstance
  <1> QED
    BY <1>2, <1>3, <1>4, <1>5

(* The meaning carries the identity it was assessed for.                    *)
LEMMA MeaningIdentity ==
    ASSUME NEW in
    PROVE  Meaning(in).id.uid = in.uid /\ Meaning(in).id.contract = in.st.contract
  <1>1. \A raised : MeaningOf(in, raised).id = IdentityDigest(in)
    BY DEF MeaningOf
  <1>2. IdentityDigest(in).uid = in.uid /\ IdentityDigest(in).contract = in.st.contract
    BY DEF IdentityDigest
  <1> QED
    BY <1>1, <1>2 DEF Meaning

-----------------------------------------------------------------------------
(* The invariant of passes and caches.                                      *)

\* The targets whose cached version is not the latest.
Stale == {x[1] : x \in behind}

\* What a pass wants is about one instance, and is the continuation of t.
AboutOne(w) ==
    /\ w.summary.fingerprint.id.uid = w.st.uid
    /\ w.summary.fingerprint.id.contract = w.st.contract
Continues(w, t) ==
    /\ w.st.uid = t.uid
    /\ w.summary = Continue(t.summary, w.summary.fingerprint, w.summary.inv)

ClustersOK == IsCluster(api) /\ IsCluster(cache) /\ Names(cache) = Names(api)
PassOK ==
    /\ pass = [pc |-> pass.pc, want |-> pass.want, todo |-> pass.todo, lost |-> pass.lost,
               failed |-> pass.failed]
    /\ pass.todo \subseteq Names(api)
TrailOK == DOMAIN trail = Names(api) /\ trail = [n \in Names(api) |-> trail[n]]

\* A target that is not behind is cached as it is.
CacheCurrent == \A n \in Names(api) : n \notin Stale => Named(cache, n) = Named(api, n)

\* What is left to write is a continuation of the target as it is, unless the
\* target changed since it was listed.
PassListed ==
    pass.pc = "writing" => \A n \in pass.todo :
        AboutOne(pass.want[n]) /\ (n \notin pass.lost => Continues(pass.want[n], Named(api, n)))

ReconcilerInv ==
    /\ ClustersOK /\ PassOK /\ TrailOK /\ CacheCurrent /\ PassListed /\ OwnAssessment

(* The initial states: nothing is published, cached or under way.           *)
LEMMA InitInv ==
    ASSUME Init
    PROVE  ReconcilerInv
  <1>1. PICK s \in Starts : api = s[1] /\ profile = s[2]
    BY DEF Init
  <1>2. IsCluster(api) /\ \A t \in api.targets : t.st = NoStatus
    BY <1>1, StartsAssumption
  <1>3. cache = api /\ pass = Idle /\ trail = [n \in Names(api) |-> <<>>]
    BY DEF Init
  <1>4. ClustersOK /\ CacheCurrent
    BY <1>2, <1>3, Zenon DEF ClustersOK, CacheCurrent
  <1>5. PassOK /\ PassListed
    BY <1>3 DEF PassOK, PassListed, Idle
  <1>6. TrailOK
    BY <1>3 DEF TrailOK
  <1>7. OwnAssessment
    BY <1>2, Zenon DEF OwnAssessment
  <1> QED
    BY <1>4, <1>5, <1>6, <1>7 DEF ReconcilerInv

(* What a write does to the cluster: the target is as the pass wants it, and *)
(* the rest as it was.                                                       *)
LEMMA WriteEffect ==
    ASSUME ReconcilerInv, NEW n \in Names(api), Write(n)
    PROVE  LET t == Named(api, n)
               u == Named(api', n)
           IN /\ t \in api.targets /\ u \in api'.targets /\ NameOf(u) = n
              /\ u.ns = t.ns /\ u.name = t.name /\ u.uid = t.uid
              /\ u.st = pass.want[n].st /\ u.summary = pass.want[n].summary
              /\ AboutOne(pass.want[n]) /\ Continues(pass.want[n], t)
              /\ IsCluster(api') /\ Names(api') = Names(api)
              /\ \A m \in Names(api) : m # n => Named(api', m) = Named(api, m)
  <1> DEFINE t == Named(api, n)
             new == [t EXCEPT !.st = pass.want[n].st, !.summary = pass.want[n].summary]
  <1>1. t \in api.targets /\ NameOf(t) = n /\ IsCluster(api) /\ IsTarget(t)
    BY NamedIn DEF ReconcilerInv, ClustersOK, IsCluster
  <1>2. api' = [api EXCEPT !.targets = (@ \ {t}) \cup {new}]
    BY Zenon DEF Write
  <1>3. new = WithStatus(t, pass.want[n].st, pass.want[n].summary)
    BY Zenon DEF WithStatus
  <1> HIDE DEF t, new
  <1>4. /\ IsTarget(new) /\ new.ns = t.ns /\ new.name = t.name /\ new.uid = t.uid
        /\ new.st = pass.want[n].st /\ new.summary = pass.want[n].summary
    BY <1>1, <1>3, NewStatus
  <1>5. NameOf(new) = NameOf(t)
    BY <1>4 DEF NameOf
  <1>6. /\ IsCluster(api') /\ Names(api') = Names(api) /\ Named(api', n) = new
        /\ \A m \in Names(api) : m # n => Named(api', m) = Named(api, m)
    BY <1>1, <1>2, <1>4, <1>5, Replaced, SMT
  <1>7. AboutOne(pass.want[n]) /\ Continues(pass.want[n], t)
    BY DEF ReconcilerInv, PassListed, Write, Pending, LatestListed, t
  <1>8. new \in api'.targets
    BY <1>6, NamedIn
  <1> QED
    BY <1>1, <1>4, <1>5, <1>6, <1>7, <1>8 DEF t

(* A write leaves the invariant.                                            *)
LEMMA WriteInv ==
    ASSUME ReconcilerInv, NEW n \in Names(api), Write(n)
    PROVE  ReconcilerInv'
  <1> DEFINE t == Named(api, n)
             u == Named(api', n)
  <1>1. /\ t \in api.targets /\ u \in api'.targets /\ NameOf(u) = n
        /\ u.uid = t.uid /\ u.st = pass.want[n].st /\ u.summary = pass.want[n].summary
        /\ AboutOne(pass.want[n]) /\ Continues(pass.want[n], t)
        /\ IsCluster(api') /\ Names(api') = Names(api)
        /\ \A m \in Names(api) : m # n => Named(api', m) = Named(api, m)
    BY WriteEffect, Zenon
  <1>2. /\ cache' = cache /\ behind' = behind \cup {<<n, "status">>}
        /\ trail' = [trail EXCEPT ![n] = Append(@, pass.want[n].summary.fingerprint)]
        /\ pass' = [pass EXCEPT !.todo = @ \ {n}]
    BY Zenon DEF Write
  <1> HIDE DEF t, u
  <1>3. ClustersOK'
    BY <1>1, <1>2 DEF ReconcilerInv, ClustersOK
  <1>4. /\ pass'.pc = pass.pc /\ pass'.want = pass.want /\ pass'.lost = pass.lost
        /\ pass'.todo = pass.todo \ {n}
        /\ pass' = [pc |-> pass'.pc, want |-> pass'.want, todo |-> pass'.todo, lost |-> pass'.lost,
                    failed |-> pass'.failed]
    BY <1>2 DEF ReconcilerInv, PassOK
  <1>5. PassOK'
    BY <1>1, <1>4 DEF ReconcilerInv, PassOK
  <1>6. TrailOK'
    BY <1>1, <1>2 DEF ReconcilerInv, TrailOK
  <1>7. CacheCurrent'
    <2>1. \A m \in Names(api) : m \notin Stale' => m # n /\ m \notin Stale
      <3>1. <<n, "status">>[1] = n /\ <<n, "status">> \in behind'
        BY <1>2
      <3>2. behind \subseteq behind'
        BY <1>2
      <3> QED
        BY <3>1, <3>2, Zenon DEF Stale
    <2> QED
      BY <1>1, <1>2, <2>1 DEF ReconcilerInv, CacheCurrent
  <1>8. PassListed'
    BY <1>1, <1>4 DEF ReconcilerInv, PassListed, PassOK
  <1>9. OwnAssessment'
    <2> SUFFICES ASSUME NEW x \in api'.targets, x.st # NoStatus
                 PROVE  /\ x.st.uid = x.uid /\ x.summary.fingerprint.id.uid = x.uid
                        /\ x.summary.fingerprint.id.contract = x.st.contract
      BY DEF OwnAssessment
    <2>1. NameOf(x) \in Names(api) /\ Named(api', NameOf(x)) = x
      BY <1>1, NamedIs
    <2>2. CASE NameOf(x) = n
      BY <1>1, <2>1, <2>2 DEF u, AboutOne, Continues
    <2>3. CASE NameOf(x) # n
      <3>1. x \in api.targets
        BY <1>1, <2>1, <2>3, NamedIn
      <3> QED
        BY <3>1 DEF ReconcilerInv, OwnAssessment
    <2> QED
      BY <2>2, <2>3
  <1> QED
    BY <1>3, <1>5, <1>6, <1>7, <1>8, <1>9 DEF ReconcilerInv

(* What an edit does: the targets it does not touch are as they were, and the *)
(* others are lost to a pass that is writing.                               *)
LEMMA EditEffect ==
    ASSUME Edit
    PROVE  /\ EditOf(api, api')
           /\ LET touched == {n \in Names(api) : Named(api, n) # Named(api', n)}
                  anew == {n \in touched : Named(api, n).uid # Named(api', n).uid}
              IN /\ behind' = behind \cup (touched \X {"spec"})
                 /\ pass' = [pass EXCEPT !.lost = IF pass.pc = "idle" THEN @ ELSE @ \cup touched]
                 /\ trail' = [n \in DOMAIN trail |-> IF n \in anew THEN <<>> ELSE trail[n]]
           /\ cache' = cache /\ queued' = queued /\ profile' = profile
           /\ world' = world /\ record' = record /\ views' = views
  <1>1. UNCHANGED <<cache, queued, profile, world_>>
    BY Zenon DEF Edit
  <1>2. PICK D \in {E \in Alternatives(api) \ {api} : EditOf(api, E)} :
          LET touched == {n \in Names(api) : Named(api, n) # Named(D, n)}
              anew == {n \in touched : Named(api, n).uid # Named(D, n).uid}
          IN /\ api' = D
             /\ behind' = behind \cup (touched \X {"spec"})
             /\ pass' = [pass EXCEPT !.lost = IF pass.pc = "idle" THEN @ ELSE @ \cup touched]
             /\ trail' = [n \in DOMAIN trail |-> IF n \in anew THEN <<>> ELSE trail[n]]
    BY Zenon DEF Edit
  <1>3. D = api'
    BY <1>2, Zenon
  <1>4. EditOf(api, api')
    BY <1>2, <1>3, Zenon
  <1>5. cache' = cache /\ queued' = queued /\ profile' = profile
    BY <1>1, Zenon
  <1>6. world' = world /\ record' = record /\ views' = views
    BY <1>1, Zenon DEF world_
  <1> QED
    BY <1>2, <1>3, <1>4, <1>5, <1>6, Zenon

(* An edit leaves the invariant.                                            *)
LEMMA EditInv ==
    ASSUME ReconcilerInv, Edit
    PROVE  ReconcilerInv'
  <1> DEFINE touched == {n \in Names(api) : Named(api, n) # Named(api', n)}
             anew == {n \in touched : Named(api, n).uid # Named(api', n).uid}
  <1>1. /\ EditOf(api, api') /\ cache' = cache
        /\ behind' = behind \cup (touched \X {"spec"})
        /\ pass' = [pass EXCEPT !.lost = IF pass.pc = "idle" THEN @ ELSE @ \cup touched]
        /\ trail' = [n \in DOMAIN trail |-> IF n \in anew THEN <<>> ELSE trail[n]]
    BY EditEffect, Zenon
  <1>2. IsCluster(api') /\ Names(api') = Names(api)
    BY <1>1 DEF EditOf
  <1>3. \A n \in Names(api) : n \notin touched => Named(api', n) = Named(api, n)
    OBVIOUS
  <1> HIDE DEF touched, anew
  <1>4. ClustersOK'
    BY <1>1, <1>2 DEF ReconcilerInv, ClustersOK
  <1>5. /\ pass'.pc = pass.pc /\ pass'.want = pass.want /\ pass'.todo = pass.todo
        /\ pass'.lost = (IF pass.pc = "idle" THEN pass.lost ELSE pass.lost \cup touched)
        /\ pass' = [pc |-> pass'.pc, want |-> pass'.want, todo |-> pass'.todo, lost |-> pass'.lost,
                    failed |-> pass'.failed]
    BY <1>1 DEF ReconcilerInv, PassOK
  <1>6. PassOK'
    BY <1>2, <1>5 DEF ReconcilerInv, PassOK
  <1>7. TrailOK'
    BY <1>1, <1>2 DEF ReconcilerInv, TrailOK
  <1>8. CacheCurrent'
    <2>1. \A m \in Names(api) : m \notin Stale' => m \notin touched /\ m \notin Stale
      <3>1. \A m \in touched : <<m, "spec">>[1] = m /\ <<m, "spec">> \in behind'
        BY <1>1
      <3>2. behind \subseteq behind'
        BY <1>1
      <3> QED
        BY <3>1, <3>2, Zenon DEF Stale
    <2> QED
      BY <1>1, <1>2, <1>3, <2>1 DEF ReconcilerInv, CacheCurrent
  <1>9. PassListed'
    <2> SUFFICES ASSUME pass'.pc = "writing", NEW m \in pass'.todo
                 PROVE  /\ AboutOne(pass'.want[m])
                        /\ m \notin pass'.lost => Continues(pass'.want[m], Named(api', m))
      BY DEF PassListed
    <2>1. m \in pass.todo /\ pass.pc = "writing" /\ m \in Names(api)
      BY <1>5 DEF ReconcilerInv, PassOK
    <2>2. AboutOne(pass.want[m]) /\ (m \notin pass.lost => Continues(pass.want[m], Named(api, m)))
      BY <2>1 DEF ReconcilerInv, PassListed
    <2>3. m \notin pass'.lost => m \notin pass.lost /\ m \notin touched
      BY <1>5, <2>1
    <2> QED
      BY <1>3, <1>5, <2>1, <2>2, <2>3
  <1>10. OwnAssessment'
    <2> SUFFICES ASSUME NEW x \in api'.targets, x.st # NoStatus
                 PROVE  /\ x.st.uid = x.uid /\ x.summary.fingerprint.id.uid = x.uid
                        /\ x.summary.fingerprint.id.contract = x.st.contract
      BY DEF OwnAssessment
    <2>1. NameOf(x) \in Names(api) /\ Named(api', NameOf(x)) = x
      BY <1>2, NamedIs
    <2>2. Named(api, NameOf(x)) \in api.targets
      BY <2>1, NamedIn
    <2>3. LET t == Named(api, NameOf(x))
          IN t.uid = x.uid /\ x.st = t.st /\ x.summary = t.summary
      BY <1>1, <2>1 DEF EditOf
    <2> QED
      BY <2>2, <2>3 DEF ReconcilerInv, OwnAssessment
  <1> QED
    BY <1>4, <1>6, <1>7, <1>8, <1>9, <1>10 DEF ReconcilerInv

(* An informer that catches up leaves the invariant.                        *)
LEMMA SyncInv ==
    ASSUME ReconcilerInv, Sync
    PROVE  ReconcilerInv'
  <1>1. PICK kind \in DOMAIN api :
            /\ cache' = [cache EXCEPT ![kind] = api[kind]]
            /\ behind' = IF kind = "targets" THEN {} ELSE behind
            /\ api' = api /\ pass' = pass /\ trail' = trail
    BY Zenon DEF Sync
  <1>2. /\ IsCluster(api) /\ IsCluster(cache) /\ Names(cache) = Names(api)
    BY DEF ReconcilerInv, ClustersOK
  <1>3. /\ kind \in {"contracts", "targets", "works", "grants"}
        /\ DOMAIN cache = {"contracts", "targets", "works", "grants"}
    BY <1>2 DEF IsCluster
  <1>4. /\ cache' = [contracts |-> cache'.contracts, targets |-> cache'.targets,
                     works |-> cache'.works, grants |-> cache'.grants]
        /\ cache'.targets = (IF kind = "targets" THEN api.targets ELSE cache.targets)
        /\ cache'.contracts = (IF kind = "contracts" THEN api.contracts ELSE cache.contracts)
    <2>1. PICK a, b, c, d : cache = [contracts |-> a, targets |-> b, works |-> c, grants |-> d]
      BY <1>2, Zenon DEF IsCluster
    <2>2. /\ cache.contracts = a /\ cache.targets = b
          /\ cache' = [[contracts |-> a, targets |-> b, works |-> c, grants |-> d] EXCEPT ![kind] = api[kind]]
      BY <1>1, <2>1
    <2>3. CASE kind = "targets"
      BY <2>2, <2>3
    <2>4. CASE kind = "contracts"
      BY <2>2, <2>4
    <2>5. CASE kind = "works"
      BY <2>2, <2>5
    <2>6. CASE kind = "grants"
      BY <2>2, <2>6
    <2> QED
      BY <1>3, <2>3, <2>4, <2>5, <2>6
  <1>5. cache'.targets = api.targets \/ cache'.targets = cache.targets
    BY <1>4
  <1>6. IsCluster(cache')
    <2>1. /\ \A t \in cache'.targets : IsTarget(t)
          /\ \A t, u \in cache'.targets : NameOf(t) = NameOf(u) => t = u
      BY <1>2, <1>5, Zenon DEF IsCluster
    <2>2. \A c \in cache'.contracts : c.digest \in DOMAIN SpecOf
      BY <1>2, <1>4 DEF IsCluster
    <2> QED
      BY <1>4, <2>1, <2>2, Zenon DEF IsCluster
  <1>7. Names(cache') = Names(api)
    BY <1>2, <1>5, Zenon DEF Names
  <1>8. ClustersOK'
    BY <1>1, <1>2, <1>6, <1>7 DEF ClustersOK
  <1>9. CacheCurrent'
    <2>1. CASE kind = "targets"
      <3>1. \A n : Named(cache', n) = Named(api, n)
        BY <1>4, <2>1, Zenon DEF Named
      <3> QED
        BY <1>1, <3>1, Zenon DEF CacheCurrent
    <2>2. CASE kind # "targets"
      <3>1. \A n : Named(cache', n) = Named(cache, n)
        BY <1>4, <2>2, Zenon DEF Named
      <3>2. Stale' = Stale
        BY <1>1, <2>2, Zenon DEF Stale
      <3> QED
        BY <1>1, <3>1, <3>2, Zenon DEF CacheCurrent, ReconcilerInv
    <2> QED
      BY <2>1, <2>2
  <1>10. PassOK' /\ TrailOK' /\ PassListed' /\ OwnAssessment'
    BY <1>1 DEF ReconcilerInv, PassOK, TrailOK, PassListed, OwnAssessment
  <1> QED
    BY <1>8, <1>9, <1>10 DEF ReconcilerInv

(* A pass that begins lists the targets from the cache.                     *)
LEMMA BeginInv ==
    ASSUME ReconcilerInv, Begin
    PROVE  ReconcilerInv'
  <1> DEFINE want == DesiredOf(cache, world, record, views)
  <1>1. /\ pass' = PassWith(want) /\ cache' = cache
        /\ api' = api /\ behind' = behind /\ trail' = trail
    BY Zenon DEF Begin, clusterVars
  <1>2. \A n \in Names(cache) : AboutOne(want[n]) /\ Continues(want[n], Named(cache, n))
    <2> TAKE n \in Names(cache)
    <2> DEFINE t == Named(cache, n)
               in == [ns |-> t.ns, name |-> t.name, uid |-> t.uid, st |-> want[n].st,
                      inv |-> record[NameOf(t)], profile |-> profile, acts |-> views[NameOf(t)]]
    <2>1. /\ want[n].st.uid = t.uid /\ want[n].summary.fingerprint = Meaning(in)
          /\ want[n].summary = Continue(t.summary, want[n].summary.fingerprint, want[n].summary.inv)
      BY Wanted
    <2>2. in.uid = t.uid /\ in.st = want[n].st
      OBVIOUS
    <2> HIDE DEF in, want, t
    <2>3. Meaning(in).id.uid = t.uid /\ Meaning(in).id.contract = want[n].st.contract
      BY <2>2, MeaningIdentity
    <2>4. AboutOne(want[n])
      BY <2>1, <2>3 DEF AboutOne
    <2>5. Continues(want[n], t)
      BY <2>1 DEF Continues
    <2> QED
      BY <2>4, <2>5 DEF t
  <1> HIDE DEF want
  <1>3. /\ pass'.pc = "writing" /\ pass'.want = want /\ pass'.lost = Stale
        /\ pass'.todo \subseteq Names(cache)
        /\ pass' = [pc |-> pass'.pc, want |-> pass'.want, todo |-> pass'.todo, lost |-> pass'.lost,
                    failed |-> pass'.failed]
    BY <1>1 DEF PassWith, Stale
  <1>4. PassOK'
    BY <1>1, <1>3 DEF ReconcilerInv, PassOK, ClustersOK
  <1>5. PassListed'
    BY <1>1, <1>2, <1>3 DEF ReconcilerInv, PassListed, ClustersOK, CacheCurrent
  <1>6. ClustersOK' /\ TrailOK' /\ CacheCurrent' /\ OwnAssessment'
    BY <1>1 DEF ReconcilerInv, ClustersOK, TrailOK, CacheCurrent, OwnAssessment, Stale
  <1> QED
    BY <1>4, <1>5, <1>6 DEF ReconcilerInv

(* The other steps leave the cluster, and what is left of the pass was left  *)
(* before.                                                                   *)
LEMMA QuietInv ==
    ASSUME ReconcilerInv, api' = api, cache' = cache, behind' = behind, trail' = trail,
           PassOK', pass'.pc = "writing" =>
                      /\ pass.pc = "writing" /\ pass'.want = pass.want /\ pass'.lost = pass.lost
                      /\ pass'.todo \subseteq pass.todo
    PROVE  ReconcilerInv'
  <1>1. PassListed'
    BY DEF ReconcilerInv, PassListed
  <1>2. ClustersOK' /\ TrailOK' /\ CacheCurrent' /\ OwnAssessment'
    BY DEF ReconcilerInv, ClustersOK, TrailOK, CacheCurrent, OwnAssessment, Stale
  <1> QED
    BY <1>1, <1>2 DEF ReconcilerInv

(* Every step leaves the invariant.                                         *)
LEMMA StepInv ==
    ASSUME ReconcilerInv, [Next]_vars
    PROVE  ReconcilerInv'
  <1>0. PassOK
    BY DEF ReconcilerInv
  <1>1. CASE Begin
    BY <1>1, BeginInv
  <1>2. CASE ResolveFails \/ Poll \/ WorldChanges \/ UNCHANGED vars
    <2>1. api' = api /\ cache' = cache /\ behind' = behind /\ trail' = trail /\ pass' = pass
      BY <1>2, Zenon DEF ResolveFails, Poll, WorldChanges, vars, clusterVars
    <2>2. PassOK'
      BY <1>0, <2>1 DEF PassOK
    <2> QED
      BY <2>1, <2>2, QuietInv
  <1>3. CASE ContractWriteFails
    <2>1. /\ api' = api /\ cache' = cache /\ behind' = behind /\ trail' = trail
          /\ pass' = [pass EXCEPT !.failed = TRUE]
      BY <1>3, Zenon DEF ContractWriteFails, clusterVars
    <2>2. /\ pass'.pc = pass.pc /\ pass'.want = pass.want /\ pass'.lost = pass.lost
          /\ pass'.todo = pass.todo
          /\ pass' = [pc |-> pass'.pc, want |-> pass'.want, todo |-> pass'.todo, lost |-> pass'.lost,
                      failed |-> pass'.failed]
      BY <1>0, <2>1 DEF PassOK
    <2>3. PassOK'
      BY <1>0, <2>1, <2>2 DEF PassOK
    <2> QED
      BY <2>1, <2>2, <2>3, QuietInv
  <1>4. CASE End
    <2>1. /\ api' = api /\ cache' = cache /\ behind' = behind /\ trail' = trail /\ pass' = Idle
      BY <1>4, Zenon DEF End, clusterVars
    <2>2. pass'.pc = "idle" /\ PassOK'
      BY <2>1 DEF PassOK, Idle
    <2> QED
      BY <2>1, <2>2, QuietInv
  <1>5. ASSUME NEW n \in Names(api), Write(n) PROVE ReconcilerInv'
    BY <1>5, WriteInv
  <1>6. ASSUME NEW n \in Names(api), WriteFails(n) PROVE ReconcilerInv'
    <2>1. /\ api' = api /\ cache' = cache /\ behind' = behind /\ trail' = trail
          /\ pass' = [pass EXCEPT !.todo = @ \ {n}, !.failed = TRUE]
      BY <1>6, Zenon DEF WriteFails, clusterVars
    <2>2. /\ pass'.pc = pass.pc /\ pass'.want = pass.want /\ pass'.lost = pass.lost
          /\ pass'.todo \subseteq pass.todo
          /\ pass' = [pc |-> pass'.pc, want |-> pass'.want, todo |-> pass'.todo, lost |-> pass'.lost,
                      failed |-> pass'.failed]
      BY <1>0, <2>1 DEF PassOK
    <2>3. PassOK'
      BY <1>0, <2>1, <2>2 DEF PassOK
    <2> QED
      BY <2>1, <2>2, <2>3, QuietInv
  <1>7. CASE Edit
    BY <1>7, EditInv
  <1>8. CASE Sync
    BY <1>8, SyncInv
  <1>9. CASE Restart
    <2>1. /\ api' = api /\ cache' = api /\ behind' = {} /\ trail' = trail /\ pass' = Idle
      BY <1>9, Zenon DEF Restart
    <2>2. PassOK' /\ PassListed'
      BY <2>1 DEF PassOK, PassListed, Idle
    <2>3. ClustersOK' /\ TrailOK' /\ CacheCurrent' /\ OwnAssessment'
      BY <2>1 DEF ReconcilerInv, ClustersOK, TrailOK, CacheCurrent, OwnAssessment
    <2> QED
      BY <2>2, <2>3 DEF ReconcilerInv
  <1> QED
    BY <1>1, <1>2, <1>3, <1>4, <1>5, <1>6, <1>7, <1>8, <1>9, Zenon DEF Next, Controller

(* What is cached, listed and wanted fits the cluster, in every behaviour.   *)
THEOREM ReconcilerInvariant == Spec => []ReconcilerInv
  <1>1. Init => ReconcilerInv
    BY InitInv
  <1>2. ReconcilerInv /\ [Next]_vars => ReconcilerInv'
    BY StepInv
  <1> QED
    BY <1>1, <1>2, PTL DEF Spec

(* A target never shows the assessment of another instance: OwnAssessment,   *)
(* for every cluster, however caches lag and targets are recreated meanwhile. *)
THEOREM AssessmentsOwn == Spec => []OwnAssessment
  <1>1. ReconcilerInv => OwnAssessment
    BY DEF ReconcilerInv
  <1> QED
    BY <1>1, ReconcilerInvariant, PTL

-----------------------------------------------------------------------------
(* The recurrence history.                                                  *)

\* r lists what s has from position from on, each value once, the last one
\* first: p gives their last positions.  What is not listed lies further back
\* than everything listed, and then r is full.
Lists(s, from, r, p) ==
    /\ Len(r) \in 1 .. MaxHistory
    /\ p \in [1 .. Len(r) -> from .. Len(s)] /\ p[1] = Len(s)
    /\ \A k \in 1 .. Len(r) : r[k] = s[p[k]] /\ \A j \in p[k] + 1 .. Len(s) : s[j] # r[k]
    /\ \A k, l \in 1 .. Len(r) : k < l => p[l] < p[k]
    /\ \A i \in from .. Len(s) : \/ \E k \in 1 .. Len(r) : s[i] = r[k]
                                 \/ Len(r) = MaxHistory /\ \A k \in 1 .. Len(r) : i < p[k]
Recalls(s, from, r) ==
    r \in Seq(Range(s)) /\ \E p \in [1 .. Len(r) -> from .. Len(s)] : Lists(s, from, r, p)

\* A summary is the exact history of the meanings in s.
ExactHistory(s, sum) ==
    /\ s \in Seq(Range(s))
    /\ s = <<>> => sum = NoSummary
    /\ s # <<>> =>
          LET from == SameIdentity(s, Len(s))
          IN /\ sum.fingerprint = s[Len(s)]
             /\ sum.recurrences = Cardinality({i \in from .. Len(s) : Reentry(s, i)})
             /\ Recalls(s, from, sum.recent)

HistoryExact == \A n \in Names(api) : ExactHistory(trail[n], Named(api, n).summary)

\* From position j on, s has one identity up to i, and j is where it began.
Began(s, i, j) ==
    /\ \A k \in j .. i : s[k].id = s[i].id
    /\ j = 1 \/ s[j - 1].id # s[i].id

(* The beginning of an identity is unique.                                  *)
LEMMA BeganOnce ==
    ASSUME NEW s, NEW i \in Nat, NEW j \in 1 .. i, Began(s, i, j)
    PROVE  SameIdentity(s, i) = j
  <1>1. \A a, b \in 1 .. i : Began(s, i, a) /\ Began(s, i, b) => ~(a < b)
    BY DEF Began
  <1>2. SameIdentity(s, i) = CHOOSE a \in 1 .. i : Began(s, i, a)
    BY Zenon DEF SameIdentity, Began
  <1>3. \E a \in 1 .. i : Began(s, i, a)
    BY Zenon
  <1>4. SameIdentity(s, i) \in 1 .. i /\ Began(s, i, SameIdentity(s, i))
    BY <1>2, <1>3, Zenon
  <1> QED
    BY <1>1, <1>4

(* Every position has one.                                                  *)
LEMMA BeganSomewhere ==
    ASSUME NEW s, NEW i \in Nat \ {0}
    PROVE  SameIdentity(s, i) \in 1 .. i /\ Began(s, i, SameIdentity(s, i))
  <1> DEFINE T == {j \in 1 .. i : \A k \in j .. i : s[k].id = s[i].id}
  <1>1. i \in T /\ T \in SUBSET Nat
    OBVIOUS
  <1>2. PICK j \in T : \A k \in T : j <= k
    BY <1>1, Least, Zenon
  <1>3. Began(s, i, j)
    <2>1. SUFFICES ASSUME j # 1, s[j - 1].id = s[i].id PROVE FALSE
      BY <1>2 DEF Began
    <2>2. j - 1 \in T
      BY <1>2, <2>1
    <2> QED
      BY <1>2, <2>2
  <1> QED
    BY <1>2, <1>3, BeganOnce

(* Whether a meaning was a re-entry does not change as others follow.        *)
LEMMA ReentryStays ==
    ASSUME NEW S, NEW s \in Seq(S), NEW f \in S, NEW i \in 1 .. Len(s)
    PROVE  /\ SameIdentity(Append(s, f), i) = SameIdentity(s, i)
           /\ Reentry(Append(s, f), i) <=> Reentry(s, i)
  <1> DEFINE a == Append(s, f)
             j == SameIdentity(s, i)
  <1>1. \A k \in 1 .. Len(s) : a[k] = s[k]
    OBVIOUS
  <1>2. j \in 1 .. i /\ Began(s, i, j)
    BY BeganSomewhere
  <1> HIDE DEF a, j
  <1>3. Began(a, i, j)
    BY <1>1, <1>2 DEF Began
  <1>4. SameIdentity(a, i) = j
    BY <1>2, <1>3, BeganOnce
  <1>5. SubSeq(a, j, i - 1) = SubSeq(s, j, i - 1)
    BY <1>1, <1>2 DEF SubSeq
  <1>6. j < i => a[i] = s[i] /\ a[i - 1] = s[i - 1]
    BY <1>1, <1>2
  <1>7. Reentry(a, i) <=> Reentry(s, i)
    BY <1>4, <1>5, <1>6, Zenon DEF Reentry, j
  <1> QED
    BY <1>4, <1>7 DEF a, j

(* A position with no equal value after it is the last of its value.        *)
LEMMA LastOnce ==
    ASSUME NEW S, NEW s \in Seq(S), NEW i \in 1 .. Len(s), \A j \in i + 1 .. Len(s) : s[j] # s[i]
    PROVE  LastAt(s, s[i]) = i
  <1> DEFINE P(k) == s[k] = s[i] /\ \A j \in k + 1 .. Len(s) : s[j] # s[i]
  <1>1. \A a, b \in 1 .. Len(s) : P(a) /\ P(b) => ~(a < b)
    OBVIOUS
  <1>2. DOMAIN s = 1 .. Len(s)
    OBVIOUS
  <1>3. LastAt(s, s[i]) \in 1 .. Len(s) /\ P(LastAt(s, s[i]))
    <2>1. LastAt(s, s[i]) = CHOOSE k \in DOMAIN s : P(k)
      BY Zenon DEF LastAt
    <2>2. P(i)
      OBVIOUS
    <2> HIDE DEF P
    <2> QED
      BY <1>2, <2>1, <2>2, Zenon
  <1>4. P(i)
    OBVIOUS
  <1> HIDE DEF P
  <1> QED
    BY <1>1, <1>3, <1>4

(* Every value of a sequence has a last position.                           *)
LEMMA LastSomewhere ==
    ASSUME NEW S, NEW s \in Seq(S), NEW x \in Range(s)
    PROVE  LET i == LastAt(s, x)
           IN i \in 1 .. Len(s) /\ s[i] = x /\ \A j \in i + 1 .. Len(s) : s[j] # x
  <1> DEFINE T == {i \in 1 .. Len(s) : s[i] = x}
  <1>1. T # {} /\ T \in SUBSET Nat
    BY DEF Range
  <1>2. IsFiniteSet(T)
    <2>1. IsFiniteSet(1 .. Len(s))
      BY FS_Interval
    <2> QED
      BY <2>1, FS_Subset, T \in SUBSET (1 .. Len(s))
  <1>3. PICK i \in T : \A k \in T : k <= i
    BY <1>1, <1>2, MaxGreatest, Zenon
  <1>4. i \in 1 .. Len(s) /\ s[i] = x /\ \A j \in i + 1 .. Len(s) : s[j] # x
    BY <1>3
  <1>5. LastAt(s, x) = i
    BY <1>4, LastOnce
  <1> QED
    BY <1>4, <1>5

(* There are n numbers from 1 to n.                                         *)
LEMMA CountTo ==
    ASSUME NEW n \in Nat
    PROVE  IsFiniteSet(1 .. n) /\ Cardinality(1 .. n) = n
  <1>1. n \in Int /\ 1 \in Int
    OBVIOUS
  <1>2. IsFiniteSet(1 .. n) /\ Cardinality(1 .. n) = IF 1 > n THEN 0 ELSE n - 1 + 1
    BY <1>1, FS_Interval, Zenon
  <1> QED
    BY <1>2

(* What is listed is exactly what was among the last distinct meanings.      *)
LEMMA ListedIsRecent ==
    ASSUME NEW S, NEW s \in Seq(S), NEW from \in 1 .. Len(s), NEW r \in Seq(S), NEW p,
           Lists(s, from, r, p), NEW f
    PROVE  f \in LastDistinct(SubSeq(s, from, Len(s)), MaxHistory) <=> Contains(r, f)
  <1> DEFINE g == SubSeq(s, from, Len(s))
             Later == {x \in Range(g) : LastAt(g, x) > LastAt(g, f)}
  <1>1. /\ g \in Seq(S) /\ Len(g) = Len(s) - from + 1
        /\ \A i \in 1 .. Len(g) : g[i] = s[from + i - 1]
    <2>1. \A i \in from .. Len(s) : s[i] \in S
      OBVIOUS
    <2> QED
      BY <2>1, SubSeqProperties
  <1>2. f \in LastDistinct(g, MaxHistory) <=> f \in Range(g) /\ Cardinality(Later) < MaxHistory
    BY DEF LastDistinct
  <1> HIDE DEF g
  <1>3. MaxHistory \in Nat \ {0}
    BY LimitsAssumption
  <1> USE <1>3
  <1>4. /\ Len(r) \in Nat \ {0} /\ Len(r) <= MaxHistory /\ Len(s) \in Nat /\ from \in Nat \ {0}
        /\ \A k \in 1 .. Len(r) : p[k] \in from .. Len(s) /\ p[k] \in Nat
    <2>1. Len(r) \in 1 .. MaxHistory /\ p \in [1 .. Len(r) -> from .. Len(s)]
      BY Zenon DEF Lists
    <2>2. Len(s) \in Nat /\ Len(r) \in Nat
      OBVIOUS
    <2> QED
      BY <2>1, <2>2
  <1>last. /\ \A k \in 1 .. Len(r) : r[k] = s[p[k]]
        /\ \A k \in 1 .. Len(r) : \A j \in p[k] + 1 .. Len(s) : s[j] # r[k]
    BY DEF Lists
  <1>order. \A k, l \in 1 .. Len(r) : k < l => p[l] < p[k]
    BY DEF Lists
  <1>whole. \A i \in from .. Len(s) : \/ \E k \in 1 .. Len(r) : s[i] = r[k]
                                      \/ Len(r) = MaxHistory /\ \A k \in 1 .. Len(r) : i < p[k]
    BY DEF Lists
  <1>5. \A k \in 1 .. Len(r) : r[k] \in Range(g) /\ LastAt(g, r[k]) = p[k] - from + 1
    <2> TAKE k \in 1 .. Len(r)
    <2>1. p[k] - from + 1 \in 1 .. Len(g)
      BY <1>1, <1>4
    <2>2. g[p[k] - from + 1] = r[k]
      <3>1. from + (p[k] - from + 1) - 1 = p[k]
        BY <1>4
      <3>2. g[p[k] - from + 1] = s[from + (p[k] - from + 1) - 1]
        BY <1>1, <2>1, Zenon
      <3> QED
        BY <1>last, <3>1, <3>2
    <2>5. ASSUME NEW j \in p[k] - from + 1 + 1 .. Len(g) PROVE g[j] # r[k]
      <3>1. j \in 1 .. Len(g) /\ from + j - 1 \in p[k] + 1 .. Len(s)
        BY <1>1, <1>4
      <3> QED
        BY <1>1, <1>last, <3>1
    <2>3. LastAt(g, r[k]) = p[k] - from + 1
      BY <1>1, <2>1, <2>2, <2>5, LastOnce
    <2>4. r[k] \in Range(g)
      BY <1>1, <2>1, <2>2 DEF Range
    <2> QED
      BY <2>3, <2>4
  <1>6. \A x \in Range(g) : /\ LastAt(g, x) \in 1 .. Len(g)
                            /\ from + LastAt(g, x) - 1 \in from .. Len(s)
                            /\ s[from + LastAt(g, x) - 1] = x
    <2> TAKE x \in Range(g)
    <2>1. LastAt(g, x) \in 1 .. Len(g) /\ g[LastAt(g, x)] = x
      BY <1>1, LastSomewhere
    <2> QED
      BY <1>1, <2>1
  <1>7. ASSUME NEW k \in 1 .. Len(r), r[k] = f
        PROVE  f \in Range(g) /\ Cardinality(Later) < MaxHistory
    <2> DEFINE Fore == {r[l] : l \in 1 .. k - 1}
               h == [l \in 1 .. k - 1 |-> r[l]]
    <2>1. Later \subseteq Fore
      <3> SUFFICES ASSUME NEW x \in Range(g), LastAt(g, x) > LastAt(g, f) PROVE x \in Fore
        OBVIOUS
      <3>1. p[k] \in from .. Len(s) /\ LastAt(g, f) = p[k] - from + 1
        BY <1>4, <1>5, <1>7
      <3>2. from + LastAt(g, x) - 1 > p[k] /\ from + LastAt(g, x) - 1 \in from .. Len(s)
        BY <1>6, <3>1
      <3>3. PICK l \in 1 .. Len(r) : x = r[l]
        <4> DEFINE i == from + LastAt(g, x) - 1
        <4>1. i \in from .. Len(s) /\ s[i] = x /\ i > p[k]
          BY <1>6, <3>2
        <4> HIDE DEF i
        <4> QED
          BY <1>4, <1>whole, <4>1
      <3>4. p[l] > p[k]
        <4>1. LastAt(g, x) = p[l] - from + 1 /\ p[l] \in from .. Len(s)
          BY <1>4, <1>5, <3>3
        <4> QED
          BY <3>2, <4>1
      <3>5. l < k
        BY <1>4, <1>order, <3>1, <3>3, <3>4
      <3> QED
        BY <3>3, <3>5
    <2>2. IsFiniteSet(1 .. k - 1) /\ Cardinality(1 .. k - 1) = k - 1
      BY FS_Interval
    <2>3. h \in Surjection(1 .. k - 1, Fore)
      BY DEF Surjection
    <2>4. IsFiniteSet(Fore) /\ Cardinality(Fore) <= k - 1
      BY <2>2, <2>3, FS_Surjection
    <2> HIDE DEF Fore, Later
    <2>5. IsFiniteSet(Later) /\ Cardinality(Later) <= Cardinality(Fore)
      BY <2>1, <2>4, FS_Subset
    <2>6. Cardinality(Later) \in Nat /\ Cardinality(Fore) \in Nat
      BY <2>4, <2>5, FS_CardinalityType
    <2> QED
      BY <1>3, <1>4, <1>5, <1>7, <2>4, <2>5, <2>6
  <1>8. ASSUME \A k \in 1 .. Len(r) : r[k] # f, f \in Range(g)
        PROVE  ~(Cardinality(Later) < MaxHistory)
    <2> DEFINE h == [l \in 1 .. Len(r) |-> r[l]]
    <2>1. Len(r) = MaxHistory /\ \A k \in 1 .. Len(r) : from + LastAt(g, f) - 1 < p[k]
      BY <1>whole, <1>6, <1>8
    <2>2. \A k \in 1 .. Len(r) : r[k] \in Later
      <3> TAKE k \in 1 .. Len(r)
      <3>1. p[k] \in from .. Len(s) /\ LastAt(g, r[k]) = p[k] - from + 1 /\ r[k] \in Range(g)
        BY <1>4, <1>5
      <3>2. LastAt(g, f) \in Nat
        BY <1>6, <1>8
      <3> QED
        BY <2>1, <3>1, <3>2
    <2>3. \A k, l \in 1 .. Len(r) : r[k] = r[l] => k = l
      <3> SUFFICES ASSUME NEW k \in 1 .. Len(r), NEW l \in 1 .. Len(r), r[k] = r[l], k # l PROVE FALSE
        OBVIOUS
      <3>1. p[k] \in Nat /\ p[l] \in Nat
        BY <1>4
      <3>2. LastAt(g, r[k]) = p[k] - from + 1 /\ LastAt(g, r[l]) = p[l] - from + 1
        BY <1>5
      <3>3. p[k] = p[l]
        BY <1>4, <3>1, <3>2
      <3> QED
        BY <1>4, <1>order, <3>1, <3>3
    <2>4. h \in Injection(1 .. Len(r), Later)
      BY <2>2, <2>3 DEF Injection, IsInjective
    <2>5. IsFiniteSet(Later)
      <3> DEFINE e == [i \in 1 .. Len(g) |-> g[i]]
      <3>1. IsFiniteSet(1 .. Len(g))
        BY <1>1, CountTo, LenProperties, Zenon
      <3>2. e \in Surjection(1 .. Len(g), Range(g))
        <4>1. DOMAIN g = 1 .. Len(g)
          BY <1>1
        <4> QED
          BY <4>1, Zenon DEF Surjection, Range
      <3>3. IsFiniteSet(Range(g))
        BY <3>1, <3>2, FS_Surjection
      <3> QED
        BY <3>3, FS_Subset
    <2> HIDE DEF Later, h
    <2>6. Cardinality(1 .. Len(r)) <= Cardinality(Later)
      BY <2>4, <2>5, FS_Injection
    <2>7. Cardinality(1 .. Len(r)) = Len(r)
      BY <1>4, CountTo
    <2>8. Cardinality(Later) \in Nat
      BY <2>5, FS_CardinalityType
    <2> QED
      BY <1>3, <2>1, <2>6, <2>7, <2>8
  <1>9. Contains(r, f) <=> \E k \in 1 .. Len(r) : r[k] = f
    BY DEF Contains
  <1> QED
    BY <1>2, <1>7, <1>8, <1>9, Zenon DEF g

(* A sequence is one of its own values.                                     *)
LEMMA OwnValues ==
    ASSUME NEW S, NEW s \in Seq(S)
    PROVE  s \in Seq(Range(s)) /\ Range(s) \subseteq S
  <1>1. Len(s) \in Nat /\ s \in [1 .. Len(s) -> S] /\ DOMAIN s = 1 .. Len(s)
    BY LenProperties, Zenon
  <1>2. Range(s) \subseteq S
    BY <1>1 DEF Range
  <1>3. s \in [1 .. Len(s) -> Range(s)]
    BY <1>1, Zenon DEF Range
  <1> QED
    BY <1>1, <1>2, <1>3 DEF Seq

(* Another meaning at the end.                                              *)
LEMMA OneMore ==
    ASSUME NEW S, NEW s \in Seq(S), NEW f \in S, NEW a, a = Append(s, f)
    PROVE  /\ a \in Seq(S) /\ Len(a) = Len(s) + 1 /\ a[Len(s) + 1] = f /\ Len(s) \in Nat
           /\ \A i \in 1 .. Len(s) : a[i] = s[i]
           /\ a # <<>> /\ DOMAIN a = 1 .. Len(s) + 1
  BY DEF Append

(* The first meaning of an identity starts a history.                       *)
LEMMA FirstMeaning ==
    ASSUME NEW S, NEW s \in Seq(S), NEW f \in S, s = <<>> \/ s[Len(s)].id # f.id,
           NEW sum, sum.fingerprint = f, sum.recent = <<f>>, sum.recurrences = 0
    PROVE  ExactHistory(Append(s, f), sum)
  <1> DEFINE a == Append(s, f)
             L == Len(s)
  <1>1. /\ a \in Seq(S) /\ Len(a) = L + 1 /\ a[L + 1] = f /\ L \in Nat
        /\ \A i \in 1 .. L : a[i] = s[i]
        /\ a # <<>> /\ DOMAIN a = 1 .. L + 1
    BY OneMore
  <1>2. L = 0 \/ a[L].id # f.id
    BY <1>1
  <1> HIDE DEF a, L
  <1>3. Began(a, L + 1, L + 1)
    BY <1>1, <1>2 DEF Began
  <1>4. SameIdentity(a, L + 1) = L + 1
    BY <1>1, <1>3, BeganOnce
  <1>5. {i \in L + 1 .. L + 1 : Reentry(a, i)} = {}
    <2>1. ~Reentry(a, L + 1)
      BY <1>1, <1>4 DEF Reentry
    <2> QED
      BY <1>1, <2>1
  <1>6. Recalls(a, L + 1, <<f>>)
    <2> DEFINE p == [k \in 1 .. 1 |-> L + 1]
    <2>1. f \in Range(a)
      BY <1>1 DEF Range
    <2>2. <<f>> \in Seq(Range(a)) /\ Len(<<f>>) = 1 /\ <<f>>[1] = f
      BY <2>1
    <2>3. p \in [1 .. 1 -> L + 1 .. L + 1]
      BY <1>1
    <2>4. Lists(a, L + 1, <<f>>, p)
      <3>1. \A k \in 1 .. 1 : k = 1 /\ p[k] = L + 1
        OBVIOUS
      <3> HIDE DEF p
      <3>2. \A k \in 1 .. 1 : <<f>>[k] = a[p[k]] /\ \A j \in p[k] + 1 .. Len(a) : a[j] # <<f>>[k]
        BY <1>1, <2>2, <3>1
      <3>3. \A i \in L + 1 .. Len(a) : \E k \in 1 .. 1 : a[i] = <<f>>[k]
        BY <1>1, <2>2
      <3>4. \A k, l \in 1 .. 1 : k < l => p[l] < p[k]
        OBVIOUS
      <3>5. 1 \in 1 .. MaxHistory
        BY LimitsAssumption
      <3> QED
        BY <1>1, <2>2, <2>3, <3>1, <3>2, <3>3, <3>4, <3>5 DEF Lists
    <2> HIDE DEF p
    <2> QED
      BY <1>1, <2>2, <2>3, <2>4 DEF Recalls
  <1>7. a \in Seq(Range(a))
    BY <1>1, OwnValues
  <1>8. ExactHistory(a, sum)
    BY <1>1, <1>4, <1>5, <1>6, <1>7, FS_EmptySet DEF ExactHistory
  <1> QED
    BY <1>8 DEF a

(* A further meaning of the same identity adds to the count what it is.      *)
LEMMA NextMeaning ==
    ASSUME NEW S, NEW s \in Seq(S), s # <<>>, NEW f \in S, s[Len(s)].id = f.id, NEW a, a = Append(s, f)
    PROVE  LET from == SameIdentity(s, Len(s))
           IN /\ from \in 1 .. Len(s)
              /\ SameIdentity(a, Len(a)) = from
              /\ Reentry(a, Len(a)) <=>
                    f # s[Len(s)] /\ f \in LastDistinct(SubSeq(s, from, Len(s)), MaxHistory)
              /\ Cardinality({i \in from .. Len(a) : Reentry(a, i)}) =
                    Cardinality({i \in from .. Len(s) : Reentry(s, i)}) +
                    (IF Reentry(a, Len(a)) THEN 1 ELSE 0)
  <1> DEFINE L == Len(s)
             from == SameIdentity(s, L)
             Old == {i \in from .. L : Reentry(s, i)}
             Now == {i \in from .. L + 1 : Reentry(a, i)}
  <1>1. /\ a \in Seq(S) /\ Len(a) = L + 1 /\ a[L + 1] = f /\ L \in Nat
        /\ \A i \in 1 .. L : a[i] = s[i]
    BY OneMore
  <1>2. L \in Nat \ {0}
    BY <1>1, EmptySeq
  <1>3. from \in 1 .. L /\ Began(s, L, from)
    BY <1>2, BeganSomewhere
  <1>4. s[L].id = f.id
    OBVIOUS
  <1>5. \A i \in 1 .. L : Reentry(a, i) <=> Reentry(s, i)
    BY ReentryStays
  <1> HIDE DEF L, from
  <1>6. Began(a, L + 1, from)
    BY <1>1, <1>2, <1>3, <1>4 DEF Began
  <1>7. SameIdentity(a, L + 1) = from
    BY <1>1, <1>2, <1>3, <1>6, BeganOnce
  <1>8. SubSeq(a, from, L) = SubSeq(s, from, L)
    BY <1>1, <1>3 DEF SubSeq
  <1>9. Reentry(a, L + 1) <=> f # s[L] /\ f \in LastDistinct(SubSeq(s, from, L), MaxHistory)
    <2> DEFINE i == L + 1
    <2>1. from < i /\ i - 1 = L /\ a[i] = f /\ a[L] = s[L]
      BY <1>1, <1>2, <1>3
    <2>2. SameIdentity(a, i) = from
      BY <1>7
    <2> HIDE DEF i
    <2>3. Reentry(a, i) <=> /\ SameIdentity(a, i) < i /\ a[i] # a[i - 1]
                            /\ a[i] \in LastDistinct(SubSeq(a, SameIdentity(a, i), i - 1), MaxHistory)
      BY Zenon DEF Reentry
    <2>4. SubSeq(a, SameIdentity(a, i), i - 1) = SubSeq(s, from, L)
      BY <1>8, <2>1, <2>2
    <2>5. Reentry(a, i) <=> f # s[L] /\ f \in LastDistinct(SubSeq(s, from, L), MaxHistory)
      BY <2>1, <2>2, <2>3, <2>4
    <2> QED
      BY <2>5 DEF i
  <1>10. IsFiniteSet(Old) /\ L + 1 \notin Old
    <2>1. IsFiniteSet(1 .. L)
      BY <1>1, CountTo
    <2>2. Old \in SUBSET (1 .. L)
      BY <1>1, <1>3
    <2> QED
      BY <1>1, <2>1, <2>2, FS_Subset
  <1>11. Now = IF Reentry(a, L + 1) THEN Old \cup {L + 1} ELSE Old
    <2>1. \A i \in from .. L + 1 : i \in 1 .. L \/ i = L + 1
      BY <1>1, <1>3
    <2>2. \A i \in from .. L : i \in 1 .. L /\ i \in from .. L + 1
      BY <1>1, <1>3
    <2>3. L + 1 \in from .. L + 1 /\ \A i \in from .. L + 1 : i # L + 1 => i \in from .. L
      BY <1>1, <1>3
    <2> QED
      BY <1>5, <2>1, <2>2, <2>3, Zenon
  <1> HIDE DEF Old, Now
  <1>12. Cardinality(Now) = Cardinality(Old) + (IF Reentry(a, L + 1) THEN 1 ELSE 0)
    <2>1. Cardinality(Old) \in Nat
      BY <1>10, FS_CardinalityType
    <2>2. Cardinality(Old \cup {L + 1}) = Cardinality(Old) + 1
      BY <1>10, FS_AddElement
    <2> QED
      BY <1>11, <2>1, <2>2
  <1> QED
    BY <1>1, <1>3, <1>7, <1>9, <1>12 DEF Old, Now, L, from

(* The same meaning again moves its last position.                          *)
LEMMA SameAgain ==
    ASSUME NEW S, NEW s \in Seq(S), s # <<>>, NEW f \in S, f = s[Len(s)], NEW from \in 1 .. Len(s),
           NEW r, Recalls(s, from, r), NEW a, a = Append(s, f)
    PROVE  Recalls(a, from, r)
  <1> DEFINE L == Len(s)
  <1>1. /\ a \in Seq(S) /\ Len(a) = L + 1 /\ a[L + 1] = f /\ L \in Nat
        /\ \A i \in 1 .. L : a[i] = s[i]
        /\ DOMAIN a = 1 .. L + 1
    BY OneMore
  <1>2. PICK p \in [1 .. Len(r) -> from .. L] : Lists(s, from, r, p)
    BY DEF Recalls
  <1>3. r \in Seq(Range(s)) /\ Range(s) \subseteq Range(a)
    <2>1. \A i \in DOMAIN s : i \in DOMAIN a /\ a[i] = s[i]
      BY <1>1
    <2>2. Range(s) \subseteq Range(a)
      BY <2>1, Zenon DEF Range
    <2> QED
      BY <2>2 DEF Recalls
  <1>4. r \in Seq(Range(a)) /\ Len(r) \in Nat
    BY <1>3
  <1>5. /\ Len(r) \in 1 .. MaxHistory /\ 1 \in 1 .. Len(r) /\ p[1] = L
        /\ \A k \in 1 .. Len(r) : p[k] \in from .. L /\ p[k] \in 1 .. L
    <2>1. Len(r) \in 1 .. MaxHistory /\ p[1] = L
      BY <1>2, Zenon DEF Lists
    <2> QED
      BY <1>1, <1>2, <1>4, <2>1, LimitsAssumption
  <1>6. \A k \in 1 .. Len(r) : r[k] = s[p[k]] /\ \A j \in p[k] + 1 .. L : s[j] # r[k]
    BY <1>2 DEF Lists
  <1>7. \A k, l \in 1 .. Len(r) : k < l => p[l] < p[k]
    BY <1>2 DEF Lists
  <1>8. \A i \in from .. L : \/ \E k \in 1 .. Len(r) : s[i] = r[k]
                             \/ Len(r) = MaxHistory /\ \A k \in 1 .. Len(r) : i < p[k]
    BY <1>2 DEF Lists
  <1>9. f = s[L]
    OBVIOUS
  <1> HIDE DEF L
  <1> DEFINE q == [k \in 1 .. Len(r) |-> IF k = 1 THEN L + 1 ELSE p[k]]
  <1>10. q \in [1 .. Len(r) -> from .. L + 1] /\ q[1] = L + 1
    BY <1>1, <1>5
  <1>11. ASSUME NEW k \in 1 .. Len(r)
         PROVE  r[k] = a[q[k]] /\ \A j \in q[k] + 1 .. L + 1 : a[j] # r[k]
    <2>1. CASE k = 1
      <3>1. q[k] = L + 1 /\ r[k] = f /\ \A j \in q[k] + 1 .. L + 1 : FALSE
        BY <1>1, <1>5, <1>6, <1>9, <2>1
      <3> QED
        BY <1>1, <3>1
    <2>2. CASE k # 1
      <3>1. p[k] < L /\ q[k] = p[k]
        BY <1>5, <1>7, <2>2
      <3>2. s[L] # r[k]
        BY <1>1, <1>5, <1>6, <3>1
      <3> QED
        BY <1>1, <1>5, <1>6, <1>9, <3>1, <3>2
    <2> QED
      BY <2>1, <2>2
  <1>12. \A k, l \in 1 .. Len(r) : k < l => q[l] < q[k]
    <2> SUFFICES ASSUME NEW k \in 1 .. Len(r), NEW l \in 1 .. Len(r), k < l PROVE q[l] < q[k]
      OBVIOUS
    <2>1. q[l] = p[l] /\ p[l] < p[k] /\ p[k] \in 1 .. L /\ p[l] \in 1 .. L
      BY <1>5, <1>7
    <2>2. q[k] = p[k] \/ q[k] = L + 1
      OBVIOUS
    <2> QED
      BY <1>1, <2>1, <2>2
  <1>13. ASSUME NEW i \in from .. L + 1
         PROVE  \/ \E k \in 1 .. Len(r) : a[i] = r[k]
                \/ Len(r) = MaxHistory /\ \A k \in 1 .. Len(r) : i < q[k]
    <2>1. CASE i = L + 1
      BY <1>1, <1>5, <1>6, <1>9, <2>1
    <2>2. CASE i # L + 1
      <3>1. i \in from .. L /\ a[i] = s[i]
        BY <1>1, <2>2
      <3>2. \A k \in 1 .. Len(r) : i < p[k] => i < q[k]
        BY <1>1, <1>5, <3>1
      <3> QED
        BY <1>8, <3>1, <3>2
    <2> QED
      BY <2>1, <2>2
  <1> HIDE DEF q
  <1>14. Lists(a, from, r, q)
    BY <1>1, <1>5, <1>10, <1>11, <1>12, <1>13 DEF Lists
  <1> QED
    BY <1>1, <1>4, <1>10, <1>14 DEF Recalls

(* t lists f, then the others of r in their order (the c of them are at the  *)
(* positions m) as long as they fit.                                         *)
Prepends(S, r, f, t, m, c) ==
    /\ c \in Nat /\ Len(r) <= c + 1
    /\ m \in [1 .. c -> {k \in 1 .. Len(r) : r[k] # f}]
    /\ \A j, k \in 1 .. c : j < k => m[j] < m[k]
    /\ \A k \in 1 .. Len(r) : r[k] # f => \E j \in 1 .. c : m[j] = k
    /\ t \in Seq(S)
    /\ Len(t) = IF MaxHistory <= c + 1 THEN MaxHistory ELSE c + 1
    /\ t[1] = f
    /\ \A k \in 2 .. Len(t) : t[k] = r[m[k - 1]]

(* What Remember returns.                                                    *)
LEMMA RememberReturns ==
    ASSUME NEW S, NEW r \in Seq(S), NEW f \in S,
           \A k, l \in 1 .. Len(r) : r[k] = r[l] => k = l
    PROVE  \E m, c : Prepends(S, r, f, Remember(r, f), m, c)
  <1> DEFINE I == {i \in DOMAIN r : r[i] # f}
             others == Keep(r, I)
             c == Len(others)
             all == <<f>> \o others
             top == Min({MaxHistory, c + 1})
  <1>1. DOMAIN r = 1 .. Len(r) /\ Len(r) \in Nat
    OBVIOUS
  <1>2. I = {k \in 1 .. Len(r) : r[k] # f} /\ I \cap 1 .. Len(r) = I
    BY <1>1
  <1>3. others \in Seq(S) /\ \E m : Places(r, I \cap 1 .. Len(r), others, m)
    BY KeepPlaces, Zenon
  <1>4. Remember(r, f) = SubSeq(all, 1, top)
    BY Zenon DEF Remember
  <1> HIDE DEF others, I
  <1>5. PICK m : Places(r, I, others, m)
    BY <1>2, <1>3
  <1>6. c \in Nat
    BY <1>3
  <1>7. /\ m \in [1 .. c -> I] /\ \A k \in 1 .. c : others[k] = r[m[k]]
        /\ \A j, k \in 1 .. c : j < k => m[j] < m[k]
        /\ \A i \in I : \E k \in 1 .. c : m[k] = i
    BY <1>5, Zenon DEF Places
  <1>8. Len(r) <= c + 1
    <2>1. m \in Surjection(1 .. c, I)
      BY <1>7, Zenon DEF Surjection
    <2>2. IsFiniteSet(1 .. c) /\ Cardinality(1 .. c) = c
      BY <1>6, CountTo
    <2>3. IsFiniteSet(I) /\ Cardinality(I) <= c
      BY <2>1, <2>2, FS_Surjection
    <2>4. IsFiniteSet(1 .. Len(r)) /\ Cardinality(1 .. Len(r)) = Len(r)
      BY <1>1, CountTo
    <2>5. Cardinality(I) \in Nat
      BY <2>3, FS_CardinalityType
    <2>6. CASE \E k \in 1 .. Len(r) : r[k] = f
      <3>1. PICK k \in 1 .. Len(r) : r[k] = f
        BY <2>6
      <3>2. I = (1 .. Len(r)) \ {k}
        BY <1>2, <3>1
      <3>3. Cardinality(I) = Len(r) - 1
        BY <2>4, <3>2, FS_RemoveElement
      <3> QED
        BY <1>1, <1>6, <2>3, <3>3
    <2>7. CASE ~\E k \in 1 .. Len(r) : r[k] = f
      <3>1. I = 1 .. Len(r)
        BY <1>2, <2>7
      <3> QED
        BY <1>1, <1>6, <2>3, <2>4, <3>1
    <2> QED
      BY <2>6, <2>7
  <1>9. /\ all \in Seq(S) /\ Len(all) = c + 1 /\ all[1] = f
        /\ \A k \in 2 .. c + 1 : all[k] = others[k - 1]
    BY <1>3
  <1> HIDE DEF all
  <1>10. MaxHistory \in Nat \ {0} /\ top = IF MaxHistory <= c + 1 THEN MaxHistory ELSE c + 1
    BY <1>6, LimitsAssumption, MinPair
  <1> HIDE DEF c, top
  <1>11. top \in 1 .. c + 1
    BY <1>6, <1>10
  <1>12. \A i \in 1 .. top : all[i] \in S
    BY <1>6, <1>9, <1>11
  <1>13. /\ SubSeq(all, 1, top) \in Seq(S) /\ Len(SubSeq(all, 1, top)) = top
         /\ \A i \in 1 .. top : SubSeq(all, 1, top)[i] = all[i]
    <2>1. /\ SubSeq(all, 1, top) \in Seq(S)
          /\ Len(SubSeq(all, 1, top)) = IF 1 <= top THEN top - 1 + 1 ELSE 0
          /\ \A i \in 1 .. top - 1 + 1 : SubSeq(all, 1, top)[i] = all[1 + i - 1]
      BY <1>6, <1>11, <1>12, SubSeqProperties
    <2> QED
      BY <1>6, <1>11, <2>1
  <1>14. /\ Remember(r, f)[1] = f /\ Len(Remember(r, f)) = top /\ Remember(r, f) \in Seq(S)
         /\ \A k \in 2 .. top : Remember(r, f)[k] = r[m[k - 1]]
    <2>1. \A k \in 2 .. top : k \in 1 .. top /\ k \in 2 .. c + 1 /\ k - 1 \in 1 .. c
      BY <1>6, <1>11
    <2>2. 1 \in 1 .. top
      BY <1>6, <1>11
    <2> QED
      BY <1>4, <1>7, <1>9, <1>13, <2>1, <2>2 DEF c
  <1> QED
    BY <1>2, <1>6, <1>7, <1>8, <1>10, <1>14 DEF Prepends

(* Another meaning is listed first, before the ones that still fit.         *)
LEMMA Remembered ==
    ASSUME NEW S, NEW s \in Seq(S), s # <<>>, NEW f \in S, f # s[Len(s)], NEW from \in 1 .. Len(s),
           NEW r, Recalls(s, from, r), NEW a, a = Append(s, f)
    PROVE  Recalls(a, from, Remember(r, f))
  <1> DEFINE L == Len(s)
  <1>1. /\ a \in Seq(S) /\ Len(a) = L + 1 /\ a[L + 1] = f /\ L \in Nat
        /\ \A i \in 1 .. L : a[i] = s[i]
        /\ DOMAIN a = 1 .. L + 1
    BY OneMore
  <1>2. PICK p \in [1 .. Len(r) -> from .. L] : Lists(s, from, r, p)
    BY DEF Recalls
  <1>3. r \in Seq(Range(s)) /\ Range(s) \subseteq Range(a)
    <2>1. \A i \in DOMAIN s : i \in DOMAIN a /\ a[i] = s[i]
      BY <1>1
    <2>2. Range(s) \subseteq Range(a)
      BY <2>1, Zenon DEF Range
    <2> QED
      BY <2>2 DEF Recalls
  <1>4. r \in Seq(Range(a)) /\ Len(r) \in Nat
    BY <1>3
  <1>5. /\ Len(r) \in 1 .. MaxHistory /\ 1 \in 1 .. Len(r)
        /\ \A k \in 1 .. Len(r) : p[k] \in from .. L /\ p[k] \in 1 .. L
    <2>1. Len(r) \in 1 .. MaxHistory
      BY <1>2, Zenon DEF Lists
    <2> QED
      BY <1>1, <1>2, <1>4, <2>1, LimitsAssumption
  <1>6. \A k \in 1 .. Len(r) : r[k] = s[p[k]] /\ \A j \in p[k] + 1 .. L : s[j] # r[k]
    BY <1>2 DEF Lists
  <1>7. \A k, l \in 1 .. Len(r) : k < l => p[l] < p[k]
    BY <1>2 DEF Lists
  <1>8. \A i \in from .. L : \/ \E k \in 1 .. Len(r) : s[i] = r[k]
                             \/ Len(r) = MaxHistory /\ \A k \in 1 .. Len(r) : i < p[k]
    BY <1>2 DEF Lists
  <1>9. \A k, l \in 1 .. Len(r) : r[k] = r[l] => k = l
    <2> SUFFICES ASSUME NEW k \in 1 .. Len(r), NEW l \in 1 .. Len(r), k < l, r[k] = r[l] PROVE FALSE
      BY <1>4
    <2>1. p[k] \in p[l] + 1 .. L
      BY <1>5, <1>7
    <2> QED
      BY <1>6, <2>1
  <1>10. f \in Range(a)
    BY <1>1 DEF Range
  <1>a. \E m, c : Prepends(Range(a), r, f, Remember(r, f), m, c)
    BY <1>4, <1>9, <1>10, RememberReturns
  <1> DEFINE t == Remember(r, f)
  <1>b. PICK m, c : Prepends(Range(a), r, f, t, m, c)
    BY <1>a, Zenon
  <1>11. /\ c \in Nat /\ Len(r) <= c + 1
         /\ m \in [1 .. c -> {k \in 1 .. Len(r) : r[k] # f}]
         /\ \A j, k \in 1 .. c : j < k => m[j] < m[k]
         /\ \A k \in 1 .. Len(r) : r[k] # f => \E j \in 1 .. c : m[j] = k
         /\ t \in Seq(Range(a))
         /\ Len(t) = IF MaxHistory <= c + 1 THEN MaxHistory ELSE c + 1
         /\ t[1] = f
         /\ \A k \in 2 .. Len(t) : t[k] = r[m[k - 1]]
    BY <1>b, Zenon DEF Prepends
  <1> HIDE DEF L, t
  <1>12. MaxHistory \in Nat \ {0} /\ from \in 1 .. L
    BY LimitsAssumption DEF L
  <1>13. /\ Len(t) \in 1 .. MaxHistory /\ 1 \in 1 .. Len(t) /\ Len(t) \in Nat
         /\ \A k \in 2 .. Len(t) : k - 1 \in 1 .. c
    BY <1>11, <1>12
  <1>14. \A k \in 2 .. Len(t) : m[k - 1] \in 1 .. Len(r) /\ r[m[k - 1]] # f /\ p[m[k - 1]] \in 1 .. L
                               /\ p[m[k - 1]] \in from .. L
    BY <1>5, <1>11, <1>13
  <1> DEFINE q == [k \in 1 .. Len(t) |-> IF k = 1 THEN L + 1 ELSE p[m[k - 1]]]
  <1>15. q[1] = L + 1 /\ \A k \in 2 .. Len(t) : q[k] = p[m[k - 1]]
    BY <1>13
  <1>16. \A k \in 1 .. Len(t) : k = 1 \/ k \in 2 .. Len(t)
    BY <1>13
  <1>17. q \in [1 .. Len(t) -> from .. L + 1]
    <2>1. \A k \in 1 .. Len(t) : q[k] \in from .. L + 1
      BY <1>1, <1>12, <1>14, <1>15, <1>16
    <2> QED
      BY <2>1
  <1> HIDE DEF q
  <1>18. ASSUME NEW k \in 1 .. Len(t)
         PROVE  t[k] = a[q[k]] /\ \A j \in q[k] + 1 .. L + 1 : a[j] # t[k]
    <2>1. CASE k = 1
      <3>1. q[k] = L + 1 /\ t[k] = f /\ \A j \in q[k] + 1 .. L + 1 : FALSE
        BY <1>1, <1>11, <1>15, <2>1
      <3> QED
        BY <1>1, <3>1
    <2>2. CASE k \in 2 .. Len(t)
      <3> DEFINE l == m[k - 1]
      <3>1. l \in 1 .. Len(r) /\ t[k] = r[l] /\ q[k] = p[l] /\ r[l] # f /\ p[l] \in 1 .. L
        BY <1>11, <1>14, <1>15, <2>2
      <3> HIDE DEF l
      <3>2. a[p[l]] = r[l] /\ \A j \in p[l] + 1 .. L : a[j] # r[l]
        BY <1>1, <1>6, <3>1
      <3>3. \A j \in p[l] + 1 .. L + 1 : j = L + 1 \/ j \in p[l] + 1 .. L
        BY <1>1, <3>1
      <3> QED
        BY <1>1, <3>1, <3>2, <3>3
    <2> QED
      BY <1>16, <2>1, <2>2
  <1>19. \A k, l \in 1 .. Len(t) : k < l => q[l] < q[k]
    <2> SUFFICES ASSUME NEW k \in 1 .. Len(t), NEW l \in 1 .. Len(t), k < l PROVE q[l] < q[k]
      OBVIOUS
    <2>1. l \in 2 .. Len(t) /\ q[l] = p[m[l - 1]] /\ p[m[l - 1]] \in 1 .. L
      BY <1>13, <1>14, <1>15
    <2>2. CASE k = 1
      BY <1>1, <1>15, <2>1, <2>2
    <2>3. CASE k \in 2 .. Len(t)
      <3>1. k - 1 \in 1 .. c /\ l - 1 \in 1 .. c /\ k - 1 < l - 1
        BY <1>13, <2>1, <2>3
      <3>2. m[k - 1] < m[l - 1] /\ m[k - 1] \in 1 .. Len(r) /\ m[l - 1] \in 1 .. Len(r)
        BY <1>11, <1>14, <2>1, <2>3, <3>1
      <3> QED
        BY <1>7, <1>15, <2>1, <2>3, <3>2
    <2> QED
      BY <1>16, <2>2, <2>3
  <1>20. ASSUME NEW i \in from .. L + 1
         PROVE  \/ \E k \in 1 .. Len(t) : a[i] = t[k]
                \/ Len(t) = MaxHistory /\ \A k \in 1 .. Len(t) : i < q[k]
    <2>1. CASE a[i] = f
      BY <1>11, <1>13, <2>1
    <2>2. CASE a[i] # f
      <3>1. i \in from .. L /\ i \in 1 .. L /\ a[i] = s[i]
        BY <1>1, <1>12, <2>2
      <3>2. CASE \E k \in 1 .. Len(r) : s[i] = r[k]
        <4>1. PICK k \in 1 .. Len(r) : s[i] = r[k]
          BY <3>2
        <4>2. PICK j \in 1 .. c : m[j] = k
          BY <1>11, <2>2, <3>1, <4>1
        <4>3. i <= p[k]
          <5>1. p[k] < i => i \in p[k] + 1 .. L
            BY <1>1, <1>5, <3>1
          <5> QED
            BY <1>5, <1>6, <3>1, <4>1, <5>1
        <4>4. CASE j + 1 \in 2 .. Len(t)
          <5> DEFINE l == j + 1
          <5>1. l \in 2 .. Len(t) /\ l - 1 = j /\ l \in 1 .. Len(t)
            BY <1>13, <4>4
          <5> HIDE DEF l
          <5>2. t[l] = r[m[l - 1]]
            BY <1>11, <5>1
          <5> QED
            BY <3>1, <4>1, <4>2, <5>1, <5>2
        <4>5. CASE j + 1 \notin 2 .. Len(t)
          <5>1. Len(t) = MaxHistory /\ Len(t) <= j
            <6>1. c \in Nat /\ j \in 1 .. c /\ Len(t) \in Nat
              BY <1>11, <1>13
            <6>2. Len(t) = IF MaxHistory <= c + 1 THEN MaxHistory ELSE c + 1
              BY <1>11
            <6>3. Len(t) < j + 1
              BY <4>5, <6>1
            <6> HIDE DEF t
            <6> QED
              BY <1>12, <6>1, <6>2, <6>3
          <5>2. ASSUME NEW l \in 2 .. Len(t) PROVE i < q[l]
            <6>1. l - 1 \in 1 .. c /\ l - 1 < j
              BY <1>13, <5>1
            <6>2. m[l - 1] < k /\ m[l - 1] \in 1 .. Len(r)
              BY <1>11, <1>14, <4>2, <6>1
            <6>3. p[k] < p[m[l - 1]] /\ p[m[l - 1]] \in 1 .. L /\ p[k] \in 1 .. L
              BY <1>5, <1>7, <6>2
            <6> QED
              BY <1>15, <3>1, <4>3, <6>3
          <5>3. i < q[1]
            BY <1>1, <1>15, <3>1
          <5> QED
            BY <1>16, <5>1, <5>2, <5>3
        <4> QED
          BY <4>4, <4>5
      <3>3. CASE ~\E k \in 1 .. Len(r) : s[i] = r[k]
        <4>1. Len(r) = MaxHistory /\ \A k \in 1 .. Len(r) : i < p[k]
          BY <1>8, <3>1, <3>3
        <4>2. Len(t) = MaxHistory
          BY <1>11, <4>1
        <4>3. ASSUME NEW k \in 1 .. Len(t) PROVE i < q[k]
          <5>1. CASE k = 1
            BY <1>1, <1>15, <3>1, <5>1
          <5>2. CASE k \in 2 .. Len(t)
            <6>1. q[k] = p[m[k - 1]] /\ m[k - 1] \in 1 .. Len(r)
              BY <1>14, <1>15, <5>2
            <6> QED
              BY <4>1, <6>1
          <5> QED
            BY <1>16, <5>1, <5>2
        <4> QED
          BY <4>2, <4>3
      <3> QED
        BY <3>2, <3>3
    <2> QED
      BY <2>1, <2>2
  <1>21. Lists(a, from, t, q)
    BY <1>1, <1>13, <1>15, <1>17, <1>18, <1>19, <1>20 DEF Lists
  <1>22. Recalls(a, from, t)
    BY <1>1, <1>11, <1>17, <1>21 DEF Recalls
  <1> QED
    BY <1>22 DEF t

(* What a summary becomes: the first of an identity, the same meaning again, *)
(* or another one that is remembered and counted when it was known.          *)
LEMMA ContinueCases ==
    ASSUME NEW prev, NEW f, NEW inv, NEW sum, sum = Continue(prev, f, inv)
    PROVE  /\ sum.fingerprint = f
           /\ prev = NoSummary \/ prev.fingerprint.id # f.id =>
                 sum.recent = <<f>> /\ sum.recurrences = 0
           /\ prev # NoSummary /\ prev.fingerprint.id = f.id /\ prev.fingerprint = f =>
                 sum.recent = prev.recent /\ sum.recurrences = prev.recurrences
           /\ prev # NoSummary /\ prev.fingerprint.id = f.id /\ prev.fingerprint # f =>
                 /\ sum.recent = Remember(prev.recent, f)
                 /\ sum.recurrences = prev.recurrences + (IF Contains(prev.recent, f) THEN 1 ELSE 0)
  <1> DEFINE R == Remember(prev.recent, f)
             K == Contains(prev.recent, f)
  <1>1. sum = LET first == [fingerprint |-> f, recent |-> <<f>>, recurrences |-> 0, recurring |-> FALSE,
                            inv |-> inv]
              IN IF prev = NoSummary \/ prev.fingerprint.id # f.id THEN first
                 ELSE IF prev.fingerprint = f
                 THEN [first EXCEPT !.recent = prev.recent, !.recurring = prev.recurring,
                                    !.recurrences = prev.recurrences]
                 ELSE [first EXCEPT !.recent = R, !.recurring = K,
                                    !.recurrences = prev.recurrences + (IF K THEN 1 ELSE 0)]
    BY Zenon DEF Continue
  <1> HIDE DEF R, K
  <1>2. /\ sum.fingerprint = f
        /\ prev = NoSummary \/ prev.fingerprint.id # f.id =>
              sum.recent = <<f>> /\ sum.recurrences = 0
        /\ prev # NoSummary /\ prev.fingerprint.id = f.id /\ prev.fingerprint = f =>
              sum.recent = prev.recent /\ sum.recurrences = prev.recurrences
        /\ prev # NoSummary /\ prev.fingerprint.id = f.id /\ prev.fingerprint # f =>
              sum.recent = R /\ sum.recurrences = prev.recurrences + (IF K THEN 1 ELSE 0)
    BY <1>1
  <1> QED
    BY <1>2 DEF R, K

(* A summary that continues an exact history is the exact history of one     *)
(* meaning more.                                                             *)
LEMMA ContinueExact ==
    ASSUME NEW s, NEW prev, ExactHistory(s, prev), NEW f, NEW inv, NEW sum, sum = Continue(prev, f, inv)
    PROVE  ExactHistory(Append(s, f), sum)
  <1> DEFINE S == Range(s) \cup {f}
             L == Len(s)
             a == Append(s, f)
             from == SameIdentity(s, L)
  <1>1. s \in Seq(Range(s))
    BY DEF ExactHistory
  <1>2. s \in Seq(S) /\ f \in S
    BY <1>1
  <1> HIDE DEF S
  <1>3. /\ a \in Seq(S) /\ Len(a) = L + 1 /\ a[L + 1] = f /\ L \in Nat /\ a # <<>>
        /\ DOMAIN a = 1 .. L + 1
    BY <1>2, OneMore
  <1>4. a \in Seq(Range(a))
    BY <1>3, OwnValues
  <1>5. sum.fingerprint = f
    BY ContinueCases
  <1>6. CASE s = <<>> \/ s[L].id # f.id
    <2>1. prev = NoSummary \/ prev.fingerprint.id # f.id
      BY <1>6 DEF ExactHistory
    <2>2. sum.recent = <<f>> /\ sum.recurrences = 0
      BY <2>1, ContinueCases
    <2> QED
      BY <1>2, <1>5, <1>6, <2>2, FirstMeaning
  <1>7. CASE s # <<>> /\ s[L].id = f.id
    <2>1. /\ prev.fingerprint = s[L] /\ Recalls(s, from, prev.recent)
          /\ prev.recurrences = Cardinality({i \in from .. L : Reentry(s, i)})
      BY <1>7 DEF ExactHistory
    <2>2. prev # NoSummary
      <3>1. Len(prev.recent) \in 1 .. MaxHistory
        BY <2>1, Zenon DEF Recalls, Lists
      <3>2. Len(NoSummary.recent) = 0
        BY DEF NoSummary
      <3> QED
        BY <3>1, <3>2, LimitsAssumption
    <2>3. /\ from \in 1 .. L
          /\ SameIdentity(a, Len(a)) = from
          /\ Reentry(a, Len(a)) <=> f # s[L] /\ f \in LastDistinct(SubSeq(s, from, L), MaxHistory)
          /\ Cardinality({i \in from .. Len(a) : Reentry(a, i)}) =
                Cardinality({i \in from .. L : Reentry(s, i)}) + (IF Reentry(a, Len(a)) THEN 1 ELSE 0)
      BY <1>2, <1>7, NextMeaning
    <2>4. Contains(prev.recent, f) <=> f \in LastDistinct(SubSeq(s, from, L), MaxHistory)
      <3> DEFINE r == prev.recent
      <3>1. r \in Seq(Range(s)) /\ \E p : Lists(s, from, r, p)
        BY <2>1, Zenon DEF Recalls
      <3> HIDE DEF r
      <3>2. PICK p : Lists(s, from, r, p)
        BY <3>1
      <3> QED
        BY <1>1, <2>3, <3>1, <3>2, ListedIsRecent DEF r
    <2>5. Cardinality({i \in from .. L : Reentry(s, i)}) \in Nat
      <3>1. IsFiniteSet(1 .. L)
        BY <1>3, CountTo
      <3>2. {i \in from .. L : Reentry(s, i)} \in SUBSET (1 .. L)
        BY <1>3, <2>3
      <3> QED
        BY <3>1, <3>2, FS_Subset, FS_CardinalityType
    <2>6. Recalls(a, from, sum.recent) /\
          sum.recurrences = prev.recurrences + (IF Reentry(a, Len(a)) THEN 1 ELSE 0)
      <3>1. CASE s[L] = f
        <4>1. sum.recent = prev.recent /\ sum.recurrences = prev.recurrences
          BY <1>7, <2>1, <2>2, <3>1, ContinueCases
        <4>2. Recalls(a, from, prev.recent)
          BY <1>2, <1>7, <2>1, <2>3, <3>1, SameAgain
        <4> QED
          BY <2>1, <2>3, <2>5, <3>1, <4>1, <4>2
      <3>2. CASE s[L] # f
        <4>1. /\ sum.recent = Remember(prev.recent, f)
              /\ sum.recurrences = prev.recurrences + (IF Contains(prev.recent, f) THEN 1 ELSE 0)
          BY <1>7, <2>1, <2>2, <3>2, ContinueCases
        <4>2. Recalls(a, from, Remember(prev.recent, f))
          BY <1>2, <1>7, <2>1, <2>3, <3>2, Remembered
        <4> QED
          BY <2>3, <2>4, <3>2, <4>1, <4>2
      <3> QED
        BY <3>1, <3>2
    <2> HIDE DEF a, from, L
    <2>7. sum.fingerprint = a[Len(a)]
      BY <1>3, <1>5
    <2>8. sum.recurrences = Cardinality({i \in from .. Len(a) : Reentry(a, i)})
      BY <2>1, <2>3, <2>6
    <2>9. ExactHistory(a, sum)
      BY <1>3, <1>4, <2>3, <2>6, <2>7, <2>8 DEF ExactHistory
    <2> QED
      BY <2>9 DEF a
  <1> QED
    BY <1>6, <1>7

(* The histories of the published summaries stay exact.                     *)
LEMMA HistoryStep ==
    ASSUME ReconcilerInv, HistoryExact, [Next]_vars
    PROVE  HistoryExact'
  <1>1. ASSUME NEW n \in Names(api), Write(n) PROVE HistoryExact'
    <2> DEFINE t == Named(api, n)
               w == pass.want[n]
    <2>1. /\ Named(api', n).summary = w.summary /\ Continues(w, t)
          /\ Names(api') = Names(api)
          /\ \A m \in Names(api) : m # n => Named(api', m) = Named(api, m)
      BY <1>1, WriteEffect
    <2>2. trail' = [trail EXCEPT ![n] = Append(@, w.summary.fingerprint)]
      BY <1>1, Zenon DEF Write
    <2> HIDE DEF t, w
    <2>3. trail'[n] = Append(trail[n], w.summary.fingerprint) /\
          \A m \in Names(api) : m # n => trail'[m] = trail[m]
      BY <2>2 DEF ReconcilerInv, TrailOK
    <2>4. ExactHistory(trail[n], t.summary)
      BY DEF HistoryExact, t
    <2>5. ExactHistory(Append(trail[n], w.summary.fingerprint), w.summary)
      BY <2>1, <2>4, ContinueExact DEF Continues
    <2> QED
      BY <2>1, <2>3, <2>5 DEF HistoryExact
  <1>2. CASE Edit
    <2> SUFFICES ASSUME NEW n \in Names(api') PROVE ExactHistory(trail'[n], Named(api', n).summary)
      BY DEF HistoryExact
    <2> DEFINE t == Named(api, n)
               u == Named(api', n)
    <2>1. /\ EditOf(api, api')
          /\ trail' = [m \in DOMAIN trail |->
                IF m \in {k \in {l \in Names(api) : Named(api, l) # Named(api', l)} :
                            Named(api, k).uid # Named(api', k).uid} THEN <<>> ELSE trail[m]]
      BY <1>2, EditEffect, Zenon
    <2>2. n \in Names(api) /\ n \in DOMAIN trail
      BY <2>1 DEF EditOf, ReconcilerInv, TrailOK
    <2>3. IF t.uid = u.uid THEN u.summary = t.summary ELSE u.summary = NoSummary
      BY <2>1, <2>2 DEF EditOf
    <2>4. trail'[n] = IF t.uid = u.uid THEN trail[n] ELSE <<>>
      BY <2>1, <2>2
    <2>5. ExactHistory(trail[n], t.summary)
      BY <2>2 DEF HistoryExact
    <2>6. ExactHistory(<<>>, NoSummary)
      BY DEF ExactHistory
    <2> QED
      BY <2>3, <2>4, <2>5, <2>6
  <1>3. CASE api' = api /\ trail' = trail
    BY <1>3 DEF HistoryExact
  <1>4. \/ Edit \/ (\E n \in Names(api) : Write(n)) \/ (api' = api /\ trail' = trail)
    BY Zenon DEF Next, Controller, Begin, ResolveFails, ContractWriteFails, End, WriteFails,
                 WorldChanges, Sync, Poll, Restart, clusterVars, vars
  <1> QED
    BY <1>1, <1>2, <1>3, <1>4

(* No re-entry of a meaning is lost or counted twice: RecurrencesExact, for  *)
(* every history length and every order of changes, passes and lagging       *)
(* caches.                                                                   *)
THEOREM RecurrencesCounted == Spec => []RecurrencesExact
  <1>1. Init => HistoryExact
    <2> SUFFICES ASSUME Init, NEW n \in Names(api) PROVE ExactHistory(trail[n], Named(api, n).summary)
      BY DEF HistoryExact
    <2>1. PICK s \in Starts : api = s[1]
      BY DEF Init
    <2>2. Named(api, n) \in api.targets
      BY NamedIn
    <2>3. Named(api, n).summary = NoSummary
      BY <2>1, <2>2, StartsAssumption
    <2>4. trail[n] = <<>>
      BY DEF Init
    <2> QED
      BY <2>3, <2>4 DEF ExactHistory
  <1>2. ReconcilerInv /\ HistoryExact /\ [Next]_vars => HistoryExact'
    BY HistoryStep
  <1>3. ReconcilerInv /\ HistoryExact => RecurrencesExact
    <2> SUFFICES ASSUME ReconcilerInv, HistoryExact, NEW t \in api.targets, trail[NameOf(t)] # <<>>
                 PROVE  LET s == trail[NameOf(t)]
                        IN /\ t.summary.fingerprint = s[Len(s)]
                           /\ t.summary.recurrences =
                                Cardinality({i \in SameIdentity(s, Len(s)) .. Len(s) : Reentry(s, i)})
      BY Zenon DEF RecurrencesExact
    <2>1. NameOf(t) \in Names(api) /\ Named(api, NameOf(t)) = t
      BY NamedIs DEF ReconcilerInv, ClustersOK
    <2>2. ExactHistory(trail[NameOf(t)], t.summary)
      BY <2>1 DEF HistoryExact
    <2> QED
      BY <2>2, Zenon DEF ExactHistory
  <1> QED
    BY <1>1, <1>2, <1>3, ReconcilerInvariant, PTL DEF Spec

-----------------------------------------------------------------------------
(* The level of a summary.                                                  *)

Spelled == Range(NameOrder)

(* A name of the order has its place there.                                 *)
LEMMA Placed ==
    ASSUME NEW x \in Spelled
    PROVE  Place(x) \in Nat /\ NameOrder[Place(x)] = x
  BY NamesAssumption DEF Spelled, Range, Place

(* Single names compare by their places.                                    *)
LEMMA BeforeOne ==
    ASSUME NEW x, NEW y
    PROVE  Before(<<x>>, <<y>>) <=> Place(x) < Place(y)
  <1> DEFINE a == <<x>>
             b == <<y>>
             k == CHOOSE j \in DOMAIN a :
                     (j = Len(a) \/ a[j] # b[j]) /\ \A i \in 1 .. j - 1 : a[i] = b[i]
  <1>1. DOMAIN a = 1 .. 1 /\ Len(a) = 1 /\ a[1] = x /\ b[1] = y
    OBVIOUS
  <1>2. Before(a, b) <=> Place(a[k]) < Place(b[k])
    BY Zenon DEF Before
  <1> HIDE DEF a, b
  <1>3. k = 1
    BY <1>1
  <1> HIDE DEF k
  <1>4. Before(a, b) <=> Place(x) < Place(y)
    BY <1>1, <1>2, <1>3
  <1> QED
    BY <1>4 DEF a, b

(* Pairs compare by the first names, and by the second when those agree.     *)
LEMMA BeforeTwo ==
    ASSUME NEW x, NEW v, NEW y, NEW w
    PROVE  Before(<<x, v>>, <<y, w>>) <=> IF x # y THEN Place(x) < Place(y) ELSE Place(v) < Place(w)
  <1> DEFINE a == <<x, v>>
             b == <<y, w>>
             k == CHOOSE j \in DOMAIN a :
                     (j = Len(a) \/ a[j] # b[j]) /\ \A i \in 1 .. j - 1 : a[i] = b[i]
  <1>1. DOMAIN a = 1 .. 2 /\ Len(a) = 2 /\ a[1] = x /\ b[1] = y /\ a[2] = v /\ b[2] = w
    OBVIOUS
  <1>2. Before(a, b) <=> Place(a[k]) < Place(b[k])
    BY Zenon DEF Before
  <1> HIDE DEF a, b
  <1>3. \A j \in DOMAIN a : (j = Len(a) \/ a[j] # b[j]) /\ (\A i \in 1 .. j - 1 : a[i] = b[i]) <=>
                            j = IF x # y THEN 1 ELSE 2
    <2> SUFFICES ASSUME NEW j \in 1 .. 2
                 PROVE  (j = Len(a) \/ a[j] # b[j]) /\ (\A i \in 1 .. j - 1 : a[i] = b[i]) <=>
                        j = IF x # y THEN 1 ELSE 2
      BY <1>1
    <2>1. CASE j = 1
      BY <1>1, <2>1
    <2>2. CASE j = 2
      BY <1>1, <2>2
    <2> QED
      BY <2>1, <2>2
  <1>4. k = IF x # y THEN 1 ELSE 2
    BY <1>1, <1>3
  <1> HIDE DEF k
  <1>5. Before(a, b) <=> IF x # y THEN Place(x) < Place(y) ELSE Place(v) < Place(w)
    BY <1>1, <1>2, <1>4
  <1> QED
    BY <1>5 DEF a, b

(* What nothing comes before is among the first.                            *)
LEMMA FirstShown ==
    ASSUME NEW key, NEW n \in Nat \ {0}, NEW x \in DOMAIN key,
           \A y \in DOMAIN key : key[y] # key[x] => ~Before(key[y], key[x])
    PROVE  x \in FirstN(key, n)
  <1>1. {y \in DOMAIN key : key[y] # key[x] /\ Before(key[y], key[x])} = {}
    OBVIOUS
  <1>2. Cardinality({}) = 0
    BY FS_EmptySet
  <1> QED
    BY <1>1, <1>2 DEF FirstN

(* Of some names in the order the first is shown.                           *)
LEMMA FirstName ==
    ASSUME NEW T, T # {}, T \subseteq Spelled, NEW n \in Nat \ {0}
    PROVE  FirstN([x \in T |-> <<x>>], n) # {}
  <1> DEFINE key == [x \in T |-> <<x>>]
             P == {Place(x) : x \in T}
  <1>1. \A x \in T : Place(x) \in Nat
    BY Placed
  <1>2. P \in SUBSET Nat /\ P # {}
    BY <1>1
  <1>3. PICK m \in P : \A p \in P : m <= p
    BY <1>2, Least, Zenon
  <1>4. PICK x \in T : \A y \in T : Place(x) <= Place(y)
    BY <1>3
  <1>5. \A y \in T : ~Before(<<y>>, <<x>>)
    <2> TAKE y \in T
    <2>1. Before(<<y>>, <<x>>) <=> Place(y) < Place(x)
      BY BeforeOne
    <2> QED
      BY <1>1, <1>4, <2>1
  <1>6. DOMAIN key = T /\ \A y \in T : key[y] = <<y>>
    OBVIOUS
  <1> HIDE DEF key
  <1>7. x \in FirstN(key, n)
    BY <1>5, <1>6, FirstShown
  <1> QED
    BY <1>7 DEF key

(* Of some pairs of names the first is shown.                               *)
LEMMA FirstPair ==
    ASSUME NEW T, T # {}, T \subseteq Spelled \X Spelled, NEW n \in Nat \ {0}
    PROVE  FirstN([x \in T |-> x], n) # {}
  <1> DEFINE key == [x \in T |-> x]
             P == {Place(x[1]) : x \in T}
  <1>1. \A x \in T : x = <<x[1], x[2]>> /\ Place(x[1]) \in Nat /\ Place(x[2]) \in Nat
    BY Placed
  <1>2. P \in SUBSET Nat /\ P # {}
    BY <1>1
  <1>3. PICK m \in P : \A p \in P : m <= p
    BY <1>2, Least, Zenon
  <1>4. PICK z \in T : \A y \in T : Place(z[1]) <= Place(y[1])
    BY <1>3, Zenon
  <1> DEFINE U == {y \in T : y[1] = z[1]}
             Q == {Place(y[2]) : y \in U}
  <1>5. Q \in SUBSET Nat /\ Q # {}
    BY <1>1
  <1>6. PICK l \in Q : \A q \in Q : l <= q
    BY <1>5, Least, Zenon
  <1>7. PICK x \in U : \A y \in U : Place(x[2]) <= Place(y[2])
    BY <1>6, Zenon
  <1>8. ASSUME NEW y \in T PROVE ~Before(y, x)
    <2>1. Before(y, x) <=> IF y[1] # x[1] THEN Place(y[1]) < Place(x[1]) ELSE Place(y[2]) < Place(x[2])
      <3>1. y = <<y[1], y[2]>> /\ x = <<x[1], x[2]>>
        BY <1>1, <1>7
      <3>2. Before(<<y[1], y[2]>>, <<x[1], x[2]>>) <=>
            IF y[1] # x[1] THEN Place(y[1]) < Place(x[1]) ELSE Place(y[2]) < Place(x[2])
        BY BeforeTwo
      <3> QED
        BY <3>1, <3>2, Zenon
    <2>2. y[1] # x[1] => Place(x[1]) <= Place(y[1])
      BY <1>4, <1>7
    <2>3. y[1] = x[1] => Place(x[2]) <= Place(y[2])
      BY <1>7
    <2>4. Place(x[1]) \in Nat /\ Place(y[1]) \in Nat /\ Place(x[2]) \in Nat /\ Place(y[2]) \in Nat
      BY <1>1, <1>7
    <2> QED
      BY <2>1, <2>2, <2>3, <2>4
  <1>9. DOMAIN key = T /\ \A y \in T : key[y] = y
    OBVIOUS
  <1> HIDE DEF key
  <1>10. x \in FirstN(key, n)
    BY <1>7, <1>8, <1>9, FirstShown
  <1> QED
    BY <1>10 DEF key

\* A line of the decision that asks for nobody, or for a person by names that
\* are in the order.
Aware(r) == r.level = "AWARENESS" /\ r.human = {}
Asks(r) ==
    /\ r.level \in {"DECISION_REQUIRED", "IMMEDIATE_INTERVENTION"}
    /\ r.human # {} /\ r.human \subseteq Spelled \X Spelled

\* Nothing that is declared for capability n may be done.
NoWayOut(in, n) ==
    /\ in.st.caps[n].state = "UNAVAILABLE"
    /\ {r \in Responses(in) : r.for = n} # {} /\ Viable({r \in Responses(in) : r.for = n}) = {}

\* A line of the decision is grounded in the input.
Grounded(in, r) ==
    /\ Aware(r) \/ Asks(r)
    /\ r.level = "IMMEDIATE_INTERVENTION" => \E n \in DOMAIN in.st.caps : NoWayOut(in, n)

(* A notice asks for nobody.                                                *)
LEMMA NoticeGrounded ==
    ASSUME NEW in, NEW code, NEW subject
    PROVE  Grounded(in, Notice(code, subject))
  BY DEF Notice, Raise, Grounded, Aware

(* A decision asks for a person.                                            *)
LEMMA DecideGrounded ==
    ASSUME NEW in, NEW code \in Spelled, NEW subject, NEW who \in Spelled
    PROVE  Grounded(in, Decide(code, subject, who))
  <1>1. /\ Decide(code, subject, who).level = "DECISION_REQUIRED"
        /\ Decide(code, subject, who).human = {<<code, who>>}
    BY DEF Decide, Raise
  <1> QED
    BY <1>1 DEF Grounded, Asks

(* The status of a response is one of six.                                  *)
LEMMA ResponseStatuses ==
    ASSUME NEW in, NEW r
    PROVE  ResponseStatus(in, r) \in {"Inapplicable", "OwnerConflict", "OwnerUndeclared",
                                      "SafetyUnproven", "ApprovalRequired", "Ready"}
  BY Zenon DEF ResponseStatus

(* The responses that are shown are declared.                               *)
LEMMA ResponsesDeclared ==
    ASSUME NEW in, NEW x \in Responses(in)
    PROVE  \E r \in Declared(in) : /\ x.for = r.for /\ x.action = r.action
                                   /\ x.status = ResponseStatus(in, r)
  BY DEF Responses

(* Every line on a capability is grounded.                                  *)
LEMMA CapabilityGrounded ==
    ASSUME NEW in, NEW n \in DOMAIN in.st.caps, n \in Spelled,
           \A r \in in.profile.responses : r.action \in Spelled, NEW x \in DecideCapability(in, n)
    PROVE  Grounded(in, x)
  <1> DEFINE state == in.st.caps[n].state
             rs == {r \in Responses(in) : r.for = n}
             viable == Viable(rs)
  <1>1. Codes \subseteq Spelled
    BY NamesAssumption DEF Spelled
  <1>2. CASE rs = {}
    <2>1. DecideCapability(in, n) =
              IF state = "UNKNOWN" THEN {}
              ELSE {Notice(IF FromDependencyOnly(in.st.caps[n].reasons)
                           THEN "impact-from-dependency" ELSE "no-declared-response", n)}
      BY <1>2, Zenon DEF DecideCapability
    <2>2. \E code : x = Notice(code, n)
      BY <2>1, Zenon
    <2> QED
      BY <2>2, NoticeGrounded
  <1>3. CASE rs # {} /\ viable = {} /\ state = "UNAVAILABLE"
    <2>1. DecideCapability(in, n) =
              {Raise("IMMEDIATE_INTERVENTION", "no-safe-path", n, {<<"no-safe-path", n>>})}
      BY <1>3, Zenon DEF DecideCapability
    <2>2. x = Raise("IMMEDIATE_INTERVENTION", "no-safe-path", n, {<<"no-safe-path", n>>})
      BY <2>1
    <2>3. x.level = "IMMEDIATE_INTERVENTION" /\ x.human = {<<"no-safe-path", n>>}
      BY <2>2 DEF Raise
    <2>4. "no-safe-path" \in Spelled
      BY <1>1 DEF Codes
    <2>5. Asks(x)
      BY <2>3, <2>4 DEF Asks
    <2>6. NoWayOut(in, n)
      BY <1>3, Zenon DEF NoWayOut
    <2> QED
      BY <2>5, <2>6 DEF Grounded
  <1>4. CASE rs # {} /\ viable = {} /\ state # "UNAVAILABLE"
    <2>1. DecideCapability(in, n) = {Decide("no-viable-response", n, n)}
      BY <1>4, Zenon DEF DecideCapability
    <2>2. "no-viable-response" \in Spelled
      BY <1>1 DEF Codes
    <2> QED
      BY <2>1, <2>2, DecideGrounded
  <1>5. CASE rs # {} /\ viable # {}
    <2>1. DecideCapability(in, n) =
              (IF Cardinality(viable) > 1 THEN {Decide("no-priority-authority", n, n)} ELSE {}) \cup
              {Decide(CodeOf(r.status), n, r.action) : r \in {y \in viable : y.status # "Ready"}} \cup
              (IF Cardinality(viable) = 1 /\ \A r \in viable : r.status = "Ready"
               THEN {Notice("declared-response-ready", n)} ELSE {})
      BY <1>5, Zenon DEF DecideCapability
    <2>2. "no-priority-authority" \in Spelled
      BY <1>1 DEF Codes
    <2>3. ASSUME NEW r \in viable, r.status # "Ready"
          PROVE  CodeOf(r.status) \in Spelled /\ r.action \in Spelled
      <3>1. r \in Responses(in) /\ r.status # "Inapplicable"
        BY DEF Viable
      <3>2. PICK d \in Declared(in) : r.action = d.action /\ r.status = ResponseStatus(in, d)
        BY <3>1, ResponsesDeclared
      <3>3. d \in in.profile.responses
        BY DEF Declared
      <3>4. r.status \in {"OwnerConflict", "OwnerUndeclared", "SafetyUnproven", "ApprovalRequired"}
        BY <2>3, <3>1, <3>2, ResponseStatuses
      <3>5. CodeOf(r.status) \in Codes
        BY <3>4 DEF CodeOf, Codes
      <3> QED
        BY <1>1, <3>2, <3>3, <3>5
    <2> HIDE DEF viable
    <2>4. \/ x = Decide("no-priority-authority", n, n)
          \/ \E r \in viable : r.status # "Ready" /\ x = Decide(CodeOf(r.status), n, r.action)
          \/ x = Notice("declared-response-ready", n)
      BY <2>1, Zenon
    <2> QED
      BY <2>2, <2>3, <2>4, DecideGrounded, NoticeGrounded
  <1> QED
    BY <1>2, <1>3, <1>4, <1>5

(* A capability that is not as it should be always has a line: an unknown   *)
(* one is the one exception, which has a line of its own.                   *)
LEMMA CapabilityRaises ==
    ASSUME NEW in, NEW n, in.st.caps[n].state # "UNKNOWN", IsFiniteSet(in.profile.responses)
    PROVE  DecideCapability(in, n) # {}
  <1> DEFINE state == in.st.caps[n].state
             rs == {r \in Responses(in) : r.for = n}
             viable == Viable(rs)
  <1>1. CASE rs = {}
    <2>1. DecideCapability(in, n) =
              {Notice(IF FromDependencyOnly(in.st.caps[n].reasons)
                      THEN "impact-from-dependency" ELSE "no-declared-response", n)}
      BY <1>1, Zenon DEF DecideCapability
    <2> QED
      BY <2>1
  <1>2. CASE rs # {} /\ viable = {}
    <2>1. \/ DecideCapability(in, n) =
              {Raise("IMMEDIATE_INTERVENTION", "no-safe-path", n, {<<"no-safe-path", n>>})}
          \/ DecideCapability(in, n) = {Decide("no-viable-response", n, n)}
      BY <1>2, Zenon DEF DecideCapability
    <2> QED
      BY <2>1
  <1>3. CASE rs # {} /\ viable # {}
    <2>1. DecideCapability(in, n) =
              (IF Cardinality(viable) > 1 THEN {Decide("no-priority-authority", n, n)} ELSE {}) \cup
              {Decide(CodeOf(r.status), n, r.action) : r \in {y \in viable : y.status # "Ready"}} \cup
              (IF Cardinality(viable) = 1 /\ \A r \in viable : r.status = "Ready"
               THEN {Notice("declared-response-ready", n)} ELSE {})
      BY <1>3, Zenon DEF DecideCapability
    <2>2. IsFiniteSet(viable)
      <3>1. IsFiniteSet(Declared(in))
        BY FS_Subset DEF Declared
      <3> DEFINE shown(r) == [for |-> r.for, action |-> r.action, owner |-> r.owner, decide |-> r.decide,
                              pre |-> r.pre, status |-> ResponseStatus(in, r)]
                 F == [r \in Declared(in) |-> shown(r)]
      <3>2. Responses(in) = {shown(r) : r \in Declared(in)}
        BY Zenon DEF Responses
      <3> HIDE DEF shown
      <3>3. F \in Surjection(Declared(in), Responses(in))
        BY <3>2, Zenon DEF Surjection
      <3>4. IsFiniteSet(Responses(in))
        BY <3>1, <3>3, FS_Surjection
      <3> QED
        BY <3>4, FS_Subset DEF Viable
    <2> HIDE DEF viable, rs
    <2>3. Cardinality(viable) \in Nat /\ Cardinality(viable) # 0
      BY <1>3, <2>2, FS_CardinalityType, FS_EmptySet
    <2>4. Cardinality(viable) > 1 \/ Cardinality(viable) = 1
      BY <2>3
    <2>5. CASE Cardinality(viable) > 1
      <3>1. Decide("no-priority-authority", n, n) \in DecideCapability(in, n)
        BY <2>1, <2>5, Zenon
      <3> QED
        BY <3>1
    <2>6. CASE \E r \in viable : r.status # "Ready"
      <3>1. \E r \in viable : Decide(CodeOf(r.status), n, r.action) \in DecideCapability(in, n)
        BY <2>1, <2>6, Zenon
      <3> QED
        BY <3>1
    <2>7. CASE Cardinality(viable) = 1 /\ \A r \in viable : r.status = "Ready"
      <3>1. Notice("declared-response-ready", n) \in DecideCapability(in, n)
        BY <2>1, <2>7, Zenon
      <3> QED
        BY <3>1
    <2> QED
      BY <2>4, <2>5, <2>6, <2>7
  <1> QED
    BY <1>1, <1>2, <1>3

\* What is known of the input of a summary: a target that is not assessed shows
\* why, and the names are in the order.
Described(in) ==
    /\ in.st.valid \/ /\ in.st.invalid # {} /\ DOMAIN in.st.caps = {}
                      /\ \A r \in in.st.invalid : r.code \in Spelled
    /\ DOMAIN in.st.caps \subseteq Spelled
    /\ IsFiniteSet(in.profile.responses) /\ \A r \in in.profile.responses : r.action \in Spelled
    /\ \A a \in in.acts : a.name \in Spelled

(* What is shown of some objects is among them.                             *)
LEMMA FirstAmong ==
    ASSUME NEW key, NEW n
    PROVE  FirstN(key, n) \subseteq DOMAIN key
  BY DEF FirstN

(* An escalation asks a person about an action.                             *)
LEMMA EscalationGrounded ==
    ASSUME NEW in, Described(in), NEW x \in Escalations(in)
    PROVE  Grounded(in, x)
  <1> DEFINE open == {a \in in.acts :
                         ~(a.for \in DOMAIN in.st.caps /\ in.st.caps[a.for].state = "AVAILABLE")}
             names(code) == {a.name : a \in {y \in open : ActionCode(y) = code}}
  <1>1. \E code \in {"action-not-recovered", "action-outcome-unknown"} :
          \E n \in FirstN([y \in names(code) |-> <<y>>], 1) : x = Decide(code, n, n)
    BY Zenon DEF Escalations
  <1>2. PICK code \in {"action-not-recovered", "action-outcome-unknown"} :
          \E n \in FirstN([y \in names(code) |-> <<y>>], 1) : x = Decide(code, n, n)
    BY <1>1
  <1>3. PICK n \in FirstN([y \in names(code) |-> <<y>>], 1) : x = Decide(code, n, n)
    BY <1>2
  <1>4. code \in Spelled
    BY NamesAssumption DEF Spelled, Codes
  <1>5. n \in names(code)
    <2>1. DOMAIN [y \in names(code) |-> <<y>>] = names(code)
      OBVIOUS
    <2> QED
      BY <2>1, FirstAmong, Zenon
  <1>6. n \in Spelled
    BY <1>5 DEF Described
  <1> QED
    BY <1>3, <1>4, <1>6, DecideGrounded

(* Every line of a decision is grounded.                                    *)
LEMMA RaisedGrounded ==
    ASSUME NEW in, Described(in), NEW x \in Raised(in)
    PROVE  Grounded(in, x)
  <1>1. Codes \subseteq Spelled
    BY NamesAssumption DEF Spelled
  <1>2. CASE ~in.st.valid
    <2> DEFINE T == {r.code : r \in in.st.invalid}
    <2>1. PICK code \in FirstN([c \in T |-> <<c>>], 1) :
            x = Raise("DECISION_REQUIRED", "target-not-assessed", code, {<<"spec-correction-required", code>>})
      BY <1>2, Zenon DEF Raised
    <2>2. DOMAIN [c \in T |-> <<c>>] = T
      OBVIOUS
    <2>3. code \in T
      BY <2>2, FirstAmong, Zenon
    <2>4. code \in Spelled
      BY <1>2, <2>3 DEF Described
    <2>5. "spec-correction-required" \in Spelled
      BY <1>1 DEF Codes
    <2>6. x.level = "DECISION_REQUIRED" /\ x.human = {<<"spec-correction-required", code>>}
      BY <2>1 DEF Raise
    <2> QED
      BY <2>4, <2>5, <2>6 DEF Grounded, Asks
  <1>3. CASE in.st.valid
    <2> DEFINE open == {n \in DOMAIN in.st.caps : in.st.caps[n].state # "AVAILABLE"}
               A == IF DOMAIN in.st.caps = {} THEN {Notice("no-capabilities-assessed", "")} ELSE {}
               B == {Notice("capability-unknown", n) :
                        n \in {m \in open : in.st.caps[m].state = "UNKNOWN"}}
               D == IF in.inv.outcome = "Active" THEN {Notice("investigation-in-progress", "")} ELSE {}
               E == UNION {DecideCapability(in, n) : n \in open}
               F == {Raise("DECISION_REQUIRED", "target-not-assessed", code,
                           {<<"spec-correction-required", code>>}) :
                        code \in FirstN([c \in {r.code : r \in in.st.invalid} |-> <<c>>], 1)}
    <2>0. Raised(in) = A \cup B \cup EnvelopeNotices(in.st) \cup D \cup E \cup Escalations(in)
      <3>1. Raised(in) = IF ~in.st.valid THEN F
                         ELSE A \cup B \cup EnvelopeNotices(in.st) \cup D \cup E \cup Escalations(in)
        BY Zenon DEF Raised
      <3> HIDE DEF A, B, D, E, F
      <3> QED
        BY <1>3, <3>1, Zenon
    <2>a. x \in A \cup B \cup D => \E code, subject : x = Notice(code, subject)
      <3>1. x \in A => x = Notice("no-capabilities-assessed", "")
        OBVIOUS
      <3>2. x \in B => \E n \in open : x = Notice("capability-unknown", n)
        BY Zenon
      <3>3. x \in D => x = Notice("investigation-in-progress", "")
        OBVIOUS
      <3> HIDE DEF A, B, D
      <3> QED
        BY <3>1, <3>2, <3>3, Zenon
    <2>b. x \in E => \E n \in open : x \in DecideCapability(in, n)
      BY Zenon
    <2> HIDE DEF A, B, D, E
    <2>1. \/ \E code, subject : x = Notice(code, subject)
          \/ x \in EnvelopeNotices(in.st)
          \/ \E n \in open : x \in DecideCapability(in, n)
          \/ x \in Escalations(in)
      BY <2>0, <2>a, <2>b, Zenon
    <2>2. x \in EnvelopeNotices(in.st) => \E code, subject : x = Notice(code, subject)
      BY Zenon DEF EnvelopeNotices
    <2>3. ASSUME NEW n \in open, x \in DecideCapability(in, n) PROVE Grounded(in, x)
      <3>1. n \in DOMAIN in.st.caps /\ n \in Spelled
        BY DEF Described
      <3>2. \A r \in in.profile.responses : r.action \in Spelled
        BY DEF Described
      <3> QED
        BY <2>3, <3>1, <3>2, CapabilityGrounded
    <2> QED
      BY <2>1, <2>2, <2>3, NoticeGrounded, EscalationGrounded
  <1> QED
    BY <1>2, <1>3

(* A decision without a line means that everything is as it should be.      *)
LEMMA NothingRaised ==
    ASSUME NEW in, Described(in), Raised(in) = {}
    PROVE  /\ in.st.valid /\ DOMAIN in.st.caps # {}
           /\ \A n \in DOMAIN in.st.caps : in.st.caps[n].state = "AVAILABLE"
  <1>1. in.st.valid
    <2> SUFFICES ASSUME ~in.st.valid PROVE FALSE
      OBVIOUS
    <2> DEFINE T == {r.code : r \in in.st.invalid}
    <2>1. T # {} /\ T \subseteq Spelled
      BY DEF Described
    <2> HIDE DEF T
    <2>a. 1 \in Nat \ {0}
      OBVIOUS
    <2>b. FirstN([c \in T |-> <<c>>], 1) # {}
      BY <2>1, <2>a, FirstName, Zenon
    <2>2. PICK code : code \in FirstN([c \in T |-> <<c>>], 1)
      BY <2>b, Zenon
    <2>3. Raise("DECISION_REQUIRED", "target-not-assessed", code,
                {<<"spec-correction-required", code>>}) \in Raised(in)
      BY <2>2, Zenon DEF Raised, T
    <2> QED
      BY <2>3
  <1> DEFINE open == {n \in DOMAIN in.st.caps : in.st.caps[n].state # "AVAILABLE"}
  <1>2. DOMAIN in.st.caps # {}
    <2> SUFFICES ASSUME DOMAIN in.st.caps = {} PROVE FALSE
      OBVIOUS
    <2>1. Notice("no-capabilities-assessed", "") \in Raised(in)
      BY <1>1, Zenon DEF Raised
    <2> QED
      BY <2>1
  <1>3. ASSUME NEW n \in open PROVE FALSE
    <2>1. CASE in.st.caps[n].state = "UNKNOWN"
      <3>1. Notice("capability-unknown", n) \in Raised(in)
        BY <1>1, <2>1, Zenon DEF Raised
      <3> QED
        BY <3>1
    <2>2. CASE in.st.caps[n].state # "UNKNOWN"
      <3>1. PICK x : x \in DecideCapability(in, n)
        BY <2>2, CapabilityRaises DEF Described
      <3>2. x \in Raised(in)
        BY <1>1, <3>1, Zenon DEF Raised
      <3> QED
        BY <3>2
    <2> QED
      BY <2>1, <2>2
  <1> QED
    BY <1>1, <1>2, <1>3

(* The level is the highest of its lines.                                   *)
LEMMA HighestLevel ==
    ASSUME NEW in, Described(in), NEW f, f = Meaning(in)
    PROVE  /\ f.level \in 0 .. 3
           /\ f.level = 0 => Raised(in) = {}
           /\ f.level >= 2 <=> \E r \in Raised(in) : Asks(r)
           /\ f.level = 3 => \E r \in Raised(in) : r.level = "IMMEDIATE_INTERVENTION"
           /\ f.human = Shown(UNION {r.human : r \in Raised(in)})
  <1> DEFINE raised == Raised(in)
             T == {Level(r.level) : r \in raised} \cup {0}
  <1>1. f.level = Max(T) /\ f.human = Shown(UNION {r.human : r \in raised})
    <2>1. f = MeaningOf(in, raised)
      BY Zenon DEF Meaning
    <2> DEFINE top == Max(T)
               H == Shown(UNION {r.human : r \in raised})
    <2>2. \E id, reasons, caps, missing, responses, acts :
            f = [id |-> id, level |-> top, reasons |-> reasons, human |-> H, caps |-> caps,
                 missing |-> missing, responses |-> responses, acts |-> acts]
      BY <2>1, Zenon DEF MeaningOf
    <2> HIDE DEF top, H
    <2>3. f.level = top /\ f.human = H
      BY <2>2
    <2> QED
      BY <2>3 DEF top, H
  <1>2. \A r \in raised : Grounded(in, r)
    BY RaisedGrounded
  <1> HIDE DEF raised
  <1>3. \A r \in raised : \/ Aware(r) /\ ~Asks(r) /\ Level(r.level) = 1
                          \/ Asks(r) /\ r.level = "DECISION_REQUIRED" /\ Level(r.level) = 2
                          \/ Asks(r) /\ r.level = "IMMEDIATE_INTERVENTION" /\ Level(r.level) = 3
    BY <1>2 DEF Grounded, Aware, Asks, Level
  <1>4. T \in SUBSET (0 .. 3) /\ T \in SUBSET Nat /\ T # {}
    BY <1>3
  <1>5. IsFiniteSet(0 .. 3)
    BY 0 \in Int, 3 \in Int, FS_Interval, Zenon
  <1>6. IsFiniteSet(T)
    BY <1>4, <1>5, FS_Subset
  <1>7. Max(T) \in T /\ \A n \in T : n <= Max(T)
    BY <1>4, <1>6, MaxGreatest
  <1> DEFINE top == Max(T)
  <1>8. top \in 0 .. 3 /\ \A r \in raised : Level(r.level) <= top
    BY <1>4, <1>7
  <1>9. top = 0 \/ \E r \in raised : Level(r.level) = top
    BY <1>7
  <1> HIDE DEF top, T
  <1>10. f.level = top
    BY <1>1 DEF top
  <1>11. top = 0 => raised = {}
    BY <1>3, <1>8
  <1>12. top >= 2 <=> \E r \in raised : Asks(r)
    BY <1>3, <1>8, <1>9
  <1>13. top = 3 => \E r \in raised : r.level = "IMMEDIATE_INTERVENTION"
    BY <1>3, <1>9
  <1> QED
    BY <1>1, <1>8, <1>10, <1>11, <1>12, <1>13 DEF raised

\* The target a pass would write, as far as its level is concerned.
AsTarget(n, w) == [ns |-> n[1], name |-> n[2], uid |-> w.st.uid, st |-> w.st, summary |-> w.summary]

(* Of a way out that is ruled out, every declared response is.              *)
LEMMA NoneLeft ==
    ASSUME NEW in, NEW n \in DOMAIN in.st.caps, NoWayOut(in, n), in.profile = profile,
           NEW t, t.ns = in.ns, t.name = in.name, t.uid = in.uid, t.st = in.st
    PROVE  RuledOut(t, n)
  <1> DEFINE rs == {r \in profile.responses :
                       /\ r.ns = t.ns /\ r.name = t.name /\ r.uid \in {0, t.uid}
                       /\ r.for = n
                       /\ t.st.caps[n].state \in r.states \/ r.states = {}}
  <1>0. t.st.caps[n].state = "UNAVAILABLE"
    BY DEF NoWayOut
  <1>1. \A r : r \in rs <=> r \in Declared(in) /\ r.for = n
    BY <1>0 DEF Declared, Triggers
  <1>2. rs # {}
    <2>1. PICK x \in Responses(in) : x.for = n
      BY DEF NoWayOut
    <2>2. PICK r \in Declared(in) : x.for = r.for
      BY ResponsesDeclared
    <2> QED
      BY <1>1, <2>1, <2>2
  <1>3. ASSUME NEW r \in rs
        PROVE  \E p \in r.pre :
                  p \in DOMAIN t.st.caps /\ t.st.caps[p].state \in {"DEGRADED", "UNAVAILABLE"}
    <2>1. r \in Declared(in) /\ r.for = n
      BY <1>1
    <2> DEFINE x == [for |-> r.for, action |-> r.action, owner |-> r.owner, decide |-> r.decide,
                     pre |-> r.pre, status |-> ResponseStatus(in, r)]
    <2>2. x \in Responses(in)
      BY <2>1, Zenon DEF Responses
    <2>3. x.for = n /\ x.status = ResponseStatus(in, r)
      BY <2>1
    <2> HIDE DEF x
    <2>4. x.status = "Inapplicable"
      BY <2>2, <2>3 DEF NoWayOut, Viable
    <2>5. \E p \in r.pre : PreconditionOf(in, p) = "unmet"
      BY <2>3, <2>4 DEF ResponseStatus
    <2>6. PICK p \in r.pre : PreconditionOf(in, p) = "unmet"
      BY <2>5
    <2>7. p \in DOMAIN in.st.caps /\ in.st.caps[p].state \in {"DEGRADED", "UNAVAILABLE"}
      BY <2>6 DEF PreconditionOf
    <2> QED
      BY <2>7
  <1> QED
    BY <1>2, <1>3, Zenon DEF RuledOut

(* What a summary means is justified by the status it is made of.           *)
LEMMA MeaningJustified ==
    ASSUME NEW in, Described(in), in.profile = profile,
           NEW t, t.ns = in.ns, t.name = in.name, t.uid = in.uid, t.st = in.st,
           t.summary.fingerprint = Meaning(in)
    PROVE  Justified(t)
  <1> DEFINE f == Meaning(in)
             H == UNION {r.human : r \in Raised(in)}
  <1>1. /\ f.level \in 0 .. 3
        /\ f.level = 0 => Raised(in) = {}
        /\ f.level >= 2 <=> \E r \in Raised(in) : Asks(r)
        /\ f.level = 3 => \E r \in Raised(in) : r.level = "IMMEDIATE_INTERVENTION"
        /\ f.human = Shown(H)
    BY HighestLevel
  <1>2. \A r \in Raised(in) : Grounded(in, r)
    BY RaisedGrounded
  <1>3. H \subseteq Spelled \X Spelled
    BY <1>2 DEF Grounded, Aware, Asks
  <1>4. H # {} <=> \E r \in Raised(in) : Asks(r)
    BY <1>2 DEF Grounded, Aware, Asks
  <1> HIDE DEF f, H
  <1>5. Shown(H) # {} <=> H # {}
    <2>1. Shown(H) = FirstN([r \in H |-> r], MaxReasons)
      BY Zenon DEF Shown
    <2>2. H # {} => FirstN([r \in H |-> r], MaxReasons) # {}
      BY <1>3, FirstPair, LimitsAssumption
    <2>3. DOMAIN [r \in H |-> r] = H
      OBVIOUS
    <2>4. FirstN([r \in H |-> r], MaxReasons) \subseteq H
      BY <2>3, FirstAmong
    <2> QED
      BY <2>1, <2>2, <2>4
  <1>6. f.level >= 2 <=> f.human # {}
    BY <1>1, <1>4, <1>5
  <1>7. ASSUME f.level = 3
        PROVE  \E n \in DOMAIN t.st.caps : t.st.caps[n].state = "UNAVAILABLE" /\ RuledOut(t, n)
    <2>1. PICK n \in DOMAIN in.st.caps : NoWayOut(in, n)
      BY <1>1, <1>2, <1>7 DEF Grounded
    <2>2. RuledOut(t, n)
      BY <2>1, NoneLeft
    <2> QED
      BY <2>1, <2>2 DEF NoWayOut
  <1>8. f.level = 0 => /\ t.st.valid /\ DOMAIN t.st.caps # {}
                       /\ \A n \in DOMAIN t.st.caps : t.st.caps[n].state = "AVAILABLE"
    BY <1>1, NothingRaised
  <1> QED
    BY <1>6, <1>7, <1>8, Zenon DEF Justified, f

(* Whether a level is justified does not depend on the rest of the target.   *)
LEMMA JustifiedAlike ==
    ASSUME NEW t, NEW u, t.ns = u.ns, t.name = u.name, t.uid = u.uid, t.st = u.st,
           t.summary = u.summary, Justified(t)
    PROVE  Justified(u)
  <1>1. \A n : RuledOut(t, n) => RuledOut(u, n)
    BY Zenon DEF RuledOut
  <1> QED
    BY <1>1 DEF Justified

-----------------------------------------------------------------------------
(* What the projection shows.                                               *)

(* The codes of the defects are in the order.                               *)
LEMMA DefectCodes ==
    ASSUME NEW S, NEW t
    PROVE  Defects(S, t) \subseteq Codes
  <1>1. BindingDefects(S, t) \subseteq {"invalid-binding", "unknown-envelope-selection"}
    BY DEF BindingDefects
  <1>2. Defects(S, t) \subseteq {"duplicate-target-uid", "cross-namespace-contract-ref",
            "contract-unresolved", "contract-ambiguous", "invalid-contract"} \cup BindingDefects(S, t)
    BY DEF Defects
  <1> QED
    BY <1>1, <1>2 DEF Codes

(* Why a target is invalid is always shown, in known codes.                 *)
LEMMA InvalidShown ==
    ASSUME NEW C, NEW S, NEW t, TargetOf(S, t.uid) \in S.targets, TargetOf(S, t.uid).uid = t.uid,
           TargetOf(S, t.uid) \notin Valid(S)
    PROVE  /\ InvalidReasons(C, S, t) # {}
           /\ \A r \in InvalidReasons(C, S, t) : r.code \in Codes
  <1> DEFINE x == TargetOf(S, t.uid)
             D == {[code |-> d, subject |-> <<"target", "">>, detail |-> {}] : d \in Defects(S, x)}
             G == CyclicComponents(CapabilityGraph(S, Resolved(S)))
             Y == {y \in G : \E n \in y : n[1] = t.uid}
             shown(scc) ==
                LET members == {z.ns : z \in {y \in C.targets : \E n \in scc : n[1] = y.uid}}
                IN [code |-> "dependency-cycle",
                    subject |-> <<"capabilities", {n[2] : n \in {m \in scc : m[1] = t.uid}}>>,
                    detail |-> IF members = {t.ns} THEN members ELSE {}]
  <1>1. InvalidReasons(C, S, t) = D \cup {shown(scc) : scc \in Y}
    BY Zenon DEF InvalidReasons, CycleReasons
  <1>2. \A scc : shown(scc).code = "dependency-cycle"
    OBVIOUS
  <1> HIDE DEF shown
  <1>3. \A r \in D : r.code \in Codes
    <2> TAKE r \in D
    <2>1. Defects(S, x) \subseteq Codes
      BY DefectCodes
    <2>2. PICK d \in Defects(S, x) : r = [code |-> d, subject |-> <<"target", "">>, detail |-> {}]
      BY Zenon
    <2>3. r.code = d
      BY <2>2
    <2> HIDE DEF x
    <2> QED
      BY <2>1, <2>3
  <1>4. Defects(S, x) # {} \/ Y # {}
    <2> SUFFICES ASSUME Defects(S, x) = {} PROVE Y # {}
      OBVIOUS
    <2>1. x \in Resolved(S)
      BY Zenon DEF Resolved
    <2>2. x.uid \in CyclicTargets(S, Resolved(S))
      BY <2>1, Zenon DEF Valid, WithoutCycles
    <2>3. PICK n \in UNION G : x.uid = n[1]
      BY <2>2, Zenon DEF CyclicTargets
    <2>4. PICK y \in G : n \in y
      BY <2>3, Zenon
    <2> HIDE DEF G
    <2> QED
      BY <2>3, <2>4
  <1>5. InvalidReasons(C, S, t) # {}
    <2>1. CASE Defects(S, x) # {}
      <3>1. D # {}
        BY <2>1
      <3> QED
        BY <1>1, <3>1
    <2>2. CASE Y # {}
      <3>1. PICK y : y \in Y
        BY <2>2
      <3>2. shown(y) \in InvalidReasons(C, S, t)
        BY <1>1, <3>1, Zenon
      <3> QED
        BY <3>2
    <2> QED
      BY <1>4, <2>1, <2>2
  <1>6. "dependency-cycle" \in Codes
    BY DEF Codes
  <1> HIDE DEF D, Y
  <1>7. \A r \in InvalidReasons(C, S, t) : r.code \in Codes
    BY <1>1, <1>2, <1>3, <1>6
  <1> QED
    BY <1>5, <1>7

(* A target with a workload is in the snapshot.                             *)
LEMMA InSnapshot ==
    ASSUME NEW C, NEW w, NEW t \in C.targets, WorkloadOf(C, t) # {}, NEW S, S = Observed(Build(C), w)
    PROVE  /\ TargetOf(S, t.uid) \in S.targets /\ TargetOf(S, t.uid).uid = t.uid
           /\ S.contracts = {ContractFromWire(c) : c \in C.contracts}
  <1> DEFINE K == {ContractFromWire(c) : c \in C.contracts}
             T == {SnapshotTarget(C, x) : x \in {y \in C.targets : WorkloadOf(C, y) # {}}}
             B == [contracts |-> K, targets |-> T, obs |-> {}]
             O == Observations(B, w)
  <1>1. S = [B EXCEPT !.obs = O]
    BY Zenon DEF Observed, Build
  <1>2. SnapshotTarget(C, t) \in T
    BY Zenon
  <1>3. SnapshotTarget(C, t).uid = t.uid
    BY DEF SnapshotTarget
  <1> HIDE DEF K, T, O
  <1>4. S.targets = T /\ S.contracts = K
    BY <1>1
  <1>5. TargetOf(S, t.uid) \in S.targets /\ TargetOf(S, t.uid).uid = t.uid
    BY <1>2, <1>3, <1>4, Zenon DEF TargetOf
  <1> QED
    BY <1>4, <1>5 DEF K

(* The capabilities that are shown are those of a contract of the cluster.   *)
LEMMA CapabilitiesSpelled ==
    ASSUME NEW C, IsCluster(C), NEW S, S.contracts = {ContractFromWire(c) : c \in C.contracts},
           NEW x, x \in Valid(S)
    PROVE  DOMAIN ContractOf(S, x).caps \subseteq Spelled
  <1>1. Defects(S, x) = {}
    BY Zenon DEF Valid, WithoutCycles, Resolved
  <1>2. ContractsOf(S, x) # {}
    <2> SUFFICES ASSUME ContractsOf(S, x) = {} PROVE FALSE
      OBVIOUS
    <2>1. "cross-namespace-contract-ref" \in Defects(S, x) \/ "contract-unresolved" \in Defects(S, x)
      <3>1. CASE x.contract.ns # x.ns
        BY <3>1, Zenon DEF Defects
      <3>2. CASE x.contract.ns = x.ns
        <4>1. ~(Cardinality(ContractsOf(S, x)) > 1)
          BY FS_EmptySet
        <4> QED
          BY <3>2, <4>1, Zenon DEF Defects
      <3> QED
        BY <3>1, <3>2
    <2> QED
      BY <1>1, <2>1
  <1>3. ContractOf(S, x) \in S.contracts
    <2>1. ContractOf(S, x) \in ContractsOf(S, x)
      BY <1>2, Zenon DEF ContractOf
    <2> QED
      BY <2>1 DEF ContractsOf
  <1>4. PICK c \in C.contracts : ContractOf(S, x) = ContractFromWire(c)
    BY <1>3
  <1>5. ContractFromWire(c).caps = SpecOf[c.digest].caps
    BY DEF ContractFromWire
  <1>6. c.digest \in DOMAIN SpecOf
    BY DEF IsCluster
  <1> QED
    BY <1>4, <1>5, <1>6, NamesAssumption DEF Spelled

(* A status shows why a target is not assessed, or its capabilities.        *)
LEMMA StatusDescribed ==
    ASSUME NEW C, IsCluster(C), NEW w, NEW t \in C.targets, NEW S, S = Observed(Build(C), w),
           NEW st, st = ProjectStatus(C, S, Evaluate(S), t)
    PROVE  /\ st.valid \/ /\ st.invalid # {} /\ DOMAIN st.caps = {}
                          /\ \A r \in st.invalid : r.code \in Spelled
           /\ DOMAIN st.caps \subseteq Spelled
  <1>1. Codes \subseteq Spelled
    BY NamesAssumption DEF Spelled
  <1>2. \A rid, rs : Unassessed(C, t, rid, rs).invalid = rs /\ DOMAIN Unassessed(C, t, rid, rs).caps = {}
    BY DEF Unassessed
  <1>3. Evaluate(S).valid = Valid(S)
    BY DEF Evaluate, Assess
  <1>4. CASE WorkloadOf(C, t) = {}
    <2> DEFINE r == [code |-> "target-not-found", subject |-> <<"targetRef", t.work>>, detail |-> {}]
    <2>1. st = Unassessed(C, t, 0, {r})
      BY <1>4, StatusMissing, Zenon
    <2>2. r.code \in Spelled
      BY <1>1 DEF Codes
    <2> HIDE DEF r
    <2> QED
      BY <1>2, <2>1, <2>2
  <1>5. CASE WorkloadOf(C, t) # {} /\ TargetOf(S, t.uid) \notin Valid(S)
    <2>1. st = Unassessed(C, t, TargetOf(S, t.uid).rid, InvalidReasons(C, S, t))
      BY <1>3, <1>5, StatusInvalid
    <2>2. TargetOf(S, t.uid) \in S.targets /\ TargetOf(S, t.uid).uid = t.uid
      BY <1>5, InSnapshot
    <2>3. /\ InvalidReasons(C, S, t) # {}
          /\ \A r \in InvalidReasons(C, S, t) : r.code \in Codes
      BY <1>5, <2>2, InvalidShown
    <2> QED
      BY <1>1, <1>2, <2>1, <2>3
  <1>6. CASE WorkloadOf(C, t) # {} /\ TargetOf(S, t.uid) \in Valid(S)
    <2>1. PICK rid, e, m, v : /\ st = Filled(C, t, rid, e, m, v)
                              /\ DOMAIN m = DOMAIN ContractOf(S, TargetOf(S, t.uid)).caps
      BY <1>3, <1>6, StatusFilled
    <2>2. st.valid /\ st.caps = m
      BY <2>1, FilledIn
    <2>3. S.contracts = {ContractFromWire(c) : c \in C.contracts}
      BY <1>6, InSnapshot
    <2>4. DOMAIN ContractOf(S, TargetOf(S, t.uid)).caps \subseteq Spelled
      BY <1>6, <2>3, CapabilitiesSpelled
    <2> QED
      BY <2>1, <2>2, <2>4
  <1> QED
    BY <1>4, <1>5, <1>6

-----------------------------------------------------------------------------
(* The levels that are published.                                           *)

\* The profile and the action views are ones of a start.
Configured ==
    \E s \in Starts :
        /\ profile = s[2] /\ Names(api) = Names(s[1])
        /\ DOMAIN world = Names(api) /\ views = [n \in Names(api) |-> views[n]]
        /\ \A n \in Names(api) : views[n] = {} \/ views[n] \in Views(n)

\* What is left to write is justified.
WantJustified ==
    pass.pc = "writing" => \A n \in pass.todo : Justified(AsTarget(n, pass.want[n]))

LevelInv == Configured /\ WantJustified /\ LevelJustified

(* What a pass wants is justified.                                          *)
LEMMA DesiredJustified ==
    ASSUME ReconcilerInv, Configured, NEW n \in Names(cache)
    PROVE  Justified(AsTarget(n, DesiredOf(cache, world, record, views)[n]))
  <1> DEFINE want == DesiredOf(cache, world, record, views)[n]
             t == Named(cache, n)
             S == Observed(Build(cache), world)
             in == [ns |-> t.ns, name |-> t.name, uid |-> t.uid, st |-> want.st,
                    inv |-> record[NameOf(t)], profile |-> profile, acts |-> views[NameOf(t)]]
  <1>1. /\ want.st = ProjectStatus(cache, S, Evaluate(S), t)
        /\ want.st.uid = t.uid
        /\ want.summary.fingerprint = Meaning(in)
    BY Wanted
  <1>2. t \in cache.targets /\ NameOf(t) = n /\ IsCluster(cache) /\ n \in Names(api)
    BY NamedIn DEF ReconcilerInv, ClustersOK
  <1>3. /\ in.ns = t.ns /\ in.name = t.name /\ in.uid = t.uid /\ in.st = want.st
        /\ in.profile = profile /\ in.acts = views[n]
    BY <1>2
  <1> HIDE DEF want, t, in
  <1>4. /\ want.st.valid \/ /\ want.st.invalid # {} /\ DOMAIN want.st.caps = {}
                            /\ \A r \in want.st.invalid : r.code \in Spelled
        /\ DOMAIN want.st.caps \subseteq Spelled
    BY <1>1, <1>2, StatusDescribed
  <1>5. /\ IsFiniteSet(profile.responses) /\ \A r \in profile.responses : r.action \in Spelled
        /\ \A a \in views[n] : a.name \in Spelled
    <2>1. PICK s \in Starts : /\ profile = s[2] /\ Names(api) = Names(s[1])
                              /\ \A m \in Names(api) : views[m] = {} \/ views[m] \in Views(m)
      BY DEF Configured
    <2>2. /\ {r.action : r \in s[2].responses} \subseteq Spelled
          /\ \A m \in Names(s[1]) : \A V \in Views(m) : {a.name : a \in V} \subseteq Spelled
      BY NamesAssumption DEF Spelled
    <2>3. IsFiniteSet(s[2].responses)
      BY StartsAssumption
    <2>4. ASSUME NEW a \in views[n] PROVE a.name \in Spelled
      <3>1. views[n] \in Views(n) /\ n \in Names(s[1])
        BY <1>2, <2>1
      <3> QED
        BY <2>2, <3>1
    <2> QED
      BY <2>1, <2>2, <2>3, <2>4
  <1>6. Described(in)
    BY <1>3, <1>4, <1>5 DEF Described
  <1> DEFINE u == AsTarget(n, want)
  <1>7. u.ns = in.ns /\ u.name = in.name /\ u.uid = in.uid /\ u.st = in.st
    <2>1. n = <<t.ns, t.name>>
      BY <1>2 DEF NameOf
    <2> QED
      BY <1>1, <1>3, <2>1 DEF AsTarget
  <1>8. u.summary.fingerprint = Meaning(in)
    BY <1>1 DEF AsTarget
  <1> HIDE DEF u
  <1>9. Justified(u)
    BY <1>3, <1>6, <1>7, <1>8, MeaningJustified
  <1> QED
    BY <1>9 DEF u, want

(* Every step leaves the profile, and the views of an action are known ones. *)
LEMMA ConfiguredStep ==
    ASSUME ReconcilerInv, Configured, [Next]_vars
    PROVE  Configured' /\ profile' = profile
  <1>1. profile' = profile
    BY Zenon DEF Next, Controller, Begin, ResolveFails, ContractWriteFails, End, Write, WriteFails,
                 Edit, WorldChanges, Sync, Poll, Restart, vars
  <1>2. Names(api') = Names(api)
    <2>1. CASE Edit
      BY <2>1, EditEffect DEF EditOf
    <2>2. ASSUME NEW n \in Names(api), Write(n) PROVE Names(api') = Names(api)
      BY <2>2, WriteEffect
    <2>3. \/ Edit \/ (\E n \in Names(api) : Write(n)) \/ api' = api
      BY Zenon DEF Next, Controller, Begin, ResolveFails, ContractWriteFails, End, WriteFails,
                   WorldChanges, Sync, Poll, Restart, clusterVars, vars
    <2> QED
      BY <2>1, <2>2, <2>3
  <1>3. PICK s \in Starts :
            /\ profile = s[2] /\ Names(api) = Names(s[1])
            /\ DOMAIN world = Names(api) /\ views = [n \in Names(api) |-> views[n]]
            /\ \A n \in Names(api) : views[n] = {} \/ views[n] \in Views(n)
    BY DEF Configured
  <1>4. /\ DOMAIN world' = Names(api) /\ views' = [n \in Names(api) |-> views'[n]]
        /\ \A n \in Names(api) : views'[n] = {} \/ views'[n] \in Views(n)
    <2>1. CASE world' = world /\ views' = views
      BY <1>3, <2>1
    <2>2. CASE WorldChanges
      <3>1. PICK n \in DOMAIN world :
              \/ \E v : world' = [world EXCEPT ![n] = v] /\ views' = views
              \/ world' = world /\ views' = views
              \/ \E V \in Views(n) : views' = [views EXCEPT ![n] = V] /\ world' = world
        BY <2>2, Zenon DEF WorldChanges
      <3>2. CASE \E v : world' = [world EXCEPT ![n] = v] /\ views' = views
        BY <1>3, <3>2
      <3>3. CASE world' = world /\ views' = views
        BY <1>3, <3>3
      <3>4. CASE \E V \in Views(n) : views' = [views EXCEPT ![n] = V] /\ world' = world
        BY <1>3, <3>4
      <3> QED
        BY <3>1, <3>2, <3>3, <3>4
    <2>3. WorldChanges \/ (world' = world /\ views' = views)
      BY Zenon DEF Next, Controller, Begin, ResolveFails, ContractWriteFails, End, Write, WriteFails,
                   Edit, Sync, Poll, Restart, world_, vars
    <2> QED
      BY <2>1, <2>2, <2>3
  <1> QED
    BY <1>1, <1>2, <1>3, <1>4 DEF Configured

(* The levels stay justified.                                               *)
LEMMA LevelStep ==
    ASSUME ReconcilerInv, LevelInv, [Next]_vars
    PROVE  LevelInv'
  <1>1. Configured' /\ profile' = profile
    BY ConfiguredStep DEF LevelInv
  <1>2. \A t : Justified(t)' <=> Justified(t)
    <2> TAKE t
    <2>1. \A n : RuledOut(t, n)' <=> RuledOut(t, n)
      BY <1>1, Zenon DEF RuledOut
    <2> QED
      BY <2>1 DEF Justified
  <1>3. CASE api' = api /\ (pass' = pass \/ pass'.pc = "idle" \/
                            /\ pass.pc = "writing" /\ pass'.want = pass.want /\ pass'.todo \subseteq pass.todo)
    <2>1. LevelJustified'
      BY <1>2, <1>3 DEF LevelInv, LevelJustified
    <2>2. WantJustified'
      BY <1>2, <1>3 DEF LevelInv, WantJustified
    <2> QED
      BY <1>1, <2>1, <2>2 DEF LevelInv
  <1>4. CASE Begin
    <2> DEFINE want == DesiredOf(cache, world, record, views)
    <2>1. api' = api /\ pass' = PassWith(want)
      BY <1>4, Zenon DEF Begin, clusterVars
    <2>2. \A n \in Names(cache) : Justified(AsTarget(n, want[n]))
      BY DesiredJustified DEF LevelInv
    <2> HIDE DEF want
    <2>3. pass'.want = want /\ pass'.todo \subseteq Names(cache)
      BY <2>1 DEF PassWith
    <2>4. WantJustified'
      BY <1>2, <2>2, <2>3 DEF WantJustified
    <2>5. LevelJustified'
      BY <1>2, <2>1 DEF LevelInv, LevelJustified
    <2> QED
      BY <1>1, <2>4, <2>5 DEF LevelInv
  <1>5. ASSUME NEW n \in Names(api), Write(n) PROVE LevelInv'
    <2> DEFINE t == Named(api, n)
               u == Named(api', n)
               w == pass.want[n]
    <2>1. /\ u \in api'.targets /\ NameOf(u) = n /\ u.uid = t.uid
          /\ u.st = w.st /\ u.summary = w.summary /\ Continues(w, t)
          /\ IsCluster(api') /\ Names(api') = Names(api)
          /\ \A m \in Names(api) : m # n => Named(api', m) = Named(api, m)
      BY <1>5, WriteEffect
    <2>2. pass' = [pass EXCEPT !.todo = @ \ {n}] /\ pass.pc = "writing" /\ n \in pass.todo
      BY <1>5, Zenon DEF Write, Pending
    <2> HIDE DEF t, u, w
    <2>3. pass'.pc = pass.pc /\ pass'.want = pass.want /\ pass'.todo \subseteq pass.todo
      BY <2>2 DEF ReconcilerInv, PassOK
    <2>4. Justified(AsTarget(n, w))
      BY <2>2 DEF LevelInv, WantJustified, w
    <2>5. Justified(u)
      <3>1. u.ns = n[1] /\ u.name = n[2] /\ u.uid = w.st.uid
        BY <2>1 DEF NameOf, Continues
      <3> DEFINE a == AsTarget(n, w)
      <3>2. /\ a.ns = u.ns /\ a.name = u.name /\ a.uid = u.uid /\ a.st = u.st /\ a.summary = u.summary
        BY <2>1, <3>1 DEF AsTarget
      <3> HIDE DEF a
      <3> QED
        BY <2>4, <3>2, JustifiedAlike DEF a
    <2>6. LevelJustified'
      <3> SUFFICES ASSUME NEW x \in api'.targets, x.st # NoStatus PROVE Justified(x)
        BY <1>2 DEF LevelJustified
      <3>1. NameOf(x) \in Names(api) /\ Named(api', NameOf(x)) = x
        BY <2>1, NamedIs
      <3>2. CASE NameOf(x) = n
        BY <2>5, <3>1, <3>2 DEF u
      <3>3. CASE NameOf(x) # n
        <4>1. x \in api.targets
          BY <2>1, <3>1, <3>3, NamedIn
        <4> QED
          BY <4>1 DEF LevelInv, LevelJustified
      <3> QED
        BY <3>2, <3>3
    <2>7. WantJustified'
      BY <1>2, <2>2, <2>3 DEF LevelInv, WantJustified
    <2> QED
      BY <1>1, <2>6, <2>7 DEF LevelInv
  <1>6. CASE Edit
    <2>1. EditOf(api, api')
      BY <1>6, EditEffect
    <2>2. pass'.pc = pass.pc /\ pass'.want = pass.want /\ pass'.todo = pass.todo
      <3>1. \E l : pass' = [pass EXCEPT !.lost = l]
        BY <1>6, Zenon DEF Edit
      <3> QED
        BY <3>1 DEF ReconcilerInv, PassOK
    <2>3. WantJustified'
      BY <1>2, <2>2 DEF LevelInv, WantJustified
    <2>4. LevelJustified'
      <3> SUFFICES ASSUME NEW x \in api'.targets, x.st # NoStatus PROVE Justified(x)
        BY <1>2 DEF LevelJustified
      <3> DEFINE n == NameOf(x)
                 t == Named(api, n)
      <3>1. n \in Names(api) /\ Named(api', n) = x
        BY <2>1, NamedIs DEF EditOf
      <3>2. t \in api.targets /\ NameOf(t) = n
        BY <3>1, NamedIn
      <3>3. t.uid = x.uid /\ x.st = t.st /\ x.summary = t.summary
        BY <2>1, <3>1 DEF EditOf
      <3>4. t.ns = x.ns /\ t.name = x.name
        BY <3>2 DEF NameOf
      <3>5. Justified(t)
        BY <3>2, <3>3 DEF LevelInv, LevelJustified
      <3> HIDE DEF t
      <3> QED
        BY <3>3, <3>4, <3>5, JustifiedAlike
    <2> QED
      BY <1>1, <2>3, <2>4 DEF LevelInv
  <1>7. CASE ResolveFails \/ Poll \/ WorldChanges \/ Sync \/ UNCHANGED vars
    <2>1. api' = api /\ pass' = pass
      BY <1>7, Zenon DEF ResolveFails, Poll, WorldChanges, Sync, vars, clusterVars
    <2> QED
      BY <1>3, <2>1
  <1>8. CASE End \/ Restart
    <2>1. api' = api /\ pass' = Idle
      BY <1>8, Zenon DEF End, Restart, clusterVars
    <2>2. pass'.pc = "idle"
      BY <2>1 DEF Idle
    <2> QED
      BY <1>3, <2>1, <2>2
  <1>9. CASE ContractWriteFails \/ \E n \in Names(api) : WriteFails(n)
    <2>1. /\ api' = api /\ pass.pc = "writing"
          /\ \/ pass' = [pass EXCEPT !.failed = TRUE]
             \/ \E n \in Names(api) : pass' = [pass EXCEPT !.todo = @ \ {n}, !.failed = TRUE]
      BY <1>9, Zenon DEF ContractWriteFails, WriteFails, Pending, clusterVars
    <2>2. pass'.want = pass.want /\ pass'.todo \subseteq pass.todo
      BY <2>1 DEF ReconcilerInv, PassOK
    <2> QED
      BY <1>3, <2>1, <2>2
  <1> QED
    BY <1>4, <1>5, <1>6, <1>7, <1>8, <1>9, Zenon DEF Next, Controller

(* The level is justified by what is shown with it: LevelJustified, for every *)
(* cluster, profile and history, whatever the limits on what is shown are.   *)
THEOREM LevelsJustified == Spec => []LevelJustified
  <1>1. Init => LevelInv
    <2> SUFFICES ASSUME Init PROVE LevelInv
      OBVIOUS
    <2>1. PICK s \in Starts : api = s[1] /\ profile = s[2]
      BY DEF Init
    <2>2. \A t \in api.targets : t.st = NoStatus
      BY <2>1, StartsAssumption
    <2>3. LevelJustified
      BY <2>2, Zenon DEF LevelJustified
    <2>4. pass = Idle /\ world = [n \in Names(api) |-> "ok"] /\ views = [n \in Names(api) |-> {}]
      BY DEF Init
    <2>5. WantJustified
      BY <2>4 DEF WantJustified, Idle
    <2>6. Configured
      BY <2>1, <2>4 DEF Configured
    <2> QED
      BY <2>3, <2>5, <2>6 DEF LevelInv
  <1>2. ReconcilerInv /\ LevelInv /\ [Next]_vars => LevelInv'
    BY LevelStep
  <1>3. LevelInv => LevelJustified
    BY DEF LevelInv
  <1> QED
    BY <1>1, <1>2, <1>3, ReconcilerInvariant, PTL DEF Spec
=============================================================================
