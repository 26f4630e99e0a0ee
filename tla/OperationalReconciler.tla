----------------------- MODULE OperationalReconciler -----------------------
(***************************************************************************)
(* controllers/operational_reconciler.go: one cluster-wide work item that  *)
(* lists the objects from the informer caches, evaluates, and writes the   *)
(* status of every target whose meaning changed. The API server and the    *)
(* caches are external: a cached object may be behind, an update of a      *)
(* version that is no longer the latest is refused.                        *)
(*                                                                         *)
(* A target object carries its status: [.., st, summary], st = NoStatus    *)
(* before the first write. A pass reads everything in one step: caches of  *)
(* different kinds fall behind independently, so any mix of versions the   *)
(* separate lists could see is a state of the caches; and the evidence,    *)
(* which does not depend on the API, is read in that step too.             *)
(***************************************************************************)
EXTENDS OpsWire, Interaction

CONSTANTS Starts,           \* <<cluster, profile>>: where to start from
          Alternatives(_),  \* the clusters one edit leads to
          Values,           \* what a provider may answer; "" is no statement
          Records(_),       \* investigation records of a target, by name
          Views(_),         \* sets of action views of a target, by name
          MaxChanges,       \* bound on edits, changes of evidence, records and views
          MaxFaults         \* bound on failed API calls and restarts of the operator

VARIABLES api,        \* the cluster in the API server
          cache,      \* what the informers hold of it
          behind,     \* <<target, part>>: what was written since the cached version
          queued,     \* the work item is in the queue
          pass,       \* [pc, want, todo, lost, failed]: the pass under way
          profile,    \* the configured profile
          world,      \* what providers state, by target and slot
          record,     \* the investigation record of a target, by name
          views,      \* the action views of a target, by name
          budget,     \* changes and faults used up
          trail       \* history: the meanings published for a target, by name

clusterVars == <<api, behind, trail>>
world_ == <<world, record, views>>
vars == <<api, cache, behind, queued, pass, profile, world, record, views, budget, trail>>

NoStatus == [uid |-> 0]
NameOf(t) == <<t.ns, t.name>>
Names(C) == {NameOf(t) : t \in C.targets}
Named(C, n) == CHOOSE t \in C.targets : NameOf(t) = n

SpecPart(t) ==
    [ns |-> t.ns, name |-> t.name, uid |-> t.uid, contract |-> t.contract, binds |-> t.binds,
     deps |-> t.deps, sel |-> t.sel, work |-> t.work]

(***************************************************************************)
(* What is an object of the API server. A target is named by namespace and *)
(* name, and the specs are ones whose content is known.                    *)
(***************************************************************************)
IsTarget(t) ==
    t = [ns |-> t.ns, name |-> t.name, uid |-> t.uid, contract |-> t.contract, binds |-> t.binds,
         deps |-> t.deps, sel |-> t.sel, work |-> t.work, st |-> t.st, summary |-> t.summary]
IsCluster(C) ==
    /\ C = [contracts |-> C.contracts, targets |-> C.targets, works |-> C.works, grants |-> C.grants]
    /\ \A t \in C.targets : IsTarget(t)
    /\ \A t, u \in C.targets : NameOf(t) = NameOf(u) => t = u
    /\ \A c \in C.contracts : c.digest \in DOMAIN SpecOf

(* The status is a subresource: an edit of the spec leaves it alone, and an  *)
(* object created anew under the same name has none.                        *)
EditOf(C, D) ==
    /\ IsCluster(D) /\ Names(D) = Names(C)
    /\ \A n \in Names(C) :
          LET t == Named(C, n)
              u == Named(D, n)
          IN IF t.uid = u.uid THEN u.st = t.st /\ u.summary = t.summary
             ELSE u.st = NoStatus /\ u.summary = NoSummary

(* Every start is a cluster nothing was published in, under a finite profile. *)
ASSUME StartsAssumption ==
    \A s \in Starts : /\ IsCluster(s[1]) /\ IsFiniteSet(s[2].responses)
                      /\ \A t \in s[1].targets : t.st = NoStatus /\ t.summary = NoSummary

(* NameOrder has the names that reach the reasons for a person: the codes,   *)
(* and the names of capabilities and actions.                                *)
Codes ==
    {"target-not-found", "dependency-cycle", "duplicate-target-uid", "cross-namespace-contract-ref",
     "contract-unresolved", "contract-ambiguous", "invalid-contract", "invalid-binding",
     "unknown-envelope-selection", "spec-correction-required", "no-safe-path",
     "no-viable-response", "no-priority-authority", "approval-required",
     "safety-condition-unproven", "owner-undeclared", "owner-conflict",
     "action-not-recovered", "action-outcome-unknown"}
ASSUME NamesAssumption ==
    /\ NameOrder \in Seq(STRING) /\ Codes \subseteq Range(NameOrder)
    /\ \A g \in DOMAIN SpecOf : DOMAIN SpecOf[g].caps \subseteq Range(NameOrder)
    /\ \A s \in Starts :
          /\ {r.action : r \in s[2].responses} \subseteq Range(NameOrder)
          /\ \A n \in Names(s[1]) : \A V \in Views(n) : {a.name : a \in V} \subseteq Range(NameOrder)

Idle == [pc |-> "idle", want |-> <<>>, todo |-> {}, lost |-> {}, failed |-> FALSE]

Init ==
    /\ \E s \in Starts : api = s[1] /\ profile = s[2]
    /\ cache = api /\ behind = {}
    /\ queued = TRUE /\ pass = Idle
    /\ world = [n \in Names(api) |-> "ok"]
    /\ record = [n \in Names(api) |-> [outcome |-> "None", cands |-> {}]]
    /\ views = [n \in Names(api) |-> {}]
    /\ budget = [changes |-> 0, faults |-> 0]
    /\ trail = [n \in Names(api) |-> <<>>]

-----------------------------------------------------------------------------
(* The environment.                                                         *)

Spend(what, bound) == budget[what] < bound /\ budget' = [budget EXCEPT ![what] = @ + 1]

(* Somebody edits, creates or deletes an object; targets that are changed    *)
(* get a new version, one that is created anew has no status.                *)
Edit ==
    /\ Spend("changes", MaxChanges)
    /\ \E D \in {E \in Alternatives(api) \ {api} : EditOf(api, E)} :
          LET touched == {n \in Names(api) : Named(api, n) # Named(D, n)}
              anew == {n \in touched : Named(api, n).uid # Named(D, n).uid}
          IN /\ api' = D
             /\ behind' = behind \cup (touched \X {"spec"})
             /\ pass' = [pass EXCEPT !.lost = IF pass.pc = "idle" THEN @ ELSE @ \cup touched]
             /\ trail' = [n \in DOMAIN trail |-> IF n \in anew THEN <<>> ELSE trail[n]]
    /\ UNCHANGED <<cache, queued, profile, world_>>

(* Evidence, investigations and actions change without an API event.         *)
WorldChanges ==
    /\ Spend("changes", MaxChanges)
    /\ \E n \in DOMAIN world :
          \/ \E v \in Values \ {world[n]} : world' = [world EXCEPT ![n] = v] /\ UNCHANGED <<record, views>>
          \/ \E r \in Records(n) \ {record[n]} :
                record' = [record EXCEPT ![n] = r] /\ UNCHANGED <<world, views>>
          \/ \E V \in Views(n) \ {views[n]} :
                views' = [views EXCEPT ![n] = V] /\ UNCHANGED <<world, record>>
    /\ UNCHANGED <<clusterVars, cache, queued, pass, profile>>

(* An informer catches up. GenerationChangedPredicate drops target events    *)
(* that only change status; grants and workloads are admitted as they come.  *)
Enqueues(kind) == kind = "targets" => \E n \in Names(api) : <<n, "spec">> \in behind
Sync ==
    \E kind \in DOMAIN api :
        /\ cache[kind] # api[kind] \/ (kind = "targets" /\ behind # {})
        /\ cache' = [cache EXCEPT ![kind] = api[kind]]
        /\ behind' = IF kind = "targets" THEN {} ELSE behind
        /\ queued' = (queued \/ Enqueues(kind))
        /\ UNCHANGED <<api, pass, profile, world_, budget, trail>>

(* The requeue timer of the last pass fires: the interval, or a wake.        *)
Poll ==
    /\ pass.pc = "idle" /\ ~queued
    /\ queued' = TRUE
    /\ UNCHANGED <<clusterVars, cache, pass, profile, world_, budget>>

(* The operator starts again and lists everything anew.                      *)
Restart ==
    /\ Spend("faults", MaxFaults)
    /\ cache' = api /\ behind' = {} /\ queued' = TRUE /\ pass' = Idle
    /\ UNCHANGED <<api, profile, world_, trail>>

-----------------------------------------------------------------------------
(* A pass of Reconcile.                                                     *)

(* What the providers state about the bindings the snapshot authorizes.      *)
Observations(S, w) ==
    UNION {{[name |-> t.name, slot |-> s, uid |-> t.uid, rid |-> t.rid, contract |-> t.contract,
             provider |-> t.binds[s], kind |-> "value", val |-> w[t.name], age |-> 0, until |-> 9] :
               s \in DOMAIN t.binds} : t \in {x \in S.targets : w[x.name] # ""}}

(* The status and summary a pass over cluster C wants for each target.       *)
WithSummary(t, st, rec, vs) ==
    [st |-> st,
     summary |-> Summarise([ns |-> t.ns, name |-> t.name, uid |-> t.uid, st |-> st,
                            inv |-> rec[NameOf(t)], profile |-> profile, acts |-> vs[NameOf(t)]],
                           t.summary)]
DesiredUnder(C, S, a, rec, vs) ==
    [n \in Names(C) |-> WithSummary(Named(C, n), ProjectStatus(C, S, a, Named(C, n)), rec, vs)]
Observed(bare, w) == [bare EXCEPT !.obs = Observations(bare, w)]
Assessed(C, S, rec, vs) == DesiredUnder(C, S, Evaluate(S), rec, vs)
DesiredOf(C, w, rec, vs) == Assessed(C, Observed(Build(C), w), rec, vs)

Published(C, n) == [st |-> Named(C, n).st, summary |-> Named(C, n).summary]

(* Mutant of NeedsWrite: the fingerprint stands for the status.             *)
NewMeaning(listed, want) == listed.summary.fingerprint # want.summary.fingerprint

(* Apply: a target whose status would not change is not written.             *)
NeedsWrite(listed, want) == listed # want

PassWith(want) ==
    [pc |-> "writing", want |-> want,
     todo |-> {n \in Names(cache) : NeedsWrite(Published(cache, n), want[n])},
     lost |-> {x[1] : x \in behind}, failed |-> FALSE]

Begin ==
    /\ pass.pc = "idle" /\ queued
    /\ queued' = FALSE
    /\ pass' = PassWith(DesiredOf(cache, world, record, views))
    /\ UNCHANGED <<clusterVars, cache, profile, world_, budget>>

(* A workload that cannot be read ends the pass before anything is written.  *)
ResolveFails ==
    /\ pass.pc = "idle" /\ queued /\ Spend("faults", MaxFaults)
    /\ UNCHANGED <<clusterVars, cache, queued, pass, profile, world_>>

Pending(n) == pass.pc = "writing" /\ n \in pass.todo

(* Mutant of LatestListed: the update carries no version.                   *)
UpdateUnchecked(n) == TRUE
LatestListed(n) == n \notin pass.lost

Write(n) ==
    /\ Pending(n) /\ LatestListed(n)
    /\ LET t == Named(api, n)
           new == [t EXCEPT !.st = pass.want[n].st, !.summary = pass.want[n].summary]
       IN api' = [api EXCEPT !.targets = (@ \ {t}) \cup {new}]
    /\ behind' = behind \cup {<<n, "status">>}
    /\ trail' = [trail EXCEPT ![n] = Append(@, pass.want[n].summary.fingerprint)]
    /\ pass' = [pass EXCEPT !.todo = @ \ {n}]
    /\ UNCHANGED <<cache, queued, profile, world_, budget>>

(* A conflict, or an update the API server fails; the others go on.          *)
WriteFails(n) ==
    /\ Pending(n)
    /\ IF LatestListed(n) THEN Spend("faults", MaxFaults) ELSE UNCHANGED budget
    /\ pass' = [pass EXCEPT !.todo = @ \ {n}, !.failed = TRUE]
    /\ UNCHANGED <<clusterVars, cache, queued, profile, world_>>

(* A contract's status, a function of its spec that no pass reads, could not *)
(* be written: the pass goes on and ends with an error.                      *)
ContractWriteFails ==
    /\ pass.pc = "writing" /\ ~pass.failed /\ Spend("faults", MaxFaults)
    /\ pass' = [pass EXCEPT !.failed = TRUE]
    /\ UNCHANGED <<clusterVars, cache, queued, profile, world_>>

(* A pass with an error is queued again at once.                             *)
End ==
    /\ pass.pc = "writing" /\ pass.todo = {}
    /\ pass' = Idle /\ queued' = (queued \/ pass.failed)
    /\ UNCHANGED <<clusterVars, cache, profile, world_, budget>>

Controller ==
    \/ Begin \/ ResolveFails \/ ContractWriteFails \/ End
    \/ \E n \in Names(api) : Write(n) \/ WriteFails(n)
Next == Controller \/ Edit \/ WorldChanges \/ Sync \/ Poll \/ Restart
Spec == Init /\ [][Next]_vars

(* A queued item is taken: the one effect of Begin on the queue.             *)
Taken == pass.pc = "idle" /\ queued /\ queued' = FALSE
FairSpec ==
    /\ Spec /\ WF_queued(Taken) /\ WF_vars(End) /\ WF_vars(Sync) /\ WF_vars(Poll)
    /\ WF_vars(\E n \in Names(api) : Write(n) \/ WriteFails(n))

-----------------------------------------------------------------------------
(* Properties.                                                              *)

(* A target never shows the assessment of another instance: one recreated    *)
(* under the same name while a pass still writes keeps an empty status until *)
(* a pass has read the new instance, and a workload's or contract's          *)
(* replacement shows with the identity that was assessed.                    *)
OwnAssessment ==
    \A t \in api.targets :
        t.st # NoStatus => /\ t.st.uid = t.uid /\ t.summary.fingerprint.id.uid = t.uid
                           /\ t.summary.fingerprint.id.contract = t.st.contract

(* The recurrence history is exact although every pass continues the summary *)
(* it listed, from a cache that may miss its own last write: no re-entry is  *)
(* lost or counted twice. The reference counts on the published meanings.    *)
LastAt(s, x) == CHOOSE i \in DOMAIN s : s[i] = x /\ \A j \in i + 1 .. Len(s) : s[j] # x
LastDistinct(s, k) ==
    {f \in Range(s) : Cardinality({g \in Range(s) : LastAt(s, g) > LastAt(s, f)}) < k}
SameIdentity(s, i) == CHOOSE j \in 1 .. i :
    /\ \A k \in j .. i : s[k].id = s[i].id
    /\ j = 1 \/ s[j - 1].id # s[i].id
Reentry(s, i) ==
    LET from == SameIdentity(s, i)
    IN from < i /\ s[i] # s[i - 1] /\ s[i] \in LastDistinct(SubSeq(s, from, i - 1), MaxHistory)
RecurrencesExact ==
    \A t \in api.targets :
        LET s == trail[NameOf(t)]
        IN s # <<>> => /\ t.summary.fingerprint = s[Len(s)]
                       /\ t.summary.recurrences =
                            Cardinality({i \in SameIdentity(s, Len(s)) .. Len(s) : Reentry(s, i)})

(* The status of a target depends on no target of another namespace beyond   *)
(* the ones it reaches through granted references: adding or removing any    *)
(* other target changes nothing, whether a reference to it is denied, its    *)
(* pin is stale, or it depends on this target itself (judged on every        *)
(* cluster in which the controller comes to rest).                           *)
ReachedFrom(C, t) ==
    LET step(T) == T \cup {x \in C.targets : \E y \in T : \E d \in DOMAIN y.deps :
                              /\ y.deps[d].ns = x.ns /\ y.deps[d].name = x.name
                              /\ \/ y.ns = x.ns
                                 \/ \E g \in C.grants : /\ g.ns = x.ns /\ g.from = y.ns
                                                        /\ g.type = "Dependency" /\ g.name = x.name}
    IN FoldSet(LAMBDA i, T : step(T), {t}, 1 .. Cardinality(C.targets))
NoForeignInfluence ==
    (pass.pc = "idle" /\ ~queued /\ cache = api) =>
    \A t \in api.targets :
        LET alone == [api EXCEPT !.targets =
                         {x \in @ : x.ns = t.ns \/ x \in ReachedFrom(api, t)}]
        IN \/ alone = api
           \/ DesiredOf(alone, world, record, views)[NameOf(t)].st =
              DesiredOf(api, world, record, views)[NameOf(t)].st

(* Nothing a target publishes names an object of another namespace.          *)
DetailsLocal ==
    \A t \in api.targets :
        t.st # NoStatus =>
        \A r \in t.st.invalid \cup UNION {t.st.caps[n].reasons : n \in DOMAIN t.st.caps} :
            r.detail \subseteq {t.ns}

(* Namespaces are isolated: what another namespace does not grant neither    *)
(* changes nor appears in a status (docs/operational-api.md, references).     *)
NamespacesIsolated == NoForeignInfluence /\ DetailsLocal

(* A response is declared for capability n as it is, and none may be taken.   *)
RuledOut(t, n) ==
    LET rs == {r \in profile.responses :
                  /\ r.ns = t.ns /\ r.name = t.name /\ r.uid \in {0, t.uid}
                  /\ r.for = n
                  /\ t.st.caps[n].state \in r.states \/ r.states = {}}
    IN rs # {} /\ \A r \in rs : \E p \in r.pre :
           p \in DOMAIN t.st.caps /\ t.st.caps[p].state \in {"DEGRADED", "UNAVAILABLE"}

Justified(t) ==
    LET f == t.summary.fingerprint
    IN /\ f.level >= 2 <=> f.human # {}
       /\ f.level = 3 => \E n \in DOMAIN t.st.caps : t.st.caps[n].state = "UNAVAILABLE" /\ RuledOut(t, n)
       /\ f.level = 0 => /\ t.st.valid /\ DOMAIN t.st.caps # {}
                         /\ \A n \in DOMAIN t.st.caps : t.st.caps[n].state = "AVAILABLE"

(* The level is justified by what is shown with it: a person is asked for    *)
(* exactly when a decision is required; intervention is immediate only for   *)
(* a capability proven UNAVAILABLE, with a response declared for it and none *)
(* that may be taken; nothing is needed only when everything is AVAILABLE.   *)
LevelJustified == \A t \in api.targets : t.st # NoStatus => Justified(t)

(* When changes stop, every target shows what a pass over the cluster as it  *)
(* is would write, nothing is left to write, and it stays so: conflicts,     *)
(* stale caches and failed calls are made up for, and no own write keeps the *)
(* controller going.                                                         *)
Settled ==
    /\ pass.todo = {} /\ cache = api
    /\ LET want == DesiredOf(api, world, record, views)
       IN \A n \in Names(api) : Published(api, n) = want[n]
Settles == <>[]Settled

(* "A changed fingerprint is always written: real transitions are never      *)
(* hidden": a pass that ends without an error leaves every target as it      *)
(* wants it, unless the target was recreated meanwhile.                      *)
PassPublishes ==
    [][(End /\ ~pass.failed) =>
          \A n \in Names(api) :
              Named(api, n).uid = pass.want[n].st.uid => Published(api, n) = pass.want[n]]_vars

(* "A changed identity starts an empty history": while its object, workload, *)
(* contract and bindings stay, a target keeps one identity and its history.  *)
IdentityKept ==
    [][\A n \in Names(api) :
          LET t == Named(api, n)
              u == Named(api', n)
          IN (/\ t.st # NoStatus /\ u.st # NoStatus
              /\ t.st.rid = u.st.rid /\ t.st.contract = u.st.contract
              /\ t.st.denied = u.st.denied /\ SpecPart(t) = SpecPart(u)) =>
             t.summary.fingerprint.id = u.summary.fingerprint.id]_vars
=============================================================================
