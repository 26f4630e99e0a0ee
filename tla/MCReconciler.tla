--------------------------- MODULE MCReconciler ---------------------------
(* Target x of namespace a depends on target y of namespace b and reads its  *)
(* evidence from a provider there; both references need grants. In the       *)
(* second cluster y may come to depend on x.                                 *)
EXTENDS OperationalReconciler

OK == {"ok"}
NoEnvs == [e \in {} |-> {}]
Content(deps, caps, envs, minimum) ==
    [sound |-> TRUE, slots |-> {"s"}, deps |-> deps, caps |-> caps, envs |-> envs, minimum |-> minimum]
Serve == {Predicate("s", OK, "UNAVAILABLE")}
MCSpecOf == [g \in {"X", "Y", "Y2", "Yback"} |->
    CASE g = "X" -> Content({"d"},
            [n \in {"run", "idle"} |->
                IF n = "run" THEN {Predicate("s", OK, "UNAVAILABLE"), Dependency("d", "serve", "UNAVAILABLE")}
                ELSE {Predicate("s", OK, "DEGRADED")}],
            [e \in {"e"} |-> {Predicate("s", OK, "")}], {"e"})
      [] g = "Y" -> Content({}, [n \in {"serve"} |-> Serve], NoEnvs, {})
      [] g = "Y2" -> Content({}, [n \in {"serve", "more"} |-> Serve], NoEnvs, {})
      [] g = "Yback" -> Content({"back"},
            [n \in {"serve"} |-> Serve \cup {Dependency("back", "run", "DEGRADED")}], NoEnvs, {})]

Cx == [ns |-> "a", name |-> "cx", uid |-> 1, digest |-> "X"]
Cy(g) == [ns |-> "b", name |-> "cy", uid |-> 2, digest |-> g]
Pin(c) == [name |-> c.name, uid |-> c.uid, digest |-> c.digest]
New(t) == t @@ [st |-> NoStatus, summary |-> NoSummary]
X(g) == New([ns |-> "a", name |-> "x", uid |-> 1, contract |-> "cx", sel |-> "", work |-> "w",
             binds |-> [s \in {"s"} |-> [ns |-> "b", name |-> "p", rev |-> 1]],
             deps |-> [d \in {"d"} |-> [ns |-> "b", name |-> "y", uid |-> 2, contract |-> Pin(Cy(g))]]])
Back == [d \in {"back"} |-> [ns |-> "a", name |-> "x", uid |-> 1, contract |-> Pin(Cx)]]
Y == New([ns |-> "b", name |-> "y", uid |-> 2, contract |-> "cy", sel |-> "", work |-> "w",
          binds |-> [s \in {"s"} |-> [ns |-> "b", name |-> "p", rev |-> 1]], deps |-> [d \in {} |-> 0]])

ProviderGrant == [ns |-> "b", from |-> "a", type |-> "EvidenceProvider", name |-> "p"]
DependencyGrant == [ns |-> "b", from |-> "a", type |-> "Dependency", name |-> "y"]
BackGrant == [ns |-> "a", from |-> "b", type |-> "Dependency", name |-> "x"]
Works(U) == {[ns |-> "b", name |-> "w", uid |-> 2]} \cup {[ns |-> "a", name |-> "w", uid |-> u] : u \in U}
Cluster(g) == [contracts |-> {Cx, Cy(g)}, targets |-> {X(g), Y}, works |-> Works({1}),
               grants |-> {ProviderGrant, DependencyGrant, BackGrant}]

Toggle(S, x) == IF x \in S THEN S \ {x} ELSE S \cup {x}
Replace(C, t, u) == [C EXCEPT !.targets = (@ \ {t}) \cup {u}]
OtherDigest(c) == CASE c.digest = "Y" -> "Y2" [] c.digest = "Y2" -> "Y" [] OTHER -> c.digest
MCAlternatives(C) ==
    {[C EXCEPT !.grants = Toggle(@, g)] : g \in {ProviderGrant, DependencyGrant}} \cup
    {[C EXCEPT !.works = w] : w \in {Works({}), Works({3})}} \cup
    {[C EXCEPT !.contracts = {Cx} \cup {Cy(OtherDigest(c)) : c \in @ \ {Cx}}]} \cup
    {Replace(C, t, [t EXCEPT !.uid = @ + 2, !.st = NoStatus, !.summary = NoSummary]) :
        t \in {u \in C.targets : u.uid < 3}} \cup
    {Replace(C, t, [t EXCEPT !.deps = IF @ = Back THEN [d \in {} |-> 0] ELSE Back]) :
        t \in {u \in C.targets : u.name = "y" /\ Cy("Yback") \in C.contracts}}

Response(action, owner, decide, pre) ==
    [action |-> action, ns |-> "a", name |-> "x", uid |-> 0, for |-> "run", states |-> {},
     owner |-> owner, decide |-> decide, pre |-> pre]
Profile(R) == [rev |-> 1, responses |-> R]
OneResponse == Profile({Response("fix", "ops", TRUE, {"idle"})})
TwoOwners == Profile({Response("fix", "ops", FALSE, {}), Response("fix", "dev", FALSE, {"idle"})})
MCStarts ==
    {<<Cluster("Y"), OneResponse>>, <<Cluster("Y"), TwoOwners>>, <<Cluster("Yback"), OneResponse>>}

Episode(o) == [outcome |-> o, cands |-> {}]
MCRecords(n) == IF n = <<"a", "x">> THEN {Episode("Resolved")} ELSE {}
View(p, phase, recovery) ==
    [proposal |-> p, name |-> "fix", for |-> "run", phase |-> phase, recovery |-> recovery]
MCViews(n) ==
    IF n = <<"a", "x">>
    THEN {{View("p1", "Succeeded", "Recovered"), View("p2", "TimedOut", "")}}
    ELSE {}

MCNameOrder ==
    <<"", "action-not-recovered", "action-outcome-unknown",
      "all-capabilities-available", "approval-required", "capability-unknown",
      "contract-ambiguous", "contract-unresolved", "cross-namespace-contract-ref",
      "declared-response-ready", "dependency-cycle", "dev", "duplicate-target-uid", "e",
      "envelope-unknown", "envelope-unsatisfied", "fix", "idle",
      "impact-from-dependency", "invalid-binding", "invalid-contract",
      "investigation-in-progress", "more", "no-declared-response",
      "no-priority-authority", "no-safe-path", "no-viable-response", "ops",
      "owner-conflict", "owner-undeclared", "p1", "p2", "run",
      "safety-condition-unproven", "serve", "spec-correction-required",
      "target-not-assessed", "target-not-found", "unknown-envelope-selection">>
=============================================================================
