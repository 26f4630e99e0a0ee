--------------------------- MODULE MCEvaluation ---------------------------
(* Families of snapshots: dependency graphs between three targets, local     *)
(* requirement graphs of one contract, and one target with rich evidence,   *)
(* for which profiles of up to two responses are declared.                   *)
EXTENDS Evaluation

Id(n) == [ns |-> "ns", name |-> n]
OK == {"ok"}
NoDeps == [d \in {} |-> 0]

Contract(id, slots, deps, caps, envs) ==
    [id |-> id, sound |-> TRUE, slots |-> slots, deps |-> deps, caps |-> caps, envs |-> envs]
Target(name, uid, contract, binds, deps, sel) ==
    [name |-> name, ns |-> "ns", uid |-> uid, rid |-> 1, contract |-> contract,
     binds |-> binds, deps |-> deps, sel |-> sel]
Value(t, slot, val, age) ==
    [name |-> t, slot |-> slot, uid |-> 1, rid |-> 1, contract |-> Id("E"), provider |-> "p",
     kind |-> "value", val |-> val, age |-> age, until |-> 9]

Bound(S) == [s \in S |-> "p"]
NoEnvs == [e \in {} |-> {}]

(* Dependency graphs: a leaf contract and one with two dependency slots; the *)
(* bindings to target 3 are pinned to the leaf contract.                     *)
Leaf == Contract(Id("L"), {"s"}, {}, [n \in {"a", "b"} |-> {Predicate("s", OK, "DEGRADED")}], NoEnvs)
Inner == Contract(Id("D"), {"s"}, {"d1", "d2"},
    [n \in {"a", "b"} |->
        IF n = "a" THEN {Dependency("d1", "a", "DEGRADED"), Dependency("d2", "b", "UNAVAILABLE")}
        ELSE {Local("a", "DEGRADED"), Predicate("s", OK, "UNAVAILABLE")}], NoEnvs)

Pin(uid) == [uid |-> uid, contract |-> IF uid = 3 THEN Id("L") ELSE Id("D")]
PartialBindings == UNION {[D -> {Pin(1), Pin(2), Pin(3)}] : D \in SUBSET {"d1", "d2"}}
GraphNames == <<"g1", "g2", "g3">>
GraphTarget(uid) ==
    {Target(GraphNames[uid], uid, Id("D"), Bound({"s"}), deps, "") : deps \in PartialBindings} \cup
    {Target(GraphNames[uid], uid, Id("L"), Bound({"s"}), NoDeps, "")}
LeafValue(t) == [Value(t.name, "s", "ok", 1) EXCEPT !.uid = t.uid, !.contract = t.contract]
Graphs ==
    {[contracts |-> {Leaf, Inner}, targets |-> {t1, t2, t3},
      obs |-> {LeafValue(t1), LeafValue(t2), LeafValue(t3)}] :
        t1 \in GraphTarget(1), t2 \in GraphTarget(2), t3 \in GraphTarget(3)}

(* Local requirements: every graph on three capabilities.                    *)
LocalSnapshots ==
    {[contracts |-> {Contract(Id("E"), {"s"}, {},
        [n \in {"a", "b", "c"} |-> {Predicate("s", OK, "DEGRADED")} \cup {Local(m, "UNAVAILABLE") : m \in f[n]}],
        NoEnvs)},
      targets |-> {Target("loc", 1, Id("E"), Bound({"s"}), NoDeps, "")},
      obs |-> {Value("loc", "s", "ok", 1)}] : f \in [{"a", "b", "c"} -> SUBSET {"a", "b", "c"}]}

(* Rich evidence on target x, which depends on y.                            *)
Rich == Contract(Id("E"), {"s", "r", "q", "unread"}, {"d"},
    [n \in {"a", "b"} |->
        IF n = "a" THEN {Predicate("s", OK, "DEGRADED"), InEnvelope("e", "UNAVAILABLE")}
        ELSE {Local("a", "DEGRADED"), Dependency("d", "a", "UNAVAILABLE")}],
    [e \in {"e", "f"} |->
        IF e = "e" THEN {Predicate("r", OK, ""), Predicate("s", {"ok", "bad"}, "")}
        ELSE {Predicate("q", {"bad"}, "")}])
RichTarget(sel) ==
    Target("x", 1, Id("E"), Bound({"s", "r", "q"}), [d \in {"d"} |-> [uid |-> 2, contract |-> Id("L")]], sel)
Other == Target("y", 2, Id("L"), Bound({"s"}), NoDeps, "")
YValue(v) == [Value("y", "s", v, 0) EXCEPT !.uid = 2, !.contract = Id("L")]
RichSnapshots ==
    {[contracts |-> {Rich, Leaf}, targets |-> {RichTarget(sel), Other}, obs |-> {}] : sel \in {"", "f"}}
(* Snapshots with an invalid target, or one that depends on it.              *)
DefectSnapshots ==
    {[contracts |-> C, targets |-> T, obs |-> {Value("x", "r", "ok", 0), YValue("ok")}] :
        C \in {{Rich, Leaf}, {Rich, Leaf, [Leaf EXCEPT !.slots = @ \cup {"more"}]}},
        T \in {{RichTarget("gone"), Other}} \cup
              {{RichTarget(""), Other, [Other EXCEPT !.name = "z", !.uid = u, !.contract.ns = ns]} :
                  u \in {2, 4}, ns \in {"ns", "other"}}}

SStatements ==
    {[Value("x", "s", v, age) EXCEPT !.until = u] : v \in {"ok", "bad", "odd"}, age \in {0, 1}, u \in {1, 9}}
    \cup {[Value("x", "s", "", age) EXCEPT !.kind = "unavailable"] : age \in {0, 1}}
Inapplicable ==
    {[Value("x", "s", "ok", 0) EXCEPT !.rid = 2], [Value("x", "s", "ok", 0) EXCEPT !.provider = "q"],
     [Value("x", "s", "ok", 0) EXCEPT !.contract = Id("old")]}
OtherStatements ==
    {Value("x", "r", "ok", 0), Value("x", "r", "bad", 0), Value("x", "q", "bad", 0)} \cup
    {YValue(v) : v \in {"ok", "bad"}}

Exec(approvers, interrupt) ==
    [provider |-> "agent", approvers |-> approvers, expected |-> {"a"}, interrupt |-> interrupt, window |-> 1]
Response(action, owner, decide, pre, states, exec) ==
    [action |-> action, ns |-> "ns", name |-> "x", uid |-> 0, for |-> "a", states |-> states,
     owner |-> owner, decide |-> decide, pre |-> pre, exec |-> exec]
Plain == Response("fix", "ops", FALSE, {}, {}, Exec({}, {}))
Declarations ==
    {Plain, [Plain EXCEPT !.states = {"UNKNOWN", "DEGRADED"}], [Plain EXCEPT !.pre = {"b"}],
     [Plain EXCEPT !.exec = Exec({"eve"}, {"b"})], [Plain EXCEPT !.owner = "dev"],
     [Plain EXCEPT !.exec = NoExecution, !.action = "look"],
     [Plain EXCEPT !.decide = TRUE, !.exec = Exec({"eve"}, {})], [Plain EXCEPT !.decide = TRUE],
     [Plain EXCEPT !.for = "b", !.pre = {"a"}, !.exec.expected = {"b"}]}
MCProfiles == {[rev |-> 1, responses |-> {r, q}] : r, q \in Declarations}
MCRegistrations ==
    [p \in {"agent"} |-> [owner |-> "ops", namespaces |-> {"ns"}, actions |-> {"fix", "look"}]]

MCNameOrder == <<"fix", "look">>
MCSnapshots == Graphs \cup LocalSnapshots \cup RichSnapshots \cup DefectSnapshots
MCStatements == SStatements \cup Inapplicable \cup OtherStatements
=============================================================================
