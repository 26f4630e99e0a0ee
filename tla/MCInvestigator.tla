--------------------------- MODULE MCInvestigator ---------------------------
(* Instances of the investigator: two targets with two slots each at most.*)
EXTENDS Investigator

Bound(id, slots) == [valid |-> TRUE, id |-> id, slots |-> slots]
Unbound == [valid |-> TRUE, id |-> 1, slots |-> {}]

EqualWeight == [s \in Slots |-> 1]
FirstHeavier == [s \in Slots |-> IF s = 1 THEN 2 ELSE 1]

NoValidUntil == [s \in Slots |-> {AgeCap}]
SecondExpires == [s \in Slots |-> IF s = 2 THEN {2} ELSE {AgeCap}]

(* Faults: target 1 may be replaced, lose its grant, or become invalid.      *)
FaultBindings == {Bound(1, {1, 2}), Bound(2, {1, 2}), Bound(1, {1}), Unbound,
                  [valid |-> FALSE, id |-> 1, slots |-> {1, 2}]}
FaultFirst == [u \in Targets |-> IF u = 1 THEN Bound(1, {1, 2}) ELSE Bound(1, {1})]

(* Steady: two slots on target 1, one on the others.                         *)
SteadyBindings == {Bound(1, {1, 2}), Bound(1, {1})}
SteadyFirst == FaultFirst

(* Scored: two slots of one score on target 1, two of different ones on the  *)
(* others.                                                                   *)
ScoredBindings == {Bound(1, {2, 3}), Bound(1, {1, 2})}
ScoredFirst == [u \in Targets |-> IF u = 1 THEN Bound(1, {2, 3}) ELSE Bound(1, {1, 2})]
=============================================================================
