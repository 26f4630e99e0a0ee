--------------------------- MODULE MCActionEngine ---------------------------
(***************************************************************************)
(* Model-checking instances of the action engine.                          *)
(***************************************************************************)
EXTENDS ActionEngine, TLC

CONSTANTS s1, s2, t1, d1, e1, e2

\* Both subjects share the one target: they compete for it.
OneTarget == [s \in Subjects |-> t1]

\* An approved proposal; one that is blocked and whose approval is gone; none.
Go      == [on |-> TRUE, digest |-> d1, open |-> TRUE, verdict |-> "approve", kept |-> TRUE]
Revoked == [on |-> TRUE, digest |-> d1, open |-> TRUE, verdict |-> "reject", kept |-> FALSE]
GoOrRevoked == {Go, Revoked}
GoOnly == {Go}

Symmetry == Permutations(Engines) \cup Permutations(Subjects)
=============================================================================
