---------------------------- MODULE MCDataPlane ----------------------------
(* Small instances of DataPlane.                                            *)
EXTENDS DataPlane, TLC

A1 == [version |-> 1, digest |-> None]
A2 == [version |-> 2, digest |-> None]
A3 == [version |-> 2, digest |-> "d3"]
A4 == [version |-> 3, digest |-> None]

MCRefs == {A1, A2, A3, A4}

\* jumi depends on handoff and is listed before it, loop on itself.
MCListed == <<"gpu", "jumi", "loop", "handoff">>
MCRequires == [c \in Comps |-> CASE c = "jumi" -> {"handoff"}
                                 [] c = "loop" -> {"loop"} [] OTHER -> {}]
MCMatrix == {[comp |-> "handoff", version |-> 3, needs |-> "jumi", min |-> 2]}

both(x, y) == [c \in {"handoff", "jumi"} |-> IF c = "handoff" THEN x ELSE y]
only(x) == [c \in {"handoff"} |-> x]
with(c) == [x \in {"handoff", c} |-> A1]

\* Two components; each generation changes something, none returns.
MCForward == [r \in Releases |-> <<both(A1, A1), both(A1, A2), both(A3, A2)>>]

\* One component; the third generation takes the second back.
MCRevert == [r \in Releases |-> <<only(A1), only(A2), only(A1)>>]

\* A component whose namespace is forbidden, one that depends on itself, and a
\* version too old for the matrix come and go before the last generation.
MCPolicy == [r \in Releases |->
               <<only(A1), with("gpu"), with("loop"), both(A4, A1), both(A3, A2)>>]
MCForbidden == {<<"gpu", e>> : e \in Envs}

\* Planes, and environments, are interchangeable.
MCSymmetry == Permutations(Planes) \cup Permutations(Envs)
=============================================================================
