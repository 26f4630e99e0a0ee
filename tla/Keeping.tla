------------------------------- MODULE Keeping -------------------------------
(* The loops of the code that append what passes a test.                    *)
EXTENDS Naturals, Sequences

\* The elements of s at the positions in I, in the order of s.  (SelectSeq
\* takes the test itself; a set of positions leaves the operator first-order,
\* for the proofs.)
Keep(s, I) ==
    LET kept[i \in 0..Len(s)] ==
            IF i = 0 THEN <<>>
            ELSE IF i \in I THEN Append(kept[i - 1], s[i]) ELSE kept[i - 1]
    IN  kept[Len(s)]
=============================================================================
