----------------------------- MODULE TargetLease -----------------------------
(***************************************************************************)
(* What the action engine promises about a target, without journal, fences *)
(* or messages: an attempt holds its target exclusively from the moment it *)
(* is recorded until the provider has definitively ended or refused it, and *)
(* the provider only ever works for an attempt that holds its target.      *)
(***************************************************************************)
CONSTANTS
    Claims,  \* attempts
    Holds     \* Holds[k]: the target attempt k is for

VARIABLES
    lease,  \* "free", "held", "released" for each attempt
    run     \* what the provider does for it: "none", "live", "over"

Init ==
    /\ lease = [k \in Claims |-> "free"]
    /\ run = [k \in Claims |-> "none"]

\* A target is taken only when nobody holds it.
Acquire(k) ==
    /\ lease[k] = "free"
    /\ \A j \in Claims : Holds[j] = Holds[k] => lease[j] # "held"
    /\ lease' = [lease EXCEPT ![k] = "held"]
    /\ UNCHANGED run

\* The provider accepts (live) or refuses (over) the attempt.
Begin(k) ==
    /\ lease[k] = "held"
    /\ run[k] = "none"
    /\ \E s \in {"live", "over"} : run' = [run EXCEPT ![k] = s]
    /\ UNCHANGED lease

End(k) ==
    /\ run[k] = "live"
    /\ run' = [run EXCEPT ![k] = "over"]
    /\ UNCHANGED lease

Release(k) ==
    /\ lease[k] = "held"
    /\ run[k] = "over"
    /\ lease' = [lease EXCEPT ![k] = "released"]
    /\ UNCHANGED run

Next == \E k \in Claims : Acquire(k) \/ Begin(k) \/ End(k) \/ Release(k)

Spec == Init /\ [][Next]_<<lease, run>>
=============================================================================
