---------------------------- MODULE Candidates ----------------------------
(***************************************************************************)
(* The hypotheses the investigator reads off an assessment                 *)
(* (pkg/investigate/candidates.go): which referenced input may explain why *)
(* a capability, or the selected envelope, is not AVAILABLE or SATISFIED.  *)
(* A candidate is [cap, via, kind, ref, status]; via names the envelope an *)
(* assertion is reached through.                                           *)
(***************************************************************************)
EXTENDS Operations

(* statusFrom: an input without a reason is proven accepted, one with only   *)
(* unmet reasons proven unmet; any other reason leaves it open.              *)
StatusFrom(reasons, subject) ==
    LET about == {r \in reasons : r.subject = subject}
    IN CASE about = {} -> "Refuted"
         [] about # {} /\ \A r \in about : r.verdict = "unmet" -> "Maintained"
         [] OTHER -> "Open"

Candidate(cap, via, kind, ref, status) ==
    [cap |-> cap, via |-> via, kind |-> kind, ref |-> ref, status |-> status]

(* The predicates of an envelope are the inputs a query can decide.          *)
EnvelopeCandidates(S, t, cap, e) ==
    {Candidate(cap, e, "assertion", p.ref,
               StatusFrom(EnvelopeResult(S, t, e).reasons, <<"assertion", p.ref>>)) :
        p \in ContractOf(S, t).envs[e]}

RequirementCandidates(S, t, cap, res) ==
    UNION {{Candidate(cap, "", r.kind, r.ref, StatusFrom(res.reasons, <<r.kind, r.ref>>))} \cup
           (IF r.kind = "envelope" THEN EnvelopeCandidates(S, t, cap, r.ref) ELSE {}) :
               r \in ContractOf(S, t).caps[cap]}

(* Mutant of SelectedCandidates: an UNKNOWN selection is passed over.       *)
UnmetSelection(S, t) ==
    IF t.sel = "" \/ EnvelopeResult(S, t, t.sel).state # "UNSATISFIED" THEN {}
    ELSE EnvelopeCandidates(S, t, "", t.sel)

SelectedCandidates(S, t) ==
    IF t.sel = "" \/ EnvelopeResult(S, t, t.sel).state = "SATISFIED" THEN {}
    ELSE EnvelopeCandidates(S, t, "", t.sel)

DeriveCandidates(S, caps, t) ==
    (UNION {RequirementCandidates(S, t, n, caps[<<t.uid, n>>]) :
               n \in {m \in DOMAIN ContractOf(S, t).caps : caps[<<t.uid, m>>].state # "AVAILABLE"}})
    \cup SelectedCandidates(S, t)

(* The slots selectQuery would ask for: they decide an Open candidate.       *)
OpenSlots(S, caps, t) ==
    {c.ref : c \in {x \in DeriveCandidates(S, caps, t) : x.kind = "assertion" /\ x.status = "Open"}}

(* usedSlots: what some capability predicate, a referenced envelope or the   *)
(* selected envelope reads.                                                  *)
UsedSlots(S, t) ==
    LET c == ContractOf(S, t)
        reqs == UNION {c.caps[n] : n \in DOMAIN c.caps}
        envs == {r.ref : r \in {x \in reqs : x.kind = "envelope"}} \cup ({t.sel} \ {""})
    IN {r.ref : r \in {x \in reqs : x.kind = "assertion"}} \cup
       {p.ref : p \in UNION {c.envs[e] : e \in envs}}
=============================================================================
