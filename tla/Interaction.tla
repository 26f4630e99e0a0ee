---------------------------- MODULE Interaction ----------------------------
(***************************************************************************)
(* pkg/interaction.Project: the operator summary of one target, from its   *)
(* projected status, its investigation record, the declared profile and    *)
(* the views of its actions, and the recurrence history it continues.      *)
(*                                                                         *)
(* An input is [ns, name, uid, st, inv, profile, acts]:                    *)
(*   inv      [outcome, cands], outcome "None" without a record; a         *)
(*            candidate is [cap, ref, status]                              *)
(*   profile  [rev, responses]; a response is [action, ns, name, uid, for, *)
(*            states, owner, decide, pre]: uid 0 names any instance, decide*)
(*            stands for a required approval or a declared risk            *)
(*   acts     set of [proposal, name, for, phase, recovery]                *)
(***************************************************************************)
EXTENDS Keeping, FiniteSets, FiniteSetsExt, SequencesExt

CONSTANTS MaxReasons,      \* reasons shown (maxReasons)
          MaxResponses,    \* responses shown (maxResponses)
          MaxActions,      \* actions shown (maxActions)
          MaxHistory,      \* fingerprints remembered (maxHistory)
          NameOrder        \* all names in the order of strings, as a sequence

ASSUME LimitsAssumption == MaxReasons \in Nat \ {0} /\ MaxHistory \in Nat \ {0}

(* Names compare by their place in the order, lists at the first difference. *)
Place(x) == CHOOSE i \in DOMAIN NameOrder : NameOrder[i] = x
Before(a, b) ==
    LET k == CHOOSE j \in DOMAIN a :
                (j = Len(a) \/ a[j] # b[j]) /\ \A i \in 1 .. j - 1 : a[i] = b[i]
    IN Place(a[k]) < Place(b[k])

(* The first n of the set that key is defined on, by the names key lists.    *)
FirstN(key, n) ==
    {x \in DOMAIN key :
        Cardinality({y \in DOMAIN key : key[y] # key[x] /\ Before(key[y], key[x])}) < n}

Level(l) == CASE l = "NO_ACTION" -> 0 [] l = "AWARENESS" -> 1
              [] l = "DECISION_REQUIRED" -> 2 [] l = "IMMEDIATE_INTERVENTION" -> 3

(* One line of the decision: a level, its reason, and what a person must     *)
(* decide ({} when nothing).                                                 *)
Raise(level, code, subject, human) ==
    [level |-> level, code |-> code, subject |-> subject, human |-> human]
Notice(code, subject) == Raise("AWARENESS", code, subject, {})
Decide(code, subject, who) == Raise("DECISION_REQUIRED", code, subject, {<<code, who>>})

-----------------------------------------------------------------------------
(* declared: the responses of the profile for this exact target, triggered   *)
(* by the current state of their capability.                                *)
Triggers(r, state) ==
    state \in (IF r.states = {} THEN {"DEGRADED", "UNAVAILABLE"} ELSE r.states)

Declared(in) ==
    {r \in in.profile.responses :
        /\ r.ns = in.ns /\ r.name = in.name /\ r.uid \in {0, in.uid}
        /\ r.for \in DOMAIN in.st.caps /\ Triggers(r, in.st.caps[r.for].state)}

PreconditionOf(in, p) ==
    IF p \notin DOMAIN in.st.caps THEN "unproven"
    ELSE CASE in.st.caps[p].state = "AVAILABLE" -> "proven"
           [] in.st.caps[p].state \in {"DEGRADED", "UNAVAILABLE"} -> "unmet"
           [] OTHER -> "unproven"

OwnersOf(in, r) ==
    {x.owner : x \in {y \in Declared(in) : y.for = r.for /\ y.action = r.action}}

ResponseStatus(in, r) ==
    IF \E p \in r.pre : PreconditionOf(in, p) = "unmet" THEN "Inapplicable"
    ELSE IF Cardinality(OwnersOf(in, r)) > 1 THEN "OwnerConflict"
    ELSE IF r.owner = "" THEN "OwnerUndeclared"
    ELSE IF \E p \in r.pre : PreconditionOf(in, p) = "unproven" THEN "SafetyUnproven"
    ELSE IF r.decide THEN "ApprovalRequired" ELSE "Ready"

Responses(in) ==
    {[for |-> r.for, action |-> r.action, owner |-> r.owner, decide |-> r.decide, pre |-> r.pre,
      status |-> ResponseStatus(in, r)] : r \in Declared(in)}

-----------------------------------------------------------------------------
(* The decision table.                                                      *)
StatusReasonBound == 40     \* statusReasonBound: a list this long may have been cut

FromDependencyOnly(reasons) ==
    /\ Cardinality(reasons) \in 1 .. StatusReasonBound - 1
    /\ \A r \in reasons : r.subject[1] = "dependency"

CodeOf(status) ==
    CASE status = "ApprovalRequired" -> "approval-required"
      [] status = "SafetyUnproven" -> "safety-condition-unproven"
      [] status = "OwnerUndeclared" -> "owner-undeclared"
      [] status = "OwnerConflict" -> "owner-conflict"

(* Mutant of Viable: what needs a decision first is no way out.             *)
ReadyOnly(rs) == {r \in rs : r.status = "Ready"}
Viable(rs) == {r \in rs : r.status # "Inapplicable"}

(* decideCapability for a capability that is not AVAILABLE.                  *)
DecideCapability(in, n) ==
    LET state == in.st.caps[n].state
        rs == {r \in Responses(in) : r.for = n}
        viable == Viable(rs)
    IN CASE rs = {} ->
              IF state = "UNKNOWN" THEN {}
              ELSE {Notice(IF FromDependencyOnly(in.st.caps[n].reasons)
                           THEN "impact-from-dependency" ELSE "no-declared-response", n)}
         [] rs # {} /\ viable = {} ->
              IF state = "UNAVAILABLE"
              THEN {Raise("IMMEDIATE_INTERVENTION", "no-safe-path", n, {<<"no-safe-path", n>>})}
              ELSE {Decide("no-viable-response", n, n)}
         [] OTHER ->
              (IF Cardinality(viable) > 1 THEN {Decide("no-priority-authority", n, n)} ELSE {}) \cup
              {Decide(CodeOf(r.status), n, r.action) : r \in {x \in viable : x.status # "Ready"}} \cup
              (IF Cardinality(viable) = 1 /\ \A r \in viable : r.status = "Ready"
               THEN {Notice("declared-response-ready", n)} ELSE {})

(* Envelopes that are selected or of the Minimum class count.                *)
EnvelopeNotices(st) ==
    {Notice(IF st.envs[e].state = "UNSATISFIED" THEN "envelope-unsatisfied"
            ELSE "envelope-unknown", e) :
        e \in {x \in DOMAIN st.envs : /\ st.envs[x].state # "SATISFIED"
                                      /\ x = st.sel \/ st.envs[x].class = "Minimum"}}

(* actionsOf: judged on every action, before the display is bounded, and     *)
(* never against a capability that is AVAILABLE now.                         *)
ActionCode(a) ==
    CASE a.recovery \in {"Recovered", "Inapplicable"} -> ""
      [] a.recovery \notin {"Recovered", "Inapplicable"} /\ a.phase \in {"TimedOut", "Withdrawn"} ->
            "action-outcome-unknown"
      [] OTHER -> IF a.recovery \in {"NotRecovered", "Partial", "Unconfirmed"}
                  THEN "action-not-recovered" ELSE ""

ActionsShown(in) == FirstN([a \in in.acts |-> <<a.proposal>>], MaxActions)
Escalations(in) ==
    LET open == {a \in in.acts :
                    ~(a.for \in DOMAIN in.st.caps /\ in.st.caps[a.for].state = "AVAILABLE")}
        names(code) == {a.name : a \in {x \in open : ActionCode(x) = code}}
    IN UNION {{Decide(code, n, n) : n \in FirstN([x \in names(code) |-> <<x>>], 1)} :
                 code \in {"action-not-recovered", "action-outcome-unknown"}}

Raised(in) ==
    IF ~in.st.valid
    THEN {Raise("DECISION_REQUIRED", "target-not-assessed", code, {<<"spec-correction-required", code>>}) :
             code \in FirstN([c \in {r.code : r \in in.st.invalid} |-> <<c>>], 1)}
    ELSE LET open == {n \in DOMAIN in.st.caps : in.st.caps[n].state # "AVAILABLE"}
         IN (IF DOMAIN in.st.caps = {} THEN {Notice("no-capabilities-assessed", "")} ELSE {}) \cup
            {Notice("capability-unknown", n) :
                n \in {m \in open : in.st.caps[m].state = "UNKNOWN"}} \cup
            EnvelopeNotices(in.st) \cup
            (IF in.inv.outcome = "Active" THEN {Notice("investigation-in-progress", "")} ELSE {}) \cup
            (UNION {DecideCapability(in, n) : n \in open}) \cup
            Escalations(in)

-----------------------------------------------------------------------------
(* The summary.                                                             *)
IdentityDigest(in) ==
    [uid |-> in.uid, rid |-> in.st.rid, contract |-> in.st.contract,
     providers |-> {<<s, in.st.evidence[s].provider>> : s \in DOMAIN in.st.evidence},
     denied |-> in.st.denied, profile |-> in.profile.rev]

Shown(reasons) == FirstN([r \in reasons |-> r], MaxReasons)

(* missing: the slots without current evidence and the denied bindings.      *)
Missing(st) ==
    {<<s, st.evidence[s].state>> : s \in {x \in DOMAIN st.evidence : st.evidence[x].state # "Current"}}
    \cup {<<d[2], d[1]>> : d \in st.denied}

(* outcomeClass: a finished investigation and a finished refresh read alike. *)
OutcomeClass(o) ==
    CASE o = "None" -> "NotRun"
      [] o = "Active" -> "InProgress"
      [] o \in {"Resolved", "Refreshed"} -> "Concluded"
      [] o \in {"ExhaustedCalls", "ExhaustedSteps", "Deadline"} -> "BudgetExhausted"
      [] OTHER -> o

(* Hypotheses about capabilities that are not AVAILABLE now.                 *)
Relevant(in) ==
    {c \in in.inv.cands : c.cap \in DOMAIN in.st.caps /\ in.st.caps[c.cap].state # "AVAILABLE"}

(* fingerprint; the digest of a shown action is not told apart from its      *)
(* proposal's name.                                                          *)
MeaningOf(in, raised) ==
    LET rank == Max({Level(r.level) : r \in raised} \cup {0})
        reasons == IF rank = 0 THEN {<<"all-capabilities-available", "">>}
                   ELSE {<<r.code, r.subject>> : r \in raised}
    IN [id |-> IdentityDigest(in), level |-> rank, reasons |-> Shown(reasons),
        human |-> Shown(UNION {r.human : r \in raised}),
        caps |-> {<<n, in.st.caps[n].state>> : n \in DOMAIN in.st.caps},
        missing |-> Missing(in.st),
        responses |-> {<<r.for, r.action, r.owner, r.status>> :
            r \in FirstN([x \in IF in.st.valid THEN Responses(in) ELSE {} |->
                              <<x.for, x.action, x.owner>>], MaxResponses)},
        acts |-> {<<a.proposal, a.phase, a.recovery>> : a \in ActionsShown(in)}]
Meaning(in) == MeaningOf(in, Raised(in))

NoSummary == [fingerprint |-> <<>>, inv |-> <<>>, recent |-> <<>>, recurrences |-> 0, recurring |-> FALSE]

(* Mutant of Remember: only the last meaning is kept.                       *)
ForgetOthers(recent, f) == <<f>>

(* finish: the history of one identity, most recent first, without repeats.  *)
Remember(recent, f) ==
    LET others == Keep(recent, {i \in DOMAIN recent : recent[i] # f})
    IN SubSeq(<<f>> \o others, 1, Min({MaxHistory, Len(others) + 1}))

(* The summary that follows prev when the target means f.                    *)
Continue(prev, f, inv) ==
    LET first == [fingerprint |-> f, recent |-> <<f>>, recurrences |-> 0, recurring |-> FALSE,
                  inv |-> inv]
        known == Contains(prev.recent, f)
    IN IF prev = NoSummary \/ prev.fingerprint.id # f.id THEN first
       ELSE IF prev.fingerprint = f
       THEN [first EXCEPT !.recent = prev.recent, !.recurring = prev.recurring,
                          !.recurrences = prev.recurrences]
       ELSE [first EXCEPT !.recent = Remember(prev.recent, f), !.recurring = known,
                          !.recurrences = prev.recurrences + (IF known THEN 1 ELSE 0)]

Summarise(in, prev) ==
    Continue(prev, Meaning(in),
             IF in.st.valid THEN <<OutcomeClass(in.inv.outcome), Relevant(in)>> ELSE <<"NotRun", {}>>)
=============================================================================
