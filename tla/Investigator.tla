---------------------------- MODULE Investigator ----------------------------
(***************************************************************************)
(* The bounded investigation loop of pkg/investigate, driven by the        *)
(* operational reconciler: which provider query runs next, under which     *)
(* budget, what of its answer is held, and when the next run comes.        *)
(*                                                                         *)
(* The reconciler has one work item and Run holds the investigator's       *)
(* mutex, so runs never overlap; what interleaves with a run is the clock  *)
(* (a provider call takes time), the cluster (a grant is revoked, a        *)
(* workload replaced) and the end of the process.                          *)
(*                                                                         *)
(* Time is relative: every stamp of the code is kept as its age, advanced  *)
(* by Tick and cut off where no comparison tells larger ages apart, so     *)
(* behaviours are unbounded in time and the state space is finite.         *)
(*                                                                         *)
(* A target's evidence is summarised by the assertion slots of its         *)
(* contract: a slot without current evidence leaves Weight[s] candidates   *)
(* Open, one with current evidence leaves none (module Candidates checks   *)
(* that summary against the evaluator).                                    *)
(***************************************************************************)
EXTENDS Naturals, FiniteSets, Sequences, SequencesExt, FiniteSetsExt

CONSTANTS
    NTargets,      \* OperationalTargets, 1..NTargets in the order of their UIDs
    Slots,         \* assertion slots, numbered in the order of their names
    Weight,        \* Weight[s]: candidates that slot s decides; 0: nothing reads s
    Bindings,      \* the bindings a target can have in the cluster, see BindingOK
    FirstBinding,  \* FirstBinding[u]: the binding target u starts with
    Values,        \* the values a provider can report
    Answers,       \* what a provider may answer in time: "value", "unavailable"
    MaxCalls, MaxSteps, Deadline, CallTimeout, Cooldown, Slice,
    MaxEpisodes, MaxHeld,
    MaxAge,        \* currentness bound of every slot
    Margin,        \* MaxAge * RefreshFraction
    Poll,          \* the reconciler's RequeueInterval
    MinRequeue,    \* the reconciler's minRequeue
    Backoff,       \* the delay of the work queue after a failed reconcile; 0: none fails
    Slowest,       \* a provider answers at most Slowest after it was called ...
    Overrun,       \* ... or, ignoring its context, at most Overrun after the context ended
    Stamps,        \* the stamps, as ages at receipt, of the values a provider reports
    Lives,         \* by slot, the times from receipt to a value's ValidUntil; AgeCap: none given
    MaxChanges,    \* bound on cluster changes
    MaxStops       \* bound on process ends

Targets == 1 .. NTargets

(* [valid, id, slots]: whether O1 finds the target valid, its resolved UID   *)
(* and contract identity as one value, and the slots with an authorized      *)
(* binding to a registered provider.                                         *)
BindingOK(b) == b.valid \in BOOLEAN /\ b.id \in Nat /\ b.slots \subseteq Slots

AgeCap == Max(Stamps \cup {MaxAge}) + 1   \* ages from here on are all alike

ASSUME InvestigatorAssumption ==
    /\ NTargets \in Nat \ {0}
    /\ Slots \subseteq Nat \ {0} /\ IsFiniteSet(Slots)
    /\ Weight \in [Slots -> Nat]
    /\ \A b \in Bindings : BindingOK(b)
    /\ FirstBinding \in [Targets -> Bindings]
    /\ {MaxCalls, MaxSteps, Deadline, CallTimeout, Cooldown, Slice, MaxEpisodes, MaxHeld} \subseteq Nat
    /\ {MaxAge, Margin, Poll, MinRequeue, Backoff, Slowest, Overrun, MaxChanges, MaxStops} \subseteq Nat
    /\ Deadline <= Cooldown
    /\ Margin <= MaxAge
    /\ Stamps \subseteq Nat /\ Stamps # {} /\ IsFiniteSet(Stamps)
    /\ Lives \in [Slots -> SUBSET (0 .. AgeCap)]
    /\ MinRequeue > 0

VARIABLES
    bind,      \* bind[u]: the cluster's current binding of target u
    base,      \* the snapshot the current (or last) run works on
    pc,        \* "idle", "next" (target loop), "step" (episode loop), "call"
    cursor,    \* the target the run is at, and the next Run starts from; 0: none
    left,      \* targets the run has still to visit
    sliceAge,  \* time since the run began
    call,      \* the call in flight
    held,      \* held[k]: the evidence held for applicability key k
    marks,     \* marks[k]: age of the last accepted value, NoMark if none
    episodes,  \* episodes[u]: the latest episode of target u
    progress,  \* progress[u]: the slots dispatched for the current identity, oldest first
    wake,      \* time to the next scheduled reconcile
    stopping,  \* the manager's context is cancelled
    changes,   \* cluster changes so far
    stops,     \* process ends so far
    window,    \* history: age of the call window of u, Cooldown when closed
    spent,     \* history: calls for u in that window
    newest     \* history: age of the newest value ever held for k, since k is held

control == <<pc, cursor, left, sliceAge, call, wake>>
evidence == <<held, marks>>
history == <<window, spent, newest>>
world == <<bind, changes, stops, stopping>>
vars == <<control, evidence, episodes, progress, base, world, history>>

Ids == {b.id : b \in Bindings}
Keys == Targets \X Ids \X Slots
NoMark == AgeCap                \* no mark: every stamp is newer
NoneHeld == [kind |-> "none", age |-> 0, life |-> 0, vals |-> {}]
NoCall == [slot |-> 0, age |-> 0, timeout |-> 0, limit |-> 0, bySlice |-> FALSE]
Older(age, cap) == Min({age + 1, cap})
Monus(a, b) == IF a > b THEN a - b ELSE 0

NoEpisode == [state |-> "none", key |-> <<>>, kind |-> "none", age |-> 0,
              calls |-> 0, sent |-> {}]
NoProgress == [key |-> <<>>, seq |-> <<>>]

EpisodeStates ==
    {"none", "Active", "Resolved", "Refreshed", "NoAllowedQuery", "ExhaustedCalls",
     "ExhaustedSteps", "Deadline", "Cancelled", "Superseded", "TargetInvalid", "Capacity"}

Init ==
    /\ bind = FirstBinding
    /\ base = bind
    /\ pc = "idle" /\ cursor = 0 /\ left = 0 /\ sliceAge = 0 /\ call = NoCall
    /\ held = [k \in Keys |-> NoneHeld]
    /\ marks = [k \in Keys |-> NoMark]
    /\ episodes = [u \in Targets |-> NoEpisode]
    /\ progress = [u \in Targets |-> NoProgress]
    /\ wake = 0 /\ stopping = FALSE /\ changes = 0 /\ stops = 0
    /\ window = [u \in Targets |-> Cooldown]
    /\ spent = [u \in Targets |-> 0]
    /\ newest = [k \in Keys |-> NoMark]

-----------------------------------------------------------------------------
(* Queries, evidence and selection.                                         *)

(* The targets with at least one authorized query ...                       *)
Requested(B) == {u \in Targets : B[u].slots # {}}
(* ... and those of them that O1 assesses as valid.                         *)
Queryable(B) == {u \in Requested(B) : B[u].valid}

Key(B, u, s) == <<u, B[u].id, s>>
Authorized(B) == {Key(B, u, s) : u \in Queryable(B), s \in Slots} \cap
                 {k \in Keys : k[3] \in B[k[1]].slots}
EpisodeKey(b) == <<b.id, b.slots>>

IsCurrent(h) ==
    h.kind = "value" /\ h.age <= MaxAge /\ h.life > 0 /\ Cardinality(h.vals) = 1
Current(B, u, s) == IsCurrent(held[Key(B, u, s)])

(* refreshDue: the time until the value held is due for refresh, the margin  *)
(* before its age or its ValidUntil ends it.                                 *)
DueIn(h) == Monus(Min({Monus(MaxAge, h.age), h.life}), Margin)
Due(B, u, s) == held[Key(B, u, s)].kind = "value" /\ DueIn(held[Key(B, u, s)]) = 0

(* Least recently dispatched first (never dispatched before all), then name. *)
Rank(seq, s) == IF Contains(seq, s) THEN CHOOSE i \in DOMAIN seq : seq[i] = s ELSE 0
Before(seq, s, t) ==
    \/ Rank(seq, s) < Rank(seq, t)
    \/ Rank(seq, s) = Rank(seq, t) /\ s <= t
(* Mutant of FirstOf: the slots dispatched before are not remembered.       *)
FirstByName(seq, S) == Min(S)

FirstOf(seq, S) == CHOOSE s \in S : \A t \in S : Before(seq, s, t)

Undecided(u, sent) ==
    {s \in base[u].slots \ sent : Weight[s] > 0 /\ ~Current(base, u, s)}

RefreshDue(u, sent) ==
    {s \in base[u].slots \ sent : Weight[s] > 0 /\ Current(base, u, s) /\ Due(base, u, s)}

(* The next single query for u: [slot, class], slot 0 when there is none.    *)
SelectQuery(u, sent, seq) ==
    LET open == Undecided(u, sent)
        best == {s \in open : \A t \in open : Weight[t] <= Weight[s]}
        due == RefreshDue(u, sent)
    IN CASE open # {} -> [slot |-> FirstOf(seq, best), class |-> "investigate"]
         [] open = {} /\ due # {} -> [slot |-> FirstOf(seq, due), class |-> "refresh"]
         [] OTHER -> [slot |-> 0, class |-> "investigate"]

Active(e) == e.state = "Active"
End(e, state) == [e EXCEPT !.state = state, !.calls = 0, !.sent = {}]   \* nothing reads the two again
Cooled(e) == e.age >= Cooldown
Prune(E) == [u \in Targets |-> IF ~Active(E[u]) /\ Cooled(E[u]) THEN NoEpisode ELSE E[u]]
Resident(E) == {u \in Targets : E[u].state # "none"}

SliceOver == sliceAge >= Slice
RunOver == stopping \/ SliceOver

-----------------------------------------------------------------------------
(* Run: the prologue, and the loop over the targets.                        *)

(* Mutant of StartAt: no wrap after the last target.                        *)
NoWrap(c, Q) == IF \E u \in Q : u >= c THEN Min({u \in Q : u >= c}) ELSE c

StartAt(c, Q) == IF \E u \in Q : u >= c THEN Min({u \in Q : u >= c}) ELSE Min(Q)

(* Mutant of FirstTarget: every slice starts over.                          *)
AlwaysFirst(Q) == IF Q = {} THEN 0 ELSE Min(Q)

(* The target a run starts with: where the last slice stopped.               *)
FirstTarget(Q) == IF Q = {} THEN 0 ELSE StartAt(cursor, Q)

(* Mutant of PurgedEvidence: only the target is looked at.                  *)
PurgeByTarget(B) ==
    LET kept == {k \in Keys : k[1] \in Queryable(B)}
    IN /\ held' = [k \in Keys |-> IF k \in kept THEN held[k] ELSE NoneHeld]
       /\ marks' = [k \in Keys |-> IF k \in kept THEN marks[k] ELSE NoMark]

PurgedEvidence(B) ==
    /\ held' = [k \in Keys |-> IF k \in Authorized(B) THEN held[k] ELSE NoneHeld]
    /\ marks' = [k \in Keys |-> IF k \in Authorized(B) THEN marks[k] ELSE NoMark]

PurgedEpisode(B, u) ==
    LET e == episodes[u]
        ended == IF ~Active(e) THEN e
                 ELSE End(e, IF u \in Requested(B) THEN "TargetInvalid" ELSE "Superseded")
    IN IF u \in Queryable(B) THEN e ELSE IF Cooled(e) THEN NoEpisode ELSE ended

(* A reconcile begins: by its timer, or by an event at any earlier moment.   *)
(* It lists the cluster, keeps the queries of valid targets, purges what is  *)
(* no longer authorized and starts the slice at the cursor.                  *)
Reconcile ==
    /\ pc = "idle" /\ ~stopping
    /\ base' = bind
    /\ PurgedEvidence(bind)
    /\ episodes' = [u \in Targets |-> PurgedEpisode(bind, u)]
    /\ progress' = [u \in Targets |-> IF u \in Queryable(bind) THEN progress[u] ELSE NoProgress]
    /\ cursor' = FirstTarget(Queryable(bind))
    /\ left' = Cardinality(Queryable(bind))
    /\ sliceAge' = 0
    /\ pc' = "next"
    /\ newest' = [k \in Keys |-> IF held'[k].kind = "none" THEN NoMark ELSE newest[k]]
    /\ UNCHANGED <<call, wake, world, window, spent>>

(* Leaving a target: the run stops on it when the slice is over, and goes on *)
(* to the following one (wrapping) otherwise.                                *)
Leave ==
    /\ pc' = "next"
    /\ IF RunOver
       THEN left' = 0 /\ cursor' = cursor
       ELSE left' = left - 1 /\ cursor' = StartAt(cursor + 1, Queryable(base))
    /\ UNCHANGED <<sliceAge, wake>>

At(u) == pc = "next" /\ left > 0 /\ ~RunOver /\ cursor = u
(* Mutant of Superseding: the record goes, and the cooldown with it.        *)
ForgetSuperseded(u) ==
    IF Active(episodes[u]) /\ episodes[u].key # EpisodeKey(base[u]) THEN NoEpisode ELSE episodes[u]

Superseding(u) ==
    IF Active(episodes[u]) /\ episodes[u].key # EpisodeKey(base[u])
    THEN End(episodes[u], "Superseded") ELSE episodes[u]
ProgressOf(u) ==
    IF progress[u].key = EpisodeKey(base[u]) THEN progress[u]
    ELSE [key |-> EpisodeKey(base[u]), seq |-> <<>>]
FirstQuery(u) == SelectQuery(u, {}, ProgressOf(u).seq)

Resume(u) ==
    /\ At(u) /\ Active(Superseding(u))
    /\ pc' = "step"
    /\ UNCHANGED <<cursor, left, sliceAge, call, wake, evidence, episodes, progress, base,
                   world, history>>

(* Admission: something to query, and no episode start within the cooldown,   *)
(* whatever the identity or outcome of the last episode.                     *)
MayStart(u) ==
    /\ FirstQuery(u).slot # 0
    /\ Superseding(u).state = "none" \/ Cooled(Superseding(u))

NotAdmitted(u) ==
    /\ At(u) /\ ~Active(Superseding(u)) /\ ~MayStart(u)
    /\ episodes' = [episodes EXCEPT ![u] = Superseding(u)]
    /\ Leave
    /\ UNCHANGED <<call, evidence, progress, base, world, history>>

Admissible(u) == At(u) /\ ~Active(Superseding(u)) /\ MayStart(u)

(* The episode table before u's new record: pruned when u needs a new place  *)
(* in a full table.                                                          *)
Table(u) ==
    IF episodes[u].state = "none" /\ Cardinality(Resident(episodes)) >= MaxEpisodes
    THEN Prune(episodes) ELSE episodes

TableFull(u) ==
    episodes[u].state = "none" /\ Cardinality(Resident(Table(u))) >= MaxEpisodes
PrunedProgress(u) ==
    [v \in Targets |-> IF Resident(Table(u)) # Resident(episodes) /\ Table(u)[v] = NoEpisode
                          /\ episodes[v] # NoEpisode
                       THEN NoProgress ELSE progress[v]]

NoRoom(u) ==
    /\ Admissible(u) /\ TableFull(u)
    /\ episodes' = Table(u)
    /\ progress' = PrunedProgress(u)
    /\ Leave
    /\ UNCHANGED <<call, evidence, base, world, history>>

StartEpisode(u) ==
    /\ Admissible(u) /\ ~TableFull(u)
    /\ episodes' = [Table(u) EXCEPT ![u] =
           [state |-> "Active", key |-> EpisodeKey(base[u]), kind |-> FirstQuery(u).class,
            age |-> 0, calls |-> 0, sent |-> {}]]
    /\ progress' = [PrunedProgress(u) EXCEPT ![u] = ProgressOf(u)]
    /\ pc' = "step"
    /\ UNCHANGED <<cursor, left, sliceAge, call, wake, evidence, base, world, history>>

-----------------------------------------------------------------------------
(* The episode loop.                                                        *)

NextQuery(u) == SelectQuery(u, episodes[u].sent, progress[u].seq)

(* Candidates of the contract still Open: a slot without current evidence,   *)
(* bound or not.                                                             *)
HasOpen(u) == \E s \in Slots : Weight[s] > 0 /\ ~(s \in base[u].slots /\ Current(base, u, s))

(* The ways an episode can end before its next call. A dependency or another *)
(* input no query decides may be Open too.                                   *)
Endings(u) ==
    LET e == episodes[u]
    IN CASE stopping -> {"Cancelled"}
         [] e.age >= Deadline -> {"Deadline"}
         [] e.calls >= MaxSteps -> {"ExhaustedSteps"}
         [] NextQuery(u).slot = 0 ->
                {"NoAllowedQuery"} \cup
                (IF HasOpen(u) THEN {} ELSE {IF e.kind = "refresh" THEN "Refreshed" ELSE "Resolved"})
         [] e.calls >= MaxCalls -> {"ExhaustedCalls"}
         [] OTHER -> {}

InLoop(u) == pc = "step" /\ cursor = u
SliceFirst == SliceOver /\ ~stopping     \* the slice is tested before the deadline and the budget

EndEpisode(u) ==
    /\ InLoop(u) /\ ~SliceFirst
    /\ \E state \in Endings(u) : episodes' = [episodes EXCEPT ![u] = End(@, state)]
    /\ Leave
    /\ UNCHANGED <<call, evidence, progress, base, world, history>>

(* The slice is over: the episode keeps its remaining budget and deadline.   *)
Interrupt(u) ==
    /\ InLoop(u) /\ SliceFirst
    /\ Leave
    /\ UNCHANGED <<call, evidence, episodes, progress, base, world, history>>

Counted(u) ==
    IF window[u] >= Cooldown
    THEN window' = [window EXCEPT ![u] = 0] /\ spent' = [spent EXCEPT ![u] = 1]
    ELSE spent' = [spent EXCEPT ![u] = @ + 1] /\ UNCHANGED window

Dispatch(u) ==
    LET e == episodes[u]
        s == NextQuery(u).slot
        timeout == Min({CallTimeout, Deadline - e.age})
    IN /\ InLoop(u) /\ ~SliceFirst /\ Endings(u) = {}
       /\ episodes' = [episodes EXCEPT ![u].calls = @ + 1, ![u].sent = @ \cup {s}]
       /\ progress' = [progress EXCEPT ![u].seq = Append(RemoveAt(@, Rank(@, s)), s)]
       /\ call' = [slot |-> s, age |-> 0, timeout |-> timeout,
                   limit |-> Min({timeout, Slice - sliceAge}),
                   bySlice |-> Slice - sliceAge <= timeout]
       /\ pc' = "call"
       /\ Counted(u)
       /\ UNCHANGED <<cursor, left, sliceAge, wake, evidence, base, world, newest>>

-----------------------------------------------------------------------------
(* The answer of a call.                                                    *)

Calling(u) == pc = "call" /\ cursor = u
CallKey(u) == Key(base, u, call.slot)

(* The call's context is over; at the very instant of its deadline the       *)
(* answer and the timer race.                                                *)
ContextOver == call.age >= call.limit
AnsweredInTime == call.age <= call.limit

(* Shutdown: whatever came back is discarded.                                *)
DiscardOnStop(u) ==
    /\ Calling(u) /\ stopping
    /\ episodes' = [episodes EXCEPT ![u] = End(@, "Cancelled")]
    /\ call' = NoCall
    /\ Leave
    /\ UNCHANGED <<evidence, progress, base, world, history>>

(* The slice was the call's binding bound: discarded, nothing recorded; the  *)
(* call stays counted and the episode active.                                *)
DiscardOnSliceEnd(u) ==
    /\ Calling(u) /\ ~stopping
    /\ ContextOver /\ call.bySlice
    /\ call' = NoCall
    /\ Leave
    /\ UNCHANGED <<evidence, episodes, progress, base, world, history>>

(* admit: what is held for key k once the statement o is taken in.           *)
Refused(k) ==
    held[k].kind = "none" /\ Cardinality({x \in Keys : held[x].kind # "none"}) >= MaxHeld

MaxConflicting == 4
(* Mutant of Admitted: an equal stamp counts as news.                       *)
EqualReplaces(k, o) ==
    IF held[k].kind # "none" /\ o.kind = "value" /\ o.age > marks[k] THEN held[k] ELSE o

Admitted(k, o) ==
    LET h == held[k]
    IN CASE h.kind = "none" -> o
         [] h.kind # "none" /\ o.kind # "value" -> o
         [] h.kind # "none" /\ o.kind = "value" /\ o.age < marks[k] -> o
         [] h.kind = "value" /\ o.kind = "value" /\ o.age = marks[k] /\ h.age = marks[k]
            /\ Cardinality(h.vals) < MaxConflicting -> [h EXCEPT !.vals = @ \cup o.vals]
         [] OTHER -> h

(* Mutant of Marked: an outage forgets the last value seen.                 *)
OutageDropsMark(k, o) == IF o.kind = "value" THEN Min({o.age, marks[k]}) ELSE NoMark

Marked(k, o) ==
    IF o.kind = "value" /\ (held[k].kind = "none" \/ o.age < marks[k]) THEN o.age ELSE marks[k]

(* The statement o about call.slot is recorded, or refused when the cache is *)
(* full: then the episode ends.                                              *)
Record(u, o) ==
    LET k == CallKey(u)
    IN /\ call' = NoCall
       /\ \/ /\ Refused(k)
             /\ episodes' = [episodes EXCEPT ![u] = End(@, "Capacity")]
             /\ Leave
             /\ UNCHANGED <<evidence, newest>>
          \/ /\ ~Refused(k)
             /\ held' = [held EXCEPT ![k] = Admitted(k, o)]
             /\ marks' = [marks EXCEPT ![k] = Marked(k, o)]
             /\ newest' = [newest EXCEPT ![k] =
                    IF held'[k].kind = "value" THEN Min({@, held'[k].age}) ELSE @]
             /\ pc' = "step"
             /\ UNCHANGED <<cursor, left, sliceAge, wake, episodes>>
       /\ UNCHANGED <<progress, base, world, window, spent>>

Unavailable == [kind |-> "unavailable", age |-> 0, life |-> 0, vals |-> {}]
TooLate(u) == call.age > call.timeout \/ episodes[u].age >= Deadline

(* No answer in time, a failed read, or a stamp from the future: the         *)
(* provider is unavailable and no older value is fallen back to.             *)
AnswerUnavailable(u) ==
    /\ Calling(u) /\ ~stopping
    /\ \/ ContextOver /\ ~call.bySlice
       \/ AnsweredInTime /\ (TooLate(u) \/ "unavailable" \in Answers)
    /\ Record(u, Unavailable)

AnswerValue(u, v, stamp, life) ==
    /\ Calling(u) /\ ~stopping
    /\ AnsweredInTime /\ ~TooLate(u) /\ "value" \in Answers /\ life \in Lives[call.slot]
    /\ Record(u, [kind |-> "value", age |-> stamp, life |-> life, vals |-> {v}])

-----------------------------------------------------------------------------
(* The end of the run: the evidence is read, evaluated and published, and    *)
(* the reconciler asks when to come back.                                    *)

WorkLeft(state) ==
    state \in {"ExhaustedCalls", "ExhaustedSteps", "Deadline", "Cancelled", "Capacity"}

CooldownLeft(u) == IF episodes[u].state = "none" THEN 0 ELSE Monus(Cooldown, episodes[u].age)

Resumable(u) == Active(episodes[u]) /\ episodes[u].age < Deadline
RefreshWakes ==
    UNION {{Max({CooldownLeft(u), DueIn(held[Key(base, u, s)])}) :
                s \in {t \in base[u].slots : held[Key(base, u, t)].kind = "value"}} :
           u \in Requested(base)}
RetryWakes == {CooldownLeft(u) : u \in {v \in Requested(base) : WorkLeft(episodes[v].state)}}

(* The delays after which a reconcile can do new work; elapsed ones do not   *)
(* count, an episode to resume is due at once.                               *)
NextWake ==
    IF \E u \in Requested(base) : Resumable(u) THEN {0}
    ELSE (RefreshWakes \cup RetryWakes) \ {0}

RequeueAfter == Max({MinRequeue, Min(NextWake \cup {Poll})})

EndRun ==
    /\ pc = "next" /\ (left = 0 \/ RunOver)
    /\ pc' = "idle" /\ left' = 0 /\ sliceAge' = 0
    /\ wake' \in {RequeueAfter} \cup ({Backoff} \ {0})
    /\ UNCHANGED <<cursor, call, evidence, episodes, progress, base, world, history>>

-----------------------------------------------------------------------------
(* The environment.                                                         *)

(* The time left to a ValidUntil runs out, where there is one.               *)
Younger(life) == IF life = AgeCap THEN life ELSE Monus(life, 1)

(* Computation takes no time: the clock moves while the reconciler waits or  *)
(* a provider is asked. A due timer or an event is taken at once.            *)
Tick ==
    /\ \/ pc = "idle" /\ ~stopping /\ wake > 0 /\ bind = base /\ wake' = wake - 1
          /\ UNCHANGED <<call, sliceAge>>
       \/ pc = "call" /\ call.age < Min({Slowest, call.limit + Overrun})
          /\ call' = [call EXCEPT !.age = @ + 1] /\ sliceAge' = Min({sliceAge + 1, Slice + Overrun})
          /\ UNCHANGED wake
    /\ held' = [k \in Keys |-> IF held[k].kind = "value"
                               THEN [held[k] EXCEPT !.age = Older(@, AgeCap), !.life = Younger(@)]
                               ELSE held[k]]
    /\ marks' = [k \in Keys |-> Older(marks[k], NoMark)]
    /\ newest' = [k \in Keys |-> Older(newest[k], NoMark)]
    /\ episodes' = [u \in Targets |-> IF episodes[u].state = "none" THEN NoEpisode
                                      ELSE [episodes[u] EXCEPT !.age = Older(@, Cooldown)]]
    /\ window' = [u \in Targets |-> Older(window[u], Cooldown)]
    /\ UNCHANGED <<pc, cursor, left, progress, base, world, spent>>

(* A grant, a binding, a contract or the workload behind a target changes.   *)
Rebind(u, b) ==
    /\ changes < MaxChanges /\ b # bind[u]
    /\ bind' = [bind EXCEPT ![u] = b]
    /\ changes' = changes + 1
    /\ UNCHANGED <<control, evidence, episodes, progress, base, stopping, stops, history>>

Shutdown ==
    /\ stops < MaxStops /\ ~stopping
    /\ stopping' = TRUE /\ stops' = stops + 1
    /\ UNCHANGED <<control, evidence, episodes, progress, base, bind, changes, history>>

(* The next process starts from no evidence and no episodes.                 *)
Restart ==
    /\ stopping /\ pc = "idle"
    /\ stopping' = FALSE
    /\ cursor' = 0 /\ wake' = 0
    /\ held' = [k \in Keys |-> NoneHeld] /\ marks' = [k \in Keys |-> NoMark]
    /\ episodes' = [u \in Targets |-> NoEpisode]
    /\ progress' = [u \in Targets |-> NoProgress]
    /\ window' = [u \in Targets |-> Cooldown] /\ spent' = [u \in Targets |-> 0]
    /\ newest' = [k \in Keys |-> NoMark]
    /\ UNCHANGED <<pc, left, sliceAge, call, base, bind, changes, stops>>

Answer(u) ==
    \/ DiscardOnStop(u)
    \/ DiscardOnSliceEnd(u)
    \/ AnswerUnavailable(u)
    \/ \E v \in Values, stamp \in Stamps, life \in 0 .. AgeCap : AnswerValue(u, v, stamp, life)

Visit(u) == Resume(u) \/ NotAdmitted(u) \/ NoRoom(u) \/ StartEpisode(u)
Loop(u) == EndEpisode(u) \/ Interrupt(u) \/ Dispatch(u)

Next ==
    \/ Reconcile \/ EndRun \/ Tick \/ Shutdown \/ Restart
    \/ \E u \in Targets : Visit(u) \/ Loop(u) \/ Answer(u)
    \/ \E u \in Targets, b \in Bindings : Rebind(u, b)

Spec == Init /\ [][Next]_vars

(* A due reconcile runs, the loop goes on, a call is answered; time passes,   *)
(* however many events keep the reconciler busy.                             *)
Fairness ==
    /\ SF_vars(Tick)
    /\ WF_vars(wake = 0 /\ Reconcile)
    /\ WF_vars(EndRun) /\ WF_vars(Restart)
    /\ \A u \in Targets : WF_vars(Visit(u)) /\ WF_vars(Loop(u)) /\ WF_vars(Answer(u))

FairSpec == Spec /\ Fairness

-----------------------------------------------------------------------------
(* Properties.                                                              *)

EpisodeKeys == {<<>>} \cup (Ids \X SUBSET Slots)
Episode == [state : EpisodeStates, key : EpisodeKeys, kind : {"none", "investigate", "refresh"},
            age : 0 .. Cooldown, calls : 0 .. MaxCalls, sent : SUBSET Slots]
Statement == [kind : {"none", "unavailable", "value"}, age : 0 .. AgeCap, life : 0 .. AgeCap,
              vals : SUBSET Values]
Call == [slot : Slots \cup {0}, age : Nat, timeout : Nat, limit : Nat, bySlice : BOOLEAN]

(* Type correctness of the investigator's records and of the run's position. *)
InvestigatorTypeOK ==
    /\ bind \in [Targets -> Bindings] /\ base \in [Targets -> Bindings]
    /\ pc \in {"idle", "next", "step", "call"}
    /\ cursor \in 0 .. NTargets /\ left \in 0 .. NTargets
    /\ sliceAge \in 0 .. Slice + Overrun
    /\ call \in Call
    /\ held \in [Keys -> Statement]
    /\ marks \in [Keys -> 0 .. NoMark] /\ newest \in [Keys -> 0 .. NoMark]
    /\ episodes \in [Targets -> Episode]
    /\ progress \in [Targets -> [key : EpisodeKeys, seq : Seq(Slots)]]
    /\ wake \in 0 .. Max({Poll, Backoff, Cooldown, MinRequeue})
    /\ stopping \in BOOLEAN /\ changes \in 0 .. MaxChanges /\ stops \in 0 .. MaxStops
    /\ window \in [Targets -> 0 .. Cooldown] /\ spent \in [Targets -> Nat]

(* One target never costs more than one episode's calls per cooldown,        *)
(* whatever happens in between: slices that end, repeated reconciles,        *)
(* identities that change, records that are pruned or purged (limits.go:     *)
(* "one target cannot spend more than one episode budget per 10s"). The      *)
(* bounded tables do not buy this by growing: evidence and episodes stay     *)
(* within their caps, and no record is given up inside its cooldown.         *)
CallBudget ==
    /\ \A u \in Targets : spent[u] <= MaxCalls
    /\ Cardinality({k \in Keys : held[k].kind # "none"}) <= MaxHeld
    /\ Cardinality(Resident(episodes)) <= MaxEpisodes

(* While a key is held its value is the newest ever accepted for it: no      *)
(* outage, late answer or replay brings back an older one.                   *)
NoFallback ==
    \A k \in Keys : held[k].kind = "value" => held[k].age <= newest[k]

(* An outage ends only by a value strictly newer than every value seen       *)
(* before it; a replay of the last value does not clear it.                  *)
OutageClearedByNews ==
    [][\A k \in Keys : held[k].kind = "unavailable" /\ held'[k].kind = "value"
                        => held'[k].age < newest[k]]_vars

(* Whatever is held, and so published at the end of a run, belongs to the    *)
(* exact identity and an authorized binding of the snapshot of that run.     *)
HeldAuthorized == {k \in Keys : held[k].kind # "none"} \subseteq Authorized(base)

(* Where a run stands: at a target it may query, with a place left in the    *)
(* slice; in the loop that target's episode is active, and what a call asks  *)
(* for is an authorized slot of it.                                          *)
RunInv ==
    /\ pc \in {"step", "call"} => left > 0 /\ Active(episodes[cursor])
    /\ pc # "idle" /\ left > 0 => cursor \in Queryable(base)
    /\ pc = "call" => call.slot \in base[cursor].slots

(* The call window of a target is as old as its episode, and what was spent  *)
(* in it is what the episode spent; an episode makes its first call at the   *)
(* instant it starts, before the slice can end.                              *)
FirstCallDue(u) == pc = "step" /\ cursor = u /\ ~SliceOver /\ episodes[u].age = 0 /\ window[u] = Cooldown
BudgetOf(u) ==
    /\ window[u] < Cooldown => episodes[u].state # "none" /\ episodes[u].age = window[u]
    /\ Active(episodes[u]) /\ episodes[u].calls = 0 => FirstCallDue(u)
    /\ Active(episodes[u]) /\ episodes[u].calls > 0 =>
           /\ episodes[u].age = window[u]
           /\ window[u] < Cooldown => spent[u] = episodes[u].calls
BudgetInv == \A u \in Targets : BudgetOf(u)

(* The mark of a key is the age of the newest value ever held for it, and    *)
(* that of the value while one is held; nothing held, no mark.               *)
EvidenceInv ==
    \A k \in Keys :
        /\ newest[k] = marks[k]
        /\ held[k].kind = "value" => held[k].age = marks[k]
        /\ held[k].kind = "none" => marks[k] = NoMark

(* The invariant that proves CallBudget, NoFallback and HeldAuthorized.      *)
InvestigatorInv ==
    /\ InvestigatorTypeOK /\ RunInv /\ BudgetInv /\ EvidenceInv
    /\ CallBudget /\ HeldAuthorized /\ IsFiniteSet({k \in Keys : held[k].kind # "none"})

(* With providers that answer in time, evidence is refreshed before it       *)
(* expires, in spite of cooldowns, slices and the calls of other targets     *)
(* (limits.go: "steady state never lapses into UNKNOWN").                    *)
RefreshedBeforeExpiry ==
    [][\A u \in Targets : \A s \in bind[u].slots :
         Current(bind, u, s) => Current(bind, u, s)']_vars

(* Slots that stay unavailable do not use up every budget: while its binding *)
(* stays, a slot without current evidence keeps being asked for, unless one  *)
(* that decides more candidates keeps being without current evidence too;    *)
(* slots that decide equally many take turns across episodes.                *)
AskingFor(u, s) == pc = "call" /\ cursor = u /\ call.slot = s
Wanting(u, s) == u \in Queryable(bind) /\ s \in bind[u].slots /\ ~Current(bind, u, s)
EverySlotAsked ==
    \A u \in Targets, s \in Slots :
        []<>(\/ ~Wanting(u, s) \/ AskingFor(u, s)
            \/ \E t \in Slots : Weight[t] > Weight[s] /\ Wanting(u, t))

(* Always-failing slots cannot starve the rest, whatever they decide         *)
(* (docs/operational-evidence.md).                                           *)
NoSlotStarved ==
    \A u \in Targets, s \in Slots : []<>(~Wanting(u, s) \/ AskingFor(u, s))

(* Slow targets do not use up every slice: while its binding stays, a target *)
(* keeps its evidence current or keeps getting answers that are recorded,    *)
(* not only calls the end of a slice cuts off.                               *)
EveryTargetAnswered ==
    \A u \in Targets :
        \/ []<>(u \notin Queryable(bind) \/ \A s \in bind[u].slots : Current(bind, u, s))
        \/ []<><<pc = "call" /\ cursor = u /\ pc' = "step">>_vars
=============================================================================
