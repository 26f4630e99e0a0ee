------------------------ MODULE InvestigatorProofs ------------------------
(***************************************************************************)
(* Proofs about the investigator: its inductive invariant, and from it the *)
(* call budget, that nothing older or unauthorized is held, and that only  *)
(* news ends an outage.                                                    *)
(***************************************************************************)
EXTENDS Investigator, Extrema, SequenceTheorems

-----------------------------------------------------------------------------
(* The constants, and what the helpers of the model return.                 *)

(* The bounds of the code are numbers.                                      *)
LEMMA Numbers ==
    /\ NTargets \in Nat /\ MaxCalls \in Nat /\ MaxSteps \in Nat /\ Deadline \in Nat
    /\ CallTimeout \in Nat /\ Cooldown \in Nat /\ Slice \in Nat /\ MaxEpisodes \in Nat
    /\ MaxHeld \in Nat /\ MaxAge \in Nat /\ Margin \in Nat /\ Poll \in Nat
    /\ MinRequeue \in Nat /\ Backoff \in Nat /\ Slowest \in Nat /\ Overrun \in Nat
    /\ MaxChanges \in Nat /\ MaxStops \in Nat /\ Deadline <= Cooldown /\ Margin <= MaxAge
  BY InvestigatorAssumption

(* The longest wait is the longest of four.                                 *)
LEMMA LongestWait ==
    /\ Max({Poll, Backoff, Cooldown, MinRequeue}) \in Nat
    /\ \A n \in {Poll, Backoff, Cooldown, MinRequeue} : n <= Max({Poll, Backoff, Cooldown, MinRequeue})
  <1> DEFINE T == {Poll, Backoff, Cooldown, MinRequeue}
  <1>1. T \in SUBSET Nat /\ T # {}
    BY Numbers
  <1>2. IsFiniteSet(T)
    <2>1. IsFiniteSet({Poll})
      BY FS_Singleton
    <2>2. IsFiniteSet({Poll} \cup {Backoff})
      BY <2>1, FS_AddElement
    <2>3. IsFiniteSet(({Poll} \cup {Backoff}) \cup {Cooldown})
      BY <2>2, FS_AddElement
    <2>4. IsFiniteSet((({Poll} \cup {Backoff}) \cup {Cooldown}) \cup {MinRequeue})
      BY <2>3, FS_AddElement
    <2>5. T = (({Poll} \cup {Backoff}) \cup {Cooldown}) \cup {MinRequeue}
      OBVIOUS
    <2> QED
      BY <2>4, <2>5
  <1>3. Max(T) \in T /\ \A n \in T : n <= Max(T)
    <2> HIDE DEF T
    <2> QED
      BY <1>1, <1>2, MaxGreatest, Zenon
  <1> QED
    BY <1>1, <1>3

(* The age cap lies beyond the currentness bound and every stamp.           *)
LEMMA Capped ==
    /\ AgeCap \in Nat /\ NoMark = AgeCap
    /\ MaxAge < AgeCap /\ \A stamp \in Stamps : stamp < AgeCap
  <1> DEFINE T == Stamps \cup {MaxAge}
  <1>1. T \in SUBSET Nat /\ T # {}
    BY InvestigatorAssumption
  <1>2. IsFiniteSet(T)
    BY InvestigatorAssumption, FS_AddElement
  <1>3. Max(T) \in T /\ \A n \in T : n <= Max(T)
    BY <1>1, <1>2, MaxGreatest, Zenon
  <1> QED
    BY <1>1, <1>3 DEF AgeCap, NoMark

(* A set of targets is finite and no larger than the set of all targets.     *)
LEMMA TargetSets ==
    ASSUME NEW Q \in SUBSET Targets
    PROVE  IsFiniteSet(Q) /\ Cardinality(Q) \in 0 .. NTargets
  <1>1. IsFiniteSet(Targets) /\ Cardinality(Targets) = NTargets
    BY FS_Interval, InvestigatorAssumption DEF Targets
  <1>2. IsFiniteSet(Q) /\ Cardinality(Q) <= Cardinality(Targets)
    BY <1>1, FS_Subset
  <1> QED
    BY <1>1, <1>2, FS_CardinalityType, InvestigatorAssumption

(* The target after c, wrapping, is one of those there are.                 *)
LEMMA StartsIn ==
    ASSUME NEW Q \in SUBSET Targets, Q # {}, NEW c \in Nat
    PROVE  StartAt(c, Q) \in Q
  <1>1. Q \in SUBSET Nat
    BY DEF Targets
  <1>2. Min(Q) \in Q
    BY <1>1, MinLeast, Zenon
  <1>3. (\E u \in Q : u >= c) => Min({u \in Q : u >= c}) \in Q
    <2> DEFINE T == {u \in Q : u >= c}
    <2>1. SUFFICES ASSUME \E u \in Q : u >= c PROVE Min(T) \in Q
      OBVIOUS
    <2>2. T \in SUBSET Nat /\ T # {}
      BY <1>1, <2>1
    <2>3. Min(T) \in T
      BY <2>2, MinLeast, Zenon
    <2> QED
      BY <2>3
  <1> QED
    BY <1>2, <1>3 DEF StartAt

(* The slot dispatched least recently, the first by name of those, is one    *)
(* of the slots there are.                                                   *)
LEMMA FirstIn ==
    ASSUME NEW S \in SUBSET Slots, S # {}, NEW seq \in Seq(Slots)
    PROVE  FirstOf(seq, S) \in S
  <1>1. S \in SUBSET Nat
    BY InvestigatorAssumption
  <1>2. \A s \in S : Rank(seq, s) \in Nat
    BY DEF Rank, Contains
  <1>3. PICK r \in {Rank(seq, s) : s \in S} : \A q \in {Rank(seq, s) : s \in S} : r <= q
    <2>1. {Rank(seq, s) : s \in S} \in SUBSET Nat /\ {Rank(seq, s) : s \in S} # {}
      BY <1>2
    <2> QED
      BY <2>1, Least, Zenon
  <1> DEFINE T == {s \in S : Rank(seq, s) = r}
  <1>4. PICK m \in T : \A n \in T : m <= n
    <2>1. T \in SUBSET Nat /\ T # {}
      BY <1>1, <1>3
    <2> QED
      BY <2>1, Least, Zenon
  <1>5. \A t \in S : Before(seq, m, t)
    <2> TAKE t \in S
    <2>1. Rank(seq, m) = r /\ m \in Nat /\ t \in Nat /\ r \in Nat
      BY <1>1, <1>2, <1>3, <1>4
    <2>2. Rank(seq, t) \in Nat /\ r <= Rank(seq, t)
      BY <1>2, <1>3
    <2>3. Rank(seq, t) = r => m <= t
      BY <1>4
    <2> QED
      BY <2>1, <2>2, <2>3 DEF Before
  <1> QED
    BY <1>4, <1>5 DEF FirstOf

(* What is selected for a target is a slot that is bound and was not asked   *)
(* for in this episode.                                                      *)
LEMMA SelectedIn ==
    ASSUME NEW u \in Targets, NEW sent \in SUBSET Slots, NEW seq \in Seq(Slots),
           base \in [Targets -> Bindings], SelectQuery(u, sent, seq).slot # 0
    PROVE  SelectQuery(u, sent, seq).slot \in base[u].slots \ sent
  <1> DEFINE open == Undecided(u, sent)
             best == {s \in open : \A t \in open : Weight[t] <= Weight[s]}
             due == RefreshDue(u, sent)
  <1>1. base[u].slots \subseteq Slots
    BY InvestigatorAssumption DEF BindingOK
  <1>2. open \in SUBSET (base[u].slots \ sent) /\ due \in SUBSET (base[u].slots \ sent)
    BY DEF Undecided, RefreshDue
  <1>3. open # {} => FirstOf(seq, best) \in open
    <2> HIDE DEF open
    <2>1. SUFFICES ASSUME open # {} PROVE FirstOf(seq, best) \in open
      OBVIOUS
    <2>2. open \in SUBSET Slots /\ IsFiniteSet(open)
      BY <1>1, <1>2, InvestigatorAssumption, FS_Subset
    <2> DEFINE w == [s \in open |-> Weight[s]]
    <2>3. w \in [open -> Nat]
      BY <2>2, InvestigatorAssumption
    <2>4. \E m \in open : \A n \in open : w[n] <= w[m]
      <3> HIDE DEF w
      <3> QED
        BY <2>1, <2>2, <2>3, Heaviest, Zenon
    <2>5. best \in SUBSET Slots /\ best # {}
      BY <2>2, <2>4
    <2>6. FirstOf(seq, best) \in best
      <3> HIDE DEF best
      <3> QED
        BY <2>5, FirstIn, Zenon
    <2> QED
      BY <2>6
  <1>4. due # {} => FirstOf(seq, due) \in due
    <2>1. due \in SUBSET Slots
      BY <1>1, <1>2
    <2> HIDE DEF due
    <2> QED
      BY <2>1, FirstIn, Zenon
  <1>5. SelectQuery(u, sent, seq).slot =
           IF open # {} THEN FirstOf(seq, best) ELSE IF due # {} THEN FirstOf(seq, due) ELSE 0
    <2> HIDE DEF due, open
    <2>1. SelectQuery(u, sent, seq) =
            CASE open # {} -> [slot |-> FirstOf(seq, best), class |-> "investigate"]
              [] open = {} /\ due # {} -> [slot |-> FirstOf(seq, due), class |-> "refresh"]
              [] OTHER -> [slot |-> 0, class |-> "investigate"]
      BY DEF SelectQuery, open, due
    <2> HIDE DEF best
    <2> QED
      BY <2>1
  <1> HIDE DEF open, best, due
  <1> QED
    BY <1>2, <1>3, <1>4, <1>5

(* What is selected is an investigation or a refresh.                        *)
LEMMA SelectedClass ==
    ASSUME NEW u, NEW sent, NEW seq
    PROVE  SelectQuery(u, sent, seq).class \in {"investigate", "refresh"}
  BY DEF SelectQuery

-----------------------------------------------------------------------------
(* The parts of the invariant that few actions disturb.                     *)

HeldKeys == {k \in Keys : held[k].kind # "none"}

(* What is held is authorized, and within the cap.                          *)
HeldInv == HeldAuthorized /\ IsFiniteSet(HeldKeys) /\ Cardinality(HeldKeys) <= MaxHeld
SpentInv == \A u \in Targets : spent[u] <= MaxCalls
TableInv == Cardinality(Resident(episodes)) <= MaxEpisodes

(* The inductive invariant, in the parts the proofs treat one by one.       *)
LEMMA InvParts ==
    InvestigatorInv <=>
        /\ InvestigatorTypeOK /\ RunInv /\ BudgetInv /\ EvidenceInv
        /\ HeldInv /\ SpentInv /\ TableInv
  BY DEF InvestigatorInv, CallBudget, HeldInv, SpentInv, TableInv, HeldKeys

(* A step that neither touches the evidence nor the snapshot keeps what is   *)
(* said of them.                                                             *)
LEMMA QuietEvidence ==
    ASSUME EvidenceInv, HeldInv, UNCHANGED <<held, marks, newest, base>>
    PROVE  EvidenceInv' /\ HeldInv'
  <1>1. EvidenceInv'
    BY DEF EvidenceInv
  <1>2. HeldAuthorized'
    BY DEF HeldInv, HeldAuthorized, Authorized, Queryable, Requested, Key
  <1>3. HeldKeys' = HeldKeys
    BY DEF HeldKeys
  <1> QED
    BY <1>1, <1>2, <1>3 DEF HeldInv

(* A step that adds no episode to the table keeps it within its cap.         *)
LEMMA QuietTable ==
    ASSUME TableInv, \A u \in Targets : episodes'[u].state # "none" => episodes[u].state # "none"
    PROVE  TableInv'
  <1>1. Resident(episodes) \in SUBSET Targets /\ Resident(episodes)' \in SUBSET Resident(episodes)
    BY DEF Resident
  <1>2. IsFiniteSet(Resident(episodes)) /\ Cardinality(Resident(episodes)) \in Nat
    BY <1>1, TargetSets
  <1>3. /\ Cardinality(Resident(episodes)') <= Cardinality(Resident(episodes))
        /\ Cardinality(Resident(episodes)') \in Nat
    BY <1>1, <1>2, FS_Subset, FS_CardinalityType
  <1>4. MaxEpisodes \in Nat
    BY InvestigatorAssumption
  <1> QED
    BY <1>2, <1>3, <1>4 DEF TableInv

(* The records of episodes and their keys.                                  *)
LEMMA EpisodeTypes ==
    /\ NoEpisode \in Episode
    /\ \A e \in Episode, state \in EpisodeStates :
          /\ End(e, state) \in Episode /\ End(e, state).state = state
          /\ End(e, state).age = e.age /\ End(e, state).calls = 0
    /\ \A b \in Bindings : EpisodeKey(b) \in EpisodeKeys
  <1>1. MaxCalls \in Nat /\ Cooldown \in Nat
    BY InvestigatorAssumption
  <1>2. NoEpisode \in Episode
    BY <1>1 DEF NoEpisode, Episode, EpisodeStates, EpisodeKeys
  <1>3. ASSUME NEW e \in Episode, NEW state \in EpisodeStates
        PROVE  /\ End(e, state) \in Episode /\ End(e, state).state = state
               /\ End(e, state).age = e.age /\ End(e, state).calls = 0
    <2>1. 0 \in 0 .. MaxCalls /\ {} \in SUBSET Slots
      BY <1>1
    <2>2. End(e, state).state = state /\ End(e, state).age = e.age /\ End(e, state).calls = 0
      BY DEF Episode, End
    <2>3. End(e, state) \in Episode
      BY <2>1 DEF Episode, End
    <2> QED
      BY <2>2, <2>3
  <1>4. ASSUME NEW b \in Bindings
        PROVE  EpisodeKey(b) \in EpisodeKeys
    BY InvestigatorAssumption DEF EpisodeKeys, EpisodeKey, Ids, BindingOK
  <1> QED
    BY <1>2, <1>3, <1>4

(* Every initial state satisfies the invariant.                             *)
LEMMA InitInv == Init => InvestigatorInv
  <1> SUFFICES ASSUME Init PROVE InvestigatorInv
    OBVIOUS
  <1>1. InvestigatorTypeOK
    <2>1. 0 \in 0 .. Max({Poll, Backoff, Cooldown, MinRequeue})
      BY LongestWait
    <2>2. held \in [Keys -> Statement] /\ marks \in [Keys -> 0 .. NoMark] /\ newest \in [Keys -> 0 .. NoMark]
      BY Capped DEF Init, Statement, NoneHeld
    <2>3. episodes \in [Targets -> Episode]
      BY EpisodeTypes DEF Init
    <2>4. progress \in [Targets -> [key : EpisodeKeys, seq : Seq(Slots)]]
      BY DEF Init, NoProgress, EpisodeKeys
    <2>5. call \in Call
      BY DEF Init, NoCall, Call
    <2>6. bind \in [Targets -> Bindings] /\ base \in [Targets -> Bindings]
      BY InvestigatorAssumption DEF Init
    <2>7. /\ 0 \in 0 .. NTargets /\ 0 \in 0 .. Slice + Overrun
          /\ 0 \in 0 .. MaxChanges /\ 0 \in 0 .. MaxStops
          /\ window \in [Targets -> 0 .. Cooldown] /\ spent \in [Targets -> Nat]
      BY Numbers DEF Init
    <2> QED
      BY <2>1, <2>2, <2>3, <2>4, <2>5, <2>6, <2>7 DEF Init, InvestigatorTypeOK
  <1>2. RunInv
    BY DEF Init, RunInv
  <1>3. BudgetInv
    BY InvestigatorAssumption, SMTT(30) DEF Init, BudgetInv, BudgetOf, NoEpisode, Active
  <1>4. EvidenceInv
    BY DEF Init, EvidenceInv, NoneHeld
  <1>5. HeldInv
    <2>1. HeldKeys = {}
      BY DEF Init, HeldKeys, NoneHeld
    <2>2. HeldAuthorized
      BY <2>1 DEF HeldAuthorized, HeldKeys
    <2>3. IsFiniteSet(HeldKeys) /\ Cardinality(HeldKeys) = 0
      BY <2>1, FS_EmptySet
    <2>4. 0 <= MaxHeld
      BY Numbers
    <2> QED
      BY <2>2, <2>3, <2>4 DEF HeldInv
  <1>6. SpentInv
    BY InvestigatorAssumption DEF Init, SpentInv
  <1>7. TableInv
    <2>1. Resident(episodes) = {}
      BY DEF Init, Resident, NoEpisode
    <2> QED
      BY <2>1, FS_EmptySet, InvestigatorAssumption DEF TableInv
  <1> QED
    BY <1>1, <1>2, <1>3, <1>4, <1>5, <1>6, <1>7, InvParts

-----------------------------------------------------------------------------
(* Steps that leave a target.                                               *)

(* An episode stays as it is (and then has made its first call), ends with   *)
(* its age, or is dropped once its cooldown is over.                         *)
Fades(v) ==
    \/ episodes'[v] = episodes[v] /\ (Active(episodes[v]) => episodes[v].calls > 0)
    \/ /\ ~Active(episodes'[v]) /\ episodes'[v].age = episodes[v].age
       /\ episodes'[v].state # "none" /\ episodes[v].state # "none"
    \/ episodes'[v] = NoEpisode /\ Cooled(episodes[v])

(* An episode that fades while its target is not called keeps the account    *)
(* of its budget.                                                            *)
LEMMA FadingAt ==
    ASSUME InvestigatorTypeOK, BudgetInv, NEW v \in Targets, Fades(v),
           window'[v] = window[v], spent'[v] = spent[v]
    PROVE  BudgetOf(v)'
  <1> SUFFICES /\ window[v] < Cooldown => episodes'[v].state # "none" /\ episodes'[v].age = window[v]
               /\ ~(Active(episodes'[v]) /\ episodes'[v].calls = 0)
               /\ Active(episodes'[v]) /\ episodes'[v].calls > 0 =>
                     /\ episodes'[v].age = window[v]
                     /\ window[v] < Cooldown => spent[v] = episodes'[v].calls
    BY DEF BudgetOf, Active
  <1>1. window[v] \in Nat /\ episodes[v].age \in Nat /\ episodes[v].calls \in Nat /\ Cooldown \in Nat
    BY Numbers, SMTT(30) DEF InvestigatorTypeOK, Episode
  <1>2. CASE episodes'[v] = episodes[v] /\ (Active(episodes[v]) => episodes[v].calls > 0)
    BY <1>1, <1>2 DEF BudgetInv, BudgetOf, Active
  <1>3. CASE /\ ~Active(episodes'[v]) /\ episodes'[v].age = episodes[v].age
             /\ episodes'[v].state # "none" /\ episodes[v].state # "none"
    BY <1>1, <1>3 DEF BudgetInv, BudgetOf
  <1>4. CASE episodes'[v] = NoEpisode /\ Cooled(episodes[v])
    BY <1>1, <1>4 DEF BudgetInv, BudgetOf, Cooled, NoEpisode, Active
  <1> QED
    BY <1>2, <1>3, <1>4 DEF Fades

(* While no call is made, episodes that only fade keep all accounts.        *)
LEMMA Fading ==
    ASSUME InvestigatorTypeOK, BudgetInv, UNCHANGED <<window, spent>>,
           \A v \in Targets : Fades(v)
    PROVE  BudgetInv'
  <1>1. ASSUME NEW v \in Targets PROVE BudgetOf(v)'
    BY FadingAt
  <1> QED
    BY <1>1 DEF BudgetInv

(* Leaving a target, the run goes on to one it may query, or is over.        *)
LEMMA Leaving ==
    ASSUME InvestigatorTypeOK, left > 0, cursor \in Queryable(base), Leave, base' = base
    PROVE  /\ pc' = "next" /\ left' \in 0 .. NTargets /\ cursor' \in 0 .. NTargets
           /\ sliceAge' = sliceAge /\ wake' = wake
           /\ left' > 0 => cursor' \in Queryable(base)'
  <1>1. left \in Nat /\ left <= NTargets /\ cursor \in Nat /\ NTargets \in Nat
    BY Numbers DEF InvestigatorTypeOK
  <1>2. Queryable(base) \in SUBSET Targets /\ Queryable(base) # {}
    BY DEF Queryable, Requested
  <1>3. StartAt(cursor + 1, Queryable(base)) \in Queryable(base)
    BY <1>1, <1>2, StartsIn
  <1>4. Queryable(base)' = Queryable(base)
    BY DEF Queryable, Requested
  <1> QED
    BY <1>1, <1>2, <1>3, <1>4 DEF Leave, Targets

(* A step that leaves a target, changes no evidence and lets episodes fade   *)
(* keeps the invariant.                                                      *)
LEMMA LeaveInv ==
    ASSUME InvestigatorInv, left > 0, cursor \in Queryable(base), Leave,
           UNCHANGED <<held, marks, newest, base, world, window, spent>>,
           episodes' \in [Targets -> Episode], \A v \in Targets : Fades(v),
           call' \in Call, progress' \in [Targets -> [key : EpisodeKeys, seq : Seq(Slots)]]
    PROVE  InvestigatorInv'
  <1>1. /\ InvestigatorTypeOK /\ RunInv /\ BudgetInv /\ EvidenceInv
        /\ HeldInv /\ SpentInv /\ TableInv
    BY InvParts
  <1>2. /\ pc' = "next" /\ left' \in 0 .. NTargets /\ cursor' \in 0 .. NTargets
        /\ sliceAge' = sliceAge /\ wake' = wake
        /\ left' > 0 => cursor' \in Queryable(base)'
    BY <1>1, Leaving
  <1>3. InvestigatorTypeOK'
    BY <1>1, <1>2 DEF InvestigatorTypeOK, world
  <1>4. RunInv'
    BY <1>2 DEF RunInv
  <1>5. BudgetInv'
    BY <1>1, Fading
  <1>6. EvidenceInv' /\ HeldInv'
    BY <1>1, QuietEvidence
  <1>7. SpentInv'
    BY <1>1 DEF SpentInv
  <1>8. TableInv'
    BY <1>1, QuietTable DEF Fades, NoEpisode
  <1> QED
    BY <1>3, <1>4, <1>5, <1>6, <1>7, <1>8, InvParts, PTL

(* Outside the loop every active episode has made its first call, and in it  *)
(* every one but the one the run is at.                                      *)
LEMMA FirstCallMade ==
    ASSUME InvestigatorTypeOK, BudgetInv, NEW v \in Targets, Active(episodes[v]),
           pc # "step" \/ cursor # v \/ SliceOver
    PROVE  episodes[v].calls > 0
  BY DEF BudgetInv, BudgetOf, InvestigatorTypeOK, Episode, FirstCallDue

(* A target that does not start an episode is passed over.                  *)
LEMMA NotAdmittedInv ==
    ASSUME InvestigatorInv, NEW u \in Targets, NotAdmitted(u)
    PROVE  InvestigatorInv'
  <1>1. InvestigatorTypeOK /\ RunInv /\ BudgetInv
    BY DEF InvestigatorInv
  <1>2. pc = "next" /\ left > 0 /\ cursor = u
    BY DEF NotAdmitted, At
  <1>3. cursor \in Queryable(base)
    BY <1>1, <1>2 DEF RunInv
  <1>4. Superseding(u) \in Episode
    BY <1>1, EpisodeTypes DEF Superseding, InvestigatorTypeOK, EpisodeStates
  <1>5. episodes' = [episodes EXCEPT ![u] = Superseding(u)]
    BY DEF NotAdmitted
  <1>6. episodes' \in [Targets -> Episode]
    BY <1>1, <1>4, <1>5 DEF InvestigatorTypeOK
  <1>7. ASSUME NEW v \in Targets PROVE Fades(v)
    <2>1. Active(episodes[v]) => episodes[v].calls > 0
      BY <1>1, <1>2, FirstCallMade
    <2>2. CASE episodes'[v] = episodes[v]
      BY <2>1, <2>2 DEF Fades
    <2>3. CASE episodes'[v] # episodes[v]
      <3>1. /\ v = u /\ Active(episodes[u]) /\ episodes'[u] = End(episodes[u], "Superseded")
            /\ episodes[u] \in Episode
        BY <2>3, <1>1, <1>5 DEF InvestigatorTypeOK, Superseding
      <3> QED
        BY <3>1, EpisodeTypes DEF Fades, Active, EpisodeStates
    <2> QED
      BY <2>2, <2>3
  <1>8. /\ Leave /\ UNCHANGED <<held, marks, newest, base, world, window, spent>>
        /\ call' = call /\ progress' = progress
    BY DEF NotAdmitted, evidence, history
  <1>9. call' \in Call /\ progress' \in [Targets -> [key : EpisodeKeys, seq : Seq(Slots)]]
    BY <1>1, <1>8 DEF InvestigatorTypeOK
  <1> QED
    BY <1>2, <1>3, <1>6, <1>7, <1>8, <1>9, LeaveInv

(* The table an admission works on: as it is, or without the episodes whose  *)
(* cooldown is over.                                                         *)
LEMMA Tables ==
    ASSUME InvestigatorTypeOK, NEW u \in Targets
    PROVE  /\ Table(u) \in [Targets -> Episode]
           /\ PrunedProgress(u) \in [Targets -> [key : EpisodeKeys, seq : Seq(Slots)]]
           /\ \A v \in Targets :
                 \/ Table(u)[v] = episodes[v]
                 \/ Table(u)[v] = NoEpisode /\ Cooled(episodes[v]) /\ ~Active(episodes[v])
           /\ episodes[u].state # "none" => Table(u) = episodes
  <1>1. Prune(episodes) \in [Targets -> Episode]
    BY EpisodeTypes DEF Prune, InvestigatorTypeOK
  <1>2. Table(u) \in [Targets -> Episode]
    BY <1>1 DEF Table, InvestigatorTypeOK
  <1>3. NoProgress \in [key : EpisodeKeys, seq : Seq(Slots)]
    BY DEF NoProgress, EpisodeKeys
  <1>4. PrunedProgress(u) \in [Targets -> [key : EpisodeKeys, seq : Seq(Slots)]]
    BY <1>3 DEF PrunedProgress, InvestigatorTypeOK
  <1>5. \A v \in Targets :
           \/ Table(u)[v] = episodes[v]
           \/ Table(u)[v] = NoEpisode /\ Cooled(episodes[v]) /\ ~Active(episodes[v])
    BY DEF Table, Prune
  <1>6. episodes[u].state # "none" => Table(u) = episodes
    BY DEF Table
  <1> QED
    BY <1>2, <1>4, <1>5, <1>6

(* A target that finds the table full is passed over.                       *)
LEMMA NoRoomInv ==
    ASSUME InvestigatorInv, NEW u \in Targets, NoRoom(u)
    PROVE  InvestigatorInv'
  <1>1. InvestigatorTypeOK /\ RunInv /\ BudgetInv
    BY DEF InvestigatorInv
  <1>2. pc = "next" /\ left > 0 /\ cursor = u
    BY DEF NoRoom, Admissible, At
  <1>3. cursor \in Queryable(base)
    BY <1>1, <1>2 DEF RunInv
  <1>4. /\ episodes' = Table(u) /\ progress' = PrunedProgress(u) /\ call' = call
        /\ Leave /\ UNCHANGED <<held, marks, newest, base, world, window, spent>>
    BY DEF NoRoom, evidence, history
  <1>5. /\ episodes' \in [Targets -> Episode]
        /\ progress' \in [Targets -> [key : EpisodeKeys, seq : Seq(Slots)]]
        /\ call' \in Call
    BY <1>1, <1>4, Tables DEF InvestigatorTypeOK
  <1>6. ASSUME NEW v \in Targets PROVE Fades(v)
    <2>1. Active(episodes[v]) => episodes[v].calls > 0
      BY <1>1, <1>2, FirstCallMade
    <2> QED
      BY <2>1, <1>1, <1>4, Tables DEF Fades
  <1> QED
    BY <1>2, <1>3, <1>4, <1>5, <1>6, LeaveInv

(* An episode that ends at its target leaves the others alone.              *)
LEMMA EndedFades ==
    ASSUME InvestigatorTypeOK, RunInv, BudgetInv, NEW u \in Targets, cursor = u, pc \in {"step", "call"},
           NEW state \in EpisodeStates, state \notin {"none", "Active"},
           episodes' = [episodes EXCEPT ![u] = End(@, state)]
    PROVE  episodes' \in [Targets -> Episode] /\ \A v \in Targets : Fades(v)
  <1>1. episodes[u] \in Episode /\ Active(episodes[u])
    BY DEF InvestigatorTypeOK, RunInv
  <1>2. episodes' \in [Targets -> Episode]
    BY <1>1, EpisodeTypes DEF InvestigatorTypeOK
  <1>3. ASSUME NEW v \in Targets PROVE Fades(v)
    <2>1. CASE v = u
      <3>1. episodes'[v] = End(episodes[u], state)
        BY <2>1 DEF InvestigatorTypeOK
      <3> QED
        BY <2>1, <3>1, <1>1, EpisodeTypes DEF Fades, Active
    <2>2. CASE v # u
      <3>1. Active(episodes[v]) => episodes[v].calls > 0
        BY <2>2, FirstCallMade
      <3>2. episodes'[v] = episodes[v]
        BY <2>2 DEF InvestigatorTypeOK
      <3> QED
        BY <3>1, <3>2 DEF Fades
    <2> QED
      BY <2>1, <2>2
  <1> QED
    BY <1>2, <1>3

(* Every ending of an episode is an end.                                    *)
LEMMA EndingStates ==
    ASSUME NEW u
    PROVE  Endings(u) \subseteq EpisodeStates \ {"none", "Active"}
  BY DEF Endings, EpisodeStates

(* An episode ends between two calls.                                       *)
LEMMA EndEpisodeInv ==
    ASSUME InvestigatorInv, NEW u \in Targets, EndEpisode(u)
    PROVE  InvestigatorInv'
  <1>1. InvestigatorTypeOK /\ RunInv /\ BudgetInv
    BY DEF InvestigatorInv
  <1>2. pc = "step" /\ cursor = u
    BY DEF EndEpisode, InLoop
  <1>3. left > 0 /\ cursor \in Queryable(base)
    BY <1>1, <1>2 DEF RunInv
  <1>4. /\ Leave /\ UNCHANGED <<held, marks, newest, base, world, window, spent>>
        /\ call' = call /\ progress' = progress
    BY DEF EndEpisode, evidence, history
  <1>5. PICK state \in Endings(u) : episodes' = [episodes EXCEPT ![u] = End(@, state)]
    BY DEF EndEpisode
  <1>6. episodes' \in [Targets -> Episode] /\ \A v \in Targets : Fades(v)
    <2>1. state \in EpisodeStates /\ state \notin {"none", "Active"}
      BY EndingStates
    <2> QED
      BY <2>1, <1>1, <1>2, <1>5, EndedFades
  <1>7. call' \in Call /\ progress' \in [Targets -> [key : EpisodeKeys, seq : Seq(Slots)]]
    BY <1>1, <1>4 DEF InvestigatorTypeOK
  <1> QED
    BY <1>3, <1>4, <1>6, <1>7, LeaveInv

(* A run is interrupted between two calls, or the end of its slice cuts off  *)
(* a call: the episode stays, and it has made its first call.                *)
LEMMA InterruptInv ==
    ASSUME InvestigatorInv, NEW u \in Targets, Interrupt(u) \/ DiscardOnSliceEnd(u)
    PROVE  InvestigatorInv'
  <1>1. InvestigatorTypeOK /\ RunInv /\ BudgetInv
    BY DEF InvestigatorInv
  <1>2. pc \in {"step", "call"} /\ cursor = u /\ (pc = "call" \/ SliceOver)
    BY DEF Interrupt, InLoop, SliceFirst, DiscardOnSliceEnd, Calling
  <1>3. left > 0 /\ cursor \in Queryable(base)
    BY <1>1, <1>2 DEF RunInv
  <1>4. /\ Leave /\ UNCHANGED <<held, marks, newest, base, world, window, spent>>
        /\ episodes' = episodes /\ progress' = progress /\ call' \in {call, NoCall}
    BY DEF Interrupt, DiscardOnSliceEnd, evidence, history
  <1>5. /\ call' \in Call /\ progress' \in [Targets -> [key : EpisodeKeys, seq : Seq(Slots)]]
        /\ episodes' \in [Targets -> Episode]
    <2>1. NoCall \in Call
      BY DEF Call, NoCall
    <2> QED
      BY <2>1, <1>1, <1>4 DEF InvestigatorTypeOK
  <1>6. ASSUME NEW v \in Targets PROVE Fades(v)
    <2>1. Active(episodes[v]) => episodes[v].calls > 0
      BY <1>1, <1>2, FirstCallMade
    <2> QED
      BY <2>1, <1>4 DEF Fades
  <1> QED
    BY <1>3, <1>4, <1>5, <1>6, LeaveInv

(* At shutdown the answer of a call is discarded and its episode cancelled.  *)
LEMMA DiscardInv ==
    ASSUME InvestigatorInv, NEW u \in Targets, DiscardOnStop(u)
    PROVE  InvestigatorInv'
  <1>1. InvestigatorTypeOK /\ RunInv /\ BudgetInv
    BY DEF InvestigatorInv
  <1>2. pc = "call" /\ cursor = u
    BY DEF DiscardOnStop, Calling
  <1>3. left > 0 /\ cursor \in Queryable(base)
    BY <1>1, <1>2 DEF RunInv
  <1>4. /\ Leave /\ UNCHANGED <<held, marks, newest, base, world, window, spent>>
        /\ episodes' = [episodes EXCEPT ![u] = End(@, "Cancelled")]
        /\ progress' = progress /\ call' = NoCall
    BY DEF DiscardOnStop, evidence, history
  <1>5. call' \in Call /\ progress' \in [Targets -> [key : EpisodeKeys, seq : Seq(Slots)]]
    BY <1>1, <1>4 DEF InvestigatorTypeOK, Call, NoCall
  <1>6. episodes' \in [Targets -> Episode] /\ \A v \in Targets : Fades(v)
    <2>1. "Cancelled" \in EpisodeStates
      BY DEF EpisodeStates
    <2> QED
      BY <2>1, <1>1, <1>2, <1>4, EndedFades
  <1> QED
    BY <1>3, <1>4, <1>5, <1>6, LeaveInv

-----------------------------------------------------------------------------
(* The start of a run, of an episode and of a call.                         *)

(* A run purges what is no longer authorized and starts at a target it may   *)
(* query.                                                                    *)
LEMMA ReconcileInv ==
    ASSUME InvestigatorInv, Reconcile
    PROVE  InvestigatorInv'
  <1>1. /\ InvestigatorTypeOK /\ RunInv /\ BudgetInv /\ EvidenceInv
        /\ HeldInv /\ SpentInv /\ TableInv
    BY InvParts
  <1> DEFINE Q == Queryable(bind)
  <1>2. Q \in SUBSET Targets
    BY DEF Queryable, Requested
  <1>3. pc = "idle" /\ base' = bind /\ UNCHANGED <<call, wake, world, window, spent>>
    BY DEF Reconcile
  <1>4. IsFiniteSet(Q) /\ Cardinality(Q) \in 0 .. NTargets
    <2> HIDE DEF Q
    <2> QED
      BY <1>2, TargetSets
  <1>5. pc' = "next" /\ left' = Cardinality(Q) /\ cursor' = FirstTarget(Q) /\ sliceAge' = 0
    BY DEF Reconcile
  <1>6. /\ cursor' \in 0 .. NTargets
        /\ left' > 0 => cursor' \in Queryable(base)'
    <2>1. CASE Q = {}
      <3>1. Cardinality(Q) = 0
        BY <2>1, FS_EmptySet
      <3> QED
        BY <3>1, <2>1, <1>5, Numbers DEF FirstTarget
    <2>2. CASE Q # {}
      <3>1. cursor \in Nat
        BY Numbers, <1>1 DEF InvestigatorTypeOK
      <3>2. StartAt(cursor, Q) \in Q
        <4> HIDE DEF Q
        <4> QED
          BY <1>2, <2>2, <3>1, StartsIn
      <3>3. cursor' \in Q
        BY <2>2, <3>2, <1>5 DEF FirstTarget
      <3>4. Queryable(base)' = Q
        BY <1>3 DEF Queryable, Requested
      <3> QED
        BY <1>2, <3>3, <3>4, Numbers DEF Targets
    <2> QED
      BY <2>1, <2>2
  <1>7. episodes' = [u \in Targets |-> PurgedEpisode(bind, u)]
    BY DEF Reconcile
  <1>8. ASSUME NEW v \in Targets
        PROVE  PurgedEpisode(bind, v) \in Episode /\ Fades(v)
    <2>1. episodes[v] \in Episode
      BY <1>1 DEF InvestigatorTypeOK
    <2>2. Active(episodes[v]) => episodes[v].calls > 0
      BY <1>1, <1>3, FirstCallMade
    <2>3. episodes'[v] = PurgedEpisode(bind, v)
      BY <1>7
    <2>4. CASE PurgedEpisode(bind, v) = episodes[v]
      BY <2>1, <2>2, <2>3, <2>4 DEF Fades
    <2>5. CASE PurgedEpisode(bind, v) = NoEpisode /\ Cooled(episodes[v])
      BY <2>3, <2>5, EpisodeTypes DEF Fades
    <2>6. CASE /\ Active(episodes[v])
               /\ \E state \in {"TargetInvalid", "Superseded"} :
                     PurgedEpisode(bind, v) = End(episodes[v], state)
      <3>1. PICK state \in {"TargetInvalid", "Superseded"} : PurgedEpisode(bind, v) = End(episodes[v], state)
        BY <2>6
      <3>2. state \in EpisodeStates
        BY DEF EpisodeStates
      <3> QED
        BY <2>1, <2>3, <2>6, <3>1, <3>2, EpisodeTypes DEF Fades, Active
    <2> QED
      BY <2>4, <2>5, <2>6 DEF PurgedEpisode
  <1>9. progress' \in [Targets -> [key : EpisodeKeys, seq : Seq(Slots)]]
    <2>1. NoProgress \in [key : EpisodeKeys, seq : Seq(Slots)]
      BY DEF NoProgress, EpisodeKeys
    <2> QED
      BY <2>1, <1>1 DEF Reconcile, InvestigatorTypeOK
  <1>10. /\ held' = [k \in Keys |-> IF k \in Authorized(bind) THEN held[k] ELSE NoneHeld]
         /\ marks' = [k \in Keys |-> IF k \in Authorized(bind) THEN marks[k] ELSE NoMark]
         /\ newest' = [k \in Keys |-> IF held'[k].kind = "none" THEN NoMark ELSE newest[k]]
    BY DEF Reconcile, PurgedEvidence
  <1>11. InvestigatorTypeOK'
    <2>1. NoneHeld \in Statement
      BY Capped DEF NoneHeld, Statement
    <2>2. NoMark \in 0 .. NoMark
      BY Capped
    <2>3. held' \in [Keys -> Statement]
      BY <2>1, <1>1, <1>10 DEF InvestigatorTypeOK
    <2>4. marks' \in [Keys -> 0 .. NoMark] /\ newest' \in [Keys -> 0 .. NoMark]
      BY <2>2, <1>1, <1>10 DEF InvestigatorTypeOK
    <2>5. episodes' \in [Targets -> Episode]
      BY <1>7, <1>8
    <2>6. left' \in 0 .. NTargets /\ sliceAge' \in 0 .. Slice + Overrun
      BY <1>4, <1>5, Numbers
    <2> QED
      BY <2>3, <2>4, <2>5, <2>6, <1>1, <1>3, <1>5, <1>6, <1>9 DEF InvestigatorTypeOK, world
  <1>12. RunInv'
    BY <1>5, <1>6 DEF RunInv
  <1>13. BudgetInv'
    BY <1>1, <1>3, <1>8, Fading
  <1>14. EvidenceInv'
    BY <1>1, <1>10 DEF EvidenceInv, NoneHeld
  <1>15. HeldInv'
    <2>1. HeldKeys' \in SUBSET HeldKeys
      BY <1>10 DEF HeldKeys, NoneHeld
    <2>2. IsFiniteSet(HeldKeys') /\ Cardinality(HeldKeys') <= Cardinality(HeldKeys)
      BY <2>1, <1>1, FS_Subset DEF HeldInv
    <2>3. Cardinality(HeldKeys') \in Nat /\ Cardinality(HeldKeys) \in Nat
      BY <2>2, <1>1, FS_CardinalityType DEF HeldInv
    <2>4. Cardinality(HeldKeys') <= MaxHeld
      BY <2>2, <2>3, <1>1, Numbers DEF HeldInv
    <2>5. Authorized(base)' = Authorized(bind)
      BY <1>3 DEF Authorized, Queryable, Requested, Key
    <2>6. HeldAuthorized'
      BY <2>5, <1>10 DEF HeldAuthorized, NoneHeld
    <2> QED
      BY <2>2, <2>4, <2>6 DEF HeldInv
  <1>16. SpentInv'
    BY <1>1, <1>3 DEF SpentInv
  <1>17. TableInv'
    BY <1>1, <1>8, QuietTable DEF Fades, NoEpisode
  <1> QED
    BY <1>11, <1>12, <1>13, <1>14, <1>15, <1>16, <1>17, InvParts, PTL

(* A run goes on with the episode a target has.                             *)
LEMMA ResumeInv ==
    ASSUME InvestigatorInv, NEW u \in Targets, Resume(u)
    PROVE  InvestigatorInv'
  <1>1. /\ InvestigatorTypeOK /\ RunInv /\ BudgetInv /\ EvidenceInv
        /\ HeldInv /\ SpentInv /\ TableInv
    BY InvParts
  <1>2. /\ pc = "next" /\ left > 0 /\ cursor = u /\ pc' = "step" /\ Active(episodes[u])
        /\ UNCHANGED <<cursor, left, sliceAge, call, wake, held, marks, episodes, progress, base,
                       world, window, spent, newest>>
    <2>1. "Superseded" # "Active"
      OBVIOUS
    <2>2. Active(Superseding(u)) => Active(episodes[u])
      BY EpisodeTypes, <1>1 DEF Superseding, Active, InvestigatorTypeOK, EpisodeStates
    <2> QED
      BY <2>2 DEF Resume, At, evidence, history
  <1>3. InvestigatorTypeOK'
    BY <1>1, <1>2 DEF InvestigatorTypeOK, world
  <1>4. RunInv'
    BY <1>1, <1>2 DEF RunInv, Active, Queryable, Requested
  <1>5. BudgetInv'
    <2>1. ASSUME NEW v \in Targets PROVE Fades(v)
      BY <1>1, <1>2, FirstCallMade DEF Fades
    <2> QED
      BY <2>1, <1>1, <1>2, Fading
  <1>6. EvidenceInv' /\ HeldInv'
    BY <1>1, <1>2, QuietEvidence
  <1>7. SpentInv' /\ TableInv'
    BY <1>1, <1>2 DEF SpentInv, TableInv, Resident
  <1> QED
    BY <1>3, <1>4, <1>5, <1>6, <1>7, InvParts, PTL

(* A target that starts an episode has none whose cooldown runs, so no call  *)
(* window is open; its record takes a free place in the table or its own.    *)
LEMMA StartEpisodeInv ==
    ASSUME InvestigatorInv, NEW u \in Targets, StartEpisode(u)
    PROVE  InvestigatorInv'
  <1>1. /\ InvestigatorTypeOK /\ RunInv /\ BudgetInv /\ EvidenceInv
        /\ HeldInv /\ SpentInv /\ TableInv
    BY InvParts
  <1> DEFINE new == [state |-> "Active", key |-> EpisodeKey(base[u]), kind |-> FirstQuery(u).class,
                     age |-> 0, calls |-> 0, sent |-> {}]
  <1>2. /\ pc = "next" /\ left > 0 /\ cursor = u /\ ~SliceOver /\ pc' = "step"
        /\ episodes' = [Table(u) EXCEPT ![u] = new]
        /\ progress' = [PrunedProgress(u) EXCEPT ![u] = ProgressOf(u)]
        /\ UNCHANGED <<cursor, left, sliceAge, call, wake, held, marks, base,
                       world, window, spent, newest>>
    BY DEF StartEpisode, Admissible, At, RunOver, evidence, history
  <1>3. new \in Episode
    <2>1. EpisodeKey(base[u]) \in EpisodeKeys
      BY <1>1, EpisodeTypes DEF InvestigatorTypeOK
    <2>2. FirstQuery(u).class \in {"none", "investigate", "refresh"}
      BY SelectedClass DEF FirstQuery
    <2>3. 0 \in 0 .. Cooldown /\ 0 \in 0 .. MaxCalls /\ {} \in SUBSET Slots /\ "Active" \in EpisodeStates
      BY Numbers DEF EpisodeStates
    <2> QED
      BY <2>1, <2>2, <2>3 DEF Episode
  <1> HIDE DEF new
  <1>4. episodes' \in [Targets -> Episode] /\ episodes'[u] = new
    BY <1>1, <1>2, <1>3, Tables
  <1>5. \A v \in Targets \ {u} : episodes'[v] = Table(u)[v]
    BY <1>1, <1>2, Tables
  <1>6. progress' \in [Targets -> [key : EpisodeKeys, seq : Seq(Slots)]]
    <2>1. EpisodeKey(base[u]) \in EpisodeKeys
      BY <1>1, EpisodeTypes DEF InvestigatorTypeOK
    <2>2. ProgressOf(u) \in [key : EpisodeKeys, seq : Seq(Slots)]
      BY <2>1, <1>1 DEF ProgressOf, InvestigatorTypeOK
    <2> QED
      BY <2>2, <1>1, <1>2, Tables
  <1>7. InvestigatorTypeOK'
    BY <1>1, <1>2, <1>4, <1>6 DEF InvestigatorTypeOK, world
  <1>8. RunInv'
    <2>1. Active(episodes[cursor])'
      BY <1>2, <1>4 DEF new, Active
    <2> QED
      BY <2>1, <1>1, <1>2 DEF RunInv, Queryable, Requested
  <1>9. window[u] = Cooldown
    <2>1. Superseding(u).state = "none" \/ Cooled(Superseding(u))
      BY DEF StartEpisode, Admissible, MayStart
    <2>2. episodes[u].state = "none" \/ Cooled(episodes[u])
      BY <2>1, <1>1, EpisodeTypes DEF Superseding, Cooled, InvestigatorTypeOK, EpisodeStates
    <2>3. window[u] \in 0 .. Cooldown /\ episodes[u].age \in Nat
      BY <1>1 DEF InvestigatorTypeOK, Episode
    <2> QED
      BY <2>2, <2>3, <1>1, Numbers DEF BudgetInv, BudgetOf, Cooled
  <1>10. BudgetInv'
    <2>1. ASSUME NEW v \in Targets PROVE BudgetOf(v)'
      <3>1. CASE v = u
        <4>1. FirstCallDue(u)'
          BY <1>2, <1>4, <1>9 DEF FirstCallDue, SliceOver, new
        <4>2. ~(window'[u] < Cooldown)
          BY <1>2, <1>9, Numbers
        <4>3. episodes'[u].calls = 0
          BY <1>4 DEF new
        <4> QED
          BY <3>1, <4>1, <4>2, <4>3 DEF BudgetOf
      <3>2. CASE v # u
        <4>1. Active(episodes[v]) => episodes[v].calls > 0
          BY <1>1, <1>2, FirstCallMade
        <4>2. Fades(v)
          BY <3>2, <4>1, <1>1, <1>5, Tables DEF Fades
        <4> QED
          BY <4>2, <1>1, <1>2, FadingAt
      <3> QED
        BY <3>1, <3>2
    <2> QED
      BY <2>1 DEF BudgetInv
  <1>11. EvidenceInv' /\ HeldInv'
    BY <1>1, <1>2, QuietEvidence
  <1>12. SpentInv'
    BY <1>1, <1>2 DEF SpentInv
  <1>13. TableInv'
    <2>1. CASE episodes[u].state # "none"
      <3>1. Table(u) = episodes
        BY <1>1, <2>1, Tables
      <3>2. \A v \in Targets : episodes'[v].state # "none" => episodes[v].state # "none"
        BY <2>1, <3>1, <1>5
      <3> QED
        BY <3>2, <1>1, QuietTable
    <2>2. CASE episodes[u].state = "none"
      <3> DEFINE R == Resident(Table(u))
      <3>1. R \in SUBSET Targets
        BY DEF Resident
      <3>2. IsFiniteSet(R) /\ Cardinality(R) \in Nat
        <4> HIDE DEF R
        <4> QED
          BY <3>1, TargetSets
      <3>3. ~(Cardinality(R) >= MaxEpisodes)
        BY <2>2 DEF StartEpisode, TableFull
      <3>4. Resident(episodes)' = R \cup {u}
        BY <1>4, <1>5 DEF Resident, new
      <3>5. Cardinality(R \cup {u}) <= Cardinality(R) + 1 /\ Cardinality(R \cup {u}) \in Nat
        <4> HIDE DEF R
        <4>1. IsFiniteSet(R \cup {u})
          BY <3>2, FS_AddElement
        <4>2. Cardinality(R \cup {u}) = IF u \in R THEN Cardinality(R) ELSE Cardinality(R) + 1
          BY <3>2, FS_AddElement
        <4> QED
          BY <3>2, <4>1, <4>2, FS_CardinalityType
      <3> HIDE DEF R
      <3>6. Cardinality(R \cup {u}) <= MaxEpisodes
        BY <3>2, <3>3, <3>5, Numbers
      <3> QED
        BY <3>4, <3>6 DEF TableInv
    <2> QED
      BY <2>1, <2>2
  <1> QED
    BY <1>7, <1>8, <1>10, <1>11, <1>12, <1>13, InvParts, PTL

(* An episode that goes on has budget and time left, and a slot to ask for.  *)
LEMMA GoesOn ==
    ASSUME NEW u, Endings(u) = {}
    PROVE  /\ ~stopping /\ ~(episodes[u].age >= Deadline) /\ NextQuery(u).slot # 0
           /\ ~(episodes[u].calls >= MaxCalls)
  BY DEF Endings

(* Taking a slot out of the order of dispatch and putting it last.          *)
LEMMA Requeued ==
    ASSUME NEW seq \in Seq(Slots), NEW s \in Slots
    PROVE  Append(RemoveAt(seq, Rank(seq, s)), s) \in Seq(Slots)
  <1>1. Rank(seq, s) \in 0 .. Len(seq)
    BY DEF Rank, Contains
  <1> DEFINE r == Rank(seq, s)
  <1>2. SubSeq(seq, 1, r - 1) \in Seq(Slots)
    <2>1. 1 \in Int /\ r - 1 \in Int /\ \A i \in 1 .. r - 1 : seq[i] \in Slots
      BY <1>1
    <2> HIDE DEF r
    <2> QED
      BY <2>1, SubSeqProperties
  <1>3. SubSeq(seq, r + 1, Len(seq)) \in Seq(Slots)
    <2>1. r + 1 \in Int /\ Len(seq) \in Int /\ \A i \in r + 1 .. Len(seq) : seq[i] \in Slots
      BY <1>1
    <2> HIDE DEF r
    <2> QED
      BY <2>1, SubSeqProperties
  <1>4. RemoveAt(seq, r) \in Seq(Slots)
    BY <1>2, <1>3 DEF RemoveAt
  <1> QED
    BY <1>4

(* A call is counted in the window that is open, which then is as old as the *)
(* episode and counts what the episode counts, or opens one.                 *)
LEMMA DispatchInv ==
    ASSUME InvestigatorInv, NEW u \in Targets, Dispatch(u)
    PROVE  InvestigatorInv'
  <1>1. /\ InvestigatorTypeOK /\ RunInv /\ BudgetInv /\ EvidenceInv
        /\ HeldInv /\ SpentInv /\ TableInv
    BY InvParts
  <1> DEFINE e == episodes[u]
             s == NextQuery(u).slot
             timeout == Min({CallTimeout, Deadline - episodes[u].age})
  <1>2. /\ pc = "step" /\ cursor = u /\ ~SliceFirst /\ Endings(u) = {}
        /\ episodes' = [episodes EXCEPT ![u].calls = @ + 1, ![u].sent = @ \cup {s}]
        /\ progress' = [progress EXCEPT ![u].seq = Append(RemoveAt(@, Rank(@, s)), s)]
        /\ call' = [slot |-> s, age |-> 0, timeout |-> timeout,
                    limit |-> Min({timeout, Slice - sliceAge}),
                    bySlice |-> Slice - sliceAge <= timeout]
        /\ pc' = "call" /\ Counted(u)
        /\ UNCHANGED <<cursor, left, sliceAge, wake, held, marks, base, world, newest>>
    BY DEF Dispatch, InLoop, evidence
  <1>3. /\ ~stopping /\ ~(e.age >= Deadline) /\ s # 0 /\ ~(e.calls >= MaxCalls)
    BY <1>2, GoesOn
  <1>4. /\ e \in Episode /\ Active(e) /\ e.age \in Nat /\ e.calls \in Nat /\ e.sent \in SUBSET Slots
        /\ sliceAge \in Nat /\ progress[u].seq \in Seq(Slots) /\ base \in [Targets -> Bindings]
    <2>1. e \in Episode /\ progress[u].seq \in Seq(Slots) /\ base \in [Targets -> Bindings]
      BY <1>1 DEF InvestigatorTypeOK
    <2>2. Active(e)
      BY <1>1, <1>2 DEF RunInv
    <2>3. sliceAge \in Nat
      BY <1>1, Numbers DEF InvestigatorTypeOK
    <2>4. e.age \in Nat /\ e.calls \in Nat /\ e.sent \in SUBSET Slots
      BY <2>1, Numbers DEF Episode
    <2> QED
      BY <2>1, <2>2, <2>3, <2>4
  <1>5. s \in base[u].slots /\ base[u].slots \subseteq Slots
    <2>1. s \in base[u].slots \ e.sent
      BY <1>3, <1>4, SelectedIn DEF NextQuery
    <2> QED
      BY <2>1, <1>4, InvestigatorAssumption DEF BindingOK
  <1> HIDE DEF s
  <1>6. episodes' \in [Targets -> Episode]
    <2>1. e.calls + 1 \in 0 .. MaxCalls /\ e.sent \cup {s} \in SUBSET Slots
      BY <1>3, <1>4, <1>5, Numbers
    <2>2. [e EXCEPT !.calls = @ + 1, !.sent = @ \cup {s}] \in Episode
      BY <2>1, <1>4 DEF Episode
    <2> QED
      BY <2>2, <1>1, <1>2 DEF InvestigatorTypeOK
  <1>7. /\ episodes'[u].state = e.state /\ episodes'[u].age = e.age /\ episodes'[u].calls = e.calls + 1
        /\ \A v \in Targets \ {u} : episodes'[v] = episodes[v]
    BY <1>1, <1>2, <1>4 DEF InvestigatorTypeOK, Episode
  <1>8. progress' \in [Targets -> [key : EpisodeKeys, seq : Seq(Slots)]]
    <2>1. Append(RemoveAt(progress[u].seq, Rank(progress[u].seq, s)), s) \in Seq(Slots)
      BY <1>4, <1>5, Requeued
    <2> DEFINE q == Append(RemoveAt(progress[u].seq, Rank(progress[u].seq, s)), s)
    <2>2. progress' = [progress EXCEPT ![u].seq = q]
      BY <1>2
    <2> HIDE DEF q
    <2>3. q \in Seq(Slots)
      BY <2>1 DEF q
    <2> QED
      BY <2>2, <2>3, <1>1 DEF InvestigatorTypeOK
  <1>9. call' \in Call /\ call'.slot = s
    <2>1. Deadline - e.age \in Nat
      BY <1>3, <1>4, Numbers
    <2>2. timeout \in Nat
      BY <2>1, MinPair, Numbers
    <2>3. Slice - sliceAge \in Nat
      <3>1. ~SliceOver
        BY <1>2, <1>3 DEF SliceFirst
      <3> QED
        BY <3>1, <1>4, Numbers DEF SliceOver
    <2> HIDE DEF timeout
    <2>4. Min({timeout, Slice - sliceAge}) \in Nat
      BY <2>2, <2>3, MinPair
    <2> QED
      BY <2>2, <2>3, <2>4, <1>2, <1>5 DEF Call
  <1>10. /\ window' \in [Targets -> 0 .. Cooldown] /\ spent' \in [Targets -> Nat]
         /\ \A v \in Targets \ {u} : window'[v] = window[v] /\ spent'[v] = spent[v]
         /\ window'[u] = e.age /\ spent'[u] = e.calls + 1
    <2>1. /\ window \in [Targets -> 0 .. Cooldown] /\ spent \in [Targets -> Nat]
          /\ Cooldown \in Nat /\ e.age < Cooldown
      BY <1>1, <1>3, <1>4, Numbers DEF InvestigatorTypeOK
    <2>2. CASE e.calls = 0
      <3>1. window[u] = Cooldown /\ e.age = 0
        BY <2>2, <1>1, <1>4 DEF BudgetInv, BudgetOf, FirstCallDue
      <3>2. window' = [window EXCEPT ![u] = 0] /\ spent' = [spent EXCEPT ![u] = 1]
        BY <3>1, <2>1, <1>2 DEF Counted
      <3> QED
        BY <2>1, <2>2, <3>1, <3>2
    <2>3. CASE e.calls # 0
      <3>1. e.age = window[u] /\ spent[u] = e.calls
        BY <2>1, <2>3, <1>1, <1>4 DEF BudgetInv, BudgetOf
      <3>2. window' = window /\ spent' = [spent EXCEPT ![u] = @ + 1]
        BY <3>1, <2>1, <1>2 DEF Counted
      <3> QED
        BY <2>1, <3>1, <3>2
    <2> QED
      BY <2>2, <2>3
  <1>11. InvestigatorTypeOK'
    BY <1>1, <1>2, <1>6, <1>8, <1>9, <1>10 DEF InvestigatorTypeOK, world
  <1>12. RunInv'
    <2>1. left' > 0 /\ cursor' \in Queryable(base)'
      BY <1>1, <1>2 DEF RunInv, Queryable, Requested
    <2>2. Active(episodes[cursor])'
      BY <1>2, <1>4, <1>7 DEF Active
    <2>3. call'.slot \in base'[cursor'].slots
      BY <1>2, <1>5, <1>9
    <2> QED
      BY <2>1, <2>2, <2>3 DEF RunInv
  <1>13. BudgetInv'
    <2>1. ASSUME NEW v \in Targets PROVE BudgetOf(v)'
      <3>1. CASE v = u
        <4>1. e.state # "none" /\ e.calls + 1 # 0
          BY <1>4 DEF Active
        <4> QED
          BY <3>1, <4>1, <1>7, <1>10 DEF BudgetOf
      <3>2. CASE v # u
        <4>1. Fades(v)
          BY <3>2, <1>1, <1>2, <1>7, FirstCallMade DEF Fades
        <4> QED
          BY <3>2, <4>1, <1>1, <1>10, FadingAt
      <3> QED
        BY <3>1, <3>2
    <2> QED
      BY <2>1 DEF BudgetInv
  <1>14. EvidenceInv' /\ HeldInv'
    BY <1>1, <1>2, QuietEvidence
  <1>15. SpentInv'
    <2>1. e.calls + 1 <= MaxCalls
      <3> HIDE DEF e
      <3> QED
        BY <1>3, <1>4, Numbers
    <2> QED
      BY <2>1, <1>1, <1>10 DEF SpentInv
  <1>16. TableInv'
    <2>1. \A v \in Targets : episodes'[v].state # "none" => episodes[v].state # "none"
      BY <1>7
    <2> QED
      BY <2>1, <1>1, QuietTable
  <1> QED
    BY <1>11, <1>12, <1>13, <1>14, <1>15, <1>16, InvParts, PTL

-----------------------------------------------------------------------------
(* The answer of a call.                                                    *)

(* A statement about a key that is called for is in the key's history.       *)
Stated(o) == o \in Statement /\ o.kind # "none" /\ (o.kind = "value" => o.age < NoMark)

(* What a call can answer: that the provider is unavailable, or a value with *)
(* a stamp and, perhaps, a ValidUntil.                                       *)
LEMMA Statements ==
    /\ Stated(Unavailable)
    /\ \A v \in Values, stamp \in Stamps, life \in 0 .. AgeCap :
          Stated([kind |-> "value", age |-> stamp, life |-> life, vals |-> {v}])
  <1>1. Stated(Unavailable)
    BY Capped DEF Stated, Unavailable, Statement
  <1>2. ASSUME NEW v \in Values, NEW stamp \in Stamps, NEW life \in 0 .. AgeCap
        PROVE  Stated([kind |-> "value", age |-> stamp, life |-> life, vals |-> {v}])
    <2>1. stamp \in 0 .. AgeCap /\ stamp < NoMark
      BY Capped, InvestigatorAssumption
    <2>2. {v} \in SUBSET Values
      OBVIOUS
    <2> QED
      BY <2>1, <2>2 DEF Stated, Statement
  <1> QED
    BY <1>1, <1>2

(* Taking in a statement: something is held; a value held is as old as the   *)
(* mark, which is the newer of the marks before and of the value; and what   *)
(* ends an outage is newer than the mark before.                             *)
LEMMA TakenIn ==
    ASSUME InvestigatorTypeOK, EvidenceInv, NEW k \in Keys, NEW o, Stated(o)
    PROVE  /\ Admitted(k, o) \in Statement /\ Admitted(k, o).kind # "none"
           /\ Marked(k, o) \in 0 .. NoMark
           /\ Admitted(k, o).kind = "value" =>
                 /\ Admitted(k, o).age = Marked(k, o)
                 /\ Min({newest[k], Admitted(k, o).age}) = Marked(k, o)
           /\ Admitted(k, o).kind # "value" => Marked(k, o) = newest[k]
           /\ held[k].kind = "unavailable" /\ Admitted(k, o).kind = "value" =>
                 Admitted(k, o).age < newest[k]
  <1> DEFINE h == held[k]
  <1>1. /\ h \in Statement /\ marks[k] \in Nat /\ marks[k] <= NoMark /\ NoMark \in Nat /\ newest[k] = marks[k]
        /\ h.kind = "value" => h.age = marks[k]
        /\ h.kind = "none" => marks[k] = NoMark
        /\ h.age \in Nat
    BY Capped DEF InvestigatorTypeOK, EvidenceInv, Statement
  <1>2. /\ o \in Statement /\ o.kind \in {"unavailable", "value"} /\ o.age \in Nat
        /\ o.kind = "value" => o.age < NoMark
    BY Capped DEF Stated, Statement
  <1>3. Min({marks[k], marks[k]}) = marks[k]
    BY <1>1, MinPair
  <1>4. o.age < marks[k] => Min({marks[k], o.age}) = o.age
    BY <1>1, <1>2, MinPair
  <1>5. CASE Admitted(k, o) = o /\ (o.kind = "value" => h.kind = "none" \/ o.age < marks[k])
    <2>1. CASE o.kind = "value"
      <3>1. o.age < marks[k]
        BY <1>1, <1>2, <1>5, <2>1
      <3>2. Marked(k, o) = o.age
        BY <2>1, <3>1 DEF Marked
      <3> QED
        BY <1>1, <1>2, <1>4, <1>5, <2>1, <3>1, <3>2
    <2>2. CASE o.kind # "value"
      <3>1. Marked(k, o) = marks[k]
        BY <2>2 DEF Marked
      <3> QED
        BY <1>1, <1>2, <1>5, <2>2, <3>1
    <2> QED
      BY <2>1, <2>2
  <1>6. CASE /\ Admitted(k, o) = [h EXCEPT !.vals = @ \cup o.vals]
             /\ h.kind = "value" /\ o.age = marks[k]
    <2>1. Marked(k, o) = marks[k]
      BY <1>1, <1>2, <1>6 DEF Marked
    <2>2. [h EXCEPT !.vals = @ \cup o.vals] \in Statement
      BY <1>1, <1>2 DEF Statement
    <2>3. /\ [h EXCEPT !.vals = @ \cup o.vals].kind = "value"
          /\ [h EXCEPT !.vals = @ \cup o.vals].age = marks[k]
      BY <1>1, <1>6 DEF Statement
    <2> QED
      BY <1>1, <1>3, <1>6, <2>1, <2>2, <2>3
  <1>7. CASE Admitted(k, o) = h /\ h.kind # "none" /\ o.kind = "value" /\ ~(o.age < marks[k])
    <2>1. Marked(k, o) = marks[k]
      BY <1>7 DEF Marked
    <2> QED
      BY <1>1, <1>3, <1>7, <2>1
  <1>8. \/ Admitted(k, o) = o /\ (o.kind = "value" => h.kind = "none" \/ o.age < marks[k])
        \/ Admitted(k, o) = [h EXCEPT !.vals = @ \cup o.vals] /\ h.kind = "value" /\ o.age = marks[k]
        \/ Admitted(k, o) = h /\ h.kind # "none" /\ o.kind = "value" /\ ~(o.age < marks[k])
    BY <1>2 DEF Admitted
  <1> QED
    BY <1>5, <1>6, <1>7, <1>8

(* The key a call is for is authorized.                                     *)
LEMMA CalledKey ==
    ASSUME InvestigatorTypeOK, RunInv, NEW u \in Targets, pc = "call", cursor = u
    PROVE  CallKey(u) \in Keys /\ CallKey(u) \in Authorized(base)
  <1>1. u \in Queryable(base) /\ call.slot \in base[u].slots
    BY DEF RunInv
  <1>2. base[u] \in Bindings /\ base[u].slots \subseteq Slots /\ base[u].id \in Ids
    BY InvestigatorAssumption DEF InvestigatorTypeOK, Ids, BindingOK
  <1>3. CallKey(u) = <<u, base[u].id, call.slot>> /\ CallKey(u) \in Keys
    BY <1>1, <1>2 DEF CallKey, Key, Keys
  <1> QED
    BY <1>1, <1>2, <1>3 DEF Authorized, CallKey, Key

(* A statement is recorded within the cap, or refused and the episode ends.  *)
LEMMA RecordInv ==
    ASSUME InvestigatorInv, NEW u \in Targets, pc = "call", cursor = u,
           NEW o, Stated(o), Record(u, o)
    PROVE  InvestigatorInv'
  <1>1. /\ InvestigatorTypeOK /\ RunInv /\ BudgetInv /\ EvidenceInv
        /\ HeldInv /\ SpentInv /\ TableInv
    BY InvParts
  <1>2. PICK k \in Keys : k = CallKey(u) /\ k \in Authorized(base)
    BY <1>1, CalledKey
  <1>3. call' = NoCall /\ UNCHANGED <<progress, base, world, window, spent>>
    BY DEF Record
  <1>4. call' \in Call /\ progress' \in [Targets -> [key : EpisodeKeys, seq : Seq(Slots)]]
    BY <1>1, <1>3 DEF InvestigatorTypeOK, Call, NoCall
  <1>5. left > 0 /\ cursor \in Queryable(base)
    BY <1>1 DEF RunInv
  <1>6. CASE /\ episodes' = [episodes EXCEPT ![u] = End(@, "Capacity")]
             /\ Leave /\ UNCHANGED <<held, marks, newest>>
    <2>1. episodes' \in [Targets -> Episode] /\ \A v \in Targets : Fades(v)
      <3>1. "Capacity" \in EpisodeStates
        BY DEF EpisodeStates
      <3> QED
        BY <3>1, <1>1, <1>6, EndedFades
    <2> QED
      BY <2>1, <1>3, <1>4, <1>5, <1>6, LeaveInv
  <1>7. CASE /\ ~Refused(k)
             /\ held' = [held EXCEPT ![k] = Admitted(k, o)]
             /\ marks' = [marks EXCEPT ![k] = Marked(k, o)]
             /\ newest' = [newest EXCEPT ![k] =
                    IF held'[k].kind = "value" THEN Min({@, held'[k].age}) ELSE @]
             /\ pc' = "step"
             /\ UNCHANGED <<cursor, left, sliceAge, wake, episodes>>
    <2>1. /\ Admitted(k, o) \in Statement /\ Admitted(k, o).kind # "none"
          /\ Marked(k, o) \in 0 .. NoMark
          /\ Admitted(k, o).kind = "value" =>
                 /\ Admitted(k, o).age = Marked(k, o)
                 /\ Min({newest[k], Admitted(k, o).age}) = Marked(k, o)
          /\ Admitted(k, o).kind # "value" => Marked(k, o) = newest[k]
      BY <1>1, TakenIn
    <2>2. /\ held \in [Keys -> Statement] /\ marks \in [Keys -> 0 .. NoMark] /\ newest \in [Keys -> 0 .. NoMark]
      BY <1>1 DEF InvestigatorTypeOK
    <2>3. held'[k] = Admitted(k, o) /\ marks'[k] = Marked(k, o) /\ newest'[k] = Marked(k, o)
      BY <2>1, <2>2, <1>7
    <2>4. /\ held' \in [Keys -> Statement] /\ marks' \in [Keys -> 0 .. NoMark] /\ newest' \in [Keys -> 0 .. NoMark]
      BY <2>1, <2>2, <2>3, <1>7
    <2>5. \A x \in Keys \ {k} : held'[x] = held[x] /\ marks'[x] = marks[x] /\ newest'[x] = newest[x]
      BY <2>2, <1>7
    <2>6. InvestigatorTypeOK'
      BY <2>4, <1>1, <1>3, <1>4, <1>7 DEF InvestigatorTypeOK, world
    <2>7. RunInv'
      BY <1>1, <1>3, <1>7 DEF RunInv, Active, Queryable, Requested
    <2>8. BudgetInv'
      <3>1. ASSUME NEW v \in Targets PROVE Fades(v)
        BY <1>1, <1>7, FirstCallMade DEF Fades
      <3> QED
        BY <3>1, <1>1, <1>3, Fading
    <2>9. EvidenceInv'
      BY <2>1, <2>3, <2>5, <1>1 DEF EvidenceInv
    <2>10. HeldInv'
      <3>1. HeldKeys' = HeldKeys \cup {k}
        BY <2>1, <2>3, <2>5 DEF HeldKeys
      <3>2. IsFiniteSet(HeldKeys) /\ Cardinality(HeldKeys) \in Nat /\ Cardinality(HeldKeys) <= MaxHeld
        BY <1>1, FS_CardinalityType DEF HeldInv
      <3>3. /\ IsFiniteSet(HeldKeys \cup {k})
            /\ Cardinality(HeldKeys \cup {k}) = IF k \in HeldKeys THEN Cardinality(HeldKeys)
                                                ELSE Cardinality(HeldKeys) + 1
        BY <3>2, FS_AddElement
      <3>4. k \in HeldKeys \/ ~(Cardinality(HeldKeys) >= MaxHeld)
        BY <1>7 DEF Refused, HeldKeys
      <3>5. Cardinality(HeldKeys \cup {k}) <= MaxHeld
        BY <3>2, <3>3, <3>4, Numbers
      <3>6. Authorized(base)' = Authorized(base)
        BY <1>3 DEF Authorized, Queryable, Requested, Key
      <3>7. HeldAuthorized'
        BY <2>5, <3>6, <1>1, <1>2 DEF HeldAuthorized, HeldInv
      <3> QED
        BY <3>1, <3>3, <3>5, <3>7 DEF HeldInv
    <2>11. SpentInv' /\ TableInv'
      BY <1>1, <1>3, <1>7 DEF SpentInv, TableInv, Resident
    <2> QED
      BY <2>6, <2>7, <2>8, <2>9, <2>10, <2>11, InvParts, PTL
  <1> QED
    BY <1>2, <1>6, <1>7 DEF Record, evidence

(* The answers: a value with its stamp, or none in time.                    *)
LEMMA AnswerInv ==
    ASSUME InvestigatorInv, NEW u \in Targets, Answer(u)
    PROVE  InvestigatorInv'
  <1>1. CASE DiscardOnStop(u)
    BY <1>1, DiscardInv
  <1>2. CASE DiscardOnSliceEnd(u)
    BY <1>2, InterruptInv
  <1>3. CASE AnswerUnavailable(u)
    <2>1. Stated(Unavailable)
      BY Statements
    <2> QED
      BY <2>1, <1>3, RecordInv DEF AnswerUnavailable, Calling
  <1>4. ASSUME NEW v \in Values, NEW stamp \in Stamps, NEW life \in 0 .. AgeCap,
               AnswerValue(u, v, stamp, life)
        PROVE  InvestigatorInv'
    <2> DEFINE o == [kind |-> "value", age |-> stamp, life |-> life, vals |-> {v}]
    <2>1. Stated(o)
      BY Statements
    <2>2. pc = "call" /\ cursor = u /\ Record(u, o)
      BY <1>4 DEF AnswerValue, Calling
    <2> HIDE DEF o
    <2> QED
      BY <2>1, <2>2, RecordInv
  <1> QED
    BY <1>1, <1>2, <1>3, <1>4 DEF Answer

-----------------------------------------------------------------------------
(* The end of a run, the clock, the cluster and the end of the process.     *)

(* A value is due for refresh in some time from now.                        *)
LEMMA DuesIn ==
    ASSUME NEW h, h.age \in Nat, h.life \in Nat
    PROVE  DueIn(h) \in Nat
  <1>1. Monus(MaxAge, h.age) \in Nat
    BY Numbers DEF Monus
  <1>2. Min({Monus(MaxAge, h.age), h.life}) \in Nat
    BY <1>1, MinPair
  <1> QED
    BY <1>2, Numbers DEF DueIn, Monus

(* The next reconcile comes within the longest wait.                        *)
LEMMA Requeues ==
    ASSUME InvestigatorTypeOK
    PROVE  RequeueAfter \in 0 .. Max({Poll, Backoff, Cooldown, MinRequeue})
  <1>1. \A u \in Targets : episodes[u].age \in Nat
    BY Numbers DEF InvestigatorTypeOK, Episode
  <1>2. \A u \in Targets : CooldownLeft(u) \in Nat
    BY <1>1, Numbers DEF CooldownLeft, Monus
  <1>3. Requested(base) \in SUBSET Targets
    BY DEF Requested
  <1>4. RetryWakes \in SUBSET Nat
    BY <1>2, <1>3 DEF RetryWakes
  <1>5. RefreshWakes \in SUBSET Nat
    <2>1. ASSUME NEW u \in Requested(base), NEW s \in base[u].slots
          PROVE  Max({CooldownLeft(u), DueIn(held[Key(base, u, s)])}) \in Nat
      <3>1. u \in Targets /\ Key(base, u, s) \in Keys
        BY <1>3, InvestigatorAssumption DEF InvestigatorTypeOK, Key, Keys, Ids, BindingOK
      <3>2. held[Key(base, u, s)].age \in Nat /\ held[Key(base, u, s)].life \in Nat
        BY <3>1, Capped DEF InvestigatorTypeOK, Statement
      <3> DEFINE m == DueIn(held[Key(base, u, s)])
      <3>3. m \in Nat
        BY <3>2, DuesIn
      <3> HIDE DEF m
      <3>4. Max({CooldownLeft(u), m}) \in Nat
        BY <3>1, <3>3, <1>2, MaxPair
      <3> QED
        BY <3>4 DEF m
    <2>2. ASSUME NEW x \in RefreshWakes PROVE x \in Nat
      <3>1. PICK u \in Requested(base) :
               x \in {Max({CooldownLeft(u), DueIn(held[Key(base, u, s)])}) :
                        s \in {t \in base[u].slots : held[Key(base, u, t)].kind = "value"}}
        BY DEF RefreshWakes
      <3>2. PICK s \in base[u].slots :
               x = Max({CooldownLeft(u), DueIn(held[Key(base, u, s)])})
        BY <3>1
      <3> QED
        BY <2>1, <3>2
    <2> QED
      BY <2>2
  <1> DEFINE W == NextWake \cup {Poll}
  <1>6. W \in SUBSET Nat /\ W # {} /\ Poll \in W
    BY <1>4, <1>5, Numbers DEF NextWake
  <1>7. Min(W) \in Nat /\ Min(W) <= Poll
    <2> HIDE DEF W
    <2>1. Min(W) \in W /\ \A n \in W : Min(W) <= n
      BY <1>6, MinLeast, Zenon
    <2> QED
      BY <2>1, <1>6
  <1>8. RequeueAfter = IF MinRequeue <= Min(W) THEN Min(W) ELSE MinRequeue
    <2> HIDE DEF W
    <2>1. Max({MinRequeue, Min(W)}) = IF MinRequeue <= Min(W) THEN Min(W) ELSE MinRequeue
      BY <1>7, Numbers, MaxPair
    <2> QED
      BY <2>1 DEF RequeueAfter, W
  <1> HIDE DEF W
  <1>9. Poll <= Max({Poll, Backoff, Cooldown, MinRequeue}) /\ MinRequeue <= Max({Poll, Backoff, Cooldown, MinRequeue})
    BY LongestWait
  <1> QED
    BY <1>7, <1>8, <1>9, LongestWait, Numbers

(* The run is over and the next reconcile is scheduled.                     *)
LEMMA EndRunInv ==
    ASSUME InvestigatorInv, EndRun
    PROVE  InvestigatorInv'
  <1>1. /\ InvestigatorTypeOK /\ RunInv /\ BudgetInv /\ EvidenceInv
        /\ HeldInv /\ SpentInv /\ TableInv
    BY InvParts
  <1>2. /\ pc = "next" /\ pc' = "idle" /\ left' = 0 /\ sliceAge' = 0
        /\ wake' \in {RequeueAfter} \cup ({Backoff} \ {0})
        /\ UNCHANGED <<cursor, call, held, marks, episodes, progress, base, world, window, spent, newest>>
    BY DEF EndRun, evidence, history
  <1>3. wake' \in 0 .. Max({Poll, Backoff, Cooldown, MinRequeue})
    BY <1>1, <1>2, Requeues, LongestWait, Numbers
  <1>4. 0 \in 0 .. NTargets /\ 0 \in 0 .. Slice + Overrun
    BY Numbers
  <1>5. InvestigatorTypeOK'
    BY <1>1, <1>2, <1>3, <1>4 DEF InvestigatorTypeOK, world
  <1>6. RunInv'
    BY <1>2 DEF RunInv
  <1>7. BudgetInv'
    <2>1. ASSUME NEW v \in Targets PROVE Fades(v)
      BY <1>1, <1>2, FirstCallMade DEF Fades
    <2> QED
      BY <2>1, <1>1, <1>2, Fading
  <1>8. EvidenceInv' /\ HeldInv'
    BY <1>1, <1>2, QuietEvidence
  <1>9. SpentInv' /\ TableInv'
    BY <1>1, <1>2 DEF SpentInv, TableInv, Resident
  <1> QED
    BY <1>5, <1>6, <1>7, <1>8, <1>9, InvParts, PTL

(* An age grows by one, up to its cap.                                      *)
LEMMA Ages ==
    ASSUME NEW cap \in Nat, NEW a \in 0 .. cap
    PROVE  Older(a, cap) \in 0 .. cap /\ Older(a, cap) = IF a < cap THEN a + 1 ELSE cap
  <1>1. a + 1 \in Nat /\ a \in Nat /\ a <= cap
    OBVIOUS
  <1>2. Min({a + 1, cap}) = IF a + 1 <= cap THEN a + 1 ELSE cap
    BY <1>1, MinPair
  <1> QED
    BY <1>1, <1>2 DEF Older

(* Time passes: marks and values age together, and so do a call window and   *)
(* its episode.                                                              *)
LEMMA TickInv ==
    ASSUME InvestigatorInv, Tick
    PROVE  InvestigatorInv'
  <1>1. /\ InvestigatorTypeOK /\ RunInv /\ BudgetInv /\ EvidenceInv
        /\ HeldInv /\ SpentInv /\ TableInv
    BY InvParts
  <1>2. /\ held' = [k \in Keys |-> IF held[k].kind = "value"
                                   THEN [held[k] EXCEPT !.age = Older(@, AgeCap), !.life = Younger(@)]
                                   ELSE held[k]]
        /\ marks' = [k \in Keys |-> Older(marks[k], NoMark)]
        /\ newest' = [k \in Keys |-> Older(newest[k], NoMark)]
        /\ episodes' = [u \in Targets |-> IF episodes[u].state = "none" THEN NoEpisode
                                          ELSE [episodes[u] EXCEPT !.age = Older(@, Cooldown)]]
        /\ window' = [u \in Targets |-> Older(window[u], Cooldown)]
        /\ pc \in {"idle", "call"}
        /\ UNCHANGED <<pc, cursor, left, progress, base, world, spent>>
    BY DEF Tick
  <1>3. AgeCap \in Nat /\ NoMark = AgeCap
    BY Capped
  <1>4. /\ held \in [Keys -> Statement] /\ marks \in [Keys -> 0 .. NoMark] /\ newest \in [Keys -> 0 .. NoMark]
        /\ episodes \in [Targets -> Episode] /\ window \in [Targets -> 0 .. Cooldown]
    BY <1>1 DEF InvestigatorTypeOK
  <1>5. ASSUME NEW k \in Keys
        PROVE  /\ held'[k] \in Statement /\ held'[k].kind = held[k].kind
               /\ held[k].kind = "value" => held'[k].age = Older(held[k].age, NoMark)
    <2>1. held[k] \in Statement /\ held[k].age \in 0 .. AgeCap /\ held[k].life \in 0 .. AgeCap
      BY <1>4 DEF Statement
    <2>2. Older(held[k].age, AgeCap) \in 0 .. AgeCap /\ Younger(held[k].life) \in 0 .. AgeCap
      BY <2>1, <1>3, Ages DEF Younger, Monus
    <2>3. held'[k] = IF held[k].kind = "value"
                     THEN [held[k] EXCEPT !.age = Older(held[k].age, AgeCap), !.life = Younger(held[k].life)]
                     ELSE held[k]
      BY <1>2
    <2> QED
      BY <2>1, <2>2, <2>3, <1>3 DEF Statement
  <1>6. \A k \in Keys : Older(marks[k], NoMark) \in 0 .. NoMark /\ Older(newest[k], NoMark) \in 0 .. NoMark
    BY <1>3, <1>4, Ages
  <1>7. ASSUME NEW v \in Targets
        PROVE  /\ episodes'[v] \in Episode /\ episodes'[v].state = episodes[v].state
               /\ window'[v] = Older(window[v], Cooldown) /\ window'[v] \in 0 .. Cooldown
               /\ episodes[v].state # "none" =>
                     /\ episodes'[v].calls = episodes[v].calls
                     /\ episodes'[v].age = Older(episodes[v].age, Cooldown)
    <2>1. episodes[v] \in Episode /\ episodes[v].age \in 0 .. Cooldown /\ window[v] \in 0 .. Cooldown
      BY <1>4 DEF Episode
    <2>2. Older(episodes[v].age, Cooldown) \in 0 .. Cooldown /\ Older(window[v], Cooldown) \in 0 .. Cooldown
      BY <2>1, Numbers, Ages
    <2>3. /\ episodes'[v] = IF episodes[v].state = "none" THEN NoEpisode
                            ELSE [episodes[v] EXCEPT !.age = Older(episodes[v].age, Cooldown)]
          /\ window'[v] = Older(window[v], Cooldown)
      BY <1>2
    <2>4. CASE episodes[v].state = "none"
      BY <2>2, <2>3, <2>4, EpisodeTypes DEF NoEpisode
    <2>5. CASE episodes[v].state # "none"
      BY <2>1, <2>2, <2>3, <2>5 DEF Episode
    <2> QED
      BY <2>4, <2>5
  <1>8. /\ wake' \in 0 .. Max({Poll, Backoff, Cooldown, MinRequeue})
        /\ call' \in Call /\ call'.slot = call.slot /\ sliceAge' \in 0 .. Slice + Overrun
    <2>1. CASE wake > 0 /\ wake' = wake - 1 /\ UNCHANGED <<call, sliceAge>>
      BY <2>1, <1>1, LongestWait DEF InvestigatorTypeOK
    <2>2. CASE /\ call' = [call EXCEPT !.age = @ + 1] /\ sliceAge' = Min({sliceAge + 1, Slice + Overrun})
               /\ UNCHANGED wake
      <3>1. sliceAge + 1 \in Nat /\ Slice + Overrun \in Nat
        BY <1>1, Numbers DEF InvestigatorTypeOK
      <3>2. sliceAge' \in 0 .. Slice + Overrun
        BY <2>2, <3>1, MinPair
      <3>3. call' \in Call /\ call'.slot = call.slot
        <4>1. call \in Call /\ call.age + 1 \in Nat
          BY <1>1 DEF InvestigatorTypeOK, Call
        <4> QED
          BY <2>2, <4>1 DEF Call
      <3> QED
        BY <2>2, <3>2, <3>3, <1>1 DEF InvestigatorTypeOK
    <2> QED
      BY <2>1, <2>2 DEF Tick
  <1>9. InvestigatorTypeOK'
    <2>1. held' \in [Keys -> Statement]
      BY <1>2, <1>5
    <2>2. marks' \in [Keys -> 0 .. NoMark] /\ newest' \in [Keys -> 0 .. NoMark]
      BY <1>2, <1>6
    <2>3. episodes' \in [Targets -> Episode] /\ window' \in [Targets -> 0 .. Cooldown]
      BY <1>2, <1>7
    <2> QED
      BY <2>1, <2>2, <2>3, <1>1, <1>2, <1>8 DEF InvestigatorTypeOK, world
  <1>10. RunInv'
    <2>1. pc = "call" => Active(episodes[cursor])'
      <3>1. SUFFICES ASSUME pc = "call" PROVE Active(episodes[cursor])'
        OBVIOUS
      <3>2. cursor \in Targets /\ Active(episodes[cursor])
        BY <1>1, <3>1 DEF RunInv, Queryable, Requested
      <3> QED
        BY <3>2, <1>2, <1>7 DEF Active
    <2> QED
      BY <2>1, <1>1, <1>2, <1>8 DEF RunInv, Queryable, Requested
  <1>11. BudgetInv'
    <2>1. ASSUME NEW v \in Targets PROVE BudgetOf(v)'
      <3>1. /\ window[v] \in 0 .. Cooldown /\ episodes[v].age \in Nat /\ Cooldown \in Nat
            /\ spent' = spent
        <4>1. spent' = spent
          BY <1>2
        <4> QED
          BY <4>1, <1>4, Numbers DEF Episode
      <3>2. window'[v] < Cooldown => window[v] < Cooldown
        BY <3>1, <1>7, Ages
      <3>3. BudgetOf(v) /\ (Active(episodes[v]) => episodes[v].calls > 0)
        BY <1>1, <1>2, FirstCallMade DEF BudgetInv
      <3>4. window'[v] < Cooldown => episodes'[v].state # "none" /\ episodes'[v].age = window'[v]
        BY <3>2, <3>3, <1>7 DEF BudgetOf
      <3>5. Active(episodes'[v]) => Active(episodes[v]) /\ episodes'[v].calls = episodes[v].calls
        BY <1>7 DEF Active
      <3>6. Active(episodes'[v]) => episodes'[v].age = window'[v]
        BY <3>3, <3>5, <1>7 DEF BudgetOf, Active
      <3>7. ~(Active(episodes'[v]) /\ episodes'[v].calls = 0)
        BY <3>3, <3>5
      <3>8. Active(episodes'[v]) /\ window'[v] < Cooldown => spent'[v] = episodes'[v].calls
        BY <3>1, <3>2, <3>3, <3>5 DEF BudgetOf
      <3> QED
        BY <3>4, <3>6, <3>7, <3>8 DEF BudgetOf, Active
    <2> QED
      BY <2>1 DEF BudgetInv
  <1>12. EvidenceInv'
    <2>1. ASSUME NEW k \in Keys
          PROVE  /\ newest'[k] = marks'[k]
                 /\ held'[k].kind = "value" => held'[k].age = marks'[k]
                 /\ held'[k].kind = "none" => marks'[k] = NoMark
      <3>1. newest'[k] = Older(newest[k], NoMark) /\ marks'[k] = Older(marks[k], NoMark)
        BY <1>2
      <3>2. Older(NoMark, NoMark) = NoMark
        BY <1>3, Ages
      <3>3. /\ newest[k] = marks[k]
            /\ held[k].kind = "value" => held[k].age = marks[k]
            /\ held[k].kind = "none" => marks[k] = NoMark
        BY <1>1 DEF EvidenceInv
      <3> QED
        BY <3>1, <3>2, <3>3, <1>5
    <2> QED
      BY <2>1 DEF EvidenceInv
  <1>13. HeldInv'
    <2>1. HeldKeys' = HeldKeys
      BY <1>5 DEF HeldKeys
    <2>2. Authorized(base)' = Authorized(base)
      <3>1. base' = base
        BY <1>2
      <3> QED
        BY <3>1 DEF Authorized, Queryable, Requested, Key
    <2>3. HeldAuthorized'
      BY <2>2, <1>1, <1>5 DEF HeldAuthorized, HeldInv
    <2> QED
      BY <2>1, <2>3, <1>1 DEF HeldInv
  <1>14. SpentInv'
    BY <1>1, <1>2 DEF SpentInv
  <1>15. TableInv'
    BY <1>1, <1>7, QuietTable
  <1> QED
    BY <1>9, <1>10, <1>11, <1>12, <1>13, <1>14, <1>15, InvParts, PTL

(* A step of the cluster or the end of the process leaves the investigator   *)
(* alone.                                                                    *)
LEMMA WorldInv ==
    ASSUME InvestigatorInv, Shutdown \/ \E u \in Targets, b \in Bindings : Rebind(u, b)
    PROVE  InvestigatorInv'
  <1>1. /\ InvestigatorTypeOK /\ RunInv /\ BudgetInv /\ EvidenceInv
        /\ HeldInv /\ SpentInv /\ TableInv
    BY InvParts
  <1>2. UNCHANGED <<pc, cursor, left, sliceAge, call, wake, held, marks, episodes, progress, base,
                    window, spent, newest>>
    BY DEF Shutdown, Rebind, control, evidence, history
  <1>3. /\ bind' \in [Targets -> Bindings] /\ stopping' \in BOOLEAN
        /\ changes' \in 0 .. MaxChanges /\ stops' \in 0 .. MaxStops
    <2>1. /\ bind \in [Targets -> Bindings] /\ stopping \in BOOLEAN
          /\ changes \in 0 .. MaxChanges /\ stops \in 0 .. MaxStops
      BY <1>1 DEF InvestigatorTypeOK
    <2>2. CASE Shutdown
      <3>1. bind' = bind /\ changes' = changes /\ stopping' = TRUE /\ stops < MaxStops /\ stops' = stops + 1
        BY <2>2 DEF Shutdown
      <3> QED
        BY <2>1, <3>1, Numbers
    <2>3. ASSUME NEW u \in Targets, NEW b \in Bindings, Rebind(u, b)
          PROVE  /\ bind' \in [Targets -> Bindings] /\ stopping' \in BOOLEAN
                 /\ changes' \in 0 .. MaxChanges /\ stops' \in 0 .. MaxStops
      <3>1. /\ bind' = [bind EXCEPT ![u] = b] /\ changes < MaxChanges /\ changes' = changes + 1
            /\ stopping' = stopping /\ stops' = stops
        BY <2>3 DEF Rebind
      <3> QED
        BY <2>1, <3>1, Numbers
    <2> QED
      BY <2>2, <2>3
  <1>4. InvestigatorTypeOK'
    BY <1>1, <1>2, <1>3 DEF InvestigatorTypeOK
  <1>5. RunInv'
    BY <1>1, <1>2 DEF RunInv, Active, Queryable, Requested
  <1>6. BudgetInv'
    BY <1>1, <1>2 DEF BudgetInv, BudgetOf, Active, FirstCallDue, SliceOver
  <1>7. EvidenceInv' /\ HeldInv'
    BY <1>1, <1>2, QuietEvidence
  <1>8. SpentInv' /\ TableInv'
    BY <1>1, <1>2 DEF SpentInv, TableInv, Resident
  <1> QED
    BY <1>4, <1>5, <1>6, <1>7, <1>8, InvParts, PTL

(* The next process starts from nothing.                                    *)
LEMMA RestartInv ==
    ASSUME InvestigatorInv, Restart
    PROVE  InvestigatorInv'
  <1>1. InvestigatorTypeOK
    BY DEF InvestigatorInv
  <1>2. /\ pc = "idle" /\ stopping' = FALSE /\ cursor' = 0 /\ wake' = 0
        /\ held' = [k \in Keys |-> NoneHeld] /\ marks' = [k \in Keys |-> NoMark]
        /\ episodes' = [u \in Targets |-> NoEpisode]
        /\ progress' = [u \in Targets |-> NoProgress]
        /\ window' = [u \in Targets |-> Cooldown] /\ spent' = [u \in Targets |-> 0]
        /\ newest' = [k \in Keys |-> NoMark]
        /\ UNCHANGED <<pc, left, sliceAge, call, base, bind, changes, stops>>
    BY DEF Restart
  <1>3. InvestigatorTypeOK'
    <2>1. 0 \in 0 .. Max({Poll, Backoff, Cooldown, MinRequeue}) /\ 0 \in 0 .. NTargets
      BY LongestWait, Numbers
    <2>2. held' \in [Keys -> Statement] /\ marks' \in [Keys -> 0 .. NoMark] /\ newest' \in [Keys -> 0 .. NoMark]
      BY <1>2, Capped DEF Statement, NoneHeld
    <2>3. episodes' \in [Targets -> Episode]
      BY <1>2, EpisodeTypes
    <2>4. progress' \in [Targets -> [key : EpisodeKeys, seq : Seq(Slots)]]
      BY <1>2 DEF NoProgress, EpisodeKeys
    <2>5. window' \in [Targets -> 0 .. Cooldown] /\ spent' \in [Targets -> Nat]
      BY <1>2, Numbers
    <2> QED
      BY <2>1, <2>2, <2>3, <2>4, <2>5, <1>1, <1>2 DEF InvestigatorTypeOK
  <1>4. RunInv'
    BY <1>2 DEF RunInv
  <1>5. BudgetInv'
    BY <1>2, Numbers DEF BudgetInv, BudgetOf, NoEpisode, Active
  <1>6. EvidenceInv'
    BY <1>2 DEF EvidenceInv, NoneHeld
  <1>7. HeldInv'
    <2>1. HeldKeys' = {}
      BY <1>2 DEF HeldKeys, NoneHeld
    <2>2. HeldAuthorized'
      BY <1>2 DEF HeldAuthorized, NoneHeld
    <2> QED
      BY <2>1, <2>2, FS_EmptySet, Numbers DEF HeldInv
  <1>8. SpentInv'
    BY <1>2, Numbers DEF SpentInv
  <1>9. TableInv'
    <2>1. Resident(episodes)' = {}
      BY <1>2 DEF Resident, NoEpisode
    <2> QED
      BY <2>1, FS_EmptySet, Numbers DEF TableInv
  <1> QED
    BY <1>3, <1>4, <1>5, <1>6, <1>7, <1>8, <1>9, InvParts, PTL

-----------------------------------------------------------------------------
(* The theorems.                                                            *)

(* Every step keeps the invariant.                                          *)
LEMMA NextInv == InvestigatorInv /\ [Next]_vars => InvestigatorInv'
  <1> SUFFICES ASSUME InvestigatorInv, [Next]_vars PROVE InvestigatorInv'
    OBVIOUS
  <1>1. CASE Reconcile
    BY <1>1, ReconcileInv
  <1>2. CASE EndRun
    BY <1>2, EndRunInv
  <1>3. CASE Tick
    BY <1>3, TickInv
  <1>4. CASE Shutdown \/ \E u \in Targets, b \in Bindings : Rebind(u, b)
    BY <1>4, WorldInv
  <1>5. CASE Restart
    BY <1>5, RestartInv
  <1>6. ASSUME NEW u \in Targets, Visit(u) PROVE InvestigatorInv'
    BY <1>6, ResumeInv, NotAdmittedInv, NoRoomInv, StartEpisodeInv DEF Visit
  <1>7. ASSUME NEW u \in Targets, Loop(u) PROVE InvestigatorInv'
    BY <1>7, EndEpisodeInv, InterruptInv, DispatchInv DEF Loop
  <1>8. ASSUME NEW u \in Targets, Answer(u) PROVE InvestigatorInv'
    BY <1>8, AnswerInv
  <1>9. CASE UNCHANGED vars
    <2>1. UNCHANGED <<pc, cursor, left, sliceAge, call, wake, held, marks, episodes, progress, base,
                      window, spent, newest, bind, changes, stops, stopping>>
      BY <1>9 DEF vars, control, evidence, history, world
    <2>2. /\ InvestigatorTypeOK /\ RunInv /\ BudgetInv /\ EvidenceInv
          /\ HeldInv /\ SpentInv /\ TableInv
      BY InvParts
    <2>3. InvestigatorTypeOK'
      BY <2>1, <2>2 DEF InvestigatorTypeOK
    <2>4. RunInv' /\ BudgetInv'
      BY <2>1, <2>2 DEF RunInv, BudgetInv, BudgetOf, Active, FirstCallDue, SliceOver, Queryable, Requested
    <2>5. EvidenceInv' /\ HeldInv'
      BY <2>1, <2>2, QuietEvidence
    <2>6. SpentInv' /\ TableInv'
      BY <2>1, <2>2 DEF SpentInv, TableInv, Resident
    <2> QED
      BY <2>3, <2>4, <2>5, <2>6, InvParts, PTL
  <1> QED
    BY <1>1, <1>2, <1>3, <1>4, <1>5, <1>6, <1>7, <1>8, <1>9 DEF Next

(* In every reachable state of the investigator, for any targets, slots,     *)
(* bindings and limits: records and position are well formed, the run is at  *)
(* a target it may query, a call window is as old as its episode, and the    *)
(* mark of a key is the age of the newest value held for it.                 *)
THEOREM InvestigatorInductive == Spec => []InvestigatorInv
  BY InitInv, NextInv, PTL DEF Spec

(* The records of the investigator stay well formed.                        *)
THEOREM InvestigatorTyped == Spec => []InvestigatorTypeOK
  <1>1. InvestigatorInv => InvestigatorTypeOK
    BY DEF InvestigatorInv
  <1> QED
    BY <1>1, InvestigatorInductive, PTL

(* No target costs more than one episode's calls per cooldown, and evidence  *)
(* and episodes stay within their caps, whatever slices, reconciles,         *)
(* supersessions, purges, prunings and restarts come in between.             *)
THEOREM BudgetHolds == Spec => []CallBudget
  <1>1. InvestigatorInv => CallBudget
    BY DEF InvestigatorInv
  <1> QED
    BY <1>1, InvestigatorInductive, PTL

(* What is held belongs to the identity and an authorized binding of the     *)
(* snapshot the run works on.                                                *)
THEOREM OnlyAuthorizedHeld == Spec => []HeldAuthorized
  <1>1. InvestigatorInv => HeldAuthorized
    BY DEF InvestigatorInv
  <1> QED
    BY <1>1, InvestigatorInductive, PTL

(* A value held is the newest one ever held for its key.                    *)
THEOREM NeverFallsBack == Spec => []NoFallback
  <1>1. InvestigatorInv => NoFallback
    <2> SUFFICES ASSUME InvestigatorInv PROVE NoFallback
      OBVIOUS
    <2>1. \A k \in Keys : newest[k] \in Nat /\ newest[k] = marks[k]
      BY Capped DEF InvestigatorInv, InvestigatorTypeOK, EvidenceInv
    <2> QED
      BY <2>1 DEF InvestigatorInv, EvidenceInv, NoFallback
  <1> QED
    BY <1>1, InvestigatorInductive, PTL

-----------------------------------------------------------------------------
(* Outages.                                                                 *)

ClearedByNews(k) ==
    held[k].kind = "unavailable" /\ held'[k].kind = "value" => held'[k].age < newest[k]

(* Recording a statement ends an outage only with news.                     *)
LEMMA RecordedNews ==
    ASSUME InvestigatorInv, NEW u \in Targets, Calling(u), NEW o, Stated(o), Record(u, o),
           NEW k \in Keys
    PROVE  ClearedByNews(k)
  <1>1. InvestigatorTypeOK /\ RunInv /\ EvidenceInv
    BY DEF InvestigatorInv
  <1>2. PICK x \in Keys : x = CallKey(u)
    BY <1>1, CalledKey DEF Calling
  <1>3. CASE UNCHANGED held
    BY <1>3 DEF ClearedByNews
  <1>4. CASE held' = [held EXCEPT ![x] = Admitted(x, o)]
    <2>1. CASE k = x
      <3>1. held'[k] = Admitted(k, o)
        BY <1>1, <1>4, <2>1 DEF InvestigatorTypeOK
      <3> QED
        BY <3>1, <1>1, TakenIn DEF ClearedByNews
    <2>2. CASE k # x
      <3>1. held'[k] = held[k]
        BY <1>1, <1>4, <2>2 DEF InvestigatorTypeOK
      <3> QED
        BY <3>1 DEF ClearedByNews
    <2> QED
      BY <2>1, <2>2
  <1> QED
    BY <1>2, <1>3, <1>4 DEF Record, evidence

(* No step ends an outage but by news.                                      *)
LEMMA OutageStep ==
    ASSUME InvestigatorInv, [Next]_vars, NEW k \in Keys
    PROVE  ClearedByNews(k)
  <1>1. InvestigatorTypeOK
    BY DEF InvestigatorInv
  <1>2. CASE UNCHANGED held
    BY <1>2 DEF ClearedByNews
  <1>3. CASE Reconcile
    <2>1. held'[k] = held[k] \/ held'[k] = NoneHeld
      BY <1>3 DEF Reconcile, PurgedEvidence
    <2> QED
      BY <2>1 DEF ClearedByNews, NoneHeld
  <1>4. CASE Tick
    <2>1. held[k].kind # "value" => held'[k] = held[k]
      BY <1>4 DEF Tick
    <2> QED
      BY <2>1 DEF ClearedByNews
  <1>5. CASE Restart
    <2>1. held'[k] = NoneHeld
      BY <1>5 DEF Restart
    <2> QED
      BY <2>1 DEF ClearedByNews, NoneHeld
  <1>6. ASSUME NEW u \in Targets, Answer(u) PROVE ClearedByNews(k)
    <2>1. CASE DiscardOnStop(u) \/ DiscardOnSliceEnd(u)
      BY <1>2, <2>1 DEF DiscardOnStop, DiscardOnSliceEnd, evidence
    <2>2. CASE AnswerUnavailable(u)
      <3>1. Stated(Unavailable)
        BY Statements
      <3> QED
        BY <3>1, <2>2, RecordedNews DEF AnswerUnavailable
    <2>3. ASSUME NEW v \in Values, NEW stamp \in Stamps, NEW life \in 0 .. AgeCap,
               AnswerValue(u, v, stamp, life)
          PROVE  ClearedByNews(k)
      <3> DEFINE o == [kind |-> "value", age |-> stamp, life |-> life, vals |-> {v}]
      <3>1. Stated(o)
        BY Statements
      <3>2. Calling(u) /\ Record(u, o)
        BY <2>3 DEF AnswerValue
      <3> HIDE DEF o
      <3> QED
        BY <3>1, <3>2, RecordedNews
    <2> QED
      BY <1>6, <2>1, <2>2, <2>3 DEF Answer
  <1>7. ASSUME NEW u \in Targets, Visit(u) \/ Loop(u) PROVE UNCHANGED held
    BY <1>7 DEF Visit, Loop, Resume, NotAdmitted, NoRoom, StartEpisode, EndEpisode, Interrupt,
                Dispatch, evidence
  <1>8. ASSUME EndRun \/ Shutdown \/ UNCHANGED vars \/ \E u \in Targets, b \in Bindings : Rebind(u, b)
        PROVE  UNCHANGED held
    BY <1>8 DEF EndRun, Shutdown, Rebind, vars, evidence
  <1> QED
    BY <1>2, <1>3, <1>4, <1>5, <1>6, <1>7, <1>8 DEF Next

(* An outage ends only by a value newer than every value seen before it: no  *)
(* replay, late answer or restart of the loop clears it.                     *)
THEOREM OnlyNewsClears == Spec => OutageClearedByNews
  <1>1. InvestigatorInv /\ [Next]_vars =>
           [\A k \in Keys : held[k].kind = "unavailable" /\ held'[k].kind = "value"
                              => held'[k].age < newest[k]]_vars
    BY OutageStep DEF ClearedByNews
  <1> QED
    BY <1>1, InvestigatorInductive, PTL DEF Spec, OutageClearedByNews
=============================================================================
