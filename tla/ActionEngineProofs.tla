------------------------- MODULE ActionEngineProofs -------------------------
(***************************************************************************)
(* TLAPS proofs about the action engine, for every number of engines,      *)
(* subjects, targets, digests, episodes, attempts, sends and epochs.       *)
(***************************************************************************)
EXTENDS ActionEngine, FiniteSetTheorems, TLAPS

USE JournalAssumption, EngineAssumption

-----------------------------------------------------------------------------
(***************************************************************************)
(* Types.                                                                  *)
(***************************************************************************)

\* The record of a key without one is a record.
LEMMA BlankType == Blank \in Record /\ NoJob \in Job
<1>1. Blank.digest \in Digests
  BY DEF Blank
<1>2. QED
  BY <1>1 DEF Blank, NoJob, Record, Job, Phases, Recovery, FinalRecovery, JobStates

\* A key is a subject, an episode and an attempt.
LEMMA KeyType ==
    /\ \A k \in Keys : /\ Subject(k) \in Subjects
                       /\ Episode(k) \in Nat
                       /\ Attempt(k) \in Nat
    /\ \A s \in Subjects, n \in Episodes, a \in Attempts : <<s, n, a>> \in Keys
BY DEF Keys, Subject, Episode, Attempt, Episodes, Attempts

\* step.episode counts a finite set, whatever the journal holds.
LEMMA EpisodeType ==
    ASSUME NEW r, NEW s
    PROVE  EpisodeOf(r, s) \in Nat
<1>1. IsFiniteSet(Episodes)
  BY FS_Interval DEF Episodes
<1>2. IsFiniteSet(RecoveredEpisodes(r, s))
  BY <1>1, FS_Subset DEF RecoveredEpisodes
<1>3. QED
  BY <1>2, FS_CardinalityType DEF EpisodeOf

\* step.put stores a record of the right type.
LEMMA PutType ==
    ASSUME EngineTypeOK, NEW e \in Engines, NEW k \in Keys, NEW next \in Record,
           PutOK(e, k, next)
    PROVE  /\ journalEpoch' \in Nat
           /\ journal' \in [Keys -> Record]
           /\ recs' \in [Engines -> [Keys -> Record]]
<1> DEFINE r == [next EXCEPT !.fence = epoch[e]]
           s == Stored(r)
<1>1. r \in Record
  BY DEF EngineTypeOK, Record
<1> HIDE DEF r
<1>2. s \in Record
  BY <1>1 DEF Stored, Record
<1>3. /\ journal' = [journal EXCEPT ![k] = s]
      /\ recs' = [recs EXCEPT ![e][k] = s]
      /\ journalEpoch' = journalEpoch
  BY DEF PutOK, Put, r
<1> HIDE DEF s
<1>4. QED
  BY <1>2, <1>3 DEF EngineTypeOK, JournalTypeOK

\* The records the engine writes are records.
LEMMA RecordTypes ==
    ASSUME EngineTypeOK, NEW e \in Engines
    PROVE  /\ \A r \in Record, a \in Job : Adoptable(r, a) => Adopted(r, a) \in Record
           /\ \A r \in Record, a \in Job : Receipted(r, a) \in Record
           /\ \A r \in Record : /\ TimedOut(r) \in Record
                               /\ Withdrawn(r) \in Record
                               /\ Resent(e, r) \in Record
           /\ \A r \in Record, v \in Assessments : [r EXCEPT !.recovery = v] \in Record
           /\ \A s \in Subjects : Dispatching(e, s) \in Record
<1>1. ASSUME NEW r \in Record, NEW a \in Job, Adoptable(r, a)
      PROVE  Adopted(r, a) \in Record
  BY <1>1 DEF Adoptable, Adopted, Record, Phases, Job, JobStates
<1>2. ASSUME NEW r \in Record, NEW a \in Job
      PROVE  Receipted(r, a) \in Record
  BY DEF Receipted, Record, Phases
<1>3. ASSUME NEW r \in Record
      PROVE  TimedOut(r) \in Record /\ Withdrawn(r) \in Record /\ Resent(e, r) \in Record
  <2>1. epoch[e] \in Nat
    BY DEF EngineTypeOK
  <2>2. TimedOut(r) \in Record /\ Withdrawn(r) \in Record
    BY DEF TimedOut, Withdrawn, Record, Phases
  <2>3. Resent(e, r) \in Record
    <3>1. Resent(e, r) = [r EXCEPT !.sends = r.sends + 1, !.sentFence = epoch[e]]
      BY DEF Resent
    <3>2. r.sends + 1 \in Nat
      BY DEF Record
    <3>3. QED
      BY <2>1, <3>1, <3>2 DEF Record
  <2>4. QED
    BY <2>2, <2>3
<1>4. ASSUME NEW r \in Record, NEW v \in Assessments
      PROVE  [r EXCEPT !.recovery = v] \in Record
  BY DEF Record, Recovery, EngineAssumption
<1>5. ASSUME NEW s \in Subjects
      PROVE  Dispatching(e, s) \in Record
  <2>1. in[e][s].digest \in Digests /\ epoch[e] \in Nat
    BY DEF EngineTypeOK, Input
  <2>2. ASSUME NEW r \in Record
        PROVE  [r EXCEPT !.phase = "Dispatching", !.digest = in[e][s].digest,
                         !.sentFence = epoch[e], !.sends = 1] \in Record
    BY <2>1 DEF Record, Phases
  <2>3. QED
    BY <2>2, BlankType DEF Dispatching
<1>6. QED
  BY <1>1, <1>2, <1>3, <1>4, <1>5

\* The actor keeps its types.
LEMMA HandleType ==
    ASSUME ActorTypeOK, NEW h \in Handoff, Handle(h) \/ Ignore(h)
    PROVE  highFence' \in Nat /\ jobs' \in [Keys -> Job]
<1>1. h.key \in Keys /\ h.fence \in Nat /\ h.digest \in Digests
  BY DEF Handoff
<1>2. CASE Handle(h) /\ jobs[h.key].state = "Unknown"
  <2>1. PICK state \in {"Pending", "Refused"} :
           jobs' = [jobs EXCEPT ![h.key] =
                      [state |-> state, fence |-> h.fence, digest |-> h.digest]]
    BY <1>2 DEF Handle
  <2>2. [state |-> state, fence |-> h.fence, digest |-> h.digest] \in Job
    BY <1>1 DEF Job, JobStates
  <2>3. QED
    BY <1>1, <1>2, <2>1, <2>2 DEF Handle, ActorTypeOK
<1>3. CASE Handle(h) /\ jobs[h.key].state # "Unknown"
  <2>1. jobs' = [jobs EXCEPT ![h.key] = [jobs[h.key] EXCEPT !.fence = h.fence]]
    BY <1>3 DEF Handle
  <2>2. [jobs[h.key] EXCEPT !.fence = h.fence] \in Job
    BY <1>1 DEF Job, ActorTypeOK
  <2>3. QED
    BY <1>1, <1>3, <2>1, <2>2 DEF Handle, ActorTypeOK
<1>4. CASE Ignore(h)
  BY <1>1, <1>4 DEF Ignore, ActorTypeOK
<1>5. QED
  BY <1>2, <1>3, <1>4

\* An execution that ends (Actor.Settle) keeps the actor's types.
LEMMA SettleType ==
    ASSUME ActorTypeOK, NEW k \in Keys, Settle(k)
    PROVE  jobs' \in [Keys -> Job]
<1>1. PICK state \in {"Succeeded", "Failed"} :
        jobs' = [jobs EXCEPT ![k] = [jobs[k] EXCEPT !.state = state]]
  BY DEF Settle
<1>2. [jobs[k] EXCEPT !.state = state] \in Job
  BY DEF ActorTypeOK, Job, JobStates
<1>3. QED
  BY <1>1, <1>2 DEF ActorTypeOK

\* The initial state, no epoch, record, job or handoff, is well typed.
LEMMA InitType == Init => EngineTypeOK
<1> SUFFICES ASSUME Init
             PROVE  EngineTypeOK
  OBVIOUS
<1>1. Quiet \in Input
  BY BlankType DEF Quiet, Input, Record
<1>2. JournalTypeOK /\ ActorTypeOK
  BY BlankType DEF Init, JournalInit, ActorInit, JournalTypeOK, ActorTypeOK
<1>3. QED
  BY <1>1, <1>2, BlankType DEF Init, EngineTypeOK, NoRecs, PCs

(***************************************************************************)
(* One step of one engine keeps the types.  That an adopted answer is one  *)
(* adopt knows (CurInv) is needed: the type invariant alone is not         *)
(* inductive.                                                              *)
(***************************************************************************)
LEMMA StepType ==
    ASSUME EngineTypeOK, CurInv, NEW e \in Engines, EngineStep(e) \/ Crash(e)
    PROVE  EngineTypeOK'
<1> USE DEF JournalTypeOK, ActorTypeOK
<1>1. CASE TakeEpoch(e)
  BY <1>1 DEF TakeEpoch, IssueEpoch, EngineTypeOK, actorVars, inputVars, todoVars, localVars
<1>2. CASE List(e)
  <2>1. PICK i \in [Subjects -> Inputs] :
           /\ in' = [in EXCEPT ![e] = i]
           /\ subjTodo' = [subjTodo EXCEPT ![e] = {s \in Subjects : i[s].on}]
    BY <1>2 DEF List
  <2>2. i \in [Subjects -> Input]
    BY DEF EngineAssumption
  <2>3. [s \in Subjects |-> EpisodeOf(journal, s)] \in [Subjects -> Nat]
    BY EpisodeType
  <2>4. episode' \in [Engines -> [Subjects -> Nat]]
    BY <1>2, <2>3 DEF List, EngineTypeOK
  <2>5. /\ recs' = [recs EXCEPT ![e] = journal]
        /\ keysTodo' = [keysTodo EXCEPT ![e] = {k \in Keys : occupies(journal[k].phase)}]
        /\ pc' = [pc EXCEPT ![e] = "loop"]
        /\ UNCHANGED <<journalEpoch, journal, wire, highFence, jobs, epoch, assessed, cur, answer, submits>>
    BY <1>2 DEF List, journalVars, actorVars, localVars
  <2>6. QED
    BY <2>1, <2>2, <2>4, <2>5 DEF EngineTypeOK, PCs
<1>3. ASSUME NEW k \in Keys, SkipForeign(e, k)
      PROVE  EngineTypeOK'
  BY <1>3 DEF SkipForeign, Visit, EngineTypeOK, journalVars, actorVars, inputVars, localVars
<1>4. ASSUME NEW k \in Keys, NEW a \in Job, Poll(e, k, a)
      PROVE  EngineTypeOK'
  BY <1>4 DEF Poll, Visit, Goto, EngineTypeOK, PCs, journalVars, actorVars, inputVars
<1>5. ASSUME NEW k \in Keys, PollAnswered(e, k) \/ PollFails(e, k)
      PROVE  EngineTypeOK'
  <2>1. jobs[k] \in Job /\ NoJob \in Job
    BY BlankType DEF EngineTypeOK
  <2>2. QED
    BY <1>4, <1>5, <2>1 DEF PollAnswered, PollFails
<1>6. ASSUME Return(e), UNCHANGED submits,
             /\ journalEpoch' \in Nat
             /\ journal' \in [Keys -> Record]
             /\ recs' \in [Engines -> [Keys -> Record]]
      PROVE  EngineTypeOK'
  BY <1>6, BlankType DEF Return, Goto, EngineTypeOK, PCs, actorVars, inputVars, todoVars
<1>7. ASSUME pc[e] # "idle", pc[e] # "loop"
      PROVE  /\ cur[e] \in Keys
             /\ recs[e][cur[e]] \in Record
             /\ answer[e] \in Job
  BY <1>7 DEF EngineTypeOK
<1>8. CASE Adopt(e)
  <2>1. Adoptable(recs[e][cur[e]], answer[e])
    BY <1>8 DEF Adopt, CurInv, WorkInv
  <2>2. QED
    BY <1>6, <1>7, <1>8, <2>1, PutType, RecordTypes DEF Adopt
<1>9. CASE AdoptFails(e)
  BY <1>9, <1>7 DEF AdoptFails, PutFails, Goto, EngineTypeOK, PCs,
       journalVars, actorVars, inputVars, todoVars, localVars
<1>10. CASE TimeOut(e)
  BY <1>6, <1>7, <1>10, PutType, RecordTypes DEF TimeOut
<1>11. CASE Withdraw(e)
  BY <1>6, <1>7, <1>11, PutType, RecordTypes DEF Withdraw
<1>12. CASE Resend(e)
  <2>1. /\ journalEpoch' \in Nat
        /\ journal' \in [Keys -> Record]
        /\ recs' \in [Engines -> [Keys -> Record]]
    BY <1>7, <1>12, PutType, RecordTypes DEF Resend
  <2>2. QED
    BY <1>7, <1>12, <2>1 DEF Resend, Goto, EngineTypeOK, PCs,
         actorVars, inputVars, todoVars, localVars
<1>13. CASE Wait(e)
  BY <1>6, <1>13 DEF Wait, PutFails, EngineTypeOK, journalVars
<1>14. CASE Submit(e)
  <2>1. HandoffOf(e) \in Handoff
    BY <1>7, <1>14 DEF Submit, CallSubmit, HandoffOf, Handoff, Record
  <2>2. highFence' \in Nat /\ jobs' \in [Keys -> Job]
    BY <1>14, <2>1, HandleType DEF Submit, EngineTypeOK
  <2>3. [jobs'[cur[e]] EXCEPT !.digest = HandoffOf(e).digest] \in Job
    <3>1. HandoffOf(e).digest \in Digests /\ jobs'[cur[e]] \in Job
      BY <1>7, <1>14, <2>1, <2>2 DEF Handoff, Submit, CallSubmit
    <3>2. QED
      BY <3>1 DEF Job
  <2>4. /\ wire' \in SUBSET Handoff
        /\ submits' \in [Keys -> Nat]
    BY <1>7, <1>14, <2>1 DEF Submit, CallSubmit, EngineTypeOK
  <2>5. answer' \in [Engines -> Job]
    BY <1>14, <2>3 DEF Submit, EngineTypeOK
  <2>6. QED
    BY <1>7, <1>14, <2>2, <2>4, <2>5 DEF Submit, CallSubmit, Goto, EngineTypeOK, PCs,
         journalVars, inputVars, todoVars
<1>15. CASE SubmitFails(e)
  <2>1. HandoffOf(e) \in Handoff
    BY <1>7, <1>15 DEF SubmitFails, CallSubmit, HandoffOf, Handoff, Record
  <2>2. /\ wire' \in SUBSET Handoff
        /\ submits' \in [Keys -> Nat]
    BY <1>7, <1>15, <2>1 DEF SubmitFails, CallSubmit, EngineTypeOK
  <2>3. QED
    BY <1>15, <2>2 DEF SubmitFails, Goto, EngineTypeOK, PCs,
         journalVars, inputVars, todoVars
<1>16. CASE RecordReceipt(e)
  BY <1>6, <1>7, <1>16, PutType, RecordTypes DEF RecordReceipt
<1>17. CASE DropReceipt(e)
  BY <1>6, <1>17 DEF DropReceipt, PutFails, EngineTypeOK, journalVars
<1>18. ASSUME NEW k \in Keys, Assess(e, k),
              /\ journalEpoch' \in Nat
              /\ journal' \in [Keys -> Record]
              /\ recs' \in [Engines -> [Keys -> Record]]
       PROVE  EngineTypeOK'
  BY <1>18 DEF Assess, EngineTypeOK, actorVars, inputVars, localVars
<1>19. ASSUME NEW k \in Keys, Recover(e, k)
       PROVE  EngineTypeOK'
  <2>1. PICK v \in Assessments : PutOK(e, k, [recs[e][k] EXCEPT !.recovery = v])
    BY <1>19 DEF Recover
  <2>2. [recs[e][k] EXCEPT !.recovery = v] \in Record
    BY RecordTypes DEF EngineTypeOK
  <2>3. QED
    BY <1>18, <1>19, <2>1, <2>2, PutType DEF Recover
<1>20. ASSUME NEW k \in Keys, RecoverPending(e, k)
       PROVE  EngineTypeOK'
  BY <1>18, <1>20 DEF RecoverPending, PutFails, EngineTypeOK, journalVars
<1>21. ASSUME NEW s \in Subjects, Dispatch(e, s)
       PROVE  EngineTypeOK'
  <2>1. PICK a \in Attempts :
           /\ MayDispatch(e, s, a)
           /\ PutOK(e, <<s, episode[e][s], a>>, Dispatching(e, s))
           /\ cur' = [cur EXCEPT ![e] = <<s, episode[e][s], a>>]
    BY <1>21 DEF Dispatch
  <2>2. <<s, episode[e][s], a>> \in Keys
    BY <2>1, KeyType DEF MayDispatch
  <2>3. Dispatching(e, s) \in Record
    BY RecordTypes
  <2>4. /\ journalEpoch' \in Nat
        /\ journal' \in [Keys -> Record]
        /\ recs' \in [Engines -> [Keys -> Record]]
    BY <2>1, <2>2, <2>3, PutType
  <2>5. QED
    BY <1>21, <2>1, <2>2, <2>4 DEF Dispatch, Decide, Goto, EngineTypeOK, PCs,
         actorVars, inputVars
<1>22. ASSUME NEW s \in Subjects, ShowOnly(e, s)
       PROVE  EngineTypeOK'
  BY <1>22 DEF ShowOnly, Decide, PutFails, EngineTypeOK, journalVars, actorVars, inputVars
<1>23. CASE Discard(e) /\ epoch' \in [Engines -> Nat]
  <2>1. Quiet \in Input
    BY BlankType DEF Quiet, Input, Record
  <2>2. QED
    BY <1>23, <2>1, BlankType DEF Discard, NoRecs, EngineTypeOK, PCs, journalVars, actorVars
<1>24. CASE Finish(e)
  BY <1>23, <1>24 DEF Finish, EngineTypeOK
<1>25. CASE Crash(e)
  BY <1>23, <1>25 DEF Crash, EngineTypeOK
<1>26. QED
  BY <1>1, <1>2, <1>3, <1>5, <1>8, <1>9, <1>10, <1>11, <1>12, <1>13, <1>14, <1>15,
     <1>16, <1>17, <1>19, <1>20, <1>21, <1>22, <1>24, <1>25 DEF EngineStep

\* A late delivery or an end at the actor keeps the types.
LEMMA ActorType == EngineTypeOK /\ ActorStep => EngineTypeOK'
<1> SUFFICES ASSUME EngineTypeOK, ActorStep
             PROVE  EngineTypeOK'
  OBVIOUS
<1>1. ASSUME NEW h \in wire, Deliver(h)
      PROVE  wire' = wire /\ highFence' \in Nat /\ jobs' \in [Keys -> Job]
  <2>1. ActorTypeOK /\ h \in Handoff
    BY DEF EngineTypeOK, ActorTypeOK
  <2>2. QED
    BY <1>1, <2>1, HandleType DEF Deliver
<1>2. ASSUME NEW k \in Keys, Settle(k)
      PROVE  wire' = wire /\ highFence' \in Nat /\ jobs' \in [Keys -> Job]
  BY <1>2, SettleType DEF Settle, EngineTypeOK, ActorTypeOK
<1>3. wire' = wire /\ highFence' \in Nat /\ jobs' \in [Keys -> Job]
  BY <1>1, <1>2 DEF ActorStep
<1>4. QED
  BY <1>3 DEF ActorStep, EngineTypeOK, JournalTypeOK, ActorTypeOK, journalVars, engineVars,
       inputVars, todoVars, localVars

-----------------------------------------------------------------------------
(***************************************************************************)
(* What a successful write means: its engine holds the newest epoch, so it *)
(* judged the journal itself, and every other engine is behind.            *)
(***************************************************************************)
LEMMA Writer ==
    ASSUME EngineInv, NEW e \in Engines, pc[e] # "idle",
           NEW k \in Keys, NEW next \in Record, PutOK(e, k, next)
    PROVE  /\ recs[e] = journal
           /\ journalEpoch' = journalEpoch
           /\ \A f \in Engines : epoch[f] # 0 /\ epoch[f] = journalEpoch => f = e
           /\ \E r \in Record :
                /\ journal' = [journal EXCEPT ![k] = r]
                /\ recs' = [recs EXCEPT ![e] = journal']
                /\ r.phase = next.phase
                /\ r.digest = next.digest
                /\ r.sentFence = next.sentFence
                /\ r.ended = next.ended
                /\ r.refused = next.refused
                /\ r.recovery = next.recovery
<1> DEFINE n == [next EXCEPT !.fence = epoch[e]]
           r == Stored(n)
<1>1. n \in Record /\ n.fence = epoch[e]
  BY DEF EngineInv, EngineTypeOK, Record
<1>2. /\ n.phase = next.phase /\ n.digest = next.digest /\ n.sentFence = next.sentFence
      /\ n.ended = next.ended /\ n.refused = next.refused /\ n.recovery = next.recovery
  BY DEF Record
<1>3. /\ ~fenced(n)
      /\ journal' = [journal EXCEPT ![k] = r]
      /\ recs' = [recs EXCEPT ![e][k] = r]
      /\ journalEpoch' = journalEpoch
  BY DEF PutOK, Put
<1> HIDE DEF n
<1>4. /\ r \in Record
      /\ r.phase = n.phase /\ r.digest = n.digest /\ r.sentFence = n.sentFence
      /\ r.ended = n.ended /\ r.refused = n.refused /\ r.recovery = n.recovery
  BY <1>1 DEF Stored, Record
<1>5. epoch[e] = journalEpoch /\ epoch[e] # 0
  <2>1. epoch[e] \in Nat /\ journalEpoch \in Nat
    BY DEF EngineInv, EngineTypeOK, JournalTypeOK
  <2>2. ~(epoch[e] < journalEpoch)
    BY <1>1, <1>3 DEF fenced
  <2>3. epoch[e] <= journalEpoch /\ epoch[e] # 0
    BY DEF EngineInv, EpochInv
  <2>4. QED
    BY <2>1, <2>2, <2>3
<1>6. recs[e] = journal
  BY <1>5 DEF EngineInv, OwnerViewCurrent
<1>7. \A f \in Engines : epoch[f] # 0 /\ epoch[f] = journalEpoch => f = e
  BY <1>5 DEF EngineInv, EpochInv
<1> HIDE DEF r
<1>8. recs' = [recs EXCEPT ![e] = journal']
  BY <1>3, <1>6 DEF EngineInv, EngineTypeOK
<1>9. QED
  BY <1>2, <1>3, <1>4, <1>6, <1>7, <1>8

\* The journal's invariants when nothing is written ...
LEMMA JournalKept ==
    ASSUME EngineInv, journal' = journal
    PROVE  RecordInv' /\ JournalExclusive' /\ AttemptChain'
BY DEF EngineInv, RecordInv, JournalExclusive, AttemptChain, present

\* ... and when the record of an attempt is replaced by a later one.
LEMMA JournalAdvanced ==
    ASSUME EngineInv, NEW k \in Keys, NEW r \in Record,
           journal' = [journal EXCEPT ![k] = r],
           present(k), r.phase # "Absent",
           occupies(r.phase) => occupies(journal[k].phase),
           journal[k].phase = "Failed" => r.phase = "Failed",
           r.ended => r.phase \in {"Succeeded", "Failed"} /\ ~r.refused,
           r.refused => r.phase = "Failed",
           r.recovery # "None" => r.ended
    PROVE  /\ RecordInv' /\ JournalExclusive' /\ AttemptChain'
           /\ \A j \in Keys : present(j) => present(j)'
<1>1. /\ journal \in [Keys -> Record]
      /\ journal'[k] = r
      /\ \A j \in Keys : j # k => journal'[j] = journal[j]
  BY DEF EngineInv, EngineTypeOK, JournalTypeOK
<1>2. RecordInv'
  BY <1>1 DEF EngineInv, RecordInv
<1>3. \A j \in Keys : /\ occupies(journal'[j].phase) => occupies(journal[j].phase)
                      /\ journal[j].phase = "Failed" => journal'[j].phase = "Failed"
                      /\ (journal[j].phase # "Absent") <=> (journal'[j].phase # "Absent")
  BY <1>1 DEF present
<1>4. JournalExclusive'
  BY <1>3 DEF EngineInv, JournalExclusive
<1>5. AttemptChain'
  BY <1>3 DEF EngineInv, AttemptChain, present
<1>6. QED
  BY <1>2, <1>3, <1>4, <1>5 DEF present

\* An engine that does not move keeps its part, whatever the provider does.
LEMMA OthersWork ==
    ASSUME EngineInv, NEW f \in Engines,
           /\ pc'[f] = pc[f]
           /\ recs'[f] = recs[f]
           /\ keysTodo'[f] = keysTodo[f]
           /\ cur'[f] = cur[f]
           /\ answer'[f] = answer[f],
           \A k \in Keys : jobs[k].state \in Definitive => jobs'[k].state = jobs[k].state
    PROVE  WorkInv(f)'
BY DEF EngineInv, CurInv, WorkInv, Adoptable, matches, Definitive

\* An engine that only moves on, or forgets what it knew, keeps the rest.
LEMMA Unwritten ==
    ASSUME EngineInv, NEW e \in Engines,
           UNCHANGED <<journalEpoch, journal, wire, jobs>>,
           \A f \in Engines \ {e} :
              /\ epoch'[f] = epoch[f]
              /\ pc'[f] = pc[f]
              /\ recs'[f] = recs[f]
              /\ keysTodo'[f] = keysTodo[f]
              /\ cur'[f] = cur[f]
              /\ answer'[f] = answer[f],
           EngineTypeOK', WorkInv(e)',
           \/ pc'[e] = "idle" /\ epoch'[e] \in {0, epoch[e]}
           \/ pc'[e] # "send" /\ pc[e] # "idle" /\ recs'[e] = recs[e] /\ epoch'[e] = epoch[e]
    PROVE  EngineInv'
<1>1. RecordInv' /\ JournalExclusive' /\ AttemptChain'
  BY JournalKept
<1>2. CurInv'
  BY OthersWork DEF CurInv
<1>3. JournalTruthful'
  BY DEF EngineInv, JournalTruthful
<1>4. EpochInv'
  <2>1. \A f \in Engines : epoch'[f] = epoch[f] \/ (f = e /\ epoch'[f] = 0)
    OBVIOUS
  <2>2. \A f \in Engines : epoch'[f] <= journalEpoch'
    BY <2>1 DEF EngineInv, EpochInv, EngineTypeOK, JournalTypeOK
  <2>3. \A f, g \in Engines : epoch'[f] = epoch'[g] /\ epoch'[f] # 0 => f = g
    BY <2>1 DEF EngineInv, EpochInv
  <2>4. \A f \in Engines : pc'[f] # "idle" => epoch'[f] # 0
    BY DEF EngineInv, EpochInv
  <2>5. QED
    BY <2>2, <2>3, <2>4 DEF EpochInv
<1>5. OwnerViewCurrent'
  BY DEF EngineInv, OwnerViewCurrent
<1>6. RecordedInv'
  BY DEF EngineInv, RecordedInv, present
<1>7. QED
  BY <1>1, <1>2, <1>3, <1>4, <1>5, <1>6 DEF EngineInv

(***************************************************************************)
(* A step that writes one record: the journal's own invariants are shown   *)
(* by the caller, the rest follows here.                                   *)
(***************************************************************************)
LEMMA Written ==
    ASSUME EngineInv, NEW e \in Engines, pc[e] # "idle",
           NEW k \in Keys, NEW next \in Record, PutOK(e, k, next),
           UNCHANGED <<wire, jobs, epoch, keysTodo>>,
           k \notin keysTodo[e],
           \A f \in Engines \ {e} : /\ pc'[f] = pc[f]
                                   /\ cur'[f] = cur[f]
                                   /\ answer'[f] = answer[f],
           \/ pc'[e] = "loop"
           \/ pc'[e] = "send" /\ cur'[e] = k /\ next.phase = "Dispatching",
           next.phase = "Succeeded" => jobs[k].state = "Succeeded",
           next.phase = "Failed" =>
              jobs[k].state = IF next.refused THEN "Refused" ELSE "Failed",
           next.recovery # "None" => jobs[k].state \in {"Succeeded", "Failed"},
           EngineTypeOK',
           RecordInv' /\ JournalExclusive' /\ AttemptChain',
           \A j \in Keys : present(j) => present(j)'
    PROVE  EngineInv'
<1>1. PICK r \in Record :
        /\ journal' = [journal EXCEPT ![k] = r]
        /\ recs' = [recs EXCEPT ![e] = journal']
        /\ r.phase = next.phase
        /\ r.refused = next.refused
        /\ r.recovery = next.recovery
  BY Writer
<1>2. /\ recs[e] = journal
      /\ journalEpoch' = journalEpoch
      /\ \A f \in Engines : epoch[f] # 0 /\ epoch[f] = journalEpoch => f = e
  BY Writer
<1>3. /\ journal'[k] = r
      /\ \A j \in Keys : j # k => journal'[j] = journal[j]
      /\ recs'[e] = journal'
      /\ \A f \in Engines : f # e => recs'[f] = recs[f]
  BY <1>1 DEF EngineInv, EngineTypeOK, JournalTypeOK
<1>4. EpochInv'
  BY <1>2 DEF EngineInv, EpochInv
<1>5. OwnerViewCurrent'
  BY <1>2, <1>3 DEF OwnerViewCurrent
<1>6. RecordedInv'
  <2>1. \A h \in wire' : present(h.key)'
    BY DEF EngineInv, RecordedInv, EngineTypeOK, ActorTypeOK, Handoff
  <2>2. \A j \in Keys : jobs'[j].state # "Unknown" => present(j)'
    BY DEF EngineInv, RecordedInv
  <2>3. ASSUME NEW f \in Engines, pc'[f] = "send"
        PROVE  present(cur[f])'
    <3>1. CASE f = e
      BY <1>1, <1>3, <2>3, <3>1 DEF present
    <3>2. CASE f # e
      BY <2>3, <3>2 DEF EngineInv, RecordedInv, EngineTypeOK
    <3>3. QED
      BY <3>1, <3>2
  <2>4. QED
    BY <2>1, <2>2, <2>3 DEF RecordedInv
<1>7. CurInv'
  <2>1. \A f \in Engines : f # e => WorkInv(f)'
    BY <1>3, OthersWork
  <2>2. \A j \in keysTodo'[e] : occupies(recs'[e][j].phase)
    <3>1. keysTodo[e] \subseteq Keys
      BY DEF EngineInv, EngineTypeOK
    <3>2. QED
      BY <1>2, <1>3, <3>1 DEF EngineInv, CurInv, WorkInv
  <2>3. WorkInv(e)'
    <3>1. CASE pc'[e] = "loop"
      BY <2>2, <3>1 DEF WorkInv
    <3>2. CASE pc'[e] = "send" /\ cur'[e] = k /\ next.phase = "Dispatching"
      BY <1>1, <1>3, <2>2, <3>2 DEF WorkInv, occupies
    <3>3. QED
      BY <3>1, <3>2
  <2>4. QED
    BY <2>1, <2>3 DEF CurInv
<1>8. JournalTruthful'
  BY <1>1, <1>3 DEF EngineInv, JournalTruthful
<1>9. QED
  BY <1>4, <1>5, <1>6, <1>7, <1>8 DEF EngineInv

\* A step that replaces the record of an existing attempt by a later one.
LEMMA Advanced ==
    ASSUME EngineInv, NEW e \in Engines, pc[e] # "idle",
           NEW k \in Keys, NEW next \in Record, PutOK(e, k, next),
           UNCHANGED <<wire, jobs, epoch, keysTodo>>,
           k \notin keysTodo[e],
           \A f \in Engines \ {e} : /\ pc'[f] = pc[f]
                                   /\ cur'[f] = cur[f]
                                   /\ answer'[f] = answer[f],
           \/ pc'[e] = "loop"
           \/ pc'[e] = "send" /\ cur'[e] = k /\ next.phase = "Dispatching",
           next.phase = "Succeeded" => jobs[k].state = "Succeeded",
           next.phase = "Failed" =>
              jobs[k].state = IF next.refused THEN "Refused" ELSE "Failed",
           EngineTypeOK',
           present(k), next.phase # "Absent",
           occupies(next.phase) => occupies(journal[k].phase),
           journal[k].phase = "Failed" => next.phase = "Failed",
           next.ended => next.phase \in {"Succeeded", "Failed"} /\ ~next.refused,
           next.refused => next.phase = "Failed",
           next.recovery # "None" => next.ended
    PROVE  EngineInv'
<1>1. PICK r \in Record :
        /\ journal' = [journal EXCEPT ![k] = r]
        /\ r.phase = next.phase
        /\ r.ended = next.ended
        /\ r.refused = next.refused
        /\ r.recovery = next.recovery
  BY Writer
<1>2. /\ RecordInv' /\ JournalExclusive' /\ AttemptChain'
      /\ \A j \in Keys : present(j) => present(j)'
  BY <1>1, JournalAdvanced, ZenonT(40)
<1>3. next.recovery # "None" => jobs[k].state \in {"Succeeded", "Failed"}
  OBVIOUS
<1>4. QED
  BY <1>2, <1>3, Written

\* What an engine that may write knows of the record it works on.
LEMMA Working ==
    ASSUME EngineInv, NEW e \in Engines, NEW next \in Record,
           pc[e] \in {"polled", "due", "send", "receipt"}, PutOK(e, cur[e], next)
    PROVE  LET k == cur[e]
               r == journal[k]
           IN  /\ k \in Keys \ keysTodo[e]
               /\ recs[e][k] = r
               /\ r \in Record
               /\ present(k)
               /\ occupies(r.phase)
               /\ r.phase \notin {"Succeeded", "Failed"}
               /\ ~r.ended /\ ~r.refused /\ r.recovery = "None"
<1>1. cur[e] \in Keys \ keysTodo[e] /\ occupies(recs[e][cur[e]].phase)
  BY DEF EngineInv, CurInv, WorkInv
<1>2. recs[e] = journal
  BY <1>1, Writer
<1>3. journal[cur[e]] \in Record
  BY <1>1 DEF EngineInv, EngineTypeOK, JournalTypeOK
<1>4. /\ present(cur[e])
      /\ journal[cur[e]].phase \notin {"Succeeded", "Failed"}
  BY <1>1, <1>2 DEF occupies, present
<1>5. /\ ~journal[cur[e]].ended
      /\ ~journal[cur[e]].refused
      /\ journal[cur[e]].recovery = "None"
  BY <1>1, <1>4 DEF EngineInv, RecordInv
<1>6. QED
  BY <1>1, <1>2, <1>3, <1>4, <1>5

-----------------------------------------------------------------------------
(***************************************************************************)
(* The invariant holds initially and every action keeps it.                *)
(***************************************************************************)
LEMMA InitInv == Init => EngineInv
<1> SUFFICES ASSUME Init
             PROVE  EngineInv
  OBVIOUS
<1>1. EngineTypeOK
  BY InitType
<1>2. \A k \in Keys : /\ journal[k].phase = "Absent"
                      /\ ~journal[k].ended
                      /\ ~journal[k].refused
                      /\ journal[k].recovery = "None"
                      /\ jobs[k].state = "Unknown"
  BY DEF Init, JournalInit, ActorInit, Blank, NoJob
<1>3. \A e \in Engines : pc[e] = "idle" /\ epoch[e] = 0 /\ keysTodo[e] = {}
  BY DEF Init
<1>4. EpochInv /\ OwnerViewCurrent
  BY <1>3 DEF EpochInv, OwnerViewCurrent, Init, JournalInit
<1>5. RecordInv /\ JournalTruthful
  BY <1>2 DEF RecordInv, JournalTruthful
<1>6. RecordedInv
  BY <1>2, <1>3 DEF RecordedInv, Init, ActorInit
<1>7. CurInv
  BY <1>3 DEF CurInv, WorkInv
<1>8. JournalExclusive /\ AttemptChain
  BY <1>2 DEF JournalExclusive, AttemptChain, occupies, present
<1>9. QED
  BY <1>1, <1>4, <1>5, <1>6, <1>7, <1>8 DEF EngineInv

\* An engine that advances or sends a record works on a key.
LEMMA CurType ==
    ASSUME EngineTypeOK, NEW e \in Engines, pc[e] # "idle", pc[e] # "loop"
    PROVE  /\ cur[e] \in Keys
           /\ recs[e][cur[e]] \in Record
           /\ answer[e] \in Job
BY DEF EngineTypeOK

\* Back in its loop, an engine holds no record and so owes nothing about it.
LEMMA Returned ==
    ASSUME EngineTypeOK, NEW e \in Engines, Return(e)
    PROVE  /\ UNCHANGED <<wire, jobs, epoch, keysTodo>>
           /\ pc'[e] = "loop"
           /\ \A f \in Engines \ {e} : /\ pc'[f] = pc[f]
                                       /\ cur'[f] = cur[f]
                                       /\ answer'[f] = answer[f]
BY DEF Return, Goto, EngineTypeOK, actorVars, todoVars

\* Adopt: the provider's answer is its own last word.
LEMMA AdoptInv ==
    ASSUME EngineInv, EngineTypeOK', NEW e \in Engines, Adopt(e)
    PROVE  EngineInv'
<1> DEFINE k == cur[e]
           a == answer[e]
           next == Adopted(recs[e][k], a)
<1>1. pc[e] = "polled" /\ PutOK(e, k, next) /\ Return(e)
  BY DEF Adopt
<1>2. /\ Adoptable(recs[e][k], a)
      /\ a.state \in Definitive => jobs[k].state = a.state
  BY <1>1 DEF EngineInv, CurInv, WorkInv
<1>3. recs[e][k] \in Record /\ a \in Job
  BY <1>1, CurType DEF EngineInv
<1>4. next \in Record
  BY <1>2, <1>3, RecordTypes DEF EngineInv
<1>5. /\ k \in Keys \ keysTodo[e]
      /\ recs[e][k] = journal[k]
      /\ present(k)
      /\ occupies(journal[k].phase)
      /\ journal[k].phase \notin {"Succeeded", "Failed"}
      /\ ~journal[k].ended /\ ~journal[k].refused /\ journal[k].recovery = "None"
  BY <1>1, <1>4, Working
<1>6. /\ next.recovery = "None"
      /\ \/ a.state = "Pending" /\ next.phase = "Accepted" /\ ~next.ended /\ ~next.refused
         \/ a.state = "Refused" /\ next.phase = "Failed" /\ ~next.ended /\ next.refused
         \/ a.state \in {"Succeeded", "Failed"} /\ next.phase = a.state /\ next.ended /\ ~next.refused
  BY <1>2, <1>3, <1>5 DEF Adopted, Adoptable, Record
<1> HIDE DEF next, k, a
<1>7. /\ next.phase = "Succeeded" => jobs[k].state = "Succeeded"
      /\ next.phase = "Failed" =>
            jobs[k].state = IF next.refused THEN "Refused" ELSE "Failed"
      /\ next.phase # "Absent"
      /\ next.ended => next.phase \in {"Succeeded", "Failed"} /\ ~next.refused
      /\ next.refused => next.phase = "Failed"
  BY <1>2, <1>6 DEF Definitive
<1>8. /\ UNCHANGED <<wire, jobs, epoch, keysTodo>>
      /\ pc'[e] = "loop"
      /\ \A f \in Engines \ {e} : /\ pc'[f] = pc[f]
                                  /\ cur'[f] = cur[f]
                                  /\ answer'[f] = answer[f]
  BY <1>1, Returned DEF EngineInv
<1>9. QED
  BY <1>1, <1>4, <1>5, <1>6, <1>7, <1>8, Advanced

\* A deadline or a withdrawal ends nothing: the target stays occupied.
LEMMA UnknownInv ==
    ASSUME EngineInv, EngineTypeOK', NEW e \in Engines, TimeOut(e) \/ Withdraw(e)
    PROVE  EngineInv'
<1> DEFINE k == cur[e]
<1>1. PICK next \in {TimedOut(recs[e][k]), Withdrawn(recs[e][k])} :
         pc[e] = "due" /\ PutOK(e, k, next) /\ Return(e)
  BY DEF TimeOut, Withdraw
<1>2. recs[e][k] \in Record
  BY <1>1, CurType DEF EngineInv
<1>3. next \in Record
  BY <1>1, <1>2, RecordTypes DEF EngineInv
<1>4. /\ k \in Keys \ keysTodo[e]
      /\ recs[e][k] = journal[k]
      /\ present(k)
      /\ occupies(journal[k].phase)
      /\ journal[k].phase \notin {"Succeeded", "Failed"}
      /\ ~journal[k].ended /\ ~journal[k].refused /\ journal[k].recovery = "None"
  BY <1>1, <1>3, Working
<1>5. /\ next.recovery = "None" /\ ~next.ended /\ ~next.refused
      /\ next.phase \in {"TimedOut", "Withdrawn"}
  BY <1>1, <1>2, <1>4 DEF TimedOut, Withdrawn, Record
<1>6. /\ UNCHANGED <<wire, jobs, epoch, keysTodo>>
      /\ pc'[e] = "loop"
      /\ \A f \in Engines \ {e} : /\ pc'[f] = pc[f]
                                  /\ cur'[f] = cur[f]
                                  /\ answer'[f] = answer[f]
  BY <1>1, Returned DEF EngineInv
<1> HIDE DEF k
<1>7. QED
  BY <1>1, <1>3, <1>4, <1>5, <1>6, Advanced

\* A resend (advance) is written under the current epoch and stays Dispatching.
LEMMA ResendInv ==
    ASSUME EngineInv, EngineTypeOK', NEW e \in Engines, Resend(e)
    PROVE  EngineInv'
<1> DEFINE k == cur[e]
           next == Resent(e, recs[e][k])
<1>1. pc[e] = "due" /\ PutOK(e, k, next) /\ recs[e][k].phase = "Dispatching"
  BY DEF Resend
<1>2. recs[e][k] \in Record
  BY <1>1, CurType DEF EngineInv
<1>3. next \in Record
  BY <1>2, RecordTypes DEF EngineInv
<1>4. /\ k \in Keys \ keysTodo[e]
      /\ recs[e][k] = journal[k]
      /\ present(k)
      /\ occupies(journal[k].phase)
      /\ journal[k].phase \notin {"Succeeded", "Failed"}
      /\ ~journal[k].ended /\ ~journal[k].refused /\ journal[k].recovery = "None"
  BY <1>1, <1>3, Working
<1>5. /\ next.recovery = "None" /\ ~next.ended /\ ~next.refused
      /\ next.phase = "Dispatching"
  BY <1>1, <1>2, <1>4 DEF Resent, Record
<1>6. /\ UNCHANGED <<wire, jobs, epoch, keysTodo, cur, answer>>
      /\ pc' = [pc EXCEPT ![e] = "send"]
  BY DEF Resend, Goto, actorVars, todoVars, localVars
<1>7. /\ pc'[e] = "send" /\ cur'[e] = k
      /\ \A f \in Engines \ {e} : /\ pc'[f] = pc[f]
                                  /\ cur'[f] = cur[f]
                                  /\ answer'[f] = answer[f]
  BY <1>6 DEF EngineInv, EngineTypeOK
<1> HIDE DEF k, next
<1>8. QED
  BY <1>1, <1>3, <1>4, <1>5, <1>6, <1>7, Advanced

\* A recorded receipt (send) is the provider's own acceptance or refusal.
LEMMA ReceiptInv ==
    ASSUME EngineInv, EngineTypeOK', NEW e \in Engines, RecordReceipt(e)
    PROVE  EngineInv'
<1> DEFINE k == cur[e]
           a == answer[e]
           next == Receipted(recs[e][k], a)
<1>1. pc[e] = "receipt" /\ PutOK(e, k, next) /\ Return(e)
  BY DEF RecordReceipt
<1>2. recs[e][k] \in Record /\ a \in Job
  BY <1>1, CurType DEF EngineInv
<1>3. next \in Record
  BY <1>2, RecordTypes DEF EngineInv
<1>4. /\ k \in Keys \ keysTodo[e]
      /\ recs[e][k] = journal[k]
      /\ present(k)
      /\ occupies(journal[k].phase)
      /\ journal[k].phase \notin {"Succeeded", "Failed"}
      /\ ~journal[k].ended /\ ~journal[k].refused /\ journal[k].recovery = "None"
  BY <1>1, <1>3, Working
<1>5. a.state \in Definitive => jobs[k].state = a.state
  BY <1>1 DEF EngineInv, CurInv, WorkInv
<1>6. /\ next.recovery = "None" /\ ~next.ended
      /\ \/ a.state = "Refused" /\ next.phase = "Failed" /\ next.refused
         \/ next.phase = "Accepted" /\ ~next.refused
  BY <1>2, <1>4 DEF Receipted, Record
<1>7. /\ UNCHANGED <<wire, jobs, epoch, keysTodo>>
      /\ pc'[e] = "loop"
      /\ \A f \in Engines \ {e} : /\ pc'[f] = pc[f]
                                  /\ cur'[f] = cur[f]
                                  /\ answer'[f] = answer[f]
  BY <1>1, Returned DEF EngineInv
<1> HIDE DEF next, k, a
<1>8. /\ next.phase = "Succeeded" => jobs[k].state = "Succeeded"
      /\ next.phase = "Failed" =>
            jobs[k].state = IF next.refused THEN "Refused" ELSE "Failed"
      /\ next.phase # "Absent"
      /\ next.refused => next.phase = "Failed"
  BY <1>5, <1>6 DEF Definitive
<1>9. QED
  BY <1>1, <1>3, <1>4, <1>6, <1>7, <1>8, Advanced

\* recover writes only records of ended executions.
LEMMA RecoverInv ==
    ASSUME EngineInv, EngineTypeOK', NEW e \in Engines, NEW k \in Keys, Recover(e, k)
    PROVE  EngineInv'
<1>1. PICK v \in Assessments : PutOK(e, k, [recs[e][k] EXCEPT !.recovery = v])
  BY DEF Recover
<1> DEFINE next == [recs[e][k] EXCEPT !.recovery = v]
<1>2. /\ pc[e] = "loop" /\ keysTodo[e] = {} /\ recs[e][k].ended
      /\ UNCHANGED <<wire, jobs, epoch, keysTodo, pc, cur, answer>>
  BY DEF Recover, Assess, Assessable, actorVars, localVars
<1>3. recs[e][k] \in Record
  BY DEF EngineInv, EngineTypeOK
<1>4. next \in Record
  BY <1>3, RecordTypes DEF EngineInv
<1>5. recs[e] = journal
  BY <1>1, <1>2, <1>4, Writer
<1>6. /\ next.ended
      /\ next.phase = journal[k].phase
      /\ next.refused = journal[k].refused
  BY <1>2, <1>3, <1>5 DEF Record
<1>7. journal[k].phase \in {"Succeeded", "Failed"} /\ ~journal[k].refused
  BY <1>2, <1>5 DEF EngineInv, RecordInv
<1>8. /\ journal[k].phase = "Succeeded" => jobs[k].state = "Succeeded"
      /\ journal[k].phase = "Failed" => jobs[k].state = "Failed"
  BY <1>7 DEF EngineInv, JournalTruthful
<1> HIDE DEF next
<1>9. present(k)
  BY <1>7 DEF present
<1>10. QED
  BY <1>1, <1>2, <1>4, <1>6, <1>7, <1>8, <1>9, Advanced DEF next

(***************************************************************************)
(* decide: the new attempt finds its target free.  No other proposal holds *)
(* it (busy), and of its own proposal every earlier attempt failed.        *)
(***************************************************************************)
LEMMA DispatchInv ==
    ASSUME EngineInv, EngineTypeOK', NEW e \in Engines, NEW s \in Subjects, Dispatch(e, s)
    PROVE  EngineInv'
<1> DEFINE n == episode[e][s]
           next == Dispatching(e, s)
<1>1. PICK a \in Attempts :
         /\ MayDispatch(e, s, a)
         /\ PutOK(e, <<s, n, a>>, next)
         /\ cur' = [cur EXCEPT ![e] = <<s, n, a>>]
  BY DEF Dispatch
<1> DEFINE k == <<s, n, a>>
<1>2. /\ pc[e] = "loop" /\ keysTodo[e] = {}
      /\ pc' = [pc EXCEPT ![e] = "send"]
      /\ UNCHANGED <<wire, jobs, epoch, keysTodo, answer>>
  BY DEF Dispatch, Decide, Goto, actorVars
<1>3. n \in Episodes /\ k \in Keys
  BY <1>1, KeyType DEF MayDispatch
<1>4. next \in Record
  BY RecordTypes DEF EngineInv
<1>5. next.phase = "Dispatching" /\ ~next.ended /\ ~next.refused /\ next.recovery = "None"
  BY DEF Dispatching, Blank
<1>6. recs[e] = journal
  BY <1>1, <1>2, <1>3, <1>4, Writer
<1>7. PICK r \in Record :
        /\ journal' = [journal EXCEPT ![k] = r]
        /\ r.phase = "Dispatching"
        /\ ~r.ended /\ ~r.refused /\ r.recovery = "None"
  BY <1>1, <1>2, <1>3, <1>4, <1>5, Writer
<1>8. /\ journal'[k] = r
      /\ \A j \in Keys : j # k => journal'[j] = journal[j]
  BY <1>7, <1>3 DEF EngineInv, EngineTypeOK, JournalTypeOK
<1>9. \A j \in Keys : ProposalID(j) = <<s, n>> => j = <<s, n, Attempt(j)>> /\ Attempt(j) \in Attempts
  BY DEF Keys, ProposalID, Attempt
<1>10. ProposalID(k) = <<s, n>> /\ Attempt(k) = a /\ TargetUID(k) = TargetOf[s]
  BY DEF ProposalID, Attempt, TargetUID
<1>11. \A j \in Keys : TargetUID(j) = TargetOf[s] /\ ProposalID(j) # <<s, n>>
                         => ~occupies(journal[j].phase)
  BY <1>1, <1>6 DEF MayDispatch, busy
<1>12. NextAttempt(journal, s, n, a)
  BY <1>1, <1>6 DEF MayDispatch
\* Attempts of this proposal: all earlier ones failed, no later one exists.
<1>13. ASSUME NEW j \in Keys, ProposalID(j) = <<s, n>>
       PROVE  /\ present(j) => Attempt(j) < a
              /\ Attempt(j) < a => journal[j].phase = "Failed"
  <2>1. j = <<s, n, Attempt(j)>> /\ Attempt(j) \in Attempts
    BY <1>9, <1>13
  <2>2. a \in Nat \ {0} /\ Attempt(j) \in Nat \ {0}
    BY <2>1 DEF Attempts
  <2>3. CASE a = 1 /\ \A b \in Attempts : journal[<<s, n, b>>].phase = "Absent"
    BY <2>1, <2>2, <2>3 DEF present
  <2>4. CASE /\ a - 1 \in Attempts
             /\ LastAttempt(journal, s, n, a - 1)
             /\ journal[<<s, n, a - 1>>].phase = "Failed"
    <3>1. present(j) => Attempt(j) <= a - 1
      BY <2>1, <2>4 DEF LastAttempt, present
    <3>2. DEFINE i == <<s, n, a - 1>>
    <3>3. i \in Keys /\ ProposalID(i) = <<s, n>> /\ Attempt(i) = a - 1 /\ present(i)
      BY <1>3, <2>4, KeyType DEF ProposalID, Attempt, present
    <3>4. Attempt(j) < a - 1 => journal[j].phase = "Failed"
      BY <1>13, <3>3 DEF EngineInv, AttemptChain
    <3>5. Attempt(j) = a - 1 => journal[j].phase = "Failed"
      BY <2>1, <2>4
    <3>6. QED
      BY <2>2, <3>1, <3>4, <3>5
  <2>5. QED
    BY <1>12, <2>3, <2>4 DEF NextAttempt
<1>14. ~present(k) /\ \A j \in Keys : present(j) => present(j)'
  <2>1. ~(a < a)
    BY DEF Attempts
  <2>2. ~present(k)
    BY <1>3, <1>10, <1>13, <2>1
  <2>3. QED
    BY <1>7, <1>8, <2>2 DEF present
<1>15. RecordInv'
  BY <1>7, <1>8 DEF EngineInv, RecordInv
<1>16. \A j \in Keys : TargetUID(j) = TargetOf[s] => ~occupies(journal[j].phase)
  <2>1. \A j \in Keys : ProposalID(j) = <<s, n>> => ~occupies(journal[j].phase)
    BY <1>13 DEF occupies, present
  <2>2. QED
    BY <1>11, <2>1
<1>17. JournalExclusive'
  BY <1>8, <1>10, <1>16 DEF EngineInv, JournalExclusive
<1>18. AttemptChain'
  <2> SUFFICES ASSUME NEW i \in Keys, NEW j \in Keys,
                      ProposalID(i) = ProposalID(j), Attempt(i) < Attempt(j), present(j)'
               PROVE  journal'[i].phase = "Failed"
    BY DEF AttemptChain
  <2>1. CASE j = k
    <3>1. ProposalID(i) = <<s, n>> /\ Attempt(i) < a
      BY <1>10, <2>1
    <3>2. i # k
      BY <1>10, <3>1 DEF Attempts
    <3>3. QED
      BY <1>8, <1>13, <3>1, <3>2
  <2>2. CASE j # k
    <3>1. present(j) /\ journal[i].phase = "Failed"
      BY <1>8, <2>2 DEF EngineInv, AttemptChain, present
    <3>2. i # k
      BY <1>14, <3>1 DEF present
    <3>3. QED
      BY <1>8, <3>1, <3>2
  <2>3. QED
    BY <2>1, <2>2
<1>19. /\ pc'[e] = "send" /\ cur'[e] = k
       /\ \A f \in Engines \ {e} : /\ pc'[f] = pc[f]
                                   /\ cur'[f] = cur[f]
                                   /\ answer'[f] = answer[f]
  BY <1>1, <1>2 DEF EngineInv, EngineTypeOK
<1> HIDE DEF next, k, n
<1>20. QED
  BY <1>1, <1>2, <1>3, <1>4, <1>5, <1>14, <1>15, <1>17, <1>18, <1>19, Written DEF k

\* A new owner starts from nothing, and no earlier engine can write again.
LEMMA TakeEpochInv ==
    ASSUME EngineInv, EngineTypeOK', NEW e \in Engines, TakeEpoch(e)
    PROVE  EngineInv'
<1>1. /\ pc[e] = "idle" /\ epoch[e] = 0
      /\ journalEpoch' = journalEpoch + 1
      /\ epoch' = [epoch EXCEPT ![e] = journalEpoch + 1]
      /\ UNCHANGED <<journal, wire, jobs, pc, recs, keysTodo, cur, answer>>
  BY DEF TakeEpoch, IssueEpoch, actorVars, todoVars, localVars
<1>2. /\ journalEpoch \in Nat
      /\ epoch'[e] = journalEpoch + 1
      /\ \A f \in Engines : epoch[f] \in Nat /\ epoch[f] <= journalEpoch
      /\ \A f \in Engines \ {e} : epoch'[f] = epoch[f]
  BY <1>1 DEF EngineInv, EpochInv, EngineTypeOK, JournalTypeOK
<1>3. ASSUME NEW f \in Engines, f # e
      PROVE  epoch'[f] = epoch[f] /\ epoch'[f] # epoch'[e] /\ epoch'[f] <= journalEpoch'
  <2>1. epoch'[f] = epoch[f] /\ epoch[f] <= journalEpoch /\ epoch[f] \in Nat
    BY <1>2, <1>3
  <2>2. QED
    BY <1>1, <1>2, <2>1
<1>4. EpochInv'
  <2>1. \A f \in Engines : epoch'[f] <= journalEpoch'
    <3>1. epoch'[e] <= journalEpoch'
      BY <1>1, <1>2
    <3>2. QED
      BY <3>1, <1>3
  <2>2. \A f, g \in Engines : epoch'[f] = epoch'[g] /\ epoch'[f] # 0 => f = g
    BY <1>3 DEF EngineInv, EpochInv
  <2>3. \A f \in Engines : pc'[f] # "idle" => epoch'[f] # 0
    BY <1>1, <1>2 DEF EngineInv, EpochInv
  <2>4. QED
    BY <2>1, <2>2, <2>3 DEF EpochInv
<1>5. OwnerViewCurrent'
  BY <1>1, <1>2, <1>3 DEF OwnerViewCurrent
<1>6. RecordInv' /\ JournalExclusive' /\ AttemptChain'
  BY <1>1, JournalKept
<1>7. RecordedInv' /\ JournalTruthful'
  BY <1>1 DEF EngineInv, RecordedInv, JournalTruthful, present
<1>8. CurInv'
  BY <1>1, OthersWork DEF CurInv
<1>9. QED
  BY <1>4, <1>5, <1>6, <1>7, <1>8 DEF EngineInv

\* A step begins with the journal as it is.
LEMMA ListInv ==
    ASSUME EngineInv, EngineTypeOK', NEW e \in Engines, List(e)
    PROVE  EngineInv'
<1>1. /\ pc[e] = "idle" /\ epoch[e] # 0
      /\ recs' = [recs EXCEPT ![e] = journal]
      /\ keysTodo' = [keysTodo EXCEPT ![e] = {k \in Keys : occupies(journal[k].phase)}]
      /\ pc' = [pc EXCEPT ![e] = "loop"]
      /\ UNCHANGED <<journalEpoch, journal, wire, jobs, epoch, cur, answer>>
  BY DEF List, journalVars, actorVars, localVars
<1>2. /\ recs'[e] = journal /\ pc'[e] = "loop"
      /\ keysTodo'[e] = {k \in Keys : occupies(journal[k].phase)}
      /\ \A f \in Engines : f # e => /\ recs'[f] = recs[f]
                                     /\ pc'[f] = pc[f]
                                     /\ keysTodo'[f] = keysTodo[f]
  BY <1>1 DEF EngineInv, EngineTypeOK
<1>3. EpochInv' /\ OwnerViewCurrent'
  BY <1>1, <1>2 DEF EngineInv, EpochInv, OwnerViewCurrent
<1>4. RecordInv' /\ JournalExclusive' /\ AttemptChain'
  BY <1>1, JournalKept
<1>5. RecordedInv' /\ JournalTruthful'
  BY <1>1, <1>2 DEF EngineInv, RecordedInv, JournalTruthful, present
<1>6. WorkInv(e)'
  BY <1>2 DEF WorkInv
<1>7. CurInv'
  BY <1>1, <1>2, <1>6, OthersWork DEF CurInv
<1>8. QED
  BY <1>3, <1>4, <1>5, <1>7 DEF EngineInv

\* A poll (advance) takes the provider's answer of this moment.
LEMMA PollInv ==
    ASSUME EngineInv, EngineTypeOK', NEW e \in Engines, NEW k \in Keys, NEW a \in Job,
           Poll(e, k, a), a.state \in Definitive => jobs[k].state = a.state
    PROVE  EngineInv'
<1>1. /\ pc[e] = "loop" /\ k \in keysTodo[e]
      /\ keysTodo' = [keysTodo EXCEPT ![e] = keysTodo[e] \ {k}]
      /\ cur' = [cur EXCEPT ![e] = k]
      /\ answer' = [answer EXCEPT ![e] = a]
      /\ pc' = [pc EXCEPT ![e] = IF Adoptable(recs[e][k], a) THEN "polled" ELSE "due"]
      /\ UNCHANGED <<journalEpoch, journal, wire, jobs, epoch, recs>>
  BY DEF Poll, Visit, Goto, journalVars, actorVars
<1>2. /\ keysTodo'[e] = keysTodo[e] \ {k} /\ cur'[e] = k /\ answer'[e] = a
      /\ pc'[e] = IF Adoptable(recs[e][k], a) THEN "polled" ELSE "due"
      /\ \A f \in Engines : f # e => /\ keysTodo'[f] = keysTodo[f]
                                     /\ cur'[f] = cur[f]
                                     /\ answer'[f] = answer[f]
                                     /\ pc'[f] = pc[f]
  BY <1>1 DEF EngineInv, EngineTypeOK
<1>3. WorkInv(e)
  BY DEF EngineInv, CurInv
<1>4. Adoptable(recs'[e][k], a) <=> Adoptable(recs[e][k], a)
  BY <1>1
<1>5. WorkInv(e)'
  <2>1. /\ \A j \in keysTodo'[e] : occupies(recs'[e][j].phase)
        /\ cur'[e] \in Keys \ keysTodo'[e]
        /\ occupies(recs'[e][cur'[e]].phase)
    BY <1>1, <1>2, <1>3 DEF WorkInv
  <2>2. pc'[e] = "polled" => Adoptable(recs'[e][cur'[e]], answer'[e])
    BY <1>2, <1>4
  <2>3. pc'[e] \notin {"send", "receipt"}
    BY <1>2
  <2>4. answer'[e].state \in Definitive => jobs'[cur'[e]].state = answer'[e].state
    BY <1>1, <1>2
  <2>5. QED
    BY <2>1, <2>2, <2>3, <2>4 DEF WorkInv, Adoptable, matches
<1>6. QED
  BY <1>1, <1>2, <1>5, Unwritten

\* An engine that goes on without a write: a foreign record, a lost or unusable
\* answer, nothing due, a failed write, a proposal only shown.
LEMMA ProceedInv ==
    ASSUME EngineInv, EngineTypeOK', NEW e \in Engines,
           \/ \E k \in Keys : SkipForeign(e, k) \/ RecoverPending(e, k)
           \/ AdoptFails(e) \/ Wait(e) \/ DropReceipt(e)
           \/ \E s \in Subjects : ShowOnly(e, s)
    PROVE  EngineInv'
<1>1. WorkInv(e)
  BY DEF EngineInv, CurInv
<1>2. ASSUME NEW k \in Keys, SkipForeign(e, k)
      PROVE  EngineInv'
  <2>1. /\ pc[e] = "loop"
        /\ keysTodo' = [keysTodo EXCEPT ![e] = keysTodo[e] \ {k}]
        /\ UNCHANGED <<journalEpoch, journal, wire, jobs, epoch, recs, pc, cur, answer>>
    BY <1>2 DEF SkipForeign, Visit, journalVars, actorVars, localVars
  <2>2. /\ keysTodo'[e] = keysTodo[e] \ {k}
        /\ \A f \in Engines : f # e => keysTodo'[f] = keysTodo[f]
    BY <2>1 DEF EngineInv, EngineTypeOK
  <2>3. WorkInv(e)'
    BY <1>1, <2>1, <2>2 DEF WorkInv
  <2>4. QED
    BY <2>1, <2>2, <2>3, Unwritten
<1>3. ASSUME pc[e] = "loop",
             UNCHANGED <<journalEpoch, journal, wire, jobs, epoch, recs, pc, keysTodo, cur, answer>>
      PROVE  EngineInv'
  BY <1>1, <1>3, Unwritten DEF WorkInv
<1>4. ASSUME NEW k \in Keys, RecoverPending(e, k)
      PROVE  EngineInv'
  BY <1>3, <1>4 DEF RecoverPending, Assess, PutFails, journalVars, actorVars, localVars
<1>5. ASSUME NEW s \in Subjects, ShowOnly(e, s)
      PROVE  EngineInv'
  BY <1>3, <1>5 DEF ShowOnly, Decide, PutFails, journalVars, actorVars
<1>6. CASE AdoptFails(e)
  <2>1. /\ pc[e] = "polled" /\ pc' = [pc EXCEPT ![e] = "due"]
        /\ UNCHANGED <<journalEpoch, journal, wire, jobs, epoch, recs, keysTodo, cur, answer>>
    BY <1>6 DEF AdoptFails, PutFails, Goto, journalVars, actorVars, todoVars, localVars
  <2>2. pc'[e] = "due" /\ \A f \in Engines : f # e => pc'[f] = pc[f]
    BY <2>1 DEF EngineInv, EngineTypeOK
  <2>3. WorkInv(e)'
    BY <1>1, <2>1, <2>2 DEF WorkInv
  <2>4. QED
    BY <2>1, <2>2, <2>3, Unwritten
<1>7. CASE Wait(e) \/ DropReceipt(e)
  <2>1. /\ pc[e] \in {"due", "receipt"} /\ Return(e)
        /\ UNCHANGED <<journalEpoch, journal, recs>>
    BY <1>7 DEF Wait, DropReceipt, PutFails, journalVars
  <2>2. /\ UNCHANGED <<wire, jobs, epoch, keysTodo>>
        /\ pc'[e] = "loop"
        /\ \A f \in Engines \ {e} : /\ pc'[f] = pc[f]
                                    /\ cur'[f] = cur[f]
                                    /\ answer'[f] = answer[f]
    BY <2>1, Returned DEF EngineInv
  <2>3. WorkInv(e)'
    BY <1>1, <2>1, <2>2 DEF WorkInv
  <2>4. QED
    BY <2>1, <2>2, <2>3, Unwritten
<1>8. QED
  BY <1>2, <1>4, <1>5, <1>6, <1>7

\* Ending a step or dying forgets only what the step held.
LEMMA DiscardInv ==
    ASSUME EngineInv, EngineTypeOK', NEW e \in Engines, Finish(e) \/ Crash(e)
    PROVE  EngineInv'
<1>1. /\ pc' = [pc EXCEPT ![e] = "idle"]
      /\ recs' = [recs EXCEPT ![e] = NoRecs]
      /\ keysTodo' = [keysTodo EXCEPT ![e] = {}]
      /\ cur' = [cur EXCEPT ![e] = NoKey]
      /\ answer' = [answer EXCEPT ![e] = NoJob]
      /\ epoch' = epoch \/ epoch' = [epoch EXCEPT ![e] = 0]
      /\ UNCHANGED <<journalEpoch, journal, wire, jobs>>
  BY DEF Finish, Crash, Discard, journalVars, actorVars
<1>2. /\ pc'[e] = "idle" /\ keysTodo'[e] = {} /\ epoch'[e] \in {0, epoch[e]}
      /\ \A f \in Engines \ {e} : /\ epoch'[f] = epoch[f]
                                  /\ pc'[f] = pc[f]
                                  /\ recs'[f] = recs[f]
                                  /\ keysTodo'[f] = keysTodo[f]
                                  /\ cur'[f] = cur[f]
                                  /\ answer'[f] = answer[f]
  BY <1>1 DEF EngineInv, EngineTypeOK
<1>3. WorkInv(e)'
  BY <1>2 DEF WorkInv
<1>4. QED
  BY <1>1, <1>2, <1>3, Unwritten

-----------------------------------------------------------------------------
(***************************************************************************)
(* The provider: it starts only what it was handed, and an end is final.   *)
(***************************************************************************)
LEMMA HandleJobs ==
    ASSUME EngineInv, NEW h \in Handoff, Handle(h) \/ Ignore(h)
    PROVE  \A k \in Keys : /\ jobs[k].state \in Definitive => jobs'[k].state = jobs[k].state
                           /\ jobs'[k].state # jobs[k].state =>
                                k = h.key /\ jobs[k].state = "Unknown"
<1>1. h.key \in Keys /\ jobs \in [Keys -> Job]
  BY DEF EngineInv, EngineTypeOK, ActorTypeOK, Handoff
<1>2. CASE Handle(h) /\ jobs[h.key].state = "Unknown"
  <2>1. PICK state \in {"Pending", "Refused"} :
           jobs' = [jobs EXCEPT ![h.key] =
                      [state |-> state, fence |-> h.fence, digest |-> h.digest]]
    BY <1>2 DEF Handle
  <2>2. \A k \in Keys : k # h.key => jobs'[k] = jobs[k]
    BY <1>1, <2>1
  <2>3. QED
    BY <1>2, <2>2 DEF Definitive
<1>3. CASE Handle(h) /\ jobs[h.key].state # "Unknown"
  <2>1. jobs' = [jobs EXCEPT ![h.key] = [jobs[h.key] EXCEPT !.fence = h.fence]]
    BY <1>3 DEF Handle
  <2>2. [jobs[h.key] EXCEPT !.fence = h.fence].state = jobs[h.key].state
    BY <1>1 DEF Job
  <2>3. \A k \in Keys : jobs'[k].state = jobs[k].state
    BY <1>1, <2>1, <2>2
  <2>4. QED
    BY <2>3
<1>4. CASE Ignore(h)
  BY <1>4 DEF Ignore
<1>5. QED
  BY <1>2, <1>3, <1>4

\* The journal's claims about ends survive what the provider does.
LEMMA TruthKept ==
    ASSUME EngineInv, journal' = journal,
           \A k \in Keys : jobs[k].state \in Definitive => jobs'[k].state = jobs[k].state
    PROVE  JournalTruthful'
BY DEF EngineInv, JournalTruthful, Definitive

\* A submission (send) reaches the actor with a record behind it.
LEMMA SubmitInv ==
    ASSUME EngineInv, EngineTypeOK', NEW e \in Engines, Submit(e) \/ SubmitFails(e)
    PROVE  EngineInv'
<1> DEFINE k == cur[e]
<1>1. /\ pc[e] = "send"
      /\ wire' = wire \cup {HandoffOf(e)}
      /\ UNCHANGED <<journalEpoch, journal, epoch, recs, keysTodo>>
  BY DEF Submit, SubmitFails, CallSubmit, journalVars, todoVars
<1>2. /\ WorkInv(e) /\ k \in Keys \ keysTodo[e] /\ present(k)
      /\ recs[e][k].phase = "Dispatching" /\ recs[e][k] \in Record
  BY <1>1, CurType DEF EngineInv, CurInv, WorkInv, RecordedInv
<1>3. HandoffOf(e) \in Handoff /\ HandoffOf(e).key = k
  BY <1>2 DEF HandoffOf, Handoff, Record
<1>4. \A j \in Keys : /\ jobs[j].state \in Definitive => jobs'[j].state = jobs[j].state
                      /\ jobs'[j].state # jobs[j].state => j = k
  <2>1. CASE Submit(e)
    BY <1>3, <2>1, HandleJobs DEF Submit
  <2>2. CASE SubmitFails(e)
    BY <2>2 DEF SubmitFails
  <2>3. QED
    BY <2>1, <2>2
<1>5. /\ \A f \in Engines : f # e => /\ pc'[f] = pc[f]
                                     /\ cur'[f] = cur[f]
                                     /\ answer'[f] = answer[f]
      /\ \/ pc'[e] = "loop"
         \/ /\ pc'[e] = "receipt" /\ cur'[e] = k
            /\ answer'[e].state = jobs'[k].state
  <2>1. CASE Submit(e)
    <3>1. /\ pc' = [pc EXCEPT ![e] = "receipt"]
          /\ answer' = [answer EXCEPT ![e] = [jobs'[cur[e]] EXCEPT !.digest = HandoffOf(e).digest]]
          /\ cur' = cur
      BY <2>1 DEF Submit, Goto
    <3>2. jobs'[k] \in Job
      BY <1>2 DEF EngineTypeOK, ActorTypeOK
    <3>3. [jobs'[cur[e]] EXCEPT !.digest = HandoffOf(e).digest].state = jobs'[k].state
      BY <3>2 DEF Job
    <3>4. QED
      BY <3>1, <3>3 DEF EngineInv, EngineTypeOK
  <2>2. CASE SubmitFails(e)
    BY <2>2 DEF SubmitFails, Goto, EngineInv, EngineTypeOK
  <2>3. QED
    BY <2>1, <2>2
<1>6. EpochInv' /\ OwnerViewCurrent'
  BY <1>1, <1>5 DEF EngineInv, EpochInv, OwnerViewCurrent
<1>7. RecordInv' /\ JournalExclusive' /\ AttemptChain'
  BY <1>1, JournalKept
<1>8. RecordedInv'
  <2>1. \A j : present(j)' <=> present(j)
    BY <1>1 DEF present
  <2>2. \A h \in wire' : present(h.key)
    BY <1>1, <1>2, <1>3 DEF EngineInv, RecordedInv
  <2>3. \A j \in Keys : jobs'[j].state # "Unknown" => present(j)
    BY <1>2, <1>4 DEF EngineInv, RecordedInv
  <2>4. \A f \in Engines : pc'[f] = "send" => present(cur'[f])
    BY <1>5 DEF EngineInv, RecordedInv
  <2>5. QED
    BY <1>1, <2>1, <2>2, <2>3, <2>4 DEF RecordedInv, present
<1>9. WorkInv(e)'
  <2>1. \A j \in keysTodo'[e] : occupies(recs'[e][j].phase)
    BY <1>1, <1>2 DEF WorkInv
  <2>2. CASE pc'[e] = "loop"
    BY <2>1, <2>2 DEF WorkInv
  <2>3. CASE pc'[e] = "receipt" /\ cur'[e] = k /\ answer'[e].state = jobs'[k].state
    BY <1>1, <1>2, <2>1, <2>3 DEF WorkInv, occupies
  <2>4. QED
    BY <1>5, <2>2, <2>3
<1>10. CurInv'
  BY <1>1, <1>4, <1>5, <1>9, OthersWork DEF CurInv
<1>11. JournalTruthful'
  BY <1>1, <1>4, TruthKept
<1>12. QED
  BY <1>6, <1>7, <1>8, <1>10, <1>11 DEF EngineInv

\* Late deliveries and ends at the actor keep the invariant.
LEMMA ActorInv ==
    ASSUME EngineInv, EngineTypeOK', ActorStep
    PROVE  EngineInv'
<1>1. UNCHANGED <<journalEpoch, journal, wire, epoch, pc, recs, keysTodo, cur, answer>>
  BY DEF ActorStep, Deliver, Settle, journalVars, engineVars, todoVars, localVars
<1>2. \A k \in Keys : /\ jobs[k].state \in Definitive => jobs'[k].state = jobs[k].state
                      /\ jobs'[k].state # "Unknown" => present(k)
  <2>1. ASSUME NEW h \in wire, Deliver(h)
        PROVE  \A k \in Keys : /\ jobs[k].state \in Definitive => jobs'[k].state = jobs[k].state
                               /\ jobs'[k].state # "Unknown" => present(k)
    <3>1. h \in Handoff /\ present(h.key)
      BY DEF EngineInv, EngineTypeOK, ActorTypeOK, RecordedInv
    <3>2. QED
      BY <2>1, <3>1, HandleJobs DEF Deliver, EngineInv, RecordedInv
  <2>2. ASSUME NEW j \in Keys, Settle(j)
        PROVE  \A k \in Keys : /\ jobs[k].state \in Definitive => jobs'[k].state = jobs[k].state
                               /\ jobs'[k].state # "Unknown" => present(k)
    <3>1. PICK state \in {"Succeeded", "Failed"} :
            jobs' = [jobs EXCEPT ![j] = [jobs[j] EXCEPT !.state = state]]
      BY <2>2 DEF Settle
    <3>2. \A k \in Keys : k # j => jobs'[k] = jobs[k]
      BY <3>1 DEF EngineInv, EngineTypeOK, ActorTypeOK
    <3>3. jobs[j].state = "Pending"
      BY <2>2 DEF Settle, Live
    <3>4. QED
      BY <3>2, <3>3 DEF Definitive, EngineInv, RecordedInv
  <2>3. QED
    BY <2>1, <2>2 DEF ActorStep
<1>3. EpochInv' /\ OwnerViewCurrent'
  BY <1>1 DEF EngineInv, EpochInv, OwnerViewCurrent
<1>4. RecordInv' /\ JournalExclusive' /\ AttemptChain'
  BY <1>1, JournalKept
<1>5. RecordedInv'
  BY <1>1, <1>2 DEF EngineInv, RecordedInv, present
<1>6. CurInv'
  BY <1>1, <1>2, OthersWork DEF CurInv
<1>7. JournalTruthful'
  BY <1>1, <1>2, TruthKept
<1>8. QED
  BY <1>3, <1>4, <1>5, <1>6, <1>7 DEF EngineInv

-----------------------------------------------------------------------------
\* Every step of an engine, a crash and every actor step keep the invariant.
LEMMA NextInv == EngineInv /\ [Next]_vars => EngineInv'
<1> SUFFICES ASSUME EngineInv, [Next]_vars
             PROVE  EngineInv'
  OBVIOUS
<1>1. ASSUME NEW e \in Engines, EngineStep(e) \/ Crash(e)
      PROVE  EngineInv'
  <2>1. EngineTypeOK'
    BY <1>1, StepType DEF EngineInv
  <2>2. ASSUME NEW k \in Keys, PollAnswered(e, k) \/ PollFails(e, k)
        PROVE  EngineInv'
    <3>1. jobs[k] \in Job /\ NoJob \in Job /\ NoJob.state \notin Definitive
      BY BlankType DEF EngineInv, EngineTypeOK, ActorTypeOK, NoJob, Definitive
    <3>2. QED
      BY <2>1, <2>2, <3>1, PollInv DEF PollAnswered, PollFails
  <2>3. QED
    BY <1>1, <2>1, <2>2, TakeEpochInv, ListInv, AdoptInv, UnknownInv, ResendInv, ReceiptInv,
       RecoverInv, DispatchInv, ProceedInv, SubmitInv, DiscardInv DEF EngineStep
<1>2. CASE ActorStep
  BY <1>2, ActorType, ActorInv DEF EngineInv
<1>3. CASE UNCHANGED vars
  <2>1. UNCHANGED <<journalEpoch, journal, wire, highFence, jobs, epoch, pc, recs, in, episode,
                    keysTodo, assessed, subjTodo, cur, answer, submits>>
    BY <1>3 DEF vars, journalVars, actorVars, engineVars, inputVars, todoVars, localVars
  <2>2. EngineTypeOK'
    BY <2>1 DEF EngineInv, EngineTypeOK, JournalTypeOK, ActorTypeOK
  <2>3. CurInv'
    BY <2>1, OthersWork DEF CurInv
  <2>4. RecordInv' /\ JournalExclusive' /\ AttemptChain'
    BY <2>1, JournalKept
  <2>5. QED
    BY <2>1, <2>2, <2>3, <2>4 DEF EngineInv, EpochInv, OwnerViewCurrent, RecordedInv,
         JournalTruthful, present
<1>4. QED
  BY <1>1, <1>2, <1>3 DEF Next

-----------------------------------------------------------------------------
(***************************************************************************)
(* Theorems of the specification.                                          *)
(***************************************************************************)

\* The inductive invariant holds of every engine, journal and provider.
THEOREM Inductive == Spec => []EngineInv
BY InitInv, NextInv, PTL DEF Spec

\* Every variable keeps its type; in particular adopt and send only ever
\* persist phases the journal knows.
THEOREM TypeCorrect == Spec => []EngineTypeOK
<1>1. EngineInv => EngineTypeOK
  BY DEF EngineInv
<1>2. QED
  BY <1>1, Inductive, PTL

\* An attempt the provider works on has a record that still occupies its
\* target, and the journal lets one attempt occupy a target.
THEOREM TargetExclusive == Spec => []LiveExclusive
<1>1. EngineInv => LiveExclusive
  <2> SUFFICES ASSUME EngineInv, NEW j \in Keys, NEW k \in Keys,
                      Live(j), Live(k), TargetUID(j) = TargetUID(k)
               PROVE  j = k
    BY DEF LiveExclusive
  <2>1. ASSUME NEW i \in Keys, Live(i)
        PROVE  occupies(journal[i].phase)
    <3>1. jobs[i].state = "Pending" /\ journal[i].phase # "Absent"
      BY <2>1 DEF Live, EngineInv, RecordedInv, present
    <3>2. journal[i].phase \notin {"Succeeded", "Failed"}
      BY <3>1 DEF EngineInv, JournalTruthful
    <3>3. journal[i].phase \in Phases
      BY DEF EngineInv, EngineTypeOK, JournalTypeOK, Record
    <3>4. QED
      BY <3>1, <3>2, <3>3 DEF occupies, Phases
  <2>2. QED
    BY <2>1 DEF EngineInv, JournalExclusive
<1>2. QED
  BY <1>1, Inductive, PTL

\* What the journal says of an end is what the provider did.
THEOREM JournalIsTruthful == Spec => []JournalTruthful
<1>1. EngineInv => JournalTruthful
  BY DEF EngineInv
<1>2. QED
  BY <1>1, Inductive, PTL

\* The engine with the newest epoch works on the journal as it is.
THEOREM OwnerSeesJournal == Spec => []OwnerViewCurrent
<1>1. EngineInv => OwnerViewCurrent
  BY DEF EngineInv
<1>2. QED
  BY <1>1, Inductive, PTL

\* An attempt is repeated only after a failure or a refusal the provider
\* itself reported.
THEOREM RetriesFollowFailures == Spec => []RetryAfterFailure
<1>1. EngineInv => RetryAfterFailure
  <2> SUFFICES ASSUME EngineInv, NEW k \in Keys, Attempt(k) > 1, present(k)
               PROVE  jobs[<<Subject(k), Episode(k), Attempt(k) - 1>>].state
                        \in {"Failed", "Refused"}
    BY DEF RetryAfterFailure, present
  <2> DEFINE j == <<Subject(k), Episode(k), Attempt(k) - 1>>
  <2>1. /\ j \in Keys
        /\ ProposalID(j) = ProposalID(k)
        /\ Attempt(j) = Attempt(k) - 1
        /\ Attempt(k) \in Nat
    BY DEF Keys, Subject, Episode, Attempt, Attempts, ProposalID
  <2>2. Attempt(j) < Attempt(k)
    BY <2>1
  <2>3. journal[j].phase = "Failed"
    BY <2>1, <2>2 DEF EngineInv, AttemptChain
  <2>4. QED
    BY <2>1, <2>3 DEF EngineInv, JournalTruthful
<1>2. QED
  BY <1>1, Inductive, PTL

-----------------------------------------------------------------------------
(***************************************************************************)
(* The history of the action engine: what was persisted before it was      *)
(* sent, how often it was sent, what stays finished, which episodes were   *)
(* earned, and that the whole implements TargetLease.                      *)
(*                                                                         *)
(* The engines, crashed or overtaken ones included, change a record only   *)
(* by a write that gets past Journal.Put.  Rewritten lists what such a     *)
(* write may do; every theorem below follows from that list.               *)
(***************************************************************************)

-----------------------------------------------------------------------------
(***************************************************************************)
(* The life of a record: it is created, advanced or resent while it        *)
(* occupies its target, and assessed once after its execution ended.       *)
(***************************************************************************)
Rewritten(e, r, w) ==
    \/ /\ r.phase = "Absent"
       /\ w.phase = "Dispatching"
       /\ w.sentFence = epoch[e]
       /\ w.sends = 1
    \/ /\ occupies(r.phase)
       /\ w.phase # "Absent"
       /\ w.digest = r.digest
       /\ \/ w.sentFence = r.sentFence /\ w.sends = r.sends
          \/ w.sentFence = epoch[e] /\ w.sends = r.sends + 1 /\ r.sends < MaxSends
    \/ /\ r.ended
       /\ r.recovery = "None"
       /\ w = [r EXCEPT !.recovery = w.recovery, !.fence = w.fence, !.version = w.version]

\* A step in which engine e replaces the record of k by w.
Writes(e, k, w) ==
    /\ pc[e] \notin {"idle", "send"}
    /\ epoch[e] = journalEpoch
    /\ w \in Record
    /\ Rewritten(e, journal[k], w)
    /\ present(k) \/ Episode(k) = episode[e][Subject(k)]
    /\ journal' = [journal EXCEPT ![k] = w]
    /\ recs' = [recs EXCEPT ![e] = journal']
    /\ UNCHANGED <<journalEpoch, wire, jobs, submits, episode>>
    /\ \A f \in Engines \ {e} : pc'[f] = pc[f] /\ cur'[f] = cur[f]
    /\ \/ pc'[e] = "loop" /\ w.sends = journal[k].sends
       \/ /\ pc'[e] = "send" /\ cur'[e] = k
          /\ w.sends = IF present(k) THEN journal[k].sends + 1 ELSE 1

\* What step.put stores is the record it was given, but for fence and version.
LEMMA PutStores ==
    ASSUME EngineInv, NEW e \in Engines, pc[e] # "idle",
           NEW k \in Keys, NEW next \in Record, PutOK(e, k, next)
    PROVE  \E w \in Record :
             /\ w = [next EXCEPT !.fence = w.fence, !.version = w.version]
             /\ journal' = [journal EXCEPT ![k] = w]
             /\ recs' = [recs EXCEPT ![e] = journal']
             /\ epoch[e] = journalEpoch
             /\ journalEpoch' = journalEpoch
             /\ recs[e] = journal
<1> DEFINE n == [next EXCEPT !.fence = epoch[e]]
           w == Stored(n)
<1>1. n \in Record /\ n.fence = epoch[e]
  BY DEF EngineInv, EngineTypeOK, Record
<1>2. w = [next EXCEPT !.fence = w.fence, !.version = w.version] /\ w \in Record
  <2>1. next.version + 1 \in Nat /\ epoch[e] \in Nat
    BY DEF EngineInv, EngineTypeOK, Record
  <2>2. w = [next EXCEPT !.fence = epoch[e], !.version = next.version + 1]
    BY DEF Stored, Record
  <2>3. QED
    BY <2>1, <2>2 DEF Record
<1>3. /\ ~(n.fence < journalEpoch)
      /\ journal' = [journal EXCEPT ![k] = w]
  BY DEF PutOK, Put, fenced
<1> HIDE DEF w, n
<1>4. epoch[e] = journalEpoch
  <2>1. epoch[e] \in Nat /\ journalEpoch \in Nat /\ epoch[e] <= journalEpoch
    BY DEF EngineInv, EpochInv, EngineTypeOK, JournalTypeOK
  <2>2. QED
    BY <1>1, <1>3, <2>1
<1>5. recs[e] = journal /\ journalEpoch' = journalEpoch /\ recs' = [recs EXCEPT ![e] = journal']
  BY Writer
<1>6. QED
  BY <1>2, <1>3, <1>4, <1>5

\* The fields a stored record shares with the record given to step.put.
LEMMA StoredFields ==
    ASSUME NEW next \in Record, NEW w \in Record,
           w = [next EXCEPT !.fence = w.fence, !.version = w.version]
    PROVE  /\ w.phase = next.phase
           /\ w.digest = next.digest
           /\ w.sentFence = next.sentFence
           /\ w.sends = next.sends
           /\ w.recovery = next.recovery
BY DEF Record

\* The writes of advance and send: adopt, time out, withdraw, resend, receipt.
LEMMA AdvanceWrites ==
    ASSUME EngineInv, NEW e \in Engines,
           Adopt(e) \/ TimeOut(e) \/ Withdraw(e) \/ Resend(e) \/ RecordReceipt(e)
    PROVE  \E k \in Keys, w \in Record : Writes(e, k, w)
<1> DEFINE k == cur[e]
           r == recs[e][k]
<1>1. /\ pc[e] \in {"polled", "due", "receipt"}
      /\ k \in Keys /\ r \in Record /\ answer[e] \in Job
  BY CurType DEF Adopt, TimeOut, Withdraw, Resend, RecordReceipt, EngineInv
\* One write and back to the loop, with the send fields untouched ...
<1>2. ASSUME NEW next \in Record, PutOK(e, k, next), Return(e), submits' = submits,
             next.phase # "Absent", next.digest = r.digest,
             next.sentFence = r.sentFence, next.sends = r.sends
      PROVE  \E w \in Record : Writes(e, k, w)
  <2>1. PICK w \in Record :
             /\ w = [next EXCEPT !.fence = w.fence, !.version = w.version]
             /\ journal' = [journal EXCEPT ![k] = w]
             /\ recs' = [recs EXCEPT ![e] = journal']
             /\ epoch[e] = journalEpoch
             /\ journalEpoch' = journalEpoch
             /\ recs[e] = journal
    BY <1>1, <1>2, PutStores
  <2>2. /\ w.phase = next.phase /\ w.digest = next.digest
        /\ w.sentFence = next.sentFence /\ w.sends = next.sends
    BY <2>1, StoredFields
  <2>3. occupies(journal[k].phase)
    BY <1>1, <2>1 DEF EngineInv, CurInv, WorkInv
  <2>4. present(k) /\ Rewritten(e, journal[k], w)
    BY <1>2, <2>1, <2>2, <2>3 DEF Rewritten, occupies, present
  <2>5. /\ UNCHANGED <<wire, jobs, episode>>
        /\ pc'[e] = "loop"
        /\ \A f \in Engines \ {e} : pc'[f] = pc[f] /\ cur'[f] = cur[f]
    BY <1>2, Returned DEF Return, inputVars, EngineInv
  <2>6. w.sends = journal[k].sends
    BY <1>2, <2>1, <2>2
  <2>7. Writes(e, k, w)
    BY <1>1, <1>2, <2>1, <2>4, <2>5, <2>6 DEF Writes
  <2>8. QED
    BY <2>7
<1>3. CASE Adopt(e)
  <2>1. Adoptable(r, answer[e])
    BY <1>3 DEF Adopt, EngineInv, CurInv, WorkInv
  <2>2. Adopted(r, answer[e]) \in Record
    BY <1>1, <2>1, RecordTypes DEF EngineInv
  <2>3. /\ Adopted(r, answer[e]).phase # "Absent"
        /\ Adopted(r, answer[e]).digest = r.digest
        /\ Adopted(r, answer[e]).sentFence = r.sentFence
        /\ Adopted(r, answer[e]).sends = r.sends
    BY <1>1, <2>1 DEF Adopted, Adoptable, Record
  <2>4. QED
    BY <1>1, <1>2, <1>3, <2>2, <2>3 DEF Adopt
<1>4. CASE TimeOut(e) \/ Withdraw(e)
  <2>1. PICK next \in {TimedOut(r), Withdrawn(r)} :
           PutOK(e, k, next) /\ Return(e) /\ submits' = submits
    BY <1>4 DEF TimeOut, Withdraw
  <2>2. next \in Record
    BY <1>1, <2>1, RecordTypes DEF EngineInv
  <2>3. /\ next.phase # "Absent" /\ next.digest = r.digest
        /\ next.sentFence = r.sentFence /\ next.sends = r.sends
    BY <1>1, <2>1 DEF TimedOut, Withdrawn, Record
  <2>4. QED
    BY <1>1, <1>2, <2>1, <2>2, <2>3
<1>5. CASE RecordReceipt(e)
  <2>1. Receipted(r, answer[e]) \in Record
    BY <1>1, RecordTypes DEF EngineInv
  <2>2. /\ Receipted(r, answer[e]).phase # "Absent"
        /\ Receipted(r, answer[e]).digest = r.digest
        /\ Receipted(r, answer[e]).sentFence = r.sentFence
        /\ Receipted(r, answer[e]).sends = r.sends
    BY <1>1 DEF Receipted, Record
  <2>3. QED
    BY <1>1, <1>2, <1>5, <2>1, <2>2 DEF RecordReceipt
\* ... or a resend, counted and under this engine's fence.
<1>6. CASE Resend(e)
  <2>1. PutOK(e, k, Resent(e, r)) /\ r.sends < MaxSends /\ r.phase = "Dispatching"
    BY <1>6 DEF Resend
  <2>2. Resent(e, r) \in Record
    BY <1>1, RecordTypes DEF EngineInv
  <2>3. /\ Resent(e, r).phase = "Dispatching" /\ Resent(e, r).digest = r.digest
        /\ Resent(e, r).sentFence = epoch[e] /\ Resent(e, r).sends = r.sends + 1
    BY <1>1, <2>1 DEF Resent, Record
  <2>4. PICK w \in Record :
             /\ w = [Resent(e, r) EXCEPT !.fence = w.fence, !.version = w.version]
             /\ journal' = [journal EXCEPT ![k] = w]
             /\ recs' = [recs EXCEPT ![e] = journal']
             /\ epoch[e] = journalEpoch
             /\ journalEpoch' = journalEpoch
             /\ recs[e] = journal
    BY <1>1, <2>1, <2>2, PutStores
  <2>5. /\ w.phase = "Dispatching" /\ w.digest = r.digest
        /\ w.sentFence = epoch[e] /\ w.sends = r.sends + 1
    BY <2>2, <2>3, <2>4, StoredFields
  <2>6. present(k) /\ Rewritten(e, journal[k], w)
    BY <2>1, <2>4, <2>5 DEF Rewritten, occupies, present
  <2>7. /\ UNCHANGED <<wire, jobs, submits, episode, cur>>
        /\ pc' = [pc EXCEPT ![e] = "send"]
    BY <1>6 DEF Resend, Goto, actorVars, inputVars, localVars
  <2>8. pc'[e] = "send" /\ \A f \in Engines \ {e} : pc'[f] = pc[f] /\ cur'[f] = cur[f]
    BY <2>7 DEF EngineInv, EngineTypeOK
  <2>9. Writes(e, k, w)
    BY <1>1, <2>4, <2>5, <2>6, <2>7, <2>8 DEF Writes
  <2>10. QED
    BY <1>1, <2>9
<1>7. QED
  BY <1>3, <1>4, <1>5, <1>6

\* The write of recover: only the assessment, and only the first one.
LEMMA RecoverWrites ==
    ASSUME EngineInv, NEW e \in Engines, NEW k \in Keys, Recover(e, k)
    PROVE  \E w \in Record : Writes(e, k, w)
<1>1. PICK v \in Assessments : PutOK(e, k, [recs[e][k] EXCEPT !.recovery = v])
  BY DEF Recover
<1> DEFINE r == recs[e][k]
           next == [r EXCEPT !.recovery = v]
<1>2. /\ pc[e] = "loop" /\ r.ended /\ r.recovery \notin FinalRecovery
      /\ UNCHANGED <<wire, jobs, pc, cur, submits, episode>>
  BY DEF Recover, Assess, Assessable, actorVars, inputVars, localVars
<1>3. r \in Record /\ next \in Record
  BY RecordTypes DEF EngineInv, EngineTypeOK
<1>4. PICK w \in Record :
           /\ w = [next EXCEPT !.fence = w.fence, !.version = w.version]
           /\ journal' = [journal EXCEPT ![k] = w]
           /\ recs' = [recs EXCEPT ![e] = journal']
           /\ epoch[e] = journalEpoch
           /\ journalEpoch' = journalEpoch
           /\ recs[e] = journal
  BY <1>1, <1>2, <1>3, PutStores
<1>5. r = journal[k] /\ r.recovery = "None"
  BY <1>2, <1>3, <1>4 DEF Record, Recovery
<1>6. /\ w = [r EXCEPT !.recovery = w.recovery, !.fence = w.fence, !.version = w.version]
      /\ w.sends = r.sends
  BY <1>3, <1>4 DEF Record
<1>7. present(k) /\ Rewritten(e, journal[k], w)
  <2>1. present(k)
    BY <1>2, <1>5 DEF EngineInv, RecordInv, present
  <2>2. QED
    BY <1>2, <1>5, <1>6, <2>1 DEF Rewritten
<1>8. Writes(e, k, w)
  BY <1>2, <1>4, <1>5, <1>6, <1>7 DEF Writes
<1>9. QED
  BY <1>8

\* The write of decide creates a record where there was none.
LEMMA DispatchWrites ==
    ASSUME EngineInv, NEW e \in Engines, NEW s \in Subjects, Dispatch(e, s)
    PROVE  \E a \in Attempts, w \in Record :
             /\ episode[e][s] \in Episodes
             /\ ~present(<<s, episode[e][s], a>>)
             /\ Writes(e, <<s, episode[e][s], a>>, w)
<1> DEFINE n == episode[e][s]
           next == Dispatching(e, s)
<1>1. PICK a \in Attempts :
         /\ MayDispatch(e, s, a)
         /\ PutOK(e, <<s, n, a>>, next)
         /\ cur' = [cur EXCEPT ![e] = <<s, n, a>>]
  BY DEF Dispatch
<1> DEFINE k == <<s, n, a>>
<1>2. /\ pc[e] = "loop"
      /\ pc' = [pc EXCEPT ![e] = "send"]
      /\ UNCHANGED <<wire, jobs, submits, episode>>
  BY DEF Dispatch, Decide, Goto, actorVars, inputVars
<1>3. n \in Episodes /\ k \in Keys
  BY <1>1, KeyType DEF MayDispatch
<1>4. next \in Record
  BY RecordTypes DEF EngineInv
<1>5. /\ next.phase = "Dispatching" /\ next.sentFence = epoch[e] /\ next.sends = 1
  BY DEF Dispatching, Blank
<1>6. PICK w \in Record :
           /\ w = [next EXCEPT !.fence = w.fence, !.version = w.version]
           /\ journal' = [journal EXCEPT ![k] = w]
           /\ recs' = [recs EXCEPT ![e] = journal']
           /\ epoch[e] = journalEpoch
           /\ journalEpoch' = journalEpoch
           /\ recs[e] = journal
  BY <1>1, <1>2, <1>3, <1>4, PutStores
<1>7. w.phase = "Dispatching" /\ w.sentFence = epoch[e] /\ w.sends = 1
  BY <1>4, <1>5, <1>6, StoredFields
<1>8. ~present(k)
  <2>1. NextAttempt(journal, s, n, a)
    BY <1>1, <1>6 DEF MayDispatch
  <2>2. ASSUME a - 1 \in Attempts, LastAttempt(journal, s, n, a - 1)
        PROVE  ~present(k)
    <3>1. ~(a <= a - 1)
      BY DEF Attempts
    <3>2. QED
      BY <2>2, <3>1 DEF LastAttempt, present
  <2>3. QED
    BY <2>1, <2>2 DEF NextAttempt, present
<1>9. Rewritten(e, journal[k], w)
  BY <1>7, <1>8 DEF Rewritten, present
<1>10. /\ pc'[e] = "send" /\ cur'[e] = k
       /\ \A f \in Engines \ {e} : pc'[f] = pc[f] /\ cur'[f] = cur[f]
  BY <1>1, <1>2 DEF EngineInv, EngineTypeOK
<1>11. Writes(e, k, w)
  <2>1. Episode(k) = episode[e][Subject(k)]
    BY DEF Episode, Subject
  <2>2. QED
    BY <2>1, <1>2, <1>6, <1>7, <1>8, <1>9, <1>10 DEF Writes
<1>12. QED
  BY <1>3, <1>8, <1>11

(***************************************************************************)
(* What any step does to the journal and to the provider's jobs.           *)
(***************************************************************************)
Quietly(e) ==
    \/ TakeEpoch(e) \/ List(e)
    \/ \E k \in Keys : SkipForeign(e, k) \/ PollAnswered(e, k) \/ PollFails(e, k)
    \/ AdoptFails(e) \/ Wait(e) \/ DropReceipt(e)
    \/ \E k \in Keys : RecoverPending(e, k)
    \/ \E s \in Subjects : ShowOnly(e, s)
    \/ Finish(e) \/ Crash(e)

\* A step of an engine writes one record, submits, or leaves both journal
\* and provider alone.
LEMMA StepKinds ==
    ASSUME EngineInv, NEW e \in Engines, EngineStep(e) \/ Crash(e)
    PROVE  \/ \E k \in Keys, w \in Record : Writes(e, k, w)
           \/ Submit(e) \/ SubmitFails(e)
           \/ Quietly(e)
<1>1. ASSUME NEW s \in Subjects, Dispatch(e, s)
      PROVE  \E k \in Keys, w \in Record : Writes(e, k, w)
  BY <1>1, DispatchWrites, KeyType
<1>2. QED
  BY <1>1, AdvanceWrites, RecoverWrites DEF EngineStep, Quietly

\* Nothing is written, submitted or counted by the other steps.
LEMMA QuietKeeps ==
    ASSUME NEW e \in Engines, Quietly(e)
    PROVE  UNCHANGED <<journal, wire, jobs, submits>>
BY DEF Quietly, TakeEpoch, IssueEpoch, List, SkipForeign, PollAnswered, PollFails, Poll, Visit,
       AdoptFails, Wait, DropReceipt, PutFails, Return, RecoverPending, Assess, ShowOnly, Decide,
       Finish, Crash, Discard, journalVars, actorVars

\* The other steps make no engine a sender and change no sender's copy.
LEMMA QuietSenders ==
    ASSUME EngineTypeOK, NEW e \in Engines, Quietly(e)
    PROVE  /\ \A f \in Engines : pc'[f] = "send" =>
                pc[f] = "send" /\ cur'[f] = cur[f] /\ recs'[f] = recs[f]
           /\ journalEpoch' \in Nat /\ journalEpoch <= journalEpoch'
           /\ \/ episode' = episode
              \/ \E g \in [Subjects -> Nat] :
                   /\ episode' = [episode EXCEPT ![e] = g]
                   /\ \A s \in Subjects : g[s] \in {1, EpisodeOf(journal, s)}
<1> USE DEF journalVars, actorVars, inputVars, todoVars, localVars, Goto
<1>1. journalEpoch \in Nat /\ pc \in [Engines -> PCs] /\ recs \in [Engines -> [Keys -> Record]]
  BY DEF EngineTypeOK, JournalTypeOK
<1>2. CASE TakeEpoch(e)
  BY <1>1, <1>2 DEF TakeEpoch, IssueEpoch
<1>3. CASE List(e)
  <2> DEFINE g == [s \in Subjects |-> EpisodeOf(journal, s)]
  <2>1. episode' = [episode EXCEPT ![e] = g] /\ g \in [Subjects -> Nat]
    BY <1>3, EpisodeType DEF List
  <2>2. \A s \in Subjects : g[s] \in {1, EpisodeOf(journal, s)}
    OBVIOUS
  <2> HIDE DEF g
  <2>3. /\ pc' = [pc EXCEPT ![e] = "loop"] /\ recs' = [recs EXCEPT ![e] = journal]
        /\ UNCHANGED <<journalEpoch, cur>>
    BY <1>3 DEF List
  <2>4. \A f \in Engines : pc'[f] = "send" =>
          pc[f] = "send" /\ cur'[f] = cur[f] /\ recs'[f] = recs[f]
    BY <1>1, <2>3
  <2>5. \E h \in [Subjects -> Nat] :
          /\ episode' = [episode EXCEPT ![e] = h]
          /\ \A s \in Subjects : h[s] \in {1, EpisodeOf(journal, s)}
    BY <2>1, <2>2, Zenon
  <2>6. journalEpoch' \in Nat /\ journalEpoch <= journalEpoch'
    BY <1>1, <2>3
  <2>7. QED
    BY <2>4, <2>5, <2>6, Zenon
<1>4. ASSUME NEW k \in Keys, SkipForeign(e, k) \/ PollAnswered(e, k) \/ PollFails(e, k)
      PROVE  /\ \A f \in Engines : pc'[f] = "send" =>
                  pc[f] = "send" /\ cur'[f] = cur[f] /\ recs'[f] = recs[f]
             /\ journalEpoch' = journalEpoch /\ episode' = episode
  BY <1>1, <1>4 DEF EngineTypeOK, SkipForeign, PollAnswered, PollFails, Poll, Visit
<1>5. CASE AdoptFails(e) \/ Wait(e) \/ DropReceipt(e)
  BY <1>1, <1>5 DEF EngineTypeOK, AdoptFails, Wait, DropReceipt, PutFails, Return
<1>6. ASSUME NEW k \in Keys, RecoverPending(e, k)
      PROVE  UNCHANGED <<journalEpoch, pc, cur, recs, episode>>
  BY <1>6 DEF RecoverPending, Assess, PutFails
<1>7. ASSUME NEW s \in Subjects, ShowOnly(e, s)
      PROVE  UNCHANGED <<journalEpoch, pc, cur, recs, episode>>
  BY <1>7 DEF ShowOnly, Decide, PutFails
<1>8. CASE Finish(e) \/ Crash(e)
  <2> DEFINE g == [s \in Subjects |-> 1]
  <2>1. episode' = [episode EXCEPT ![e] = g] /\ g \in [Subjects -> Nat]
    BY <1>8 DEF Finish, Crash, Discard
  <2>2. \A s \in Subjects : g[s] \in {1, EpisodeOf(journal, s)}
    OBVIOUS
  <2> HIDE DEF g
  <2>3. /\ pc' = [pc EXCEPT ![e] = "idle"] /\ recs' = [recs EXCEPT ![e] = NoRecs]
        /\ cur' = [cur EXCEPT ![e] = NoKey] /\ journalEpoch' = journalEpoch
    BY <1>8 DEF Finish, Crash, Discard
  <2>4. \A f \in Engines : pc'[f] = "send" =>
          pc[f] = "send" /\ cur'[f] = cur[f] /\ recs'[f] = recs[f]
    BY <1>1, <2>3 DEF EngineTypeOK
  <2>5. \E h \in [Subjects -> Nat] :
          /\ episode' = [episode EXCEPT ![e] = h]
          /\ \A s \in Subjects : h[s] \in {1, EpisodeOf(journal, s)}
    BY <2>1, <2>2, Zenon
  <2>6. journalEpoch' \in Nat /\ journalEpoch <= journalEpoch'
    BY <1>1, <2>3
  <2>7. QED
    BY <2>4, <2>5, <2>6, Zenon
<1>9. QED
  BY <1>1, <1>2, <1>3, <1>4, <1>5, <1>6, <1>7, <1>8 DEF Quietly

-----------------------------------------------------------------------------
(***************************************************************************)
(* A write moves every record one way only.                                *)
(***************************************************************************)
LEMMA OneWay ==
    ASSUME EngineInv, FenceInv, NEW e \in Engines, NEW k \in Keys, NEW w \in Record,
           Writes(e, k, w)
    PROVE  /\ journal'[k] = w
           /\ \A j \in Keys : j # k => journal'[j] = journal[j]
           /\ recs'[e] = journal'
           /\ \A f \in Engines : f # e => recs'[f] = recs[f]
           /\ w.phase # "Absent"
           /\ w.sentFence \in Nat /\ w.sentFence <= journalEpoch
           /\ \A j \in Keys : present(j) =>
                /\ journal'[j].phase # "Absent"
                /\ journal'[j].digest = journal[j].digest
                /\ journal'[j].sentFence >= journal[j].sentFence
<1>1. /\ journal \in [Keys -> Record] /\ recs \in [Engines -> [Keys -> Record]]
      /\ journalEpoch \in Nat /\ epoch[e] = journalEpoch
      /\ journal' = [journal EXCEPT ![k] = w]
      /\ recs' = [recs EXCEPT ![e] = journal']
      /\ Rewritten(e, journal[k], w)
  BY DEF EngineInv, EngineTypeOK, JournalTypeOK, Writes
<1>2. /\ journal'[k] = w
      /\ \A j \in Keys : j # k => journal'[j] = journal[j]
      /\ recs'[e] = journal'
      /\ \A f \in Engines : f # e => recs'[f] = recs[f]
  BY <1>1
<1>3. journal[k] \in Record /\ journal[k].sentFence \in Nat /\ w.sentFence \in Nat
      /\ journal[k].sentFence <= journalEpoch
  BY <1>1 DEF Record, FenceInv
<1>4. /\ w.phase # "Absent" /\ w.sentFence <= journalEpoch
      /\ present(k) => w.digest = journal[k].digest /\ w.sentFence >= journal[k].sentFence
  <2>1. CASE /\ journal[k].phase = "Absent" /\ w.phase = "Dispatching"
             /\ w.sentFence = epoch[e]
    BY <1>1, <1>3, <2>1 DEF present
  <2>2. CASE /\ occupies(journal[k].phase) /\ w.phase # "Absent"
             /\ w.digest = journal[k].digest
             /\ w.sentFence \in {journal[k].sentFence, epoch[e]}
    BY <1>1, <1>3, <2>2
  <2>3. CASE /\ journal[k].ended
             /\ w = [journal[k] EXCEPT !.recovery = w.recovery, !.fence = w.fence,
                                       !.version = w.version]
    <3>1. /\ w.phase = journal[k].phase /\ w.digest = journal[k].digest
          /\ w.sentFence = journal[k].sentFence
      BY <1>3, <2>3 DEF Record
    <3>2. journal[k].phase \in {"Succeeded", "Failed"}
      BY <2>3 DEF EngineInv, RecordInv
    <3>3. QED
      BY <1>3, <3>1, <3>2
  <2>4. QED
    BY <1>1, <2>1, <2>2, <2>3 DEF Rewritten
<1>5. \A j \in Keys : journal[j].sentFence \in Nat
  BY <1>1 DEF Record
<1>6. ASSUME NEW j \in Keys, present(j)
      PROVE  /\ journal'[j].phase # "Absent"
             /\ journal'[j].digest = journal[j].digest
             /\ journal'[j].sentFence >= journal[j].sentFence
  <2>1. CASE j = k
    BY <1>2, <1>4, <1>6, <2>1
  <2>2. CASE j # k
    BY <1>2, <1>5, <1>6, <2>2 DEF present
  <2>3. QED
    BY <2>1, <2>2
<1>7. QED
  BY <1>2, <1>3, <1>4, <1>6

\* Digests and fences: a sender of the past only lags behind the record.
LEMMA FenceWritten ==
    ASSUME EngineInv, FenceInv, NEW e \in Engines, NEW k \in Keys, NEW w \in Record,
           Writes(e, k, w), EngineTypeOK'
    PROVE  FenceInv'
<1>1. /\ journal'[k] = w
      /\ \A j \in Keys : j # k => journal'[j] = journal[j]
      /\ recs'[e] = journal'
      /\ \A f \in Engines : f # e => recs'[f] = recs[f]
      /\ w.sentFence \in Nat /\ w.sentFence <= journalEpoch
      /\ \A j \in Keys : present(j) =>
           /\ journal'[j].phase # "Absent"
           /\ journal'[j].digest = journal[j].digest
           /\ journal'[j].sentFence >= journal[j].sentFence
  BY OneWay
<1>2. UNCHANGED <<journalEpoch, wire>>
      /\ \A f \in Engines \ {e} : pc'[f] = pc[f] /\ cur'[f] = cur[f]
  BY DEF Writes
<1>3. /\ \A j \in Keys : /\ journal[j].sentFence \in Nat
                         /\ journal'[j].sentFence \in Nat
      /\ \A f \in Engines, j \in Keys : recs[f][j].sentFence \in Nat
  BY DEF EngineInv, EngineTypeOK, JournalTypeOK, Record
<1>4. \A j \in Keys : journal'[j].sentFence <= journalEpoch'
  BY <1>1, <1>2 DEF FenceInv
<1>5. ASSUME NEW f \in Engines, pc'[f] = "send"
      PROVE  /\ recs'[f][cur'[f]].digest = journal'[cur'[f]].digest
             /\ recs'[f][cur'[f]].sentFence <= journal'[cur'[f]].sentFence
  <2>1. cur'[f] \in Keys
    BY <1>5 DEF EngineTypeOK
  <2>2. CASE f = e
    BY <1>1, <1>3, <2>1, <2>2
  <2>3. CASE f # e
    <3>1. /\ pc[f] = "send" /\ cur'[f] = cur[f] /\ recs'[f] = recs[f] /\ present(cur[f])
      BY <1>1, <1>2, <1>5, <2>3 DEF EngineInv, RecordedInv
    <3>2. /\ recs[f][cur[f]].digest = journal[cur[f]].digest
          /\ recs[f][cur[f]].sentFence <= journal[cur[f]].sentFence
      BY <3>1 DEF FenceInv
    <3>3. QED
      BY <1>1, <1>3, <2>1, <3>1, <3>2
  <2>4. QED
    BY <2>2, <2>3
<1>6. PersistedBeforeSent'
  <2> SUFFICES ASSUME NEW h \in wire
               PROVE  /\ journal'[h.key].phase # "Absent"
                      /\ journal'[h.key].digest = h.digest
                      /\ journal'[h.key].sentFence >= h.fence
    BY <1>2 DEF PersistedBeforeSent
  <2>1. h.key \in Keys /\ h.fence \in Nat
    BY DEF EngineInv, EngineTypeOK, ActorTypeOK, Handoff
  <2>2. present(h.key) /\ journal[h.key].digest = h.digest /\ journal[h.key].sentFence >= h.fence
    BY DEF FenceInv, PersistedBeforeSent, present
  <2>3. QED
    BY <1>1, <1>3, <2>1, <2>2
<1>7. QED
  BY <1>4, <1>5, <1>6 DEF FenceInv

\* Counts: a write makes at most its own engine a sender, and counts it.
LEMMA SendWritten ==
    ASSUME EngineInv, FenceInv, SendInv,
           NEW e \in Engines, NEW k \in Keys, NEW w \in Record, Writes(e, k, w)
    PROVE  SendInv'
<1>1. /\ journal'[k] = w /\ w.phase # "Absent"
      /\ \A j \in Keys : j # k => journal'[j] = journal[j]
  BY OneWay
<1>2. /\ pc[e] # "send" /\ submits' = submits
      /\ \A f \in Engines \ {e} : pc'[f] = pc[f] /\ cur'[f] = cur[f]
      /\ \/ pc'[e] = "loop" /\ w.sends = journal[k].sends
         \/ /\ pc'[e] = "send" /\ cur'[e] = k
            /\ w.sends = IF present(k) THEN journal[k].sends + 1 ELSE 1
      /\ Rewritten(e, journal[k], w)
  BY DEF Writes
<1>3. /\ journal[k] \in Record /\ journal[k].sends \in Nat /\ w.sends \in Nat
      /\ \A j \in Keys : submits[j] \in Nat
  BY DEF EngineInv, EngineTypeOK, JournalTypeOK, Record
<1>4. \A j \in Keys : IsFiniteSet(Senders(j)) /\ Cardinality(Senders(j)) \in Nat
  BY FS_CardinalityType DEF SendInv
<1>5. e \notin Senders(k)
  BY <1>2 DEF Senders
<1>6. ASSUME NEW j \in Keys, j # k
      PROVE  /\ IsFiniteSet(Senders(j)')
             /\ submits'[j] + Cardinality(Senders(j)') <= journal'[j].sends
             /\ journal'[j].sends <= MaxSends
             /\ journal'[j].phase = "Absent" => journal'[j].sends = 0
  <2>1. Senders(j)' = Senders(j)
    BY <1>2, <1>6 DEF Senders
  <2>2. QED
    BY <1>1, <1>2, <1>6, <2>1 DEF SendInv, present
<1>7. /\ IsFiniteSet(Senders(k)')
      /\ submits'[k] + Cardinality(Senders(k)') <= w.sends
      /\ w.sends <= MaxSends
  <2>1. /\ submits[k] + Cardinality(Senders(k)) <= journal[k].sends
        /\ journal[k].sends <= MaxSends
        /\ ~present(k) => journal[k].sends = 0
    BY DEF SendInv
  <2>2. CASE pc'[e] = "loop" /\ w.sends = journal[k].sends
    <3>1. Senders(k)' = Senders(k)
      BY <1>2, <2>2 DEF Senders
    <3>2. QED
      BY <1>2, <1>4, <2>1, <2>2, <3>1
  <2>3. CASE /\ pc'[e] = "send" /\ cur'[e] = k
             /\ w.sends = IF present(k) THEN journal[k].sends + 1 ELSE 1
    <3>1. Senders(k)' = Senders(k) \cup {e}
      BY <1>2, <2>3 DEF Senders
    <3>2. /\ IsFiniteSet(Senders(k)')
          /\ Cardinality(Senders(k)') = Cardinality(Senders(k)) + 1
      BY <1>4, <1>5, <3>1, FS_AddElement
    <3>3. w.sends = journal[k].sends + 1
      BY <1>3, <2>1, <2>3
    <3>4. w.sends <= MaxSends
      <4>1. CASE present(k)
        <5>1. w.sends # journal[k].sends
          BY <1>3, <3>3
        <5>2. w # [journal[k] EXCEPT !.recovery = w.recovery, !.fence = w.fence,
                                     !.version = w.version]
          BY <1>3, <5>1 DEF Record
        <5>3. journal[k].sends < MaxSends
          BY <1>2, <4>1, <5>1, <5>2 DEF Rewritten, present
        <5>4. QED
          BY <1>3, <3>3, <5>3
      <4>2. CASE ~present(k)
        BY <2>3, <4>2
      <4>3. QED
        BY <4>1, <4>2
    <3>5. submits[k] + (Cardinality(Senders(k)) + 1) <= journal[k].sends + 1
      BY <1>3, <1>4, <2>1
    <3>6. QED
      BY <1>2, <3>2, <3>3, <3>4, <3>5
  <2>4. QED
    BY <1>2, <2>2, <2>3
<1>8. QED
  BY <1>1, <1>6, <1>7 DEF SendInv, present

\* A set of episodes that contains every earlier one is counted exactly.
LEMMA InitialSegment ==
    ASSUME NEW S \in SUBSET Episodes, \A n \in S : \A m \in 1..(n - 1) : m \in S
    PROVE  \A n \in 1..Cardinality(S) : n \in S
<1> SUFFICES ASSUME NEW n \in 1..Cardinality(S), n \notin S
             PROVE  FALSE
  OBVIOUS
<1>1. IsFiniteSet(Episodes) /\ \A m \in Episodes : m \in Nat \ {0}
  BY FS_Interval DEF Episodes
<1>2. IsFiniteSet(S) /\ Cardinality(S) \in Nat /\ n \in Nat \ {0} /\ n <= Cardinality(S)
  <2>1. IsFiniteSet(S)
    BY <1>1, FS_Subset
  <2>2. Cardinality(S) \in Nat
    BY <2>1, FS_CardinalityType
  <2>3. QED
    BY <2>1, <2>2
<1>3. S \subseteq 1..(n - 1)
  <2> SUFFICES ASSUME NEW m \in S
               PROVE  m \in 1..(n - 1)
    OBVIOUS
  <2>1. m \in Nat \ {0}
    BY <1>1
  <2>2. ~(n < m)
    <3>1. n < m => n \in 1..(m - 1)
      BY <1>2, <2>1
    <3>2. QED
      BY <3>1
  <2>3. m # n
    OBVIOUS
  <2>4. QED
    BY <1>2, <2>1, <2>2, <2>3
<1>4. IsFiniteSet(1..(n - 1)) /\ Cardinality(1..(n - 1)) = n - 1
  <2>1. n - 1 \in Int /\ 1 \in Int
    BY <1>2
  <2>2. /\ IsFiniteSet(1..(n - 1))
        /\ Cardinality(1..(n - 1)) = IF 1 > n - 1 THEN 0 ELSE (n - 1) - 1 + 1
    BY <2>1, FS_Interval
  <2>3. QED
    BY <1>2, <2>2
<1>5. Cardinality(S) <= n - 1
  <2>1. S \in SUBSET (1..(n - 1))
    BY <1>3
  <2>2. Cardinality(S) <= Cardinality(1..(n - 1))
    BY <1>4, <2>1, FS_Subset, Zenon
  <2>3. QED
    BY <1>4, <2>2
<1>6. QED
  BY <1>2, <1>5

\* step.episode counts confirmed episodes without a gap: all of those before
\* the one it returns were recovered.
LEMMA EpisodeCounts ==
    ASSUME EngineInv, EpisodesEarned, NEW s \in Subjects
    PROVE  \A n \in 1..(EpisodeOf(journal, s) - 1) : n \in RecoveredEpisodes(journal, s)
<1> DEFINE S == RecoveredEpisodes(journal, s)
<1>1. S \in SUBSET Episodes
  BY DEF RecoveredEpisodes
<1>2. ASSUME NEW n \in S, NEW m \in 1..(n - 1)
      PROVE  m \in S
  <2>1. PICK a \in Attempts : journal[<<s, n, a>>].recovery = "Recovered"
    BY DEF RecoveredEpisodes
  <2>2. /\ n \in Episodes /\ <<s, n, a>> \in Keys
        /\ Subject(<<s, n, a>>) = s /\ Episode(<<s, n, a>>) = n
    BY <1>1, KeyType DEF Subject, Episode
  <2>3. journal[<<s, n, a>>].phase # "Absent"
    BY <2>1, <2>2 DEF EngineInv, RecordInv
  <2>4. QED
    BY <2>2, <2>3 DEF EpisodesEarned
<1>3. \A n \in 1..Cardinality(S) : n \in S
  BY <1>1, <1>2, InitialSegment
<1>4. Cardinality(S) \in Nat
  <2>1. IsFiniteSet(Episodes)
    BY FS_Interval DEF Episodes
  <2>2. IsFiniteSet(S)
    BY <1>1, <2>1, FS_Subset
  <2>3. QED
    BY <2>2, FS_CardinalityType
<1>5. EpisodeOf(journal, s) - 1 = Cardinality(S)
  BY <1>4 DEF EpisodeOf
<1>6. QED
  BY <1>3, <1>5

\* A recorded assessment is never rewritten, so earned episodes stay earned.
LEMMA AssessmentsStay ==
    ASSUME EngineInv, FenceInv, NEW e \in Engines, NEW k \in Keys, NEW w \in Record,
           Writes(e, k, w)
    PROVE  /\ \A j \in Keys : journal[j].recovery # "None" => journal'[j] = journal[j]
           /\ \A s \in Subjects : RecoveredEpisodes(journal, s) \subseteq RecoveredEpisodes(journal', s)
<1>1. \A j \in Keys : j # k => journal'[j] = journal[j]
  BY OneWay
<1>2. journal[k].recovery = "None"
  <2>1. journal[k].recovery # "None" => journal[k].phase \in {"Succeeded", "Failed"}
    BY DEF EngineInv, RecordInv
  <2>2. QED
    BY <2>1 DEF Writes, Rewritten, occupies
<1>3. \A j \in Keys : journal[j].recovery # "None" => journal'[j] = journal[j]
  BY <1>1, <1>2
<1>4. ASSUME NEW s \in Subjects, NEW n \in RecoveredEpisodes(journal, s)
      PROVE  n \in RecoveredEpisodes(journal', s)
  <2>1. PICK a \in Attempts : journal[<<s, n, a>>].recovery = "Recovered"
    BY DEF RecoveredEpisodes
  <2>2. n \in Episodes /\ <<s, n, a>> \in Keys
    BY KeyType DEF RecoveredEpisodes
  <2>3. journal'[<<s, n, a>>].recovery = "Recovered"
    BY <1>3, <2>1, <2>2
  <2>4. QED
    BY <2>2, <2>3 DEF RecoveredEpisodes
<1>5. QED
  BY <1>3, <1>4

\* Episodes: decide creates a record only in the episode its engine earned.
LEMMA EpisodeWritten ==
    ASSUME EngineInv, FenceInv, EpisodeInv,
           NEW e \in Engines, NEW k \in Keys, NEW w \in Record, Writes(e, k, w)
    PROVE  EpisodeInv'
<1>1. \A s \in Subjects : RecoveredEpisodes(journal, s) \subseteq RecoveredEpisodes(journal', s)
  BY AssessmentsStay
<1>2. /\ journal'[k] = w
      /\ \A j \in Keys : j # k => journal'[j] = journal[j]
  BY OneWay
<1>3. episode' = episode /\ (present(k) \/ Episode(k) = episode[e][Subject(k)])
  BY DEF Writes
<1>4. \A f \in Engines, s \in Subjects :
        \A n \in 1..(episode'[f][s] - 1) : n \in RecoveredEpisodes(journal', s)
  BY <1>1, <1>3 DEF EpisodeInv
<1>5. ASSUME NEW j \in Keys, journal'[j].phase # "Absent", NEW n \in 1..(Episode(j) - 1)
      PROVE  n \in RecoveredEpisodes(journal', Subject(j))
  <2>1. Subject(j) \in Subjects
    BY KeyType
  <2>2. CASE present(j)
    BY <1>1, <2>1, <2>2, <1>5 DEF EpisodeInv, EpisodesEarned, present
  <2>3. CASE ~present(j)
    <3>1. j = k /\ Episode(j) = episode[e][Subject(j)]
      BY <1>2, <1>3, <1>5, <2>3 DEF present
    <3>2. QED
      BY <1>3, <1>4, <1>5, <2>1, <3>1
  <2>4. QED
    BY <2>2, <2>3
<1>6. EpisodesEarned'
  BY <1>5 DEF EpisodesEarned
<1>7. QED
  BY <1>4, <1>6 DEF EpisodeInv

-----------------------------------------------------------------------------
(***************************************************************************)
(* The history invariant is inductive.                                     *)
(***************************************************************************)
LEMMA InitHistory == Init => HistoryInv
<1> SUFFICES ASSUME Init
             PROVE  HistoryInv
  OBVIOUS
<1>1. EngineInv
  BY InitInv
<1>2. /\ \A k \in Keys : /\ journal[k].phase = "Absent"
                         /\ journal[k].sentFence = 0
                         /\ journal[k].sends = 0
                         /\ submits[k] = 0
      /\ journalEpoch = 0 /\ wire = {}
      /\ \A e \in Engines : pc[e] = "idle" /\ \A s \in Subjects : episode[e][s] = 1
  BY DEF Init, JournalInit, ActorInit, Blank
<1>3. FenceInv
  BY <1>2 DEF FenceInv, PersistedBeforeSent
<1>4. SendInv
  <2>1. \A k \in Keys : Senders(k) = {}
    BY <1>2 DEF Senders
  <2>2. 0 + 0 <= 0 /\ 0 <= MaxSends
    OBVIOUS
  <2>3. \A k \in Keys : IsFiniteSet(Senders(k)) /\ Cardinality(Senders(k)) = 0
    BY <2>1, FS_EmptySet
  <2>4. QED
    BY <1>2, <2>2, <2>3 DEF SendInv, present
<1>5. EpisodeInv
  BY <1>2 DEF EpisodeInv, EpisodesEarned
<1>6. QED
  BY <1>1, <1>3, <1>4, <1>5 DEF HistoryInv

\* A step that writes nothing and submits nothing.
LEMMA QuietHistory ==
    ASSUME HistoryInv, NEW e \in Engines, Quietly(e), EngineInv'
    PROVE  HistoryInv'
<1>1. /\ UNCHANGED <<journal, wire, submits>>
      /\ \A f \in Engines : pc'[f] = "send" =>
           pc[f] = "send" /\ cur'[f] = cur[f] /\ recs'[f] = recs[f]
      /\ journalEpoch' \in Nat /\ journalEpoch <= journalEpoch'
      /\ \/ episode' = episode
         \/ \E g \in [Subjects -> Nat] :
              /\ episode' = [episode EXCEPT ![e] = g]
              /\ \A s \in Subjects : g[s] \in {1, EpisodeOf(journal, s)}
  BY QuietKeeps, QuietSenders DEF HistoryInv, EngineInv
<1>2. FenceInv'
  <2>1. \A k \in Keys : journal[k].sentFence \in Nat /\ journalEpoch \in Nat
    BY DEF HistoryInv, EngineInv, EngineTypeOK, JournalTypeOK, Record
  <2>2. \A k \in Keys : journal'[k].sentFence <= journalEpoch'
    BY <1>1, <2>1 DEF HistoryInv, FenceInv
  <2>3. \A f \in Engines : pc'[f] = "send" =>
          /\ recs'[f][cur'[f]].digest = journal'[cur'[f]].digest
          /\ recs'[f][cur'[f]].sentFence <= journal'[cur'[f]].sentFence
    BY <1>1 DEF HistoryInv, FenceInv
  <2>4. PersistedBeforeSent'
    BY <1>1 DEF HistoryInv, FenceInv, PersistedBeforeSent
  <2>5. QED
    BY <2>2, <2>3, <2>4 DEF FenceInv
<1>3. SendInv'
  <2> SUFFICES ASSUME NEW k \in Keys
               PROVE  /\ IsFiniteSet(Senders(k)')
                      /\ submits[k] + Cardinality(Senders(k)') <= journal[k].sends
                      /\ journal[k].sends <= MaxSends
                      /\ ~present(k) => journal[k].sends = 0
    BY <1>1 DEF SendInv, present
  <2>1. /\ IsFiniteSet(Senders(k))
        /\ submits[k] + Cardinality(Senders(k)) <= journal[k].sends
        /\ journal[k].sends <= MaxSends
        /\ ~present(k) => journal[k].sends = 0
    BY DEF HistoryInv, SendInv
  <2>2. Senders(k)' \in SUBSET Senders(k)
    BY <1>1 DEF Senders
  <2>3. /\ IsFiniteSet(Senders(k)')
        /\ Cardinality(Senders(k)') <= Cardinality(Senders(k))
    BY <2>1, <2>2, FS_Subset
  <2>4. Cardinality(Senders(k)') \in Nat /\ Cardinality(Senders(k)) \in Nat
    BY <2>1, <2>3, FS_CardinalityType
  <2>5. submits[k] \in Nat /\ journal[k].sends \in Nat
    BY DEF HistoryInv, EngineInv, EngineTypeOK, JournalTypeOK, Record
  <2>6. QED
    BY <2>1, <2>3, <2>4, <2>5
<1>4. EpisodeInv'
  <2>1. EpisodesEarned'
    BY <1>1 DEF HistoryInv, EpisodeInv, EpisodesEarned
  <2>2. CASE episode' = episode
    BY <1>1, <2>1, <2>2 DEF HistoryInv, EpisodeInv
  <2>3. ASSUME NEW g \in [Subjects -> Nat], episode' = [episode EXCEPT ![e] = g],
               \A s \in Subjects : g[s] \in {1, EpisodeOf(journal, s)}
        PROVE  EpisodeInv'
    <3>1. \A s \in Subjects : \A n \in 1..(g[s] - 1) : n \in RecoveredEpisodes(journal, s)
      <4> SUFFICES ASSUME NEW s \in Subjects, NEW n \in 1..(g[s] - 1)
                   PROVE  n \in RecoveredEpisodes(journal, s)
        OBVIOUS
      <4>1. g[s] # 1
        OBVIOUS
      <4>2. g[s] = EpisodeOf(journal, s)
        BY <2>3, <4>1
      <4>3. QED
        BY <4>2, EpisodeCounts DEF HistoryInv, EpisodeInv
    <3>2. /\ episode'[e] = g
          /\ \A f \in Engines : f # e => episode'[f] = episode[f]
      BY <2>3 DEF HistoryInv, EngineInv, EngineTypeOK
    <3>3. \A f \in Engines, s \in Subjects :
            \A n \in 1..(episode'[f][s] - 1) : n \in RecoveredEpisodes(journal, s)
      BY <3>1, <3>2 DEF HistoryInv, EpisodeInv
    <3>4. QED
      BY <1>1, <2>1, <3>3 DEF EpisodeInv
  <2>4. QED
    BY <1>1, <2>2, <2>3
<1>5. QED
  BY <1>2, <1>3, <1>4 DEF HistoryInv

\* A submission was counted before it is made: a sender becomes a call.
LEMMA SubmitHistory ==
    ASSUME HistoryInv, NEW e \in Engines, Submit(e) \/ SubmitFails(e), EngineInv'
    PROVE  HistoryInv'
<1> DEFINE k == cur[e]
<1>1. /\ pc[e] = "send"
      /\ wire' = wire \cup {HandoffOf(e)}
      /\ submits' = [submits EXCEPT ![k] = submits[k] + 1]
      /\ UNCHANGED <<journalEpoch, journal, recs, episode>>
      /\ pc' = [pc EXCEPT ![e] = "receipt"] \/ pc' = [pc EXCEPT ![e] = "loop"]
      /\ cur' = cur \/ cur' = [cur EXCEPT ![e] = NoKey]
  BY DEF Submit, SubmitFails, CallSubmit, Goto, journalVars, inputVars
<1>2. /\ k \in Keys
      /\ pc'[e] # "send"
      /\ \A f \in Engines \ {e} : pc'[f] = pc[f] /\ cur'[f] = cur[f]
  BY <1>1 DEF HistoryInv, EngineInv, EngineTypeOK
<1>3. /\ submits'[k] = submits[k] + 1
      /\ \A j \in Keys : j # k => submits'[j] = submits[j]
  BY <1>1, <1>2 DEF HistoryInv, EngineInv, EngineTypeOK
<1>4. FenceInv'
  <2>1. \A f \in Engines : pc'[f] = "send" =>
          /\ recs'[f][cur'[f]].digest = journal'[cur'[f]].digest
          /\ recs'[f][cur'[f]].sentFence <= journal'[cur'[f]].sentFence
    BY <1>1, <1>2 DEF HistoryInv, FenceInv
  <2>2. /\ present(k)
        /\ journal[k].digest = recs[e][k].digest
        /\ journal[k].sentFence >= recs[e][k].sentFence
    <3>1. /\ recs[e][k].digest = journal[k].digest
          /\ recs[e][k].sentFence <= journal[k].sentFence
      BY <1>1 DEF HistoryInv, FenceInv
    <3>2. recs[e][k].sentFence \in Nat /\ journal[k].sentFence \in Nat
      BY <1>2 DEF HistoryInv, EngineInv, EngineTypeOK, JournalTypeOK, Record
    <3>3. QED
      BY <1>1, <3>1, <3>2 DEF HistoryInv, EngineInv, RecordedInv
  <2>3. /\ HandoffOf(e).key = k
        /\ HandoffOf(e).digest = recs[e][k].digest
        /\ HandoffOf(e).fence = recs[e][k].sentFence
    BY DEF HandoffOf
  <2>4. \A h \in wire' : /\ journal[h.key].phase # "Absent"
                         /\ journal[h.key].digest = h.digest
                         /\ journal[h.key].sentFence >= h.fence
    BY <1>1, <2>2, <2>3 DEF HistoryInv, FenceInv, PersistedBeforeSent, present
  <2>5. PersistedBeforeSent'
    BY <1>1, <2>4 DEF PersistedBeforeSent
  <2>6. QED
    BY <1>1, <2>1, <2>5 DEF HistoryInv, FenceInv
<1>5. SendInv'
  <2>1. ASSUME NEW j \in Keys
        PROVE  /\ IsFiniteSet(Senders(j)')
               /\ submits'[j] + Cardinality(Senders(j)') <= journal[j].sends
    <3>1. /\ IsFiniteSet(Senders(j))
          /\ submits[j] + Cardinality(Senders(j)) <= journal[j].sends
      BY DEF HistoryInv, SendInv
    <3>2. CASE j # k
      <4>1. Senders(j)' = Senders(j)
        BY <1>1, <1>2, <3>2 DEF Senders
      <4>2. QED
        BY <1>3, <3>1, <3>2, <4>1
    <3>3. CASE j = k
      <4>1. Senders(j)' = Senders(j) \ {e} /\ e \in Senders(j)
        BY <1>1, <1>2, <3>3 DEF Senders
      <4>2. /\ IsFiniteSet(Senders(j)')
            /\ Cardinality(Senders(j)') = Cardinality(Senders(j)) - 1
        BY <3>1, <3>3, <4>1, FS_RemoveElement
      <4>3. Cardinality(Senders(j)) \in Nat /\ submits[j] \in Nat
        BY <1>2, <3>1, <3>3, FS_CardinalityType DEF HistoryInv, EngineInv, EngineTypeOK
      <4>4. submits'[j] + Cardinality(Senders(j)') = submits[j] + Cardinality(Senders(j))
        BY <1>3, <3>3, <4>2, <4>3
      <4>5. QED
        BY <3>1, <4>2, <4>4
    <3>4. QED
      BY <3>2, <3>3
  <2>2. QED
    BY <1>1, <2>1 DEF HistoryInv, SendInv, present
<1>6. EpisodeInv'
  BY <1>1 DEF HistoryInv, EpisodeInv, EpisodesEarned
<1>7. QED
  BY <1>4, <1>5, <1>6 DEF HistoryInv

\* What the provider does alone touches none of this.
LEMMA ActorHistory ==
    ASSUME HistoryInv, UNCHANGED <<journalEpoch, journal, wire, pc, recs, episode, cur, submits>>,
           EngineInv'
    PROVE  HistoryInv'
<1>1. FenceInv'
  BY DEF HistoryInv, FenceInv, PersistedBeforeSent
<1>2. SendInv'
  <2>1. \A k \in Keys : Senders(k)' = Senders(k)
    BY DEF Senders
  <2>2. QED
    BY <2>1 DEF HistoryInv, SendInv, present
<1>3. EpisodeInv'
  BY DEF HistoryInv, EpisodeInv, EpisodesEarned
<1>4. QED
  BY <1>1, <1>2, <1>3 DEF HistoryInv

\* Every step of an engine, a crash and every actor step keep the history.
LEMMA NextHistory == HistoryInv /\ [Next]_vars => HistoryInv'
<1> SUFFICES ASSUME HistoryInv, [Next]_vars
             PROVE  HistoryInv'
  OBVIOUS
<1>1. EngineInv /\ EngineInv' /\ EngineTypeOK'
  BY NextInv DEF HistoryInv, EngineInv
<1>2. ASSUME NEW e \in Engines, EngineStep(e) \/ Crash(e)
      PROVE  HistoryInv'
  <2>1. ASSUME NEW k \in Keys, NEW w \in Record, Writes(e, k, w)
        PROVE  HistoryInv'
    BY <1>1, <2>1, FenceWritten, SendWritten, EpisodeWritten DEF HistoryInv
  <2>2. QED
    BY <1>1, <1>2, <2>1, StepKinds, SubmitHistory, QuietHistory
<1>3. CASE ActorStep
  BY <1>1, <1>3, ActorHistory DEF ActorStep, Deliver, Settle, journalVars, engineVars, inputVars,
       localVars
<1>4. CASE UNCHANGED vars
  BY <1>1, <1>4, ActorHistory DEF vars, journalVars, actorVars, engineVars, inputVars, localVars
<1>5. QED
  BY <1>2, <1>3, <1>4 DEF Next

-----------------------------------------------------------------------------
(***************************************************************************)
(* Theorems of the specification.                                          *)
(***************************************************************************)

\* The invariant about what was sent, counted and earned holds throughout.
THEOREM HistoryInductive == Spec => []HistoryInv
BY InitHistory, NextHistory, PTL DEF Spec

\* Persist before send: whatever decide or advance ever submitted, from a
\* current or a stale engine, has a record with its digest and no older fence.
THEOREM SentWasPersisted == Spec => []PersistedBeforeSent
<1>1. HistoryInv => PersistedBeforeSent
  BY DEF HistoryInv, FenceInv
<1>2. QED
  BY <1>1, HistoryInductive, PTL

\* No key is submitted more often than the send budget allows, over all
\* engines and restarts.
THEOREM SendsBounded == Spec => []SendBudget
<1>1. HistoryInv => SendBudget
  <2> SUFFICES ASSUME HistoryInv, NEW k \in Keys
               PROVE  submits[k] <= MaxSends
    BY DEF SendBudget
  <2>1. /\ IsFiniteSet(Senders(k))
        /\ submits[k] + Cardinality(Senders(k)) <= journal[k].sends
        /\ journal[k].sends <= MaxSends
    BY DEF HistoryInv, SendInv
  <2>2. Cardinality(Senders(k)) \in Nat
    BY <2>1, FS_CardinalityType
  <2>3. submits[k] \in Nat /\ journal[k].sends \in Nat
    BY DEF HistoryInv, EngineInv, EngineTypeOK, JournalTypeOK, Record
  <2>4. QED
    BY <2>1, <2>2, <2>3
<1>2. QED
  BY <1>1, HistoryInductive, PTL

\* An attempt of a later episode exists only if every earlier episode of its
\* subject was confirmed recovered.
THEOREM EpisodesWereEarned == Spec => []EpisodesEarned
<1>1. HistoryInv => EpisodesEarned
  BY DEF HistoryInv, EpisodeInv
<1>2. QED
  BY <1>1, HistoryInductive, PTL

\* A finished attempt stays finished: no late answer, resend, takeover or
\* stale engine reopens it or changes its outcome, and its assessment, once
\* written by recover, is final.
THEOREM FinishedStays == Spec => FinishedForGood
<1> DEFINE Final == \A k \in Keys :
             journal[k].phase \in {"Succeeded", "Failed"} =>
               /\ journal'[k] = [journal[k] EXCEPT !.recovery = journal'[k].recovery,
                                  !.fence = journal'[k].fence, !.version = journal'[k].version]
               /\ journal[k].recovery # "None" => journal'[k] = journal[k]
<1>1. HistoryInv /\ [Next]_vars => [Final]_vars
  <2> SUFFICES ASSUME HistoryInv, Next
               PROVE  Final
    OBVIOUS
  <2>1. EngineInv /\ FenceInv /\ \A k \in Keys : journal[k] \in Record
    BY DEF HistoryInv, EngineInv, EngineTypeOK, JournalTypeOK
  <2>2. ASSUME journal' = journal
        PROVE  Final
    BY <2>1, <2>2 DEF Record
  <2>3. ASSUME NEW e \in Engines, NEW j \in Keys, NEW w \in Record, Writes(e, j, w)
        PROVE  Final
    <3> SUFFICES ASSUME NEW k \in Keys, journal[k].phase \in {"Succeeded", "Failed"}
                 PROVE  /\ journal'[k] = [journal[k] EXCEPT !.recovery = journal'[k].recovery,
                                           !.fence = journal'[k].fence,
                                           !.version = journal'[k].version]
                        /\ journal[k].recovery # "None" => journal'[k] = journal[k]
      OBVIOUS
    <3>1. /\ journal'[j] = w
          /\ k # j => journal'[k] = journal[k]
      BY <2>1, <2>3, OneWay
    <3>2. journal[k].recovery # "None" => journal'[k] = journal[k]
      BY <2>1, <2>3, AssessmentsStay
    <3>3. CASE k # j
      BY <2>1, <3>1, <3>2, <3>3 DEF Record
    <3>4. CASE k = j
      <4>1. w = [journal[k] EXCEPT !.recovery = w.recovery, !.fence = w.fence,
                                   !.version = w.version]
        BY <2>3, <3>4 DEF Writes, Rewritten, occupies
      <4>2. QED
        BY <3>1, <3>2, <3>4, <4>1
    <3>5. QED
      BY <3>3, <3>4
  <2>4. ASSUME NEW e \in Engines, EngineStep(e) \/ Crash(e)
        PROVE  Final
    <3>1. Submit(e) \/ SubmitFails(e) => journal' = journal
      BY DEF Submit, SubmitFails, journalVars
    <3>2. Quietly(e) => journal' = journal
      BY QuietKeeps
    <3>3. QED
      BY <2>1, <2>2, <2>3, <2>4, <3>1, <3>2, StepKinds
  <2>5. CASE ActorStep
    BY <2>2, <2>5 DEF ActorStep, journalVars
  <2>6. QED
    BY <2>4, <2>5 DEF Next
<1>2. QED
  BY <1>1, HistoryInductive, PTL DEF Spec, FinishedForGood

-----------------------------------------------------------------------------
(***************************************************************************)
(* Refinement of TargetLease.                                              *)
(***************************************************************************)

\* The mapping, phase by phase and state by state, now ...
Maps ==
    \A k \in Keys :
      /\ journal[k].phase = "Absent" => leaseOf[k] = "free"
      /\ occupies(journal[k].phase) => leaseOf[k] = "held"
      /\ journal[k].phase \in {"Succeeded", "Failed"} => leaseOf[k] = "released"
      /\ leaseOf[k] = "held" => occupies(journal[k].phase)
      /\ jobs[k].state = "Unknown" => runOf[k] = "none"
      /\ jobs[k].state = "Pending" => runOf[k] = "live"
      /\ jobs[k].state \in Definitive => runOf[k] = "over"

\* ... and in the next state.
LEMMA Mapping == Maps /\ Maps'
<1>1. Maps
  BY DEF Maps, leaseOf, runOf, occupies, Definitive
<1>2. Maps'
  BY DEF Maps, leaseOf, runOf, occupies, Definitive
<1>3. QED
  BY <1>1, <1>2

\* A lease or a run is a function of its record or job alone.
LEMMA MappedAlone ==
    /\ \A k \in Keys : journal'[k].phase = journal[k].phase => leaseOf'[k] = leaseOf[k]
    /\ \A k \in Keys : jobs'[k].state = jobs[k].state => runOf'[k] = runOf[k]
    /\ leaseOf = [k \in Keys |-> leaseOf[k]] /\ leaseOf' = [k \in Keys |-> leaseOf'[k]]
    /\ runOf = [k \in Keys |-> runOf[k]] /\ runOf' = [k \in Keys |-> runOf'[k]]
BY DEF leaseOf, runOf

\* A write takes a free target, releases a target after the provider's end,
\* or leaves the lease as it is.
LEMMA WriteLease ==
    ASSUME EngineInv, FenceInv, EngineInv', NEW e \in Engines, NEW k \in Keys, NEW w \in Record,
           Writes(e, k, w)
    PROVE  \/ Lease!Acquire(k) \/ Lease!Release(k)
           \/ UNCHANGED <<leaseOf, runOf>>
<1>1. /\ journal'[k] = w
      /\ \A j \in Keys : j # k => journal'[j] = journal[j]
  BY OneWay
<1>2. runOf' = runOf /\ jobs' = jobs
  BY DEF Writes, runOf
<1>3. \A j \in Keys : j # k => leaseOf'[j] = leaseOf[j]
  BY <1>1, MappedAlone
<1>4. leaseOf' = [leaseOf EXCEPT ![k] = leaseOf'[k]]
  BY <1>3, MappedAlone
<1>5. CASE journal[k].phase = "Absent" /\ w.phase = "Dispatching"
  <2>1. leaseOf[k] = "free" /\ leaseOf'[k] = "held" /\ occupies(journal'[k].phase)
    BY <1>1, <1>5, Mapping DEF Maps, occupies
  <2>2. ASSUME NEW j \in Keys, TargetUID(j) = TargetUID(k)
        PROVE  leaseOf[j] # "held"
    <3>1. CASE j = k
      BY <2>1, <3>1
    <3>2. CASE j # k
      <4>1. ~occupies(journal'[j].phase)
        BY <2>1, <2>2, <3>2 DEF EngineInv, JournalExclusive
      <4>2. QED
        BY <1>1, <3>2, <4>1, Mapping DEF Maps
    <3>3. QED
      BY <3>1, <3>2
  <2>3. Lease!Acquire(k)
    BY <1>2, <1>4, <2>1, <2>2 DEF Lease!Acquire
  <2>4. QED
    BY <2>3
<1>6. CASE occupies(journal[k].phase) /\ w.phase # "Absent"
  <2>1. w.phase \in Phases
    BY DEF Record
  <2>2. CASE occupies(w.phase)
    <3>1. leaseOf'[k] = leaseOf[k]
      BY <1>1, <1>6, <2>2, Mapping DEF Maps
    <3>2. QED
      BY <1>2, <1>3, <3>1, MappedAlone
  <2>3. CASE ~occupies(w.phase)
    <3>1. w.phase \in {"Succeeded", "Failed"}
      BY <1>6, <2>1, <2>3 DEF occupies, Phases
    <3>2. jobs[k].state \in Definitive
      BY <1>1, <1>2, <3>1 DEF EngineInv, JournalTruthful, Definitive
    <3>3. leaseOf[k] = "held" /\ leaseOf'[k] = "released" /\ runOf[k] = "over"
      BY <1>1, <1>6, <3>1, <3>2, Mapping DEF Maps
    <3>4. Lease!Release(k)
      BY <1>2, <1>4, <3>3 DEF Lease!Release
    <3>5. QED
      BY <3>4
  <2>4. QED
    BY <2>2, <2>3
<1>7. CASE w = [journal[k] EXCEPT !.recovery = w.recovery, !.fence = w.fence,
                                  !.version = w.version]
  <2>1. journal[k] \in Record
    BY DEF EngineInv, EngineTypeOK, JournalTypeOK
  <2>2. w.phase = journal[k].phase
    BY <1>7, <2>1 DEF Record
  <2>3. leaseOf'[k] = leaseOf[k]
    BY <1>1, <2>2, MappedAlone
  <2>4. QED
    BY <1>2, <1>3, <2>3, MappedAlone
<1>8. QED
  BY <1>5, <1>6, <1>7 DEF Writes, Rewritten

\* A handoff that reaches the provider begins the work of a target's holder,
\* or begins nothing.
LEMMA HandoffLease ==
    ASSUME EngineInv, journal' = journal, NEW h \in Handoff, present(h.key),
           Handle(h) \/ Ignore(h)
    PROVE  Lease!Begin(h.key) \/ UNCHANGED <<leaseOf, runOf>>
<1>1. h.key \in Keys /\ leaseOf' = leaseOf /\ jobs \in [Keys -> Job]
  BY DEF leaseOf, Handoff, EngineInv, EngineTypeOK, ActorTypeOK
<1>2. \A k \in Keys : jobs'[k].state # jobs[k].state => k = h.key /\ jobs[k].state = "Unknown"
  BY HandleJobs
<1>3. CASE jobs'[h.key].state = jobs[h.key].state
  BY <1>1, <1>2, <1>3, MappedAlone
<1>4. CASE jobs'[h.key].state # jobs[h.key].state
  <2>1. Handle(h) /\ jobs[h.key].state = "Unknown"
    BY <1>1, <1>2, <1>4 DEF Ignore
  <2>2. jobs'[h.key].state \in {"Pending", "Refused"}
    <3>1. PICK state \in {"Pending", "Refused"} :
             jobs' = [jobs EXCEPT ![h.key] =
                        [state |-> state, fence |-> h.fence, digest |-> h.digest]]
      BY <2>1 DEF Handle
    <3>2. QED
      BY <1>1, <3>1
  <2>3. occupies(journal[h.key].phase)
    <3>1. journal[h.key].phase \notin {"Absent", "Succeeded", "Failed"}
      BY <1>1, <2>1 DEF present, EngineInv, JournalTruthful
    <3>2. journal[h.key].phase \in Phases
      BY <1>1 DEF EngineInv, EngineTypeOK, JournalTypeOK, Record
    <3>3. QED
      BY <3>1, <3>2 DEF occupies, Phases
  <2>4. /\ leaseOf[h.key] = "held" /\ runOf[h.key] = "none"
        /\ runOf'[h.key] \in {"live", "over"}
    BY <1>1, <2>1, <2>2, <2>3, Mapping DEF Maps, Definitive
  <2>5. runOf' = [runOf EXCEPT ![h.key] = runOf'[h.key]]
    BY <1>1, <1>2, MappedAlone
  <2>6. Lease!Begin(h.key)
    BY <1>1, <2>4, <2>5 DEF Lease!Begin
  <2>7. QED
    BY <2>6
<1>5. QED
  BY <1>3, <1>4

\* An execution that ends ends the run.
LEMMA SettleLease ==
    ASSUME EngineInv, journal' = journal, NEW k \in Keys, Settle(k)
    PROVE  Lease!End(k)
<1>1. leaseOf' = leaseOf /\ jobs \in [Keys -> Job] /\ jobs[k].state = "Pending"
  BY DEF leaseOf, EngineInv, EngineTypeOK, ActorTypeOK, Settle, Live
<1>2. PICK state \in {"Succeeded", "Failed"} :
         jobs' = [jobs EXCEPT ![k] = [jobs[k] EXCEPT !.state = state]]
  BY DEF Settle
<1>3. /\ jobs'[k].state \in Definitive
      /\ \A j \in Keys : j # k => jobs'[j] = jobs[j]
  BY <1>1, <1>2 DEF Job, Definitive
<1>4. runOf[k] = "live" /\ runOf'[k] = "over"
  BY <1>1, <1>3, Mapping DEF Maps
<1>5. runOf' = [runOf EXCEPT ![k] = "over"]
  BY <1>3, <1>4, MappedAlone
<1>6. QED
  BY <1>1, <1>4, <1>5 DEF Lease!End

\* The engines, the journal and the provider implement TargetLease: a target
\* is taken only when free, worked on only by its holder and released only
\* after the provider ended or refused the work (busy, Put, adopt, send).
THEOREM LeaseRefined == Spec => ImplementsLease
<1>1. Init => Lease!Init
  <2> SUFFICES ASSUME Init
               PROVE  Lease!Init
    OBVIOUS
  <2>1. \A k \in Keys : journal[k].phase = "Absent" /\ jobs[k].state = "Unknown"
    BY DEF Init, JournalInit, ActorInit, Blank, NoJob
  <2>2. \A k \in Keys : leaseOf[k] = "free" /\ runOf[k] = "none"
    BY <2>1, Mapping DEF Maps
  <2>3. QED
    BY <2>2, MappedAlone DEF Lease!Init
<1>2. HistoryInv /\ [Next]_vars => [Lease!Next]_<<leaseOf, runOf>>
  <2> SUFFICES ASSUME HistoryInv, [Next]_vars, ~UNCHANGED <<leaseOf, runOf>>
               PROVE  Lease!Next
    OBVIOUS
  <2>1. EngineInv /\ FenceInv /\ EngineInv'
    BY NextInv DEF HistoryInv
  <2>2. ASSUME NEW e \in Engines, EngineStep(e) \/ Crash(e)
        PROVE  Lease!Next
    <3>1. ASSUME NEW k \in Keys, NEW w \in Record, Writes(e, k, w)
          PROVE  Lease!Next
      BY <2>1, <3>1, WriteLease DEF Lease!Next
    <3>2. CASE Submit(e)
      <4>1. /\ pc[e] = "send" /\ Handle(HandoffOf(e)) /\ journal' = journal
        BY <3>2 DEF Submit, CallSubmit, journalVars
      <4>2. cur[e] \in Keys /\ recs[e][cur[e]] \in Record /\ present(cur[e])
        BY <2>1, <4>1, CurType DEF EngineInv, RecordedInv
      <4>3. HandoffOf(e) \in Handoff /\ HandoffOf(e).key = cur[e]
        BY <4>2 DEF HandoffOf, Handoff, Record
      <4>4. Lease!Begin(HandoffOf(e).key)
        BY <2>1, <4>1, <4>2, <4>3, HandoffLease
      <4>5. QED
        BY <4>2, <4>3, <4>4 DEF Lease!Next
    <3>3. CASE SubmitFails(e) \/ Quietly(e)
      <4>1. journal' = journal /\ jobs' = jobs
        BY <3>3, QuietKeeps DEF SubmitFails, journalVars
      <4>2. QED
        BY <4>1 DEF leaseOf, runOf
    <3>4. QED
      BY <2>1, <2>2, <3>1, <3>2, <3>3, StepKinds
  <2>3. CASE ActorStep
    <3>1. journal' = journal
      BY <2>3 DEF ActorStep, journalVars
    <3>2. ASSUME NEW h \in wire, Deliver(h)
          PROVE  Lease!Next
      <4>1. h \in Handoff /\ h.key \in Keys /\ present(h.key)
        BY <2>1 DEF EngineInv, EngineTypeOK, ActorTypeOK, RecordedInv, Handoff
      <4>2. QED
        BY <2>1, <3>1, <3>2, <4>1, HandoffLease DEF Deliver, Lease!Next
    <3>3. ASSUME NEW k \in Keys, Settle(k)
          PROVE  Lease!Next
      BY <2>1, <3>1, <3>3, SettleLease DEF Lease!Next
    <3>4. QED
      BY <2>3, <3>2, <3>3 DEF ActorStep
  <2>4. CASE UNCHANGED vars
    BY <2>4 DEF vars, journalVars, actorVars, leaseOf, runOf
  <2>5. QED
    BY <2>2, <2>3, <2>4 DEF Next
<1>3. QED
  BY <1>1, <1>2, HistoryInductive, PTL DEF Spec, ImplementsLease, Lease!Spec
=============================================================================
