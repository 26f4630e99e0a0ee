---------------------------- MODULE ActionEngine ----------------------------
(***************************************************************************)
(* The O5 action engine (pkg/action/engine.go): overlapping and restarting *)
(* engines that share one journal and one action provider.                 *)
(*                                                                         *)
(* Engine.Step is serialised per engine by its mutex, so an engine is one  *)
(* process with a program counter.  Steps of different engines interleave  *)
(* at every call that leaves the process: Epoch, List, Put, Result and     *)
(* Submit.  A crash may fall between any two of them.                      *)
(*                                                                         *)
(* Abstractions.  Deadlines (AckTimeout, the resend interval,              *)
(* CompletionTimeout, RecoveryWindow) may have passed or not whenever the  *)
(* code tests them.  What the snapshot, the profile and the decision       *)
(* source say of a subject is one Input per step.  What the evidence says  *)
(* of an ended execution is a choice in recover.  A failed Epoch or List   *)
(* ends the step without effect and is not a step here.  Records are       *)
(* visited in no particular order: the code sorts them by digest.          *)
(***************************************************************************)
EXTENDS ActionActor

CONSTANTS
    Engines,     \* engine processes
    Retryable,   \* subjects declared Execution.Retryable
    Inputs,      \* the inputs a step may see for a subject
    Assessments  \* the final assessments the evidence may lead recover to

(***************************************************************************)
(* What one step knows of one subject: whether derive yields a proposal    *)
(* for it (on) and with which digest, whether every gate but target-busy   *)
(* passes (open), what the counted decisions say (verdict; a policy        *)
(* approval is "approve"), and whether the decision recorded with an       *)
(* attempt still counts and is still presented unchanged (kept).           *)
(***************************************************************************)
Input == [on : BOOLEAN, digest : Digests, open : BOOLEAN,
          verdict : {"approve", "reject", "none"}, kept : BOOLEAN]

ASSUME EngineAssumption ==
    /\ Retryable \subseteq Subjects
    /\ Inputs \subseteq Input
    /\ Assessments \subseteq FinalRecovery

VARIABLES
    epoch,     \* Engine.epoch, 0 until the first step takes one
    pc,        \* where the engine stands in Step
    recs,      \* step.recs: the step's copy of the journal
    in,        \* step.in, step.decisions: the step's input
    episode,   \* the episode derive used for each subject
    keysTodo,  \* occupying records the advance loop has still to visit
    assessed,  \* records the recovery loop has visited
    subjTodo,  \* proposals the decide loop has still to visit
    cur,       \* the record being advanced or sent
    answer,    \* the provider's last answer (Result or Receipt)
    submits    \* history: Submit calls made for each key

inputVars  == <<in, episode>>
todoVars   == <<keysTodo, assessed, subjTodo>>
localVars  == <<cur, answer>>
engineVars == <<epoch, pc, recs, inputVars, todoVars, localVars>>
vars == <<journalVars, actorVars, engineVars, submits>>

PCs == {"idle", "loop", "polled", "due", "send", "receipt"}
NoKey == <<>>
NoRecs == [k \in Keys |-> Blank]

EngineTypeOK ==
    /\ JournalTypeOK
    /\ ActorTypeOK
    /\ epoch \in [Engines -> Nat]
    /\ pc \in [Engines -> PCs]
    /\ recs \in [Engines -> [Keys -> Record]]
    /\ in \in [Engines -> [Subjects -> Input]]
    /\ episode \in [Engines -> [Subjects -> Nat]]
    /\ keysTodo \in [Engines -> SUBSET Keys]
    /\ assessed \in [Engines -> SUBSET Keys]
    /\ subjTodo \in [Engines -> SUBSET Subjects]
    /\ cur \in [Engines -> Keys \cup {NoKey}]
    /\ \A e \in Engines : pc[e] \notin {"idle", "loop"} => cur[e] \in Keys
    /\ answer \in [Engines -> Job]
    /\ submits \in [Keys -> Nat]

Quiet == [on |-> FALSE, digest |-> Blank.digest, open |-> FALSE,
          verdict |-> "none", kept |-> FALSE]

Init ==
    /\ JournalInit
    /\ ActorInit
    /\ epoch = [e \in Engines |-> 0]
    /\ pc = [e \in Engines |-> "idle"]
    /\ recs = [e \in Engines |-> NoRecs]
    /\ in = [e \in Engines |-> [s \in Subjects |-> Quiet]]
    /\ episode = [e \in Engines |-> [s \in Subjects |-> 1]]
    /\ keysTodo = [e \in Engines |-> {}]
    /\ assessed = [e \in Engines |-> {}]
    /\ subjTodo = [e \in Engines |-> {}]
    /\ cur = [e \in Engines |-> NoKey]
    /\ answer = [e \in Engines |-> NoJob]
    /\ submits = [k \in Keys |-> 0]

-----------------------------------------------------------------------------
(***************************************************************************)
(* Step's prologue.                                                        *)
(***************************************************************************)

\* The first step of an engine claims the journal.
TakeEpoch(e) ==
    /\ pc[e] = "idle"
    /\ epoch[e] = 0
    /\ IssueEpoch
    /\ epoch' = [epoch EXCEPT ![e] = journalEpoch + 1]
    /\ UNCHANGED <<actorVars, pc, recs, inputVars, todoVars, localVars, submits>>

\* step.episode: one plus the proposals of s with a Recovered execution.
RecoveredEpisodes(r, s) ==
    {n \in Episodes : \E a \in Attempts : r[<<s, n, a>>].recovery = "Recovered"}

\* Mutant of EpisodeOf: any ended execution starts a new episode.
EpisodeOfEnded(r, s) ==
    Cardinality({n \in Episodes : \E a \in Attempts : r[<<s, n, a>>].ended}) + 1

EpisodeOf(r, s) == Cardinality(RecoveredEpisodes(r, s)) + 1

\* List the journal, read the decisions and derive the proposals.
List(e) ==
    /\ pc[e] = "idle"
    /\ epoch[e] # 0
    /\ \E i \in [Subjects -> Inputs] :
         /\ in' = [in EXCEPT ![e] = i]
         /\ subjTodo' = [subjTodo EXCEPT ![e] = {s \in Subjects : i[s].on}]
    /\ recs' = [recs EXCEPT ![e] = journal]
    /\ episode' = [episode EXCEPT ![e] = [s \in Subjects |-> EpisodeOf(journal, s)]]
    /\ keysTodo' = [keysTodo EXCEPT ![e] = {k \in Keys : occupies(journal[k].phase)}]
    /\ pc' = [pc EXCEPT ![e] = "loop"]
    /\ UNCHANGED <<journalVars, actorVars, epoch, assessed, localVars, submits>>

-----------------------------------------------------------------------------
(***************************************************************************)
(* step.put: the write carries the engine's epoch.  It may fail, because   *)
(* the journal refuses it or for any other reason; a failed write stores   *)
(* nothing and leaves the step's copy unchanged.                           *)
(***************************************************************************)
PutOK(e, k, next) ==
    LET r == [next EXCEPT !.fence = epoch[e]]
    IN  /\ Put(k, r)
        /\ recs' = [recs EXCEPT ![e][k] = Stored(r)]

PutFails == UNCHANGED <<journalVars, recs>>

\* step.own
own(e, r) == r.fence <= epoch[e]

\* matches: receipts and results must carry the record's key, fence, digest.
matches(r, a) == a.fence = r.sentFence /\ a.digest = r.digest

Goto(e, label) == pc' = [pc EXCEPT ![e] = label]

\* advance or send returns to its loop; the record and answer it held are gone.
Return(e) ==
    /\ Goto(e, "loop")
    /\ cur' = [cur EXCEPT ![e] = NoKey]
    /\ answer' = [answer EXCEPT ![e] = NoJob]
    /\ UNCHANGED <<actorVars, epoch, inputVars, todoVars>>

-----------------------------------------------------------------------------
(***************************************************************************)
(* The advance loop visits every occupying record.  First half of advance: *)
(* poll the provider by key and adopt its answer.                          *)
(***************************************************************************)
Visit(e, k) ==
    /\ pc[e] = "loop"
    /\ k \in keysTodo[e]
    /\ keysTodo' = [keysTodo EXCEPT ![e] = @ \ {k}]
    /\ UNCHANGED <<journalVars, actorVars, epoch, recs, inputVars, assessed, subjTodo, submits>>

\* A newer engine has written the record: leave it alone.
SkipForeign(e, k) ==
    /\ Visit(e, k)
    /\ ~own(e, recs[e][k])
    /\ UNCHANGED <<pc, localVars>>

\* Mutant of Adoptable: a record past its deadline is not ended by a result.
AdoptableInFlight(r, a) ==
    /\ matches(r, a)
    /\ r.phase \in {"Dispatching", "Accepted"}

\* adopt: which matching answers move the record, and to what.
Adoptable(r, a) ==
    /\ matches(r, a)
    /\ \/ a.state = "Pending" /\ r.phase = "Dispatching"
       \/ a.state = "Refused" /\ ~r.acked
       \/ a.state \in {"Succeeded", "Failed"}

\* Mutants of Adopted: every end is a success; the answer is the phase.
AdoptedSucceeded(r, a) ==
    CASE a.state = "Pending" -> [r EXCEPT !.phase = "Accepted", !.acked = TRUE]
      [] a.state = "Refused" -> [r EXCEPT !.phase = "Failed", !.refused = TRUE, !.acked = TRUE]
      [] OTHER -> [r EXCEPT !.phase = "Succeeded", !.acked = TRUE, !.ended = TRUE]

AdoptedVerbatim(r, a) == [r EXCEPT !.phase = a.state, !.acked = TRUE]

Adopted(r, a) ==
    CASE a.state = "Pending" -> [r EXCEPT !.phase = "Accepted", !.acked = TRUE]
      [] a.state = "Refused" -> [r EXCEPT !.phase = "Failed", !.refused = TRUE, !.acked = TRUE]
      [] OTHER -> [r EXCEPT !.phase = a.state, !.acked = TRUE, !.ended = TRUE]

\* Provider.Result: a is what the provider says of k, or NoJob on an error
\* or where the provider is not registered.
Poll(e, k, a) ==
    /\ Visit(e, k)
    /\ own(e, recs[e][k])
    /\ cur' = [cur EXCEPT ![e] = k]
    /\ answer' = [answer EXCEPT ![e] = a]
    /\ Goto(e, IF Adoptable(recs[e][k], a) THEN "polled" ELSE "due")

PollAnswered(e, k) == jobs[k] # NoJob /\ Poll(e, k, jobs[k])
PollFails(e, k) == Poll(e, k, NoJob)

Adopt(e) ==
    /\ pc[e] = "polled"
    /\ PutOK(e, cur[e], Adopted(recs[e][cur[e]], answer[e]))
    /\ Return(e)
    /\ UNCHANGED submits

\* adopt's write failed: advance goes on as if there were no answer.
AdoptFails(e) ==
    /\ pc[e] = "polled"
    /\ PutFails
    /\ Goto(e, "due")
    /\ UNCHANGED <<actorVars, epoch, inputVars, todoVars, localVars, submits>>

-----------------------------------------------------------------------------
(***************************************************************************)
(* Second half of advance: deadlines, withdrawal and resend of cur.        *)
(***************************************************************************)

\* step.stillApproved and the other conditions of a resend.
Resendable(e, k) ==
    LET i == in[e][Subject(k)]
    IN  /\ i.on
        /\ Episode(k) = episode[e][Subject(k)]
        /\ i.digest = recs[e][k].digest
        /\ i.open
        /\ i.verdict # "reject"
        /\ i.kept

TimedOut(r) == [r EXCEPT !.phase = "TimedOut"]
Withdrawn(r) == [r EXCEPT !.phase = "Withdrawn"]

\* Mutant of Resent: a resend is not counted.
ResentUncounted(e, r) == [r EXCEPT !.sentFence = epoch[e]]

Resent(e, r) == [r EXCEPT !.sends = @ + 1, !.sentFence = epoch[e]]

\* The acknowledgement or completion deadline has passed.
TimeOut(e) ==
    LET r == recs[e][cur[e]]
    IN  /\ pc[e] = "due"
        /\ r.phase \in {"Dispatching", "Accepted"}
        /\ PutOK(e, cur[e], TimedOut(r))
        /\ Return(e)
        /\ UNCHANGED submits

\* A resend is due, but the proposal, its gates or its approval changed.
Withdraw(e) ==
    LET r == recs[e][cur[e]]
    IN  /\ pc[e] = "due"
        /\ r.phase = "Dispatching"
        /\ r.sends < MaxSends
        /\ ~Resendable(e, cur[e])
        /\ PutOK(e, cur[e], Withdrawn(r))
        /\ Return(e)
        /\ UNCHANGED submits

\* A resend is due: persist it under this engine's fence, then send.
Resend(e) ==
    LET r == recs[e][cur[e]]
    IN  /\ pc[e] = "due"
        /\ r.phase = "Dispatching"
        /\ r.sends < MaxSends
        /\ Resendable(e, cur[e])
        /\ PutOK(e, cur[e], Resent(e, r))
        /\ Goto(e, "send")
        /\ UNCHANGED <<actorVars, epoch, inputVars, todoVars, localVars, submits>>

\* Nothing is due yet, or the write failed.
Wait(e) ==
    /\ pc[e] = "due"
    /\ PutFails
    /\ Return(e)
    /\ UNCHANGED submits

-----------------------------------------------------------------------------
(***************************************************************************)
(* step.send: Submit the persisted handoff and record the receipt.  What   *)
(* counts of a call is when it reaches the actor: Submit with its receipt, *)
(* or SubmitFails, which leaves the handoff on the wire.                   *)
(***************************************************************************)
HandoffOf(e) == [key |-> cur[e], fence |-> recs[e][cur[e]].sentFence,
                 digest |-> recs[e][cur[e]].digest]

CallSubmit(e) ==
    /\ pc[e] = "send"
    /\ wire' = wire \cup {HandoffOf(e)}
    /\ submits' = [submits EXCEPT ![cur[e]] = @ + 1]

\* The actor processes the handoff and its receipt arrives.
Submit(e) ==
    /\ CallSubmit(e)
    /\ Handle(HandoffOf(e))
    /\ answer' = [answer EXCEPT ![e] = [jobs'[cur[e]] EXCEPT !.digest = HandoffOf(e).digest]]
    /\ Goto(e, "receipt")
    /\ UNCHANGED <<journalVars, epoch, recs, inputVars, todoVars, cur>>

\* No receipt: not delivered (yet), rejected as stale, or the answer is lost.
SubmitFails(e) ==
    /\ CallSubmit(e)
    /\ Goto(e, "loop")
    /\ cur' = [cur EXCEPT ![e] = NoKey]
    /\ UNCHANGED <<journalVars, highFence, jobs, epoch, recs, inputVars, todoVars, answer>>

\* Mutant of Receipted: an accepted receipt is taken for the end.
ReceiptedSucceeded(r, a) == [r EXCEPT !.phase = "Succeeded", !.acked = TRUE, !.ended = TRUE]

\* The receipt says accepted or refused, whatever became of the job since.
Receipted(r, a) ==
    IF a.state = "Refused"
      THEN [r EXCEPT !.phase = "Failed", !.refused = TRUE, !.acked = TRUE]
      ELSE [r EXCEPT !.phase = "Accepted", !.acked = TRUE]

RecordReceipt(e) ==
    /\ pc[e] = "receipt"
    /\ matches(recs[e][cur[e]], answer[e])
    /\ PutOK(e, cur[e], Receipted(recs[e][cur[e]], answer[e]))
    /\ Return(e)
    /\ UNCHANGED submits

DropReceipt(e) ==
    /\ pc[e] = "receipt"
    /\ PutFails
    /\ Return(e)
    /\ UNCHANGED submits

-----------------------------------------------------------------------------
(***************************************************************************)
(* The recovery loop, after the advance loop: every ended execution        *)
(* without a final assessment.                                             *)
(***************************************************************************)
\* Mutant of Assessable: a final assessment is made again.
AssessableAgain(e) == {k \in Keys : recs[e][k].ended} \ assessed[e]

Assessable(e) ==
    {k \in Keys : recs[e][k].ended /\ recs[e][k].recovery \notin FinalRecovery} \ assessed[e]

Assess(e, k) ==
    /\ pc[e] = "loop"
    /\ keysTodo[e] = {}
    /\ k \in Assessable(e)
    /\ assessed' = [assessed EXCEPT ![e] = @ \cup {k}]
    /\ UNCHANGED <<actorVars, epoch, pc, inputVars, keysTodo, subjTodo, localVars, submits>>

\* recover: a final assessment is persisted ...
Recover(e, k) ==
    /\ Assess(e, k)
    /\ \E v \in Assessments : PutOK(e, k, [recs[e][k] EXCEPT !.recovery = v])

\* ... a pending one is only shown, and a failed write changes nothing.
RecoverPending(e, k) == Assess(e, k) /\ PutFails

-----------------------------------------------------------------------------
(***************************************************************************)
(* The decide loop, last: every current proposal.                          *)
(***************************************************************************)

\* Mutant of busy: only attempts in flight hold their target.
busyInFlight(r, s, n) ==
    \E k \in Keys : /\ TargetUID(k) = TargetOf[s]
                    /\ ProposalID(k) # <<s, n>>
                    /\ r[k].phase \in {"Dispatching", "Accepted"}

\* step.busy: another proposal's attempt may still be live on the target.
busy(r, s, n) ==
    \E k \in Keys : /\ TargetUID(k) = TargetOf[s]
                    /\ ProposalID(k) # <<s, n>>
                    /\ occupies(r[k].phase)

\* a is the last attempt of the proposal <<s, n>>.
LastAttempt(r, s, n, a) ==
    /\ r[<<s, n, a>>].phase # "Absent"
    /\ \A b \in Attempts : r[<<s, n, b>>].phase # "Absent" => b <= a

\* Mutant of NextAttempt: an unknown outcome is retried.
NextAttemptUnknown(r, s, n, a) ==
    \/ /\ a = 1
       /\ \A b \in Attempts : r[<<s, n, b>>].phase = "Absent"
    \/ /\ a - 1 \in Attempts
       /\ LastAttempt(r, s, n, a - 1)
       /\ r[<<s, n, a - 1>>].phase \in {"Failed", "TimedOut"}
       /\ s \in Retryable

\* a is the attempt decide would make next.
NextAttempt(r, s, n, a) ==
    \/ /\ a = 1
       /\ \A b \in Attempts : r[<<s, n, b>>].phase = "Absent"
    \/ /\ a - 1 \in Attempts
       /\ LastAttempt(r, s, n, a - 1)
       /\ r[<<s, n, a - 1>>].phase = "Failed"
       /\ s \in Retryable

\* Every gate passes and the approval is valid.
MayDispatch(e, s, a) ==
    LET n == episode[e][s]
    IN  /\ n \in Episodes
        /\ NextAttempt(recs[e], s, n, a)
        /\ in[e][s].verdict = "approve"
        /\ in[e][s].open
        /\ ~busy(recs[e], s, n)

Dispatching(e, s) ==
    [Blank EXCEPT !.phase = "Dispatching", !.digest = in[e][s].digest,
                  !.sentFence = epoch[e], !.sends = 1]

Decide(e, s) ==
    /\ pc[e] = "loop"
    /\ keysTodo[e] = {}
    /\ Assessable(e) = {}
    /\ s \in subjTodo[e]
    /\ subjTodo' = [subjTodo EXCEPT ![e] = @ \ {s}]
    /\ UNCHANGED <<actorVars, epoch, inputVars, keysTodo, assessed, answer, submits>>

\* Mutant of Dispatch: the attempt is sent although its write failed.
DispatchUnpersisted(e, s) ==
    /\ Decide(e, s)
    /\ \E a \in Attempts :
         LET k == <<s, episode[e][s], a>>
         IN  /\ MayDispatch(e, s, a)
             /\ recs' = [recs EXCEPT ![e][k] = Dispatching(e, s)]
             /\ cur' = [cur EXCEPT ![e] = k]
    /\ Goto(e, "send")
    /\ UNCHANGED journalVars

\* decide: persist a new attempt before sending it.
Dispatch(e, s) ==
    /\ Decide(e, s)
    /\ \E a \in Attempts :
         LET k == <<s, episode[e][s], a>>
         IN  /\ MayDispatch(e, s, a)
             /\ PutOK(e, k, Dispatching(e, s))
             /\ cur' = [cur EXCEPT ![e] = k]
    /\ Goto(e, "send")

\* decide only shows the proposal, or the write of the attempt failed.
ShowOnly(e, s) ==
    /\ Decide(e, s)
    /\ PutFails
    /\ UNCHANGED <<pc, cur>>

Discard(e) ==
    /\ pc' = [pc EXCEPT ![e] = "idle"]
    /\ recs' = [recs EXCEPT ![e] = NoRecs]
    /\ in' = [in EXCEPT ![e] = [s \in Subjects |-> Quiet]]
    /\ episode' = [episode EXCEPT ![e] = [s \in Subjects |-> 1]]
    /\ keysTodo' = [keysTodo EXCEPT ![e] = {}]
    /\ assessed' = [assessed EXCEPT ![e] = {}]
    /\ subjTodo' = [subjTodo EXCEPT ![e] = {}]
    /\ cur' = [cur EXCEPT ![e] = NoKey]
    /\ answer' = [answer EXCEPT ![e] = NoJob]
    /\ UNCHANGED <<journalVars, actorVars, submits>>

\* The step returns; everything it held is gone but the epoch.
Finish(e) ==
    /\ pc[e] = "loop"
    /\ keysTodo[e] = {}
    /\ Assessable(e) = {}
    /\ subjTodo[e] = {}
    /\ Discard(e)
    /\ UNCHANGED epoch

\* The process dies; it restarts without an epoch.
Crash(e) ==
    /\ epoch[e] # 0
    /\ journalEpoch < MaxEpoch
    /\ Discard(e)
    /\ epoch' = [epoch EXCEPT ![e] = 0]

-----------------------------------------------------------------------------
EngineStep(e) ==
    \/ TakeEpoch(e)
    \/ List(e)
    \/ \E k \in Keys : SkipForeign(e, k) \/ PollAnswered(e, k) \/ PollFails(e, k)
    \/ Adopt(e) \/ AdoptFails(e)
    \/ TimeOut(e) \/ Withdraw(e) \/ Resend(e) \/ Wait(e)
    \/ Submit(e) \/ SubmitFails(e) \/ RecordReceipt(e) \/ DropReceipt(e)
    \/ \E k \in Keys : Recover(e, k) \/ RecoverPending(e, k)
    \/ \E s \in Subjects : Dispatch(e, s) \/ ShowOnly(e, s)
    \/ Finish(e)

ActorStep ==
    /\ \/ \E h \in wire : Deliver(h)
       \/ \E k \in Keys : Settle(k)
    /\ UNCHANGED <<journalVars, engineVars, submits>>

Next ==
    \/ \E e \in Engines : EngineStep(e) \/ Crash(e)
    \/ ActorStep

Spec == Init /\ [][Next]_vars

-----------------------------------------------------------------------------
(***************************************************************************)
(* Safety.                                                                 *)
(***************************************************************************)

\* At most one execution per target is live at the provider, whatever the
\* engines believe, across overlap, crashes and lost or late messages: the
\* promise of step.busy, Phase.occupies and the fenced Journal.Put together.
LiveExclusive ==
    \A j, k \in Keys : Live(j) /\ Live(k) /\ TargetUID(j) = TargetUID(k) => j = k

\* What adopt and send record as the end of an attempt is what the provider
\* did, and recover only assesses an execution the provider really ended.
JournalTruthful ==
    \A k \in Keys :
      LET r == journal[k] IN
      /\ r.phase = "Succeeded" => jobs[k].state = "Succeeded"
      /\ r.phase = "Failed" => jobs[k].state = IF r.refused THEN "Refused" ELSE "Failed"
      /\ r.recovery # "None" => jobs[k].state \in {"Succeeded", "Failed"}

\* Persist before send (decide, advance): every handoff ever submitted has a
\* record that names it, with the digest it carried and no older fence.
PersistedBeforeSent ==
    \A h \in wire : /\ journal[h.key].phase # "Absent"
                    /\ journal[h.key].digest = h.digest
                    /\ journal[h.key].sentFence >= h.fence

\* decide makes a new attempt of a proposal only after the provider failed
\* or refused the previous one: an unknown outcome is never retried.
RetryAfterFailure ==
    \A k \in Keys : Attempt(k) > 1 /\ journal[k].phase # "Absent" =>
        jobs[<<Subject(k), Episode(k), Attempt(k) - 1>>].state \in {"Failed", "Refused"}

\* Over all engines and restarts, no more than MaxSends Submit calls are made
\* for one key (advance counts a send before making it).
SendBudget == \A k \in Keys : submits[k] <= MaxSends

\* An engine that holds the newest epoch works on exactly what the journal
\* holds, so step.busy judges the truth and its writes never conflict.
OwnerViewCurrent ==
    \A e \in Engines :
      epoch[e] # 0 /\ epoch[e] = journalEpoch /\ pc[e] # "idle" => recs[e] = journal

\* An attempt of a later episode exists only if every earlier episode of its
\* subject was confirmed Recovered (step.episode).
EpisodesEarned ==
    \A k \in Keys : journal[k].phase # "Absent" =>
      \A n \in 1..(Episode(k) - 1) : n \in RecoveredEpisodes(journal, Subject(k))

\* A finished attempt stays finished: no late answer, resend, takeover or
\* stale engine reopens it, changes its outcome or rewrites its assessment.
FinishedForGood ==
    [][\A k \in Keys :
         journal[k].phase \in {"Succeeded", "Failed"} =>
           /\ journal'[k] = [journal[k] EXCEPT !.recovery = journal'[k].recovery,
                              !.fence = journal'[k].fence, !.version = journal'[k].version]
           /\ journal[k].recovery # "None" => journal'[k] = journal[k]]_vars

(***************************************************************************)
(* The inductive invariant behind the theorems of ActionEngineProofs.      *)
(***************************************************************************)
present(k) == journal[k].phase # "Absent"

\* Epochs are issued once: only the engine with the newest one can write.
EpochInv ==
    /\ \A e \in Engines : epoch[e] <= journalEpoch
    /\ \A e, f \in Engines : epoch[e] = epoch[f] /\ epoch[e] # 0 => e = f
    /\ \A e \in Engines : pc[e] # "idle" => epoch[e] # 0

\* An end, a refusal and an assessment belong to finished attempts.
RecordInv ==
    \A k \in Keys :
      LET r == journal[k] IN
      /\ r.ended => r.phase \in {"Succeeded", "Failed"} /\ ~r.refused
      /\ r.refused => r.phase = "Failed"
      /\ r.recovery # "None" => r.ended

\* What the wire, the provider and a sending engine hold has a record.
RecordedInv ==
    /\ \A h \in wire : present(h.key)
    /\ \A k \in Keys : jobs[k].state # "Unknown" => present(k)
    /\ \A e \in Engines : pc[e] = "send" => present(cur[e])

\* The record an engine works on has no end yet and is visited once a step.
WorkInv(e) ==
    /\ \A k \in keysTodo[e] : occupies(recs[e][k].phase)
    /\ pc[e] \in {"polled", "due", "send", "receipt"} =>
         /\ cur[e] \in Keys \ keysTodo[e]
         /\ occupies(recs[e][cur[e]].phase)
    /\ pc[e] \in {"send", "receipt"} => recs[e][cur[e]].phase = "Dispatching"
    /\ pc[e] = "polled" => Adoptable(recs[e][cur[e]], answer[e])
    /\ pc[e] \in {"polled", "due", "receipt"} /\ answer[e].state \in Definitive
         => jobs[cur[e]].state = answer[e].state

CurInv == \A e \in Engines : WorkInv(e)

\* On the journal, one attempt at a time occupies a target, and an attempt
\* follows only failed ones.
JournalExclusive ==
    \A j, k \in Keys :
      /\ TargetUID(j) = TargetUID(k)
      /\ occupies(journal[j].phase)
      /\ occupies(journal[k].phase)
      => j = k

AttemptChain ==
    \A j, k \in Keys :
      /\ ProposalID(j) = ProposalID(k)
      /\ Attempt(j) < Attempt(k)
      /\ present(k)
      => journal[j].phase = "Failed"

\* Together they are inductive: overlap, crashes and late messages included,
\* the writes that get past Journal.Put come from one current view.
EngineInv ==
    /\ EngineTypeOK
    /\ EpochInv
    /\ OwnerViewCurrent
    /\ RecordInv
    /\ RecordedInv
    /\ CurInv
    /\ JournalExclusive
    /\ AttemptChain
    /\ JournalTruthful

(***************************************************************************)
(* The rest of the argument, about what was sent and counted: the theorems *)
(* of ActionEngineProofs.                                                  *)
(***************************************************************************)

\* A handoff on the wire, or about to be sent from an engine's own copy,
\* carries the digest of its record and no newer fence than it.
FenceInv ==
    /\ \A k \in Keys : journal[k].sentFence <= journalEpoch
    /\ \A e \in Engines : pc[e] = "send" =>
         /\ recs[e][cur[e]].digest = journal[cur[e]].digest
         /\ recs[e][cur[e]].sentFence <= journal[cur[e]].sentFence
    /\ PersistedBeforeSent

\* Stale engines included, every engine about to submit was counted.
Senders(k) == {e \in Engines : pc[e] = "send" /\ cur[e] = k}

SendInv ==
    \A k \in Keys :
      /\ IsFiniteSet(Senders(k))
      /\ submits[k] + Cardinality(Senders(k)) <= journal[k].sends
      /\ journal[k].sends <= MaxSends
      /\ ~present(k) => journal[k].sends = 0

\* The episode an engine works in was earned, however old its view is.
EpisodeInv ==
    /\ \A e \in Engines, s \in Subjects :
         \A n \in 1..(episode[e][s] - 1) : n \in RecoveredEpisodes(journal, s)
    /\ EpisodesEarned

\* With EngineInv they are inductive: a count, a digest and an assessment in
\* the journal only ever move one way, so a stale copy can only lag behind.
HistoryInv ==
    /\ EngineInv
    /\ FenceInv
    /\ SendInv
    /\ EpisodeInv

(***************************************************************************)
(* The engines, the journal and the actor together implement TargetLease:  *)
(* a record that occupies is a held lease, a job is the provider's work.   *)
(***************************************************************************)
leaseOf == [k \in Keys |-> CASE journal[k].phase = "Absent" -> "free"
                              [] occupies(journal[k].phase) -> "held"
                              [] OTHER -> "released"]

runOf == [k \in Keys |-> CASE jobs[k].state = "Unknown" -> "none"
                            [] jobs[k].state = "Pending" -> "live"
                            [] OTHER -> "over"]

Lease == INSTANCE TargetLease
           WITH Claims <- Keys, Holds <- [k \in Keys |-> TargetUID(k)],
                lease <- leaseOf, run <- runOf

\* Whatever engines do and however they overlap or crash, a target is taken
\* only when free, worked on only by its holder and released only after the
\* provider ended or refused the work (busy, Put, adopt, send).
ImplementsLease == Lease!Spec

(***************************************************************************)
(* Liveness.  The controller keeps calling Step; neither the provider's    *)
(* Result nor the journal's Put fails for ever.                            *)
(***************************************************************************)
StepFairness(e) ==
    /\ WF_vars(EngineStep(e))
    /\ SF_vars(\E k \in Keys : PollAnswered(e, k))
    /\ SF_vars(Adopt(e))

FairSpec == Spec /\ \A e \in Engines : StepFairness(e)

\* advance keeps polling a record that occupies its target, so a definitive
\* result of the provider, however late, ends it and the target becomes free.
LateResultReleases ==
    \A t \in Targets :
      LET holding == {k \in Keys : TargetUID(k) = t /\ occupies(journal[k].phase)}
      IN  (\E k \in holding : jobs[k].state \in Definitive) ~> holding = {}
=============================================================================
