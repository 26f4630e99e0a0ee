---------------------------- MODULE ActionJournal ----------------------------
(***************************************************************************)
(* The execution journal of the O5 action engine (pkg/action/journal.go)   *)
(* and the record it stores (pkg/action/types.go).                         *)
(*                                                                         *)
(* A record is one execution attempt.  Its key is the idempotency key      *)
(* "<proposal ID>/<attempt>"; a proposal ID is the digest of a subject and *)
(* an episode, so a key is the triple <<subject, episode, attempt>> and    *)
(* ProposalID, Subject, Attempt and TargetUID are projections of it.       *)
(* BORI's clock is left out: of the five time stamps only whether AckedAt  *)
(* and EndedAt are set decides anything outside the recovery assessment.   *)
(***************************************************************************)
EXTENDS Integers, FiniteSets

CONSTANTS
    Subjects,      \* proposal subjects (target binding, action, declaration)
    Targets,       \* OperationalTarget UIDs
    TargetOf,      \* the target a subject is bound to
    Digests,       \* proposal digests
    MaxEpisodes,   \* bound on the episodes of a subject
    MaxAttempts,   \* Execution.AttemptBudget
    MaxSends,      \* Execution.SendBudget
    MaxEpoch       \* bound on the epochs the journal issues

ASSUME JournalAssumption ==
    /\ TargetOf \in [Subjects -> Targets]
    /\ Digests # {}
    /\ MaxEpisodes \in Nat \ {0}
    /\ MaxAttempts \in Nat \ {0}
    /\ MaxSends \in Nat \ {0}
    /\ MaxEpoch \in Nat \ {0}

VARIABLES
    journalEpoch,  \* MemJournal.epoch: the newest epoch issued
    journal        \* MemJournal.recs: the stored record of every key

journalVars == <<journalEpoch, journal>>

Episodes == 1..MaxEpisodes
Attempts == 1..MaxAttempts
Keys == Subjects \X Episodes \X Attempts

Subject(k)    == k[1]
Episode(k)    == k[2]
Attempt(k)    == k[3]
ProposalID(k) == <<k[1], k[2]>>
TargetUID(k)  == TargetOf[k[1]]

(***************************************************************************)
(* Phases.  "Absent" stands for a key without a record.                    *)
(***************************************************************************)
Phases == {"Absent", "Dispatching", "Accepted", "TimedOut", "Withdrawn",
           "Succeeded", "Failed"}

\* Mutant of occupies: a timeout is taken for an end (Phase.inFlight).
occupiesInFlight(phase) == phase \in {"Dispatching", "Accepted"}

\* Phase.occupies: the attempt may still hold live responsibility.
occupies(phase) == phase \in {"Dispatching", "Accepted", "TimedOut", "Withdrawn"}

(***************************************************************************)
(* Recovery states that are persisted.  "None" also stands for Pending,    *)
(* which is shown and never written.                                       *)
(***************************************************************************)
FinalRecovery == {"Recovered", "Partial", "NotRecovered", "Unconfirmed", "Inapplicable"}
Recovery == FinalRecovery \cup {"None"}

Record == [phase     : Phases,
           digest    : Digests,
           fence     : Nat,      \* epoch of the engine that last wrote it
           sentFence : Nat,      \* fence the last send carried
           sends     : Nat,
           acked     : BOOLEAN,  \* AckedAt is set
           refused   : BOOLEAN,
           ended     : BOOLEAN,  \* EndedAt is set
           recovery  : Recovery,
           version   : Nat]

Blank == [phase |-> "Absent", digest |-> CHOOSE d \in Digests : TRUE,
          fence |-> 0, sentFence |-> 0, sends |-> 0, acked |-> FALSE,
          refused |-> FALSE, ended |-> FALSE, recovery |-> "None", version |-> 0]

JournalInit ==
    /\ journalEpoch = 0
    /\ journal = [k \in Keys |-> Blank]

JournalTypeOK ==
    /\ journalEpoch \in Nat
    /\ journal \in [Keys -> Record]

\* Journal.Epoch: claim ownership with a value greater than any before.
IssueEpoch ==
    /\ journalEpoch < MaxEpoch
    /\ journalEpoch' = journalEpoch + 1
    /\ UNCHANGED journal

\* Mutant of fenced: the journal forgets to fence.
fencedNever(r) == FALSE

\* Journal.Put refuses a writer below the newest epoch (ErrFenced) ...
fenced(r) == r.fence < journalEpoch

\* ... and a record whose version is not the stored one (ErrConflict).
conflict(k, r) == journal[k].version # r.version

\* Put: the compare-and-swap; the stored record carries the next version.
Stored(r) == [r EXCEPT !.version = @ + 1]

Put(k, r) ==
    /\ ~fenced(r)
    /\ ~conflict(k, r)
    /\ journal' = [journal EXCEPT ![k] = Stored(r)]
    /\ UNCHANGED journalEpoch
=============================================================================
