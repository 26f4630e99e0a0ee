# BORI, modelled and checked in TLA+

BORI is a Kubernetes operator and a command line. Its *delivery plane* deploys
releases into environments and keeps a history of what it promoted. Its
*operational plane* assesses the capabilities of running targets from evidence,
investigates what it does not know, tells operators what needs a decision, and
hands approved actions to external providers. This directory holds TLA+ models
of both planes, the TLC configurations that check them on small instances, and
TLAPS proofs about them. `PROJECT.json` maps every definition to the lines it
models.

## The system

| Component | State it keeps | Operations | Interacts with |
|---|---|---|---|
| action engine `pkg/action/engine.go` | its epoch; per `Step` a copy of the journal | `Step`: advance, recover, decide; send, adopt | journal (`Epoch`, `List`, `Put`), provider (`Submit`, `Result`), evaluator's snapshot, decisions |
| action journal `pkg/action/journal.go` | newest epoch, one record per attempt | `Epoch`, `List`, `Put` (fence, compare-and-swap) | every engine that shares it |
| action provider `pkg/action/provider.go`, `actiontest` | jobs by key, highest fence seen | `Submit`, `Result` | engine; works on the target on its own |
| proposals, approvals, recovery `pkg/action/{proposal,approval,recovery}.go` | none | pure functions of snapshot, profile, decisions, clock | engine |
| data plane reconciler `controllers/dataplane_controller.go` | `BoriDataPlane.status`, finalizer, `BoriRevision` CRs | `Reconcile`, `reconcileDelete`, `reconcileViolation`, `upsertBoriRevision` | API server, runner |
| runner `pkg/reconcile`, shadow `pkg/shadow`, planner `pkg/planner`, release order `pkg/release`, revisions `pkg/revision` | revision files | `Run`: shadow pass, plan, deploy, promote or fail | deploy adapters, reconciler |
| verification runs `controllers/verificationrun_reconciler.go` | `BoriRevision.status.verificationRunId` | `Reconcile` | informer cache, API server |
| release reconciler `controllers/release_reconciler.go` | `BoriRelease.status` | recount of planes | API server |
| evaluator `pkg/operations` | none | `Evaluate` | investigator, engine, operational reconciler |
| investigator `pkg/investigate` | held evidence, watermarks, episodes, cursor | `Run`, `NextWake` | providers `pkg/providers`, evaluator |
| operational reconciler `controllers/operational_reconciler.go` | `OperationalTarget.status` | `Reconcile` | investigator, evaluator, engine, `pkg/opswire`, `pkg/interaction` |
| opswire `pkg/opswire`, interaction `pkg/interaction` | none (the last summary is read back from the status) | `Build`, `Project`, `Apply`; the operator's summary | operational reconciler |
| command line, adapters, artifacts, rollout, gates | files | I/O | external tools |

**Where it is hard.** Engines restart and overlap; their sends are lost, late
or repeated; a deadline passes while the provider still works. A deployment
takes minutes, during which planes and releases are edited, reverted or
deleted, and the operator may die between any two of its writes (disk, status,
CR) and come back without its state directory. Reads come from informer caches
that miss the reader's own writes. Budgets, cooldowns and watermarks of the
investigator must survive slices, outages and replays. Assessments rest on
statements that expire, contradict each other or concern a replaced workload,
across targets that may depend on each other in a cycle and across namespaces
that must grant what they show.

**What makes each part correct.** Engine: one live execution per target,
nothing sent that is not persisted, no retry of an unknown outcome, records
that tell what the provider did, targets that become free again. Delivery: a
plane that is skipped or reports itself healthy really runs its release; what
the plan rules out never runs and dependencies go first; failed deploys are
retried until they succeed; history is kept and visible. Verification: links
point to the right run, are not replaced and are eventually made. Investigator:
budgets hold across slices and episodes, no older value replaces a newer one,
slots that decide equally much take turns and no target with a place in the
table starves. Evaluator: a capability is AVAILABLE exactly
when all it rests on is proven by current, applicable, accepted evidence.
Operational reconciler: a status is its instance's own, owes nothing to what is
not granted, asks for a person exactly when one is needed, and settles.

## Modules

| Module | Models | Checked by |
|---|---|---|
| `ActionJournal` | the record, `MemJournal.Epoch` and `Put` | runs and proofs of `ActionEngine` |
| `ActionActor` | the reference provider and the wire to it | same |
| `ActionEngine` | `Engine.Step` of several engines, extends the two above | `overlap`, `resend`, `episodes` |
| `TargetLease` | abstract specification: what holding a target means | refined by `ActionEngine` (`ImplementsLease`) |
| `ActionEngineProofs` | exclusiveness, truth of the journal, sends, episodes, finality and the refinement of `TargetLease` | tlapm |
| `Keeping` | the loops that append what passes a test; used by `ReleaseOrder` and `Interaction` | their runs |
| `ReleaseOrder` | dependency order and compatibility matrix of `pkg/release` | runs of `DataPlane` |
| `DataPlane` | data plane reconciler with runner, shadow, planner, revisions | `skip`, `converge`, `reverted_release` |
| `VerificationLink` | verification run reconciler with its cache | `link_lagging` |
| `ReleaseOrderProofs` | Kahn's algorithm, for every list and every dependency relation | tlapm |
| `DataPlaneProofs` | theorems about `DataPlane`; extends `ReleaseOrderProofs` | tlapm |
| `VerificationLinkProofs` | theorem about `VerificationLink` | tlapm |
| `CycleSearch` | the depth-first searches for cycles, local and across targets | `evaluate` |
| `Operations` | `Evaluate`: resolution, evidence, envelopes, capabilities | `evaluate`, `assess` |
| `Candidates` | the investigator's hypotheses and what they leave open | `evaluate` |
| `Interaction` | responses, decision table, fingerprint, recurrence | `evaluate`, `assess` |
| `ActionPolicy` | derivation of proposals, gates, policy approval, recovery rule | `evaluate` |
| `Evaluation` | the evaluator's inputs over time, the declarative references and the properties of the five above | `evaluate` |
| `EvaluationProofs` | theorems about `Evaluation` | tlapm |
| `OpsWire` | snapshot building with grants and pins, status projection, redaction | `assess` |
| `OperationalReconciler` | passes of the operational reconciler over caches and API server, composing `OpsWire`, `Operations` and `Interaction` | `assess`, `assess_hidden` |
| `ReconcilerProofs` | theorems about `OperationalReconciler` | tlapm |
| `Investigator` | runs, slices, episodes, held evidence, wake-ups | `investigate_faults`, `investigate_fair` |
| `Extrema` | lemmas on least and greatest elements, used by the next, `ReleaseOrderProofs` and `EvaluationProofs` | tlapm |
| `InvestigatorProofs` | theorems about `Investigator` | tlapm |
| `MC...` | the constants of the instances | |

### Action engine

`Engine.Step` holds a mutex, so an engine is one process with a program
counter: `idle`, `loop` (between records or proposals), `polled` (an answer to
adopt), `due` (deadlines), `send`, `receipt`. Engines interleave at every call
that leaves the process (`Epoch`, `List`, `Put`, `Result`, `Submit`), and
`Crash` may fall between any two of them. A record's key is the triple subject,
episode, attempt (in the code: the digest of subject and episode, and the
attempt). `wire` holds every handoff ever submitted, so that the actor may
process it late, repeatedly or never. `Put` is the journal's fenced
compare-and-swap; every write of the engine may also fail without effect.

Time is abstracted: a deadline may have passed or not whenever the code asks.
What snapshot, profile and decisions say of a subject is one `Input` of a step:
is a proposal derived, with which digest, do the gates pass, what is decided,
is an earlier approval still presented. What the evidence says after an
execution is a choice among the final assessments. Journal writes that are
applied but reported as failed are left out; the repository's only journal is
in memory and has none.

### Delivery plane

The operator runs one reconcile at a time; `job` is the reconcile under way
with what it has read. `AddFinalizer`, `reconcileDelete` and `Fetch` are the
prologue, `Skip`, `RunInSync`, `RunViolation`, `PlanFails` and `RunPlan` the
outcomes of the skip check and of `Run` up to the pending revision, `Deploy` one
adapter call, `Record` the promoted or failed revision with the second shadow
pass, `PatchStatus`, `reconcileViolation` and `upsertBoriRevision` the writes to
the API server. Users create, edit and delete planes and edit releases between
any two of these. `Abort` is an error that ends the reconcile, or a crash;
deploys fail with or without effect; writes of revision files fail; the revision
directory cannot be listed. `ReplacePod` starts the operator with an empty
revision directory, as the emptyDir of `config/operator/deployment.yaml` does;
the environments and the objects of the API server stay. `running` is the truth
about each environment, which no code reads.

A plan is computed as the planner does: `ReleaseOrder!Order` is Kahn's algorithm
over the declared dependencies, and a cycle leaves the release without a plan;
`CheckCompatibility` reads the matrix and, with the namespace policy
(`Forbidden`), decides on a violation. Versions are numbers in the order of
`semverCompare`. A release is a `BoriRelease` CR with a generation; the fallback
to release files is left out, and files are read without failure (an unreadable
matrix counts as an empty one in `planner.go:70`).

### Verification link

`Observe`, `Get` and `Patch` are the reconciler's calls for one run, `CacheSync`
the informer catching up, `Publish` the first `upsertBoriRevision` of a
revision. `Fail`, `Restart` and `Resync` bring requests back.

### Evaluator and its readers

`Operations!Evaluate` maps a snapshot (contracts, targets, statements) to the
valid targets, the reasons of the others and a state with reasons for every
capability, in the code's order: resolve targets and contracts, reject those on
cycles (`CycleSearch`, with the code's explicit stack), then per capability the
requirements over assertions, envelopes, local capabilities and dependencies.
An assertion's operand is the set of values it accepts. Ages stand for stamps:
`Tick` makes every statement older, `Observe` adds one.

`Evaluation` holds the references these operators are compared with, written
without searches or recursion: a capability is on a cycle when every set that
has its successors and all that follows from them has itself (`OnCycle`), and
AVAILABLE is what is in every set that has all that follows from it (`Proven`). `Candidates` derives
the hypotheses of an episode from an assessment; `Investigator` summarises them
by the slots without current evidence, and `OpenExact` is the check of exactly
that summary. `ActionPolicy` derives proposals from the same assessment and the
declared responses; a profile's approval and the gates say which of them need no
person, and `Interaction` says what the operator's summary shows for the same
capability: `PolicyAsShown` holds the two against each other. `AssessRecovery`
evaluates the snapshot again with only the statements made after the end of the
execution.

### Operational reconciler

One work item (`queued`), one pass at a time (`pass`). `Begin` lists contracts,
targets, grants and workloads from the caches, builds, evaluates and projects;
`Write` and `WriteFails` are the status updates with optimistic locking, `End`
the end of the pass, requeued at once after an error. Caches of different kinds
catch up separately (`Sync`), so a pass may see any mix of versions and miss its
own last write (`behind`); events that only change a status do not enqueue.
`Edit` is one edit of a cluster object (a grant taken or given, a workload gone
or replaced, a contract changed, a target recreated under its name, a dependency
turned back), `WorldChanges` a change of evidence, of an investigation record or
of action views, which cause no event. `Restart` and `ResolveFails` end passes.
The investigator's records and the engine's views are inputs here; their own
modules show how they come about. Contract status is a function of the contract
that no pass reads, and only its failing writes are kept.

### Investigator

`Reconcile` begins a run with the snapshot's bindings and purges what is not
authorized; `Resume`, `NotAdmitted`, `NoRoom` and `StartEpisode` are the
outcomes of visiting a target; `EndEpisode`, `Interrupt` and `Dispatch` those of
one turn of the episode loop; `DiscardOnStop`, `DiscardOnSliceEnd`,
`AnswerUnavailable` and `AnswerValue` what becomes of a call; `EndRun` computes
the wake. The clock moves while a call is in flight or the reconciler waits. All
stamps are ages, cut off where no comparison tells them apart, so that
behaviours last for ever in a finite state space. A provider answers late,
ignores its context for a while (`Overrun`), fails, or reports an old stamp.

## Runs

Passing, with distinct states:

- `overlap` (930 000): two engines, two subjects that compete for one target,
  two epochs. `LiveExclusive`, `OwnerViewCurrent` and the refinement
  `ImplementsLease`. Two epochs are one takeover, the situation fences are for.
- `resend` (461 000): one subject, two engines, three epochs, two sends,
  approvals that may be revoked. `SendBudget`, `PersistedBeforeSent`,
  `JournalTruthful`, `FinishedForGood` and the inductive invariant `HistoryInv`
  (which includes `EngineInv`): takeovers of takeovers, withdrawal, late answers.
- `episodes` (219 000): one engine, two episodes of two attempts.
  `RetryAfterFailure`, `EpisodesEarned`, and `LateResultReleases` under
  fairness.
- `skip` (571 000): one plane, two environments, a release that is changed and
  reverted, three user actions on the plane (it can be deleted and created again,
  or moved), one fault (a replaced pod, whose state directory is lost, among them),
  two failed listings (so both shadow passes of one run can fail). Two runs may
  begin within one second and then share a revision ID and its file.
  `SkipSound`, `HeldWhileReconciled`, `CRsDeployed`, `HistoryKept` and the
  inductive invariant `DataPlaneInv`.
- `converge` (262 000): two planes that share one environment and a release that
  moves through five generations, one of them with a forbidden component, one
  cyclic, one incompatible; two user actions, one fault, two failed listings,
  with lost directories and shared IDs as above. `HealthyRuns`, `PolicyKept` and,
  under fairness, `Converges`: every plane ends gone, without a plan, in a
  violation that its release still has, or settled.
- `link_lagging` (7 600): two runs, two revisions, two faults. `LinkResolves`
  and, under fairness, `LinkedInTheEnd`.
- `evaluate` (42 000): every dependency graph of three targets with two slots,
  every graph of local requirements over three capabilities, and one target with
  envelopes and a dependency under up to three statements that are current,
  stale, expiring, contradicting, unavailable or about a replaced workload,
  with every profile of up to two of nine responses. `CyclesExact`,
  `StatesExact`, `OpenExact`, `OnlyNewsMoves`, `PolicyAsShown`,
  `RecoveryEarned`. Three targets contain every shape of cycle (self, mutual,
  through a third) together with a target that only reaches one.
- `assess` (318 000): two targets in two namespaces with grants, a dependency
  that may be turned into a cycle, and profiles with one response or two owners;
  two changes and one fault at any point of the passes. `OwnAssessment`,
  `RecurrencesExact`, `NamespacesIsolated`, `LevelJustified` and, under
  fairness, `Settles`. Two changes let a target leave a state and re-enter it.
- `investigate_faults` (1 177 000): two targets, two slots, one place in the
  episode table and two for evidence, a change of binding, fresh and old stamps,
  and values of the second slot that expire before the maximal age
  (`ValidUntil`). `CallBudget`, `NoFallback`, `HeldAuthorized`,
  `OutageClearedByNews` and the inductive invariant `InvestigatorInv`.
- `investigate_fair` (340 000): three slots, two per target, one of which decides
  more than the others and one of which expires early; slices shorter than two
  slow calls, one call per episode, a process end, a place in the table for each
  target. `EverySlotAsked` and `EveryTargetAnswered` under fairness.
  `EverySlotAsked` is what `selectQuery` gives: a slot that wants a query for
  ever is asked again and again, unless a slot of its target that decides more
  wants one again and again. With fewer places than targets a target may wait
  for ever for a place, so the instance has one for each.

Deadlock is not checked where the system may rest: engines stop when epochs,
episodes and attempts are used up, the delivery and verification reconcilers
when there is nothing left to do, the evaluator's inputs at the horizon. The
investigator and the operational reconciler poll for ever and are checked.

Each of these properties has a mutant in `PROJECT.json`: a change of the model
that a plausible bug in the code would make and that TLC finds.

Violating, each a disagreement between the code and what the repository says:

- `reverted_release`: a deploy that changed the cluster and was not promoted
  leaves no trace; reverting the release then reports InSync.
- `assess_hidden`: a pass compares with a cached status that may miss the last
  write; when the target has returned to what the cache shows, the pass writes
  nothing and ends without an error. `Settles` holds nevertheless: the next pass
  comes with the poll interval.

Further configurations of the same kind, to be run by hand
(`tlc -config X.cfg MCModule`; `VerificationLink` has no MC module); each is a
finding in `PROJECT.json`:

- `ActionStuckTarget` (`LateResultReleases`): after a takeover whose resend is
  lost, the provider's result carries the older fence, `adopt` never accepts it
  and the target stays occupied.
- `DeliveryOtherEnv` (`HealthyRuns`): the shadow pass takes the newest promoted
  revision of the release from any environment, so a plane in a second
  environment is in sync without having been deployed.
- `DeliverySameSecond` (`RevisionsImmutable`): revision IDs have a resolution of
  one second; a fast retry overwrites the failed record.
- `DeliveryMissingCR` (`PromotedHasCR`): the CR of a promoted revision is
  written by one reconcile only, after its status patch; if either fails there
  is no second try.
- `LinkOverwritten` (`FirstWriteWins`): first-write-wins is decided on the cache
  and enforced by a patch without a resource version.
- `AssessFlap` (`IdentityKept`): a target that is invalid for a while changes
  its identity digest, which includes the providers of its evidence, and its
  recurrence history starts over.
- `InvestigateLapse` (`RefreshedBeforeExpiry`): a slot that falls due while the
  run waits for another target's answer is due in the past when `NextWake`
  looks, which counts only times after now; the refresh waits for another wake
  or the poll interval, and the evidence expires.
- `InvestigateStarved` (`NoSlotStarved`): a slot that decides more and whose
  provider always fails is asked in every episode, and with one call per episode
  the slot below it is never asked, although `docs/operational-evidence.md:223`
  says that "a few always-failing slots cannot starve the rest".

`HealthyRuns` passes in `converge` exactly because that instance has one
environment and a release that never returns to an earlier content;
`reverted_release` and `DeliveryOtherEnv` show what happens otherwise.
`SkipSound`, `HistoryKept` and `CRsDeployed` are checked with shared revision IDs
and lost directories and say what survives them: the skip check is sound as long
as the revision that the status names is there; a finished record is lost only
with the directory or to the next run of its release and environment, begun
within its second, and never if it is the newest promoted one, can be listed and
is what the release declares; a CR appears only for what its environment runs.

Seen while modelling and not the subject of a run:

- `engine.go:367`: `Submit` itself is not fenced. An engine may send after a
  newer one took the journal between its `Put` and its `Submit`, although
  `journal.go:15` says it may "therefore never send". The actor's own fence and
  deduplication make this harmless, which `LiveExclusive` includes.
- `engine.go:278`: when the write that adopts an answer fails, the same step may
  resend the handoff, although `docs/operational-actions.md:176` says that
  "nothing is sent twice". The send is counted (`SendBudget`).
- `dataplane_controller.go:278`: when neither shadow pass can list the revision
  directory, the status is written without a Degraded condition and the plane is
  skipped from then on, deployed or not. `SkipSound` and `HealthyRuns` therefore
  speak of planes whose Degraded condition is False, and `Converges` lets such a
  plane settle.
- `project.go:717`: the reasons of a summary are sorted by name, so the bound
  `maxReasons` cuts off by name, although its comment says "strongest-first".
- A response whose execution may interrupt a capability waits for a person in
  the engine, while the summary shows it ready: the interruption is not in the
  status it is made from. `PolicyAsShown` states the direction that holds.

## Fairness

- `ActionEngine!FairSpec`: the operational reconciler requeues and calls `Step`
  again and again (weak fairness of an engine's steps); the provider's `Result`
  and the journal's `Put` do not fail for ever (strong fairness of
  `PollAnswered` and `Adopt`, whose alternatives are the failures).
- `DataPlane!FairSpec`: every path of `Reconcile` but NotFound requeues and the
  work queue is fair (strong fairness of `Reconcile(p)`: another plane may be at
  work in between); a reconcile under way does not hang (weak fairness of
  `Work`). User actions and faults end because they are bounded.
- `VerificationLink!FairSpec`: queued runs are served, the informer catches up
  and controller-runtime's periodic resync (ten hours by default) enqueues every
  run. Without the resync a run that is reconciled before its revision's CR is
  visible is dropped for good.
- `Investigator!FairSpec`: a due reconcile runs, the loop goes on and a call in
  flight is answered or given up (weak fairness of each); time passes however
  many events keep the reconciler busy (strong fairness of `Tick`). Nothing is
  assumed about when or what a provider answers.
- `OperationalReconciler!FairSpec`: a queued item is taken, a pass under way
  goes on and ends, caches catch up, and the requeue timer of a pass that ended
  fires (weak fairness of each). The poll is the code's `RequeueAfter`; with
  `--operational-requeue-interval` at or below zero and no investigator it would
  be absent.

## Proofs

Every theorem holds for all values of the constants that satisfy the named
assumptions of the modules; TLC evaluates these on every run. Each component has
one inductive invariant, which a run checks on its instance before the proof
shows it in general: `HistoryInv` in `resend`, `DataPlaneInv` in `skip`,
`InvestigatorInv` in `investigate_faults` (`LinkInv` adds one conjunct to
`LinkResolves`). The invariants of the evaluator and of the operational
reconciler are stated in their proof modules; the runs check what they imply.

### Action engine

Assumed: `JournalAssumption`, `EngineAssumption` (constants have their types).
Engines, subjects, targets and digests may be any sets, finite or not.

`ActionEngineProofs`: `Inductive` (`Spec => []EngineInv`) and from it
`TypeCorrect`, `TargetExclusive` (`LiveExclusive`), `JournalIsTruthful`,
`OwnerSeesJournal` and `RetriesFollowFailures`.

The argument. `LiveExclusive` is about the provider and no step can be judged
by it alone. `EpochInv` says that epochs are issued once, so a write that passes
`Put` comes from the one engine that holds the newest epoch. `OwnerViewCurrent`
says that this engine's copy is the journal, so that what `busy` and
`NextAttempt` conclude from the copy is true of the journal. `JournalExclusive`
(one occupying record per target) and `AttemptChain` (only failed attempts
before a later one) follow for the journal. `RecordedInv` ties the wire, the
provider and a sending engine to records, `CurInv` says that the record an
engine works on still occupies its target and that a definitive answer it holds
is the provider's, and `JournalTruthful` with `RecordInv` that a record gives up
its target only when the provider has ended or refused the work. A live job
therefore has an occupying record, and there is one per target.

`Writer`, `Written`, `Advanced` and `Working` carry what all writes share; each
write then has a lemma of its own (`AdoptInv`, `UnknownInv` for timeouts and
withdrawals, `ResendInv`, `ReceiptInv`, `RecoverInv`, `DispatchInv`), as do the
steps that do not write (`TakeEpochInv`, `ListInv`, `PollInv`, `ProceedInv`,
`DiscardInv`, `SubmitInv`, `ActorInv`); `NextInv` collects them.

On top of `EngineInv`: `HistoryInductive` and from it `SentWasPersisted`,
`SendsBounded`, `EpisodesWereEarned`, the action property `FinishedStays` and
the refinement `LeaseRefined` (`Spec => ImplementsLease`).

The argument. Digest, count of sends, fence of the last send and confirmed
episodes of a record only move one way, so the stale copy of an engine that was
taken over can only lag behind. `FenceInv` says so for the fence and the digest
a sending engine carries; this is what makes persist-before-send true of a
`Submit` that comes after a takeover, which nothing fences. `SendInv` counts the
engines about to submit with the submissions made: `submits` alone is not
inductive, because the record is counted before the call. `EpisodeInv` says that
the episode a copy names was earned in the journal. For the refinement every
action is shown to be a step of `TargetLease` (`Acquire`, `Begin`, `End`,
`Release`) or to leave the lease alone.

### Verification link

`LinksResolve`: what is about to be patched was seen in the cache and so exists,
whatever has been created, published or synced since; runs and revisions may be
any sets.

### Investigator

Assumed (`InvestigatorAssumption`): finitely many slots, limits that are numbers,
an episode's deadline no longer than its cooldown and a refresh margin no longer
than the maximal age, as in `ReferenceLimits` (10s and 10s, one half), which
`ForConfig` never changes.

`InvestigatorProofs`: `InvestigatorInductive`, `InvestigatorTyped`, `BudgetHolds`
(`CallBudget`), `OnlyAuthorizedHeld`, `NeverFallsBack` and the action property
`OnlyNewsClears`.

The argument. `spent` is counted per cooldown and an episode counts its own
calls; the two agree only because an episode makes its first call at the instant
it starts (`FirstCallDue`), so that the window is exactly as old as the episode
(`BudgetInv`). Within a window no second episode can start, because the first is
kept until its cooldown is over, superseded or not. Here `Deadline <= Cooldown`
is needed: an episode active for longer than a cooldown would see its window
end. `EvidenceInv` says that the watermark of a key is the age of the newest
value held for it, so the comparison with the watermark is one with history.
`RunInv` says that a run stands at a target it may query and asks for an
authorized slot, which is what an answer is stored under. The
time to a value's `ValidUntil` (`life`) decides, with its age, whether evidence
is current and when a slot is due (`DueIn`); no claim proved here rests on it.

### Release order

`ReleaseOrderProofs` is about the algorithm alone, for every list without
repetition and every dependency relation. `OrderSound`: only components of the
release are ordered, each once, none before one it depends on. `OrderCycles`: everything is
ordered exactly if there is no cycle, which is when `release.Order` returns no
error. The invariant `Sorting` of the loop says that a component's degree is the
number of its dependencies not yet in order and that those of degree zero are in
the order or in the queue, in one of the two and once; `OrderEnds` counts the
elements to show that the queue is empty in the end; what is then left out has
degree above zero, and so each of it waits for another of it. These are
inductions over the loop counter: the library's rule takes an operator, so they
are done by the least counterexample (`Extrema!UpTo`), on which the provers need
nothing but arithmetic.

### Delivery plane

Assumed (`DataPlaneAssumption`): every component is listed, once; constants have
their types. `DataPlaneProofs`: `DataPlaneInductive`, `PlaneIsHeld`
(`HeldWhileReconciled`), `PlanIsKept` (`PolicyKept`), `PlanUnlessCycle` (the
planner fails exactly on cycles, the case `Converges` excepts), `SkipIsSound`
(`SkipSound`) and the action properties `CRsWereDeployed` (`CRsDeployed`) and
`HistoryIsKept` (`HistoryKept`). None of them assumes that runs take more than a
second or that the state directory survives the pod.

The argument. `HeldInv`: the finalizer keeps the job's plane, generations only
grow and a spec belongs to its generation, so an unchanged generation means an
unchanged spec. `PlanInv`: what is left to deploy was planned, for the content
the job has read. `DeployInv`: while no call has failed, what is not left to
deploy runs, and so all of a promoted revision does; this is what a CR rests on.
`RevisionInv`: no two files have one ID, the pending revision of a job is the
last file until it is promoted or failed, and the promoted one is on disk, so an
outcome is written into the run's own file. `StatusInv` is the heart of
`SkipSound`. Promoting a revision changes what every plane of the release is
compared with. The observed release generation of a plane that reports sync is
at most that of a job at work, which is at most the current one. If they are all
equal the job would have found no drift and would not deploy; otherwise the
observed generation is outdated and the plane is not skipped. A shared ID takes
a file away, after which an older revision may be the newest promoted one;
`StatusInv` therefore speaks of the revision that the status names and of every
later one promoted for the release, all of which are in sync.

### Operational reconciler

Assumed: `StartsAssumption` (a start is a cluster in which nothing was published
yet, with a finite profile), `NamesAssumption` (every name that reaches the
reasons of a summary has a place in the order of names), `LimitsAssumption` (the
bounds on reasons and on the history are positive, as the constants of
`pkg/interaction` are). An edit is any that the API server admits (`EditOf`):
names are unique, the status is a subresource, an object created anew has none.

`ReconcilerProofs`: `ReconcilerInvariant` and from it `AssessmentsOwn`
(`OwnAssessment`), `RecurrencesCounted` (`RecurrencesExact`) and
`LevelsJustified` (`LevelJustified`). They hold for every cluster, cache,
profile, history of edits and answer of the investigator and the engine, and
need nothing of cycles: what is published need not be right for them, only
consistent.

The argument. `CacheCurrent` says that a target which is not marked `behind` is
cached as it is; `PassListed`, that what is left to write continues the summary
of the target as it is now, unless the target was touched since it was listed,
in which case its resource version has moved and the write is refused. So every
write that succeeds continues the last one, and a recreated target is never
written with what was meant for its predecessor. For the history, `HistoryExact`
ties the bounded list that a summary remembers to the trail of everything
published (`Lists`): it holds the most recent distinct meanings since the
identity began, newest first, at most `MaxHistory`. `Remembered` shows that one
step of `Remember` keeps this, and `ContinueExact` that the count then moves by
one exactly for a re-entry. `LevelInv` adds that what a pass is about to write is
justified; the work is in the decision table, where `RaisedGrounded` traces every
notice of level two or three back to a capability and its responses,
`NothingRaised` shows that silence means AVAILABLE throughout, and `HighestLevel`
with `NoneLeft` that sorting and cutting off the reasons cannot drop the last
one that asks for a person.

### Evaluator and its readers

Assumed (`InputsAssumption`): snapshots, statements and profiles are built as the
types and the checks of single fields allow; targets, capabilities and responses
are finite.

`PolicyIsShown` (`PolicyAsShown`) holds for every snapshot and profile. The
engine derives its proposals from the assessment, the summary its notices from
the status; `SameDeclared`, `SamePrecondition`, `SameOwners`, `SameViable` and
`SameProven` show lemma by lemma that the two sides tell the same cases apart,
and `HandedOverShown` and `ShownHandedOver` are the two directions.

`CyclesAreExact` (`CyclesExact`), `StatesAreExact` (`StatesExact`),
`OpenIsExact` (`OpenExact`), `RecoveryIsEarned` (`RecoveryEarned`) and the action
property `NewsOnlyMoves` (`OnlyNewsMoves`) hold for every snapshot too, of any
number of targets, contracts and statements.

The searches. A search is a recursive function over calls; that the `CHOOSE` of
its definition finds a function at all is the first thing to show. `Recursion`
does it once for every body that looks at lighter calls only: iterating the body
settles the calls weight by weight. `LoopSolves` and `LoopInvariant` use it for
the loops over finite sets, which visit in an arbitrary order, and `Descent` is
the induction. A visit of `localCycle` weighs the nodes that are not on its path,
a call of `strongConnect` the nodes not seen yet; the second needs
`SearchLoopKeeps`, that a call leaves a state in which all that was seen keeps
its index, its low and its place on the stack (`Later`), before there is a
recursion to reason about. What the searches find: `VisitRight` shows that what
`localCycle` marks done leads nowhere else and is on no cycle (`Clean`), and that
a node met again on the path is on one. For Tarjan's algorithm `SearchInv` is
stated with the set of nodes whose calls are under way: what is finished leads
nowhere else, each node of the stack reaches all above it and some node at or
below it whose call is under way, and the components kept are the finished nodes
on a cycle. `CallPost` adds what low is for: it is the index of a node on the
stack that can be reached (`LowIsReached`), and no edge from a node the call
added leads to the older stack below it (`LowCovers`). `LoopEdge` is one
successor, `LeaveRight` the end of a call, where the two facts decide: a lower
low gives the node a way down, and an equal one makes the popped set closed, with
all its nodes reaching each other (`ComponentExact`).

The argument. `capability` recurses through local and dependency requirements
without looking for cycles: that it ends is what rejecting cycles is for.
`ShownAcyclic`: among the targets that are left, no nonempty set of
capabilities sustains itself. Then the recursion of `Capabilities` has a
solution (`ResultsExist`: a least part of the graph without one would sustain
itself) and `CHOOSE` picks it (`ResultsSolve`). `RequirementMeans` and
`StateMeans` give every state the meaning of its requirements' verdicts, down to
`EvidenceStated`: evidence is Current exactly if a value is stated last, alone
at its instant, and still holds. `AvailableProven` compares with the least
closed set, once more because no set sustains itself. For `OnlyNewsMoves` and
`RecoveryEarned` one lemma serves three times: if the statements of one snapshot
*fade* into those of another, evidence is kept or lost and never becomes another
value (`FadingEvidence`), so every capability keeps its state or turns UNKNOWN
(`FadingStates`). Statements fade when they age (`AgedFades`), when only those
made after an execution count (`AfterFades`), and, in both directions, when old
news is added (`OldNewsFades`).

### Only model-checked

- Liveness (`LateResultReleases`, `Converges`, `LinkedInTheEnd`,
  `EverySlotAsked`, `EveryTargetAnswered`, `Settles`): out of the prover's reach.
- `HealthyRuns`: it is not a theorem. It holds in `converge`, and
  `reverted_release` and `DeliveryOtherEnv` violate it.
- `NamespacesIsolated`: that a status owes nothing to what is not granted
  compares two evaluations of different clusters, and the order in which their
  searches visit.

## Not modelled

- The release reconciler: it recounts the planes of a release on every event and
  keeps nothing.
- The filesystem fallback for releases, and releases deleted and created again
  (their generation starts over and may equal the observed one).
- Dry runs, rollback plans, rollout and artifact files: nothing reads them back.
  `release/diff.go` and `interaction/render.go` serve output only.
- Two operators at once (leader election is off in `config/operator`): their
  reconciles would interleave on two revision directories.
- Informer staleness in `DataPlane`; a second upsert of the same revision ID
  within one second, which clears its link.
- Clocks in `ActionEngine`: deadlines are choices. What a person decides is an
  input of a step; approvals' expiry is in that input.
- The wording, clipping and time stamps of statuses; the caps on status reasons;
  digests, which are the values they hash (the bound of 40 reasons above which
  `fromDependencyOnly` gives up is kept). Responses of equal names and owner
  are shown together when the bound cuts between them.
- In `OpsWire` and `Interaction`: the field-by-field conversion of contracts, a
  lookup by digest here, since a converted contract is used by what it declares;
  `ObservedGeneration`, so that a spec edit without a change of meaning, which
  causes one write of that number, causes none; the reason
  target-kind-unsupported, shown as target-not-found; the digest of an action in
  a summary's fingerprint. Bindings of one slot and of one dependency are
  functions, so a duplicate binding, which the evaluator rejects like any other
  defect, does not occur.
- In `Investigator`, one slot may be asked less often than another of the same
  target (least recently asked first is per target, by design); trace entries
  and the candidate bound are left out.
- Command line, adapters, HTTP and Kubernetes reads of the evidence providers,
  verification providers and gates: I/O and parsing.

## What could come next

1. `NamespacesIsolated`, now that both searches are known to be exact.
2. Under which conditions on environments and releases `HealthyRuns` is a theorem.
3. `DataPlane` with two operators, and its composition with `VerificationLink`
   and the release reconciler.
4. The composition of `Investigator` with `OperationalReconciler`, whose
   interface is now the record and the held evidence of a target.
