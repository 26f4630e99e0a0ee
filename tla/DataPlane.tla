------------------------------ MODULE DataPlane ------------------------------
(***************************************************************************)
(* The delivery plane of the operator: the BoriDataPlane reconciler        *)
(* (controllers/dataplane_controller.go) with the runner it calls          *)
(* (pkg/reconcile, pkg/shadow, pkg/planner, pkg/revision).                 *)
(*                                                                         *)
(* The operator runs one reconcile at a time (controller-runtime's default *)
(* of one worker), so the reconciler is one process with a program         *)
(* counter.  Users edit planes and releases between any two of its calls,  *)
(* and it may die or see a call fail at any of them.                       *)
(*                                                                         *)
(* Abstractions.  A release is a BoriRelease CR; Declared gives what it    *)
(* declares at each metadata.generation (the filesystem fallback has none  *)
(* and is left out).  The files the planner loads do not change and can be *)
(* read (a matrix that cannot be read would count as an empty one).  Every *)
(* path of Reconcile but NotFound requeues, so a plane can be reconciled   *)
(* whenever it exists and the queue is left out.  Finalizer updates carry  *)
(* a resource version: one made from a stale read changes nothing and is   *)
(* retried, so reading and updating are one step.  Faults are finite.      *)
(***************************************************************************)
EXTENDS ReleaseOrder

CONSTANTS
    Planes,      \* BoriDataPlane names
    Releases,    \* BoriRelease names
    Envs,        \* environments
    Comps,       \* component names
    Refs,        \* component references [version, digest]
    Listed,      \* the components in the order releases list them
    Requires,    \* the dependencies each component file declares
    Matrix,      \* the constraints of the compatibility matrix
    Declared,    \* Declared[r][g]: the components of release r at generation g
    Forbidden,   \* pairs <<component, environment>> the namespace policy forbids
    SameSecond,  \* two runs may fall into one second
    EmptyDir,    \* the state directory goes with the pod (config/operator)
    MaxEdits,    \* bound on what users do to planes
    MaxFaults,   \* bound on failing calls and crashes
    MaxUnlisted  \* bound on failing reads of the revision directory

None == "none"  \* no digest, no condition, no plane

\* What a release may declare: references for some of the components.
Contents == UNION {[D -> Refs] : D \in SUBSET Comps}

ASSUME DataPlaneAssumption ==
    /\ \A ref \in Refs : DOMAIN ref = {"version", "digest"} /\ ref.version \in Nat
    /\ Listed \in Seq(Comps) /\ \A i, j \in DOMAIN Listed : Listed[i] = Listed[j] => i = j
    /\ InRelease(Listed) = Comps
    /\ Requires \in [Comps -> SUBSET Comps]
    /\ Matrix \subseteq [comp : Comps, version : Nat, needs : Comps, min : Nat]
    /\ Declared \in [Releases -> Seq(Contents) \ {<<>>}]
    /\ Forbidden \subseteq Comps \X Envs
    /\ SameSecond \in BOOLEAN /\ EmptyDir \in BOOLEAN
    /\ MaxEdits \in Nat /\ MaxFaults \in Nat /\ MaxUnlisted \in Nat

VARIABLES
    plane,     \* BoriDataPlane objects
    relGen,    \* metadata.generation of each BoriRelease
    disk,      \* revision files, by CreatedAt
    nextID,    \* the next revision ID not used before
    crs,       \* BoriRevision CRs: the revision each was created from
    running,   \* what each environment runs
    job,       \* the reconcile under way
    edits,     \* user actions so far
    faults,    \* faults so far
    unlisted   \* failed directory reads so far

vars == <<plane, relGen, disk, nextID, crs, running, job, edits, faults, unlisted>>

Status == [obsGen : Nat, obsRel : Nat, revision : Nat,
           degraded : {None, "True", "False"}, violation : BOOLEAN]
NoStatus == [obsGen |-> 0, obsRel |-> 0, revision |-> 0,
             degraded |-> None, violation |-> FALSE]

Plane == [exists : BOOLEAN, deleting : BOOLEAN, finalizer : BOOLEAN, gen : Nat,
          release : Releases \cup {None}, env : Envs \cup {None}, status : Status]
NoPlane == [exists |-> FALSE, deleting |-> FALSE, finalizer |-> FALSE, gen |-> 0,
            release |-> None, env |-> None, status |-> NoStatus]

Revision == [id : Nat, release : Releases, env : Envs, comps : Contents,
             status : {"pending", "promoted", "failed"}]

\* shadow.ShadowState: the revision taken as actual and whether it is in
\* sync; not known when the revision directory could not be read.
ShadowState == [known : BOOLEAN, revision : Nat, inSync : BOOLEAN]
NoShadow == [known |-> FALSE, revision |-> 0, inSync |-> FALSE]

\* A reconcile: where it stands, the plane and release it read, what is left
\* to deploy, and what Run has established (pkg/reconcile Result).
PCs == {"idle", "resolve", "deploy", "violation", "patch", "upsert"}
Job == [pc : PCs, plane : Planes \cup {None}, gen : Nat, release : Releases \cup {None},
        env : Envs \cup {None}, relGen : Nat, shadow : ShadowState, todo : Seq(Comps),
        ok : BOOLEAN, rev : Nat, promoted : BOOLEAN]
NoJob == [pc |-> "idle", plane |-> None, gen |-> 0, release |-> None, env |-> None,
          relGen |-> 0, shadow |-> NoShadow, todo |-> <<>>, ok |-> TRUE, rev |-> 0,
          promoted |-> FALSE]

content(r, g) == Declared[r][g]

-----------------------------------------------------------------------------
(***************************************************************************)
(* pkg/shadow: the newest promoted revision of the release against what    *)
(* the release declares.                                                   *)
(***************************************************************************)

\* componentIdentityInSync: the digest decides where one is declared.
componentIdentityInSync(desired, actual) ==
    IF desired.digest # None THEN actual.digest = desired.digest
                             ELSE actual.version = desired.version

\* want is met by have, a partial function from components to references.
inSync(want, have) ==
    \A c \in DOMAIN want : c \in DOMAIN have /\ componentIdentityInSync(want[c], have[c])

promoted(d, r) == {i \in DOMAIN d : d[i].release = r /\ d[i].status = "promoted"}

\* The index of the newest promoted revision of r, 0 if there is none.
latest(d, r) == CHOOSE i \in promoted(d, r) \cup {0} : \A j \in promoted(d, r) : j <= i

\* Reconcile: the state of release r at generation g as the revisions show it.
ShadowOf(d, r, g) ==
    LET i == latest(d, r)
    IN  [known |-> TRUE,
         revision |-> IF i = 0 THEN 0 ELSE d[i].id,
         inSync |-> inSync(content(r, g), IF i = 0 THEN <<>> ELSE d[i].comps)]

\* computeConditions: Degraded is absent where nothing is declared or promoted.
Degraded(sh) ==
    CASE ~sh.known -> None
      [] sh.known /\ ~sh.inSync -> "True"
      [] sh.known /\ sh.inSync -> IF sh.revision = 0 THEN None ELSE "False"

\* Mutant of drift: SkipIfInSync is not set.
driftAlways(sh) == TRUE

\* Run's DriftDetected.
drift(sh) == ~sh.known \/ ~sh.inSync \/ sh.revision = 0

\* planner.Plan: the declared components the namespace policy forbids, and
\* the constraints of the matrix that are not met.
violations(want, env) ==
    {c \in DOMAIN want : <<c, env>> \in Forbidden} \cup
    {k.comp : k \in CheckCompatibility(want, Matrix)}

\* The components in dependency order; a release with a cycle has no plan.
AllDeclared == UNION {{content(r, g) : g \in DOMAIN Declared[r]} : r \in Releases}
planned == [want \in AllDeclared |->
              Order(Keep(Listed, {i \in DOMAIN Listed : Listed[i] \in DOMAIN want}), Requires)]
hasPlan(want) == Len(planned[want]) = Cardinality(DOMAIN want)

-----------------------------------------------------------------------------
Init ==
    /\ plane = [p \in Planes |-> NoPlane]
    /\ relGen = [r \in Releases |-> 1]
    /\ disk = <<>>
    /\ nextID = 1
    /\ crs = {}
    /\ running = [e \in Envs |-> <<>>]
    /\ job = NoJob
    /\ edits = 0 /\ faults = 0 /\ unlisted = 0

DataPlaneTypeOK ==
    /\ plane \in [Planes -> Plane]
    /\ \A p \in Planes : plane[p].exists => plane[p].release \in Releases /\ plane[p].env \in Envs
    /\ relGen \in [Releases -> Nat]
    /\ disk \in Seq(Revision)
    /\ nextID \in Nat
    /\ crs \subseteq Revision
    /\ running \in [Envs -> Contents]
    /\ job \in Job
    /\ job.pc # "idle" => job.plane \in Planes /\ job.release \in Releases /\ job.env \in Envs
    /\ edits \in 0..MaxEdits
    /\ faults \in 0..MaxFaults
    /\ unlisted \in 0..MaxUnlisted

-----------------------------------------------------------------------------
(***************************************************************************)
(* Users.  The API server counts a generation for every change of a spec   *)
(* and keeps a deleted object while it has a finalizer.                    *)
(***************************************************************************)
Edit(p, next) ==
    /\ edits < MaxEdits
    /\ edits' = edits + 1
    /\ plane' = [plane EXCEPT ![p] = next]
    /\ UNCHANGED <<relGen, disk, nextID, crs, running, job, faults, unlisted>>

CreatePlane(p, r, e) ==
    /\ ~plane[p].exists
    /\ Edit(p, [exists |-> TRUE, deleting |-> FALSE, finalizer |-> FALSE, gen |-> 1,
                release |-> r, env |-> e, status |-> NoStatus])

EditPlane(p, r, e) ==
    /\ plane[p].exists
    /\ <<r, e>> # <<plane[p].release, plane[p].env>>
    /\ Edit(p, [plane[p] EXCEPT !.gen = @ + 1, !.release = r, !.env = e])

DeletePlane(p) ==
    /\ plane[p].exists
    /\ ~plane[p].deleting
    /\ Edit(p, IF plane[p].finalizer THEN [plane[p] EXCEPT !.deleting = TRUE]
                                     ELSE NoPlane)

EditRelease(r) ==
    /\ relGen[r] < Len(Declared[r])
    /\ relGen' = [relGen EXCEPT ![r] = @ + 1]
    /\ UNCHANGED <<plane, disk, nextID, crs, running, job, edits, faults, unlisted>>

-----------------------------------------------------------------------------
(***************************************************************************)
(* Reconcile, up to the skip check.                                        *)
(***************************************************************************)
others == <<relGen, edits>>

\* A plane is worked on only once it carries the finalizer.
AddFinalizer(p) ==
    /\ job.pc = "idle"
    /\ plane[p].exists /\ ~plane[p].deleting /\ ~plane[p].finalizer
    /\ plane' = [plane EXCEPT ![p].finalizer = TRUE]
    /\ UNCHANGED <<others, disk, nextID, crs, running, job, faults, unlisted>>

\* reconcileDelete: the finalizer goes, revisions and what runs stay.
reconcileDelete(p) ==
    /\ job.pc = "idle"
    /\ plane[p].exists /\ plane[p].deleting
    /\ plane' = [plane EXCEPT ![p] = NoPlane]
    /\ UNCHANGED <<others, disk, nextID, crs, running, job, faults, unlisted>>

\* Mutant of Fetch: the finalizer is not awaited.
FetchUnheld(p) ==
    /\ job.pc = "idle"
    /\ plane[p].exists /\ ~plane[p].deleting
    /\ job' = [NoJob EXCEPT !.pc = "resolve", !.plane = p, !.gen = plane[p].gen,
                             !.release = plane[p].release, !.env = plane[p].env]
    /\ UNCHANGED <<others, plane, disk, nextID, crs, running, faults, unlisted>>

\* Get the plane.  Its status is written by this reconciler only.
Fetch(p) ==
    /\ job.pc = "idle"
    /\ plane[p].exists /\ ~plane[p].deleting /\ plane[p].finalizer
    /\ job' = [NoJob EXCEPT !.pc = "resolve", !.plane = p, !.gen = plane[p].gen,
                             !.release = plane[p].release, !.env = plane[p].env]
    /\ UNCHANGED <<others, plane, disk, nextID, crs, running, faults, unlisted>>

\* releaseUnchanged
releaseUnchanged(st, g) == st.obsRel = g

\* Mutant of isUnhealthy: a degraded plane may be skipped.
isUnhealthyViolation(st) == st.violation

\* isUnhealthy
isUnhealthy(st) == st.degraded = "True" \/ st.violation

\* Nothing changed since the last successful reconcile.
skippable(st, gen, g) ==
    st.obsGen > 0 /\ st.obsGen = gen /\ releaseUnchanged(st, g) /\ ~isUnhealthy(st)

\* resolveRelease reads the release as it is now; then the skip check.
Resolve(skip) ==
    /\ job.pc = "resolve"
    /\ skip = skippable(plane[job.plane].status, job.gen, relGen[job.release])
    /\ UNCHANGED <<others, plane, crs, running>>

Skip ==
    /\ Resolve(TRUE)
    /\ job' = NoJob
    /\ UNCHANGED <<disk, nextID, faults, unlisted>>

-----------------------------------------------------------------------------
(***************************************************************************)
(* Run.  Nobody else writes the revision directory, so everything from the *)
(* first shadow pass to the pending revision is one step.                  *)
(***************************************************************************)

\* A shadow pass over d; before is what Run keeps if the pass fails.
Shadow(sh, d, r, g, before) ==
    \/ /\ sh = ShadowOf(d, r, g)
       /\ UNCHANGED unlisted
    \/ /\ unlisted < MaxUnlisted
       /\ sh = before
       /\ unlisted' = unlisted + 1

Shadows == {NoShadow} \cup [known : {TRUE}, revision : 0..nextID, inSync : BOOLEAN]

Fault == faults < MaxFaults /\ faults' = faults + 1
NoFault == UNCHANGED faults

Begun(sh) == [job EXCEPT !.relGen = relGen[job.release], !.shadow = sh]
wanted == content(job.release, relGen[job.release])

\* SkipIfInSync: no drift, nothing to deploy.
RunInSync ==
    /\ Resolve(FALSE)
    /\ \E sh \in Shadows :
         /\ Shadow(sh, disk, job.release, relGen[job.release], NoShadow)
         /\ ~drift(sh)
         /\ job' = [Begun(sh) EXCEPT !.pc = "patch"]
    /\ UNCHANGED <<disk, nextID, faults>>

\* The plan has violations: nothing is deployed.
RunViolation ==
    /\ Resolve(FALSE)
    /\ \E sh \in Shadows :
         /\ Shadow(sh, disk, job.release, relGen[job.release], NoShadow)
         /\ drift(sh)
         /\ job' = [Begun(sh) EXCEPT !.pc = "violation"]
    /\ hasPlan(wanted) /\ violations(wanted, job.env) # {}
    /\ UNCHANGED <<disk, nextID, faults>>

\* The planner fails: the reconcile ends with an error, the status stays.
PlanFails ==
    /\ Resolve(FALSE)
    /\ \E sh \in Shadows :
         /\ Shadow(sh, disk, job.release, relGen[job.release], NoShadow)
         /\ drift(sh)
    /\ ~hasPlan(wanted)
    /\ job' = NoJob
    /\ UNCHANGED <<disk, nextID, faults>>

\* NewRevisionID: release, environment and the second.  Within one second the
\* ID is the one of the last revision of this release and environment.
revisionsOf(r, e) == {i \in DOMAIN disk : disk[i].release = r /\ disk[i].env = e}

sameSecondIDs(r, e) ==
    {disk[i].id : i \in {j \in revisionsOf(r, e) : SameSecond
                                                   /\ \A k \in revisionsOf(r, e) : k <= j}}

newIDs(r, e) == {nextID} \cup sameSecondIDs(r, e)

without(d, id) == Keep(d, {i \in DOMAIN d : d[i].id # id})

pending(id) == [id |-> id, release |-> job.release, env |-> job.env,
                comps |-> wanted, status |-> "pending"]

\* revision.Write of the pending revision truncates a file of that ID.  A
\* failed write leaves the directory alone, removes the file, or stores it and
\* still reports an error; Run deploys nevertheless, and records no outcome.
WritePending(sh, id) ==
    LET begun == [Begun(sh) EXCEPT !.pc = "deploy", !.todo = planned[wanted]]
        written == Append(without(disk, id), pending(id))
    IN  /\ nextID' = IF id = nextID THEN nextID + 1 ELSE nextID
        /\ \/ /\ disk' = written
              /\ job' = [begun EXCEPT !.rev = id]
              /\ NoFault
           \/ /\ disk' \in {disk, without(disk, id), written}
              /\ job' = begun
              /\ Fault

RunPlan ==
    /\ Resolve(FALSE)
    /\ hasPlan(wanted) /\ violations(wanted, job.env) = {}
    /\ \E sh \in Shadows :
         /\ Shadow(sh, disk, job.release, relGen[job.release], NoShadow)
         /\ drift(sh)
         /\ \E id \in newIDs(job.release, job.env) : WritePending(sh, id)

\* One adapter call: c now runs in the job's environment.
deployed(c) == [x \in DOMAIN running[job.env] \cup {c} |->
                  IF x = c THEN content(job.release, job.relGen)[c] ELSE running[job.env][x]]

\* A failed Deploy may have changed the cluster; Run goes on with the rest.
Deploy ==
    /\ job.pc = "deploy"
    /\ job.todo # <<>>
    /\ LET c == Head(job.todo)
           next == [job EXCEPT !.todo = Tail(@)]
       IN  \/ /\ running' = [running EXCEPT ![job.env] = deployed(c)]
              /\ job' = next
              /\ NoFault
           \/ /\ running' \in {running, [running EXCEPT ![job.env] = deployed(c)]}
              /\ job' = [next EXCEPT !.ok = FALSE]
              /\ Fault
    /\ UNCHANGED <<others, plane, disk, nextID, crs, unlisted>>

\* Mutants of outcome: the status the type's comment lists; success assumed.
outcomeRejected(ok) == IF ok THEN "promoted" ELSE "rejected"
outcomePromoted(ok) == "promoted"

\* Promote or Fail.
outcome(ok) == IF ok THEN "promoted" ELSE "failed"

recorded == [i \in DOMAIN disk |-> IF disk[i].id = job.rev
                                     THEN [disk[i] EXCEPT !.status = outcome(job.ok)]
                                     ELSE disk[i]]

\* revision.Write of the outcome.  A failed write leaves the pending file,
\* removes it, or stores the outcome and still reports an error.
Record ==
    /\ job.pc = "deploy"
    /\ job.todo = <<>>
    /\ \E sh \in Shadows, stored \in BOOLEAN :
         /\ IF stored
              THEN /\ job.rev # 0
                   /\ disk' = recorded
                   /\ NoFault
              ELSE \/ job.rev = 0 /\ UNCHANGED disk /\ NoFault
                   \/ /\ job.rev # 0
                      /\ disk' \in {disk, without(disk, job.rev), recorded}
                      /\ Fault
         /\ Shadow(sh, disk', job.release, job.relGen, job.shadow)
         /\ job' = [job EXCEPT !.pc = "patch", !.shadow = sh, !.promoted = stored /\ job.ok]
    /\ UNCHANGED <<others, plane, nextID, crs, running>>

-----------------------------------------------------------------------------
(***************************************************************************)
(* Reconcile, after Run.                                                   *)
(***************************************************************************)

\* Mutant of buildStatus: the release generation is read after the run.
buildStatusLate(j) ==
    [obsGen |-> j.gen, obsRel |-> relGen[j.release], revision |-> j.shadow.revision,
     degraded |-> Degraded(j.shadow), violation |-> FALSE]

\* buildStatus: with the generations read before the run.
buildStatus(j) ==
    [obsGen |-> j.gen, obsRel |-> j.relGen, revision |-> j.shadow.revision,
     degraded |-> Degraded(j.shadow), violation |-> FALSE]

\* Mutant of PatchStatus: every recorded revision gets a CR.
PatchStatusAlways ==
    /\ job.pc = "patch"
    /\ plane' = [plane EXCEPT ![job.plane].status = buildStatus(job)]
    /\ job' = IF job.rev # 0 THEN [job EXCEPT !.pc = "upsert"] ELSE NoJob
    /\ UNCHANGED <<others, disk, nextID, crs, running, faults, unlisted>>

PatchStatus ==
    /\ job.pc = "patch"
    /\ plane' = [plane EXCEPT ![job.plane].status = buildStatus(job)]
    /\ job' = IF job.promoted THEN [job EXCEPT !.pc = "upsert"] ELSE NoJob
    /\ UNCHANGED <<others, disk, nextID, crs, running, faults, unlisted>>

\* reconcileViolation: the release generation is not recorded.
reconcileViolation ==
    /\ job.pc = "violation"
    /\ plane' = [plane EXCEPT ![job.plane].status =
                    [@ EXCEPT !.obsGen = job.gen, !.violation = TRUE, !.degraded = "True"]]
    /\ job' = NoJob
    /\ UNCHANGED <<others, disk, nextID, crs, running, faults, unlisted>>

\* upsertBoriRevision: an existing CR keeps its spec.
upsertBoriRevision ==
    /\ job.pc = "upsert"
    /\ crs' = IF \E cr \in crs : cr.id = job.rev THEN crs
               ELSE crs \cup {disk[i] : i \in {j \in DOMAIN disk : disk[j].id = job.rev}}
    /\ job' = NoJob
    /\ UNCHANGED <<others, plane, disk, nextID, running, faults, unlisted>>

\* A call returns an error that ends the reconcile, or the process dies.
Abort ==
    /\ job.pc # "idle"
    /\ job' = NoJob
    /\ Fault
    /\ UNCHANGED <<others, plane, disk, nextID, crs, running, unlisted>>

\* The pod is replaced, at work or at rest: the state directory is an
\* emptyDir, so the new process finds no revision, only the API objects.
ReplacePod ==
    /\ EmptyDir /\ disk # <<>>
    /\ disk' = <<>>
    /\ job' = NoJob
    /\ Fault
    /\ UNCHANGED <<others, plane, nextID, crs, running, unlisted>>

-----------------------------------------------------------------------------
Work ==
    \/ Skip \/ RunInSync \/ RunViolation \/ PlanFails \/ RunPlan
    \/ Deploy \/ Record
    \/ PatchStatus \/ reconcileViolation \/ upsertBoriRevision

Reconcile(p) == AddFinalizer(p) \/ reconcileDelete(p) \/ Fetch(p)

User ==
    \/ \E p \in Planes, r \in Releases, e \in Envs : CreatePlane(p, r, e) \/ EditPlane(p, r, e)
    \/ \E p \in Planes : DeletePlane(p)
    \/ \E r \in Releases : EditRelease(r)

Next ==
    \/ User
    \/ \E p \in Planes : Reconcile(p)
    \/ Work
    \/ Abort
    \/ ReplacePod

Spec == Init /\ [][Next]_vars

-----------------------------------------------------------------------------
(***************************************************************************)
(* Properties.                                                             *)
(***************************************************************************)

\* The next reconcile of p would skip Run.
skipped(p) ==
    /\ plane[p].exists /\ ~plane[p].deleting
    /\ skippable(plane[p].status, plane[p].gen, relGen[plane[p].release])

\* The status saw this spec and this release and names no trouble.
settled(p) ==
    LET st == plane[p].status
    IN  /\ plane[p].exists /\ ~plane[p].deleting
        /\ st.obsGen = plane[p].gen /\ st.obsRel = relGen[plane[p].release]
        /\ st.degraded # "True" /\ ~st.violation

\* A revision was compared with the release and Degraded is False.  (A status
\* without the condition was written by a run that could not read the
\* revision directory, before nor after deploying.)
compared(p) == plane[p].status.degraded = "False"

desired(p) == content(plane[p].release, relGen[plane[p].release])

\* Where the revision that the status of p names is on disk, still promoted.
\* (It is lost with the pod's directory, and to a run within the same second.)
named(p) == {i \in promoted(disk, plane[p].release) : disk[i].id = plane[p].status.revision}

\* The skip check of Reconcile is sound: edits during a run, reverted edits,
\* failed deploys, failed writes, reused revision IDs, replaced pods and
\* crashes never make it skip a plane with Degraded False while the newest
\* promoted revision differs from what the release declares, as long as the
\* revision that its status names is there.
SkipSound ==
    \A p \in Planes : skipped(p) /\ compared(p) /\ named(p) # {} =>
      LET i == latest(disk, plane[p].release)
      IN  i # 0 /\ inSync(desired(p), disk[i].comps)

\* A plane that reports itself current and not degraded runs, in its
\* environment, what its release declares (Degraded is False: "all components
\* match the release definition").
HealthyRuns ==
    \A p \in Planes : settled(p) /\ compared(p) => inSync(desired(p), running[plane[p].env])

\* The finalizer holds a plane while a run works for it: the status a run
\* writes belongs to the object it read, not to a later one of that name.
HeldWhileReconciled ==
    job.pc # "idle" => plane[job.plane].exists /\ plane[job.plane].gen >= job.gen

\* What the plan promises holds whatever fails, whenever the release changes:
\* no component runs where the namespace policy of the environment forbids it,
\* no revision holds components the matrix calls incompatible, and a component
\* is never deployed before one it depends on, so not at all on a cycle.
NothingForbiddenRuns == \A e \in Envs : \A c \in DOMAIN running[e] : <<c, e>> \notin Forbidden
Compatible(comps) ==
    \A k \in Matrix :
        (k.comp \in DOMAIN comps /\ comps[k.comp].version = k.version) =>
        k.needs \in DOMAIN comps /\ comps[k.needs].version >= k.min
DependenciesFirst ==
    \A i, j \in DOMAIN job.todo : i <= j => job.todo[j] \notin Requires[job.todo[i]]
PolicyKept ==
    /\ NothingForbiddenRuns /\ DependenciesFirst
    /\ \A i \in DOMAIN disk : Compatible(disk[i].comps)

\* A finished revision is history, with two exceptions: it goes with the pod's
\* state directory, or its file is taken by the next run of its release and
\* environment, begun within the same second.  The newest promoted revision,
\* which every shadow pass takes as the actual state, is never taken while it
\* can be read and is what the release declares; an outcome is written into
\* the run's own revision only.
HistoryKept ==
    [][\A i \in DOMAIN disk : disk[i].status # "pending" =>
         \/ \E j \in DOMAIN disk' : disk'[j] = disk[i]
         \/ ReplacePod
         \/ /\ SameSecond /\ job.pc = "resolve"
            /\ disk[i].release = job.release /\ disk[i].env = job.env
            /\ i = latest(disk, job.release) =>
                  ~inSync(wanted, disk[i].comps) \/ unlisted' # unlisted]_vars

\* A revision on disk, promoted or failed, is never rewritten or removed
\* (revision.Fail: "a failed revision is immutable evidence").
RevisionsImmutable ==
    [][\A i \in DOMAIN disk : disk[i].status # "pending" =>
         \E j \in DOMAIN disk' : disk'[j] = disk[i]]_vars

\* A BoriRevision CR appears only for a promoted revision, and when it does its
\* environment runs exactly what it records, every component of it: no failed
\* deploy, failed write, lost directory or reused ID gets a CR of something
\* that was not deployed (upsertBoriRevision).
CRsDeployed ==
    [][\A cr \in crs' \ crs :
         /\ cr.status = "promoted"
         /\ \A c \in DOMAIN cr.comps :
               c \in DOMAIN running[cr.env] /\ running[cr.env][c] = cr.comps[c]]_vars

-----------------------------------------------------------------------------
(***************************************************************************)
(* The inductive invariant behind these properties.                        *)
(***************************************************************************)

\* What the job deploys.
jobContent == content(job.release, job.relGen)
jobRevision(status) == [id |-> job.rev, release |-> job.release, env |-> job.env,
                        comps |-> jobContent, status |-> status]

\* Generations: a release is at a declared one, a status is not ahead of the
\* plane, and the job's plane, held by the finalizer, is the one it read, or
\* has a later generation.
HeldInv ==
    /\ \A r \in Releases : relGen[r] \in 1..Len(Declared[r])
    /\ \A p \in Planes : /\ plane[p].status.obsGen <= plane[p].gen
                         /\ plane[p].exists => plane[p].gen > 0
    /\ job.pc # "idle" =>
          LET p == plane[job.plane]
          IN  /\ p.exists /\ p.finalizer /\ job.gen <= p.gen
              /\ p.gen = job.gen => p.release = job.release /\ p.env = job.env
    /\ job.pc \in PCs \ {"idle", "resolve"} => job.relGen \in 1..relGen[job.release]

\* What is left to deploy is declared and passed the plan's checks.
PlanInv ==
    /\ PolicyKept
    /\ job.pc = "deploy" => /\ violations(jobContent, job.env) = {}
                            /\ job.todo \in Seq(DOMAIN jobContent)

\* While no call has failed, what is not left to deploy runs; what a job has
\* promoted runs.
runs(c) == c \in DOMAIN running[job.env] /\ running[job.env][c] = jobContent[c]
DeployInv ==
    /\ job.pc = "deploy" /\ job.ok =>
          \A c \in DOMAIN jobContent : runs(c) \/ \E i \in DOMAIN job.todo : job.todo[i] = c
    /\ job.promoted => \A c \in DOMAIN jobContent : runs(c)

\* No two files have one ID; the job's pending revision is the last file, the
\* one it has promoted is on disk.
RevisionInv ==
    /\ nextID > 0
    /\ \A i \in DOMAIN disk : disk[i].id \in 1..nextID - 1
    /\ \A i, j \in DOMAIN disk : disk[i].id = disk[j].id => i = j
    /\ job.pc = "resolve" => job.rev = 0 /\ ~job.promoted
    /\ job.pc = "deploy" => ~job.promoted
    /\ job.pc = "deploy" /\ job.rev # 0 =>
          disk # <<>> /\ disk[Len(disk)] = jobRevision("pending")
    /\ job.promoted => \E i \in DOMAIN disk : disk[i] = jobRevision("promoted")
    /\ job.pc = "upsert" => job.promoted

\* p reports that its spec and a generation of its release are in sync.
reportsSync(p) ==
    /\ plane[p].exists /\ plane[p].status.obsGen = plane[p].gen
    /\ compared(p) /\ ~plane[p].status.violation

\* A job that deploys found drift, and one that reports no drift reports what
\* the disk shows.  A plane that reports to be in sync has seen no generation
\* later than a job that deploys; and, if its release has not changed since, the
\* revision it names and every later one promoted for the release are in sync.
\* (The later ones too: the newest may give its file to the next run.)
StatusInv ==
    /\ job.pc = "deploy" => drift(job.shadow)
    /\ job.pc = "patch" => \/ drift(job.shadow)
                           \/ job.shadow = ShadowOf(disk, job.release, job.relGen)
    /\ \A p \in Planes : reportsSync(p) =>
          LET st == plane[p].status
              r == plane[p].release
          IN  /\ st.obsRel <= relGen[r]
              /\ job.pc = "deploy" /\ job.release = r => st.obsRel <= job.relGen
              /\ st.obsRel = relGen[r] =>
                    \A k \in named(p), i \in promoted(disk, r) :
                       k <= i => inSync(content(r, relGen[r]), disk[i].comps)

DataPlaneInv ==
    /\ DataPlaneTypeOK /\ HeldInv /\ PlanInv /\ DeployInv /\ RevisionInv /\ StatusInv

(***************************************************************************)
(* Liveness.  Every path of Reconcile requeues and the queue is fair, so a *)
(* plane that could be reconciled again and again is; a reconcile does not *)
(* hang.  Users and faults come to an end by their bounds.                 *)
(***************************************************************************)
FairSpec ==
    /\ Spec
    /\ WF_vars(Work)
    /\ \A p \in Planes : SF_vars(Reconcile(p))

\* Once users and faults stop, every plane is gone, has a release without a
\* plan, reports the violation its release still has, or has settled on its
\* current spec and release: failed deploys are retried, and a violation that
\* was corrected is cleared, because an unhealthy plane is never skipped.
cyclic(want) == \E S \in SUBSET DOMAIN want : S # {} /\ \A c \in S : Requires[c] \cap S # {}
Converges ==
    \A p \in Planes :
      <>[](\/ ~plane[p].exists \/ settled(p) \/ cyclic(desired(p))
           \/ plane[p].status.violation /\ violations(desired(p), plane[p].env) # {})

\* Every promoted deployment gets a CR (docs/control-plane-roadmap.md).
PromotedHasCR ==
    \A id \in 1..(1 + MaxEdits + MaxFaults) :
      (\E i \in DOMAIN disk : disk[i].id = id /\ disk[i].status = "promoted")
        ~> (\E cr \in crs : cr.id = id)
=============================================================================
