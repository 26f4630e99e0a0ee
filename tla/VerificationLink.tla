--------------------------- MODULE VerificationLink ---------------------------
(***************************************************************************)
(* The BoriVerificationRun reconciler                                      *)
(* (controllers/verificationrun_reconciler.go): it links a verification    *)
(* run to the BoriRevision named by spec.revisionId.                       *)
(*                                                                         *)
(* One worker handles one request at a time.  Its Get reads the informer   *)
(* cache, which follows the API server with a delay; its Patch is a merge  *)
(* patch without a resource version, so the API server applies it to       *)
(* whatever the revision is by then.  Publish is the first                 *)
(* upsertBoriRevision of a revision by the delivery plane (DataPlane).     *)
(***************************************************************************)
EXTENDS Integers, FiniteSets

CONSTANTS
    Runs,      \* BoriVerificationRun names
    Revs,      \* revision IDs
    MaxFaults  \* bound on failing calls and restarts

None == "none"

ASSUME LinkAssumption == MaxFaults \in Nat

VARIABLES
    spec,     \* spec.revisionId of every run that exists
    link,     \* status.verificationRunId of every revision that exists
    cached,   \* link as the informer cache has it
    queue,    \* requests waiting
    at,       \* the run being reconciled and how far
    faults

vars == <<spec, link, cached, queue, at, faults>>

Created == DOMAIN spec
Published == DOMAIN link
Idle == [pc |-> "idle", run |-> None]

LinkTypeOK ==
    /\ Created \subseteq Runs /\ \A b \in Created : spec[b] \in Revs \cup {None}
    /\ Published \subseteq Revs /\ \A r \in Published : link[r] \in Runs \cup {None}
    /\ DOMAIN cached \subseteq Published
    /\ \A r \in DOMAIN cached : cached[r] \in Runs \cup {None}
    /\ queue \subseteq Created
    /\ at \in [pc : {"idle", "found", "patch"}, run : Runs \cup {None}]
    /\ at.pc # "idle" => at.run \in Created
    /\ faults \in 0..MaxFaults

Init ==
    /\ spec = <<>> /\ link = <<>> /\ cached = <<>>
    /\ queue = {}
    /\ at = Idle
    /\ faults = 0

\* f extended or changed at x.
with(f, x, v) == [y \in DOMAIN f \cup {x} |-> IF y = x THEN v ELSE f[y]]

-----------------------------------------------------------------------------
\* bori verify or the ingestion API creates a run; the watch enqueues it.
Create(b, r) ==
    /\ b \notin Created
    /\ spec' = with(spec, b, r)
    /\ queue' = queue \cup {b}
    /\ UNCHANGED <<link, cached, at, faults>>

\* upsertBoriRevision creates the revision's CR, not verified yet.
Publish(r) ==
    /\ r \notin Published
    /\ link' = with(link, r, None)
    /\ UNCHANGED <<spec, cached, queue, at, faults>>

CacheSync(r) ==
    /\ r \in Published
    /\ r \in DOMAIN cached => cached[r] # link[r]
    /\ cached' = with(cached, r, link[r])
    /\ UNCHANGED <<spec, link, queue, at, faults>>

-----------------------------------------------------------------------------
\* Get the run and record when it was observed.
Observe(b) ==
    /\ at.pc = "idle"
    /\ b \in queue
    /\ queue' = queue \ {b}
    /\ at' = [pc |-> "found", run |-> b]
    /\ UNCHANGED <<spec, link, cached, faults>>

\* Mutant of linkable: the idempotent case is the one that is patched.
linkableSwapped(b) == spec[b] \in DOMAIN cached /\ cached[spec[b]] = b

\* The revision is known and not linked yet, as far as the cache tells.
linkable(b) == spec[b] \in DOMAIN cached /\ cached[spec[b]] = None

Get ==
    /\ at.pc = "found"
    /\ at' = IF linkable(at.run) THEN [at EXCEPT !.pc = "patch"] ELSE Idle
    /\ UNCHANGED <<spec, link, cached, queue, faults>>

\* Mutant of Patch: any revision that is known is linked, not the one the
\* run names.
PatchAny ==
    /\ at.pc = "patch"
    /\ \E r \in DOMAIN cached : link' = with(link, r, at.run)
    /\ at' = Idle
    /\ UNCHANGED <<spec, cached, queue, faults>>

\* The merge patch sets the link, whatever it is at the API server.
Patch ==
    /\ at.pc = "patch"
    /\ link' = with(link, spec[at.run], at.run)
    /\ at' = Idle
    /\ UNCHANGED <<spec, cached, queue, faults>>

\* A call fails: the request is retried.
Fail ==
    /\ at.pc # "idle"
    /\ faults < MaxFaults
    /\ faults' = faults + 1
    /\ queue' = queue \cup {at.run}
    /\ at' = Idle
    /\ UNCHANGED <<spec, link, cached>>

\* The operator restarts: the cache is read anew and every run is enqueued.
Restart ==
    /\ faults < MaxFaults
    /\ faults' = faults + 1
    /\ at' = Idle
    /\ queue' = Created
    /\ cached' = link
    /\ UNCHANGED <<spec, link>>

\* The manager's periodic resync enqueues every run.
Resync ==
    /\ queue # Created
    /\ queue' = Created
    /\ UNCHANGED <<spec, link, cached, at, faults>>

-----------------------------------------------------------------------------
Work == Get \/ Patch \/ \E b \in Runs : Observe(b)

Next ==
    \/ \E b \in Runs, r \in Revs \cup {None} : Create(b, r)
    \/ \E r \in Revs : Publish(r) \/ CacheSync(r)
    \/ Work
    \/ Fail \/ Restart \/ Resync

Spec == Init /\ [][Next]_vars

\* Requests are served, the cache catches up and the resync comes round.
FairSpec ==
    /\ Spec
    /\ WF_vars(Get \/ Patch)
    /\ \A b \in Runs : SF_vars(Observe(b))
    /\ \A r \in Revs : WF_vars(CacheSync(r))
    /\ WF_vars(Resync)

\* A link, once set, names a run that exists and was made for this revision.
LinkResolves ==
    /\ LinkTypeOK
    /\ \A r \in Published : link[r] # None => link[r] \in Created /\ spec[link[r]] = r

\* The inductive form: what is about to be patched was seen in the cache, so
\* it exists, whatever was created, published, synced or failed since.
LinkInv ==
    /\ LinkResolves
    /\ at.pc = "patch" => spec[at.run] \in Published

\* ADR-003, first-write-wins: "if BoriRevision.status.verificationRunId is
\* already set to a different value, it is NOT overwritten".
FirstWriteWins ==
    [][\A r \in Published : link[r] # None => link'[r] = link[r]]_vars

\* Whatever came first, run or revision, and whatever failed or restarted in
\* between: a published revision with a run for it is linked in the end.
LinkedInTheEnd ==
    \A r \in Revs :
      (r \in Published /\ \E b \in Created : spec[b] = r)
        ~> (r \in Published /\ link[r] # None)
=============================================================================
