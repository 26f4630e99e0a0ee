----------------------- MODULE VerificationLinkProofs -----------------------
(***************************************************************************)
(* TLAPS proof that a verification link always resolves, for every number  *)
(* of runs, revisions, failing calls and restarts.                         *)
(***************************************************************************)
EXTENDS VerificationLink, TLAPS

USE LinkAssumption

\* Nothing exists initially.
LEMMA InitLink == Init => LinkInv
<1> SUFFICES ASSUME Init
             PROVE  LinkInv
  OBVIOUS
<1>1. Created = {} /\ Published = {} /\ DOMAIN cached = {}
  BY DEF Init, Created, Published
<1>2. QED
  BY <1>1 DEF Init, LinkInv, LinkResolves, LinkTypeOK, Idle

\* Creating a run changes no other run and no link.
LEMMA CreateLink ==
    ASSUME LinkInv, NEW b \in Runs, NEW r \in Revs \cup {None}, Create(b, r)
    PROVE  LinkInv'
<1>1. /\ b \notin DOMAIN spec /\ spec' = with(spec, b, r) /\ queue' = queue \cup {b}
      /\ UNCHANGED <<link, cached, at, faults>>
  BY DEF Create, Created
<1>2. /\ DOMAIN spec' = DOMAIN spec \cup {b} /\ spec'[b] = r
      /\ \A y \in DOMAIN spec : spec'[y] = spec[y]
  BY <1>1 DEF with
<1>3. LinkTypeOK'
  BY <1>1, <1>2 DEF LinkInv, LinkResolves, LinkTypeOK, Created, Published
<1>4. \A q \in DOMAIN link' : link'[q] # None => link'[q] \in DOMAIN spec' /\ spec'[link'[q]] = q
  BY <1>1, <1>2 DEF LinkInv, LinkResolves, Created, Published
<1>5. at'.pc = "patch" => spec'[at'.run] \in DOMAIN link'
  BY <1>1, <1>2 DEF LinkInv, LinkResolves, LinkTypeOK, Created, Published
<1>6. QED
  BY <1>3, <1>4, <1>5 DEF LinkInv, LinkResolves, Created, Published

\* A new revision is not linked.
LEMMA PublishLink ==
    ASSUME LinkInv, NEW r \in Revs, Publish(r)
    PROVE  LinkInv'
<1>1. /\ r \notin DOMAIN link /\ link' = with(link, r, None)
      /\ UNCHANGED <<spec, cached, queue, at, faults>>
  BY DEF Publish, Published
<1>2. /\ DOMAIN link' = DOMAIN link \cup {r} /\ link'[r] = None
      /\ \A y \in DOMAIN link : link'[y] = link[y]
  BY <1>1 DEF with
<1>3. LinkTypeOK'
  BY <1>1, <1>2 DEF LinkInv, LinkResolves, LinkTypeOK, Created, Published
<1>4. \A q \in DOMAIN link' : link'[q] # None => link'[q] \in DOMAIN spec' /\ spec'[link'[q]] = q
  BY <1>1, <1>2 DEF LinkInv, LinkResolves, Created, Published
<1>5. QED
  BY <1>1, <1>2, <1>3, <1>4 DEF LinkInv, LinkResolves, Created, Published

\* The cache only ever learns of revisions that exist.
LEMMA SyncLink ==
    ASSUME LinkInv, NEW r \in Revs, CacheSync(r)
    PROVE  LinkInv'
<1>1. /\ r \in DOMAIN link /\ cached' = with(cached, r, link[r])
      /\ UNCHANGED <<spec, link, queue, at, faults>>
  BY DEF CacheSync, Published
<1>2. /\ DOMAIN cached' = DOMAIN cached \cup {r} /\ cached'[r] = link[r]
      /\ \A y \in DOMAIN cached : y # r => cached'[y] = cached[y]
  BY <1>1 DEF with
<1>3. LinkTypeOK'
  BY <1>1, <1>2 DEF LinkInv, LinkResolves, LinkTypeOK, Created, Published
<1>4. QED
  BY <1>1, <1>3 DEF LinkInv, LinkResolves, Created, Published

\* The merge patch links the revision that the run names, and that run exists.
LEMMA PatchLink ==
    ASSUME LinkInv, Patch
    PROVE  LinkInv'
<1> DEFINE r == spec[at.run]
<1>1. /\ at.pc = "patch" /\ link' = with(link, r, at.run) /\ at' = Idle
      /\ UNCHANGED <<spec, cached, queue, faults>>
  BY DEF Patch
<1>2. r \in DOMAIN link /\ at.run \in DOMAIN spec
  BY <1>1 DEF LinkInv, LinkResolves, LinkTypeOK, Created, Published
<1> HIDE DEF r
<1>3. /\ DOMAIN link' = DOMAIN link /\ link'[r] = at.run
      /\ \A y \in DOMAIN link : y # r => link'[y] = link[y]
  <2>1. DOMAIN link' = DOMAIN link \cup {r} /\ link'[r] = at.run
        /\ \A y \in DOMAIN link : y # r => link'[y] = link[y]
    BY <1>1 DEF with
  <2>2. QED
    BY <1>2, <2>1
<1>4. LinkTypeOK'
  BY <1>1, <1>2, <1>3 DEF LinkInv, LinkResolves, LinkTypeOK, Created, Published, Idle
<1>5. \A q \in DOMAIN link' : link'[q] # None => link'[q] \in DOMAIN spec' /\ spec'[link'[q]] = q
  BY <1>1, <1>2, <1>3 DEF LinkInv, LinkResolves, Created, Published, r
<1>6. QED
  BY <1>1, <1>4, <1>5 DEF LinkInv, LinkResolves, Created, Published, Idle

\* Get lets through only what the cache has; a failure, a restart or a resync
\* changes no object.
LEMMA WorkerLink ==
    ASSUME LinkInv, Get \/ Fail \/ Restart \/ Resync \/ \E b \in Runs : Observe(b)
    PROVE  LinkInv'
<1>1. UNCHANGED <<spec, link>>
  BY DEF Get, Fail, Restart, Resync, Observe
<1>2. LinkTypeOK'
  BY <1>1 DEF LinkInv, LinkResolves, LinkTypeOK, Created, Published, Idle,
       Get, Fail, Restart, Resync, Observe
<1>3. at'.pc = "patch" => spec[at'.run] \in DOMAIN link
  BY DEF LinkInv, LinkResolves, LinkTypeOK, Created, Published, Idle, linkable,
       Get, Fail, Restart, Resync, Observe
<1>4. QED
  BY <1>1, <1>2, <1>3 DEF LinkInv, LinkResolves, Created, Published

\* Every step keeps the invariant.
LEMMA NextLink == LinkInv /\ [Next]_vars => LinkInv'
<1> SUFFICES ASSUME LinkInv, [Next]_vars
             PROVE  LinkInv'
  OBVIOUS
<1>1. CASE UNCHANGED vars
  BY <1>1 DEF vars, LinkInv, LinkResolves, LinkTypeOK, Created, Published
<1>2. QED
  BY <1>1, CreateLink, PublishLink, SyncLink, PatchLink, WorkerLink DEF Next, Work

\* However the cache lags and whatever fails or restarts between its Get and
\* its Patch, the reconciler links a revision only to a run that exists and
\* was made for that revision.
THEOREM LinksResolve == Spec => []LinkResolves
<1>1. LinkInv => LinkResolves
  BY DEF LinkInv
<1>2. QED
  BY <1>1, InitLink, NextLink, PTL DEF Spec
=============================================================================
