-------------------------- MODULE DataPlaneProofs --------------------------
(***************************************************************************)
(* Proofs about the delivery plane: DataPlaneInv is inductive, for every   *)
(* set of planes, releases, environments and components, every dependency  *)
(* relation, matrix and policy, and every number of edits and faults.      *)
(***************************************************************************)
EXTENDS DataPlane, ReleaseOrderProofs

-----------------------------------------------------------------------------
(* The operators of the model.                                              *)

(* What a release declares is a content, and one planned knows.             *)
LEMMA ContentDeclared ==
    ASSUME NEW r \in Releases, NEW g \in 1..Len(Declared[r])
    PROVE  content(r, g) \in Contents /\ content(r, g) \in AllDeclared
  <1>1. Declared[r] \in Seq(Contents)
    BY DataPlaneAssumption
  <1>2. DOMAIN Declared[r] = 1..Len(Declared[r])
    BY <1>1
  <1>3. content(r, g) \in Contents
    BY <1>1, <1>2 DEF content
  <1>4. content(r, g) \in AllDeclared
    <2>1. content(r, g) \in {content(r, h) : h \in DOMAIN Declared[r]}
      BY <1>2
    <2> QED
      BY <2>1, Zenon DEF AllDeclared
  <1> QED
    BY <1>3, <1>4

(* A content maps components to references.                                 *)
LEMMA ContentTyped ==
    ASSUME NEW want \in Contents
    PROVE  DOMAIN want \subseteq Comps /\ want \in [DOMAIN want -> Refs]
  BY DEF Contents

(* And every such function is a content.                                    *)
LEMMA TypedContent ==
    ASSUME NEW D \in SUBSET Comps, NEW want \in [D -> Refs]
    PROVE  want \in Contents
  BY Zenon DEF Contents

(* A content is in sync with itself.                                        *)
LEMMA InSyncItself ==
    ASSUME NEW want
    PROVE  inSync(want, want)
  BY DEF inSync, componentIdentityInSync

(* What CheckCompatibility lets pass is compatible, and violations leaves   *)
(* nothing the namespace policy forbids.                                    *)
LEMMA NoViolation ==
    ASSUME NEW want, NEW env, violations(want, env) = {}
    PROVE  Compatible(want) /\ \A c \in DOMAIN want : <<c, env>> \notin Forbidden
  <1>1. \A c \in DOMAIN want : <<c, env>> \notin Forbidden
    BY DEF violations
  <1>2. CheckCompatibility(want, Matrix) = {}
    BY DEF violations
  <1>3. ASSUME NEW k \in Matrix, k.comp \in DOMAIN want, want[k.comp].version = k.version
        PROVE  k.needs \in DOMAIN want /\ want[k.needs].version >= k.min
    BY <1>2, <1>3, Zenon DEF CheckCompatibility, VersionAtLeast
  <1> QED
    BY <1>1, <1>3 DEF Compatible

(* What a release declares are components.                                  *)
LEMMA DeclaredComps ==
    ASSUME NEW want \in AllDeclared
    PROVE  DOMAIN want \subseteq Comps
  <1>1. PICK r \in Releases : want \in {content(r, g) : g \in DOMAIN Declared[r]}
    BY Zenon DEF AllDeclared
  <1>2. PICK g \in DOMAIN Declared[r] : want = content(r, g)
    BY <1>1
  <1>3. g \in 1..Len(Declared[r])
    BY DataPlaneAssumption
  <1> QED
    BY <1>2, <1>3, ContentDeclared, ContentTyped

(* The plan of a release: declared components, dependencies first, and all  *)
(* of them unless there is a cycle.                                         *)
LEMMA PlannedSound ==
    ASSUME NEW want \in AllDeclared
    PROVE  /\ planned[want] \in Seq(DOMAIN want)
           /\ \A i, j \in 1..Len(planned[want]) :
                 i <= j => planned[want][j] \notin Requires[planned[want][i]]
           /\ hasPlan(want) => \A c \in DOMAIN want : \E i \in DOMAIN planned[want] : planned[want][i] = c
  <1> DEFINE I == {i \in DOMAIN Listed : Listed[i] \in DOMAIN want}
             l == Keep(Listed, I)
  <1>1. /\ Listed \in Seq(Comps) /\ Distinct(Listed) /\ DOMAIN Listed = 1..Len(Listed)
        /\ \A c \in Comps : \E i \in DOMAIN Listed : Listed[i] = c
    BY DataPlaneAssumption DEF Distinct, InRelease
  <1>2. planned[want] = Order(l, Requires)
    BY Zenon DEF planned
  <1>3. \A c : c \in DOMAIN want <=> \E i \in I \cap 1..Len(Listed) : c = Listed[i]
    BY <1>1, DeclaredComps
  <1> HIDE DEF I
  <1>4. l \in Seq(Comps) /\ Distinct(l) /\ InRelease(l) = {Listed[i] : i \in I \cap 1..Len(Listed)}
    BY <1>1, KeepElements
  <1>5. InRelease(l) = DOMAIN want
    BY <1>3, <1>4
  <1> HIDE DEF l
  <1>6. /\ Order(l, Requires) \in Seq(InRelease(l)) /\ Distinct(Order(l, Requires))
        /\ \A i, j \in 1..Len(Order(l, Requires)) :
              i <= j => Order(l, Requires)[j] \notin Requires[Order(l, Requires)[i]]
    BY <1>4, OrderSound
  <1>7. Order(l, Requires) \in Seq(DOMAIN want)
    <2> DEFINE o == Order(l, Requires)
    <2>1. o \in Seq(InRelease(l))
      BY <1>6
    <2> HIDE DEF o
    <2>2. o \in Seq(DOMAIN want)
      BY <2>1, <1>5
    <2> QED
      BY <2>2 DEF o
  <1>8. ASSUME hasPlan(want), NEW c \in DOMAIN want
        PROVE  \E i \in DOMAIN Order(l, Requires) : Order(l, Requires)[i] = c
    <2> DEFINE o == Order(l, Requires)
    <2>1. o \in Seq(DOMAIN want) /\ Distinct(o)
      BY <1>6, <1>7
    <2>2. Len(o) = Cardinality(DOMAIN want) /\ IsFiniteSet(DOMAIN want)
      BY <1>2, <1>4, <1>5, <1>8, ElementsFinite DEF hasPlan
    <2> HIDE DEF o
    <2>3. Cardinality(InRelease(o)) = Len(o) /\ InRelease(o) \subseteq DOMAIN want
      BY <2>1, ElementsCounted, ElementsFinite
    <2>4. InRelease(o) = DOMAIN want
      BY <2>2, <2>3, FS_Subset
    <2>5. \E i \in DOMAIN o : o[i] = c
      BY <2>4 DEF InRelease
    <2> QED
      BY <2>5 DEF o
  <1> QED
    BY <1>2, <1>6, <1>7, <1>8, Zenon

(* latest is the greatest index of a promoted revision, 0 if there is none. *)
LEMMA LatestIs ==
    ASSUME NEW S, NEW d \in Seq(S), NEW r
    PROVE  /\ latest(d, r) \in promoted(d, r) \cup {0}
           /\ \A j \in promoted(d, r) : j <= latest(d, r)
           /\ promoted(d, r) \subseteq 1..Len(d)
  <1> DEFINE P == promoted(d, r)
             Q == P \cup {0}
  <1>1. P \subseteq 1..Len(d) /\ Len(d) \in Nat
    BY DEF promoted
  <1>2. IsFiniteSet(Q)
    <2>1. IsFiniteSet(0..Len(d))
      BY <1>1, FS_Interval
    <2>2. Q \subseteq 0..Len(d)
      BY <1>1
    <2> QED
      BY <2>1, <2>2, FS_Subset
  <1>3. Q \in SUBSET Nat /\ Q # {}
    BY <1>1
  <1> HIDE DEF P
  <1>4. Max(Q) \in Q /\ \A j \in Q : j <= Max(Q)
    <2> HIDE DEF Q
    <2> QED
      BY <1>2, <1>3, MaxGreatest
  <1>5. \E i \in Q : \A j \in P : j <= i
    BY <1>4
  <1>6. latest(d, r) = CHOOSE i \in Q : \A j \in P : j <= i
    BY Zenon DEF latest, P
  <1>7. latest(d, r) \in Q /\ \A j \in P : j <= latest(d, r)
    BY <1>5, <1>6, Zenon
  <1> QED
    BY <1>1, <1>7 DEF P

(* What is left without a revision was there before.                        *)
LEMMA WithoutSome ==
    ASSUME NEW S, NEW d \in Seq(S), NEW id
    PROVE  /\ without(d, id) \in Seq(S)
           /\ \A i \in DOMAIN without(d, id) : \E j \in DOMAIN d : without(d, id)[i] = d[j]
  <1> DEFINE I == {i \in DOMAIN d : d[i].id # id}
             t == Keep(d, I)
  <1>1. without(d, id) = t
    BY DEF without
  <1> HIDE DEF I
  <1>2. t \in Seq(S) /\ \E m : Places(d, I \cap 1..Len(d), t, m)
    BY KeepPlaces
  <1>3. PICK m : Places(d, I \cap 1..Len(d), t, m)
    BY <1>2
  <1> HIDE DEF t
  <1>4. ASSUME NEW i \in DOMAIN t PROVE \E j \in DOMAIN d : t[i] = d[j]
    <2>1. i \in 1..Len(t) /\ DOMAIN d = 1..Len(d)
      BY <1>2
    <2>2. m[i] \in 1..Len(d) /\ t[i] = d[m[i]]
      BY <2>1, <1>3 DEF Places
    <2> QED
      BY <2>1, <2>2, Zenon
  <1> QED
    BY <1>1, <1>2, <1>4

\* e is what a write of revision x leaves of directory d: k gives where each
\* file was, and the end for x; only files of the ID may be gone, and where x
\* is there, they are.
Written(d, e, id, x, k) ==
    /\ k \in [1..Len(e) -> 1..Len(d) + 1]
    /\ \A i \in 1..Len(e) : e[i] = IF k[i] <= Len(d) THEN d[k[i]] ELSE x
    /\ \A i, j \in 1..Len(e) : i < j => k[i] < k[j]
    /\ \A i \in 1..Len(d) : d[i].id # id => \E j \in 1..Len(e) : k[j] = i
    /\ \A i, j \in 1..Len(e) : k[i] > Len(d) /\ k[j] <= Len(d) => e[j].id # id

(* The outcomes of revision.Write: nothing changed, the file is gone, or    *)
(* the revision is the newest.                                              *)
LEMMA WriteLeaves ==
    ASSUME NEW S, NEW d \in Seq(S), NEW id, NEW x \in S, NEW e,
           e \in {d, without(d, id), Append(without(d, id), x)}
    PROVE  e \in Seq(S) /\ \E k : Written(d, e, id, x, k)
  <1> DEFINE I == {i \in DOMAIN d : d[i].id # id}
             t == without(d, id)
             P == I \cap 1..Len(d)
  <1>0. Len(d) \in Nat /\ DOMAIN d = 1..Len(d)
    OBVIOUS
  <1>1. t = Keep(d, I)
    BY DEF without
  <1>2. \A i \in 1..Len(d) : i \in P <=> d[i].id # id
    BY <1>0
  <1> HIDE DEF I
  <1>3. t \in Seq(S) /\ \E m : Places(d, P, t, m)
    BY <1>1, KeepPlaces
  <1> HIDE DEF t
  <1>4. PICK m : Places(d, P, t, m)
    BY <1>3
  <1>5. P \subseteq 1..Len(d)
    OBVIOUS
  <1> HIDE DEF P
  <1>6. /\ m \in [1..Len(t) -> P] /\ Len(t) \in Nat
        /\ \A i \in 1..Len(t) : m[i] \in 1..Len(d) /\ t[i] = d[m[i]] /\ t[i].id # id
        /\ \A i, j \in 1..Len(t) : i < j => m[i] < m[j]
        /\ \A i \in 1..Len(d) : d[i].id # id => \E j \in 1..Len(t) : m[j] = i
    <2>1. /\ m \in [1..Len(t) -> P] /\ Len(t) \in Nat
          /\ \A i \in 1..Len(t) : t[i] = d[m[i]]
          /\ \A i, j \in 1..Len(t) : i < j => m[i] < m[j]
          /\ \A i \in P : \E j \in 1..Len(t) : m[j] = i
      BY <1>3, <1>4 DEF Places
    <2>2. \A i \in 1..Len(t) : m[i] \in P /\ m[i] \in 1..Len(d)
      BY <1>5, <2>1
    <2>3. ASSUME NEW i \in 1..Len(t) PROVE t[i].id # id
      <3>1. m[i] \in P /\ m[i] \in 1..Len(d)
        BY <2>2
      <3>2. d[m[i]].id # id
        BY <1>2, <3>1, Zenon
      <3>3. t[i] = d[m[i]]
        BY <2>1, Zenon
      <3> QED
        BY <3>2, <3>3, Zenon
    <2>4. ASSUME NEW i \in 1..Len(d), d[i].id # id PROVE \E j \in 1..Len(t) : m[j] = i
      <3>1. i \in P
        BY <1>2, <2>4, Zenon
      <3> QED
        BY <2>1, <3>1, Zenon
    <2> QED
      BY <2>1, <2>2, <2>3, <2>4, Zenon
  <1>7. CASE e = d
    <2> DEFINE k == [i \in 1..Len(d) |-> i]
    <2>1. Written(d, e, id, x, k)
      BY <1>0, <1>7 DEF Written
    <2> QED
      BY <1>7, <2>1
  <1>8. CASE e = t
    <2>1. Written(d, e, id, x, m)
      <3>1. m \in [1..Len(e) -> 1..Len(d) + 1]
        BY <1>0, <1>5, <1>6, <1>8
      <3>2. \A i \in 1..Len(e) : m[i] <= Len(d) /\ ~(m[i] > Len(d))
        BY <1>0, <1>6, <1>8
      <3> QED
        BY <1>6, <1>8, <3>1, <3>2, Zenon DEF Written
    <2> QED
      BY <1>3, <1>8, <2>1
  <1>9. CASE e = Append(t, x)
    <2> DEFINE n == Len(t)
               k == [i \in 1..n + 1 |-> IF i <= n THEN m[i] ELSE Len(d) + 1]
    <2>1. /\ e \in Seq(S) /\ Len(e) = n + 1 /\ e[n + 1] = x
          /\ \A i \in 1..n : e[i] = t[i]
      BY <1>3, <1>9
    <2>2. n \in Nat
      BY <1>6
    <2>3. /\ \A i \in 1..n : k[i] = m[i] /\ k[i] \in 1..Len(d) /\ i # n + 1
          /\ k[n + 1] = Len(d) + 1
          /\ \A i \in 1..n + 1 : i \in 1..n \/ i = n + 1
      BY <1>6, <2>2
    <2>4. k \in [1..n + 1 -> 1..Len(d) + 1]
      <3>1. Len(d) + 1 \in 1..Len(d) + 1 /\ 1..Len(d) \subseteq 1..Len(d) + 1
        BY <1>0
      <3>2. \A i \in 1..n + 1 : k[i] \in 1..Len(d) + 1
        BY <2>3, <3>1, Zenon
      <3>3. k = [i \in 1..n + 1 |-> k[i]]
        BY Zenon
      <3> HIDE DEF k
      <3> QED
        BY <3>2, <3>3, Zenon
    <2> HIDE DEF k, n
    <2>5. \A i \in 1..n + 1 : e[i] = IF k[i] <= Len(d) THEN d[k[i]] ELSE x
      <3> TAKE i \in 1..n + 1
      <3>1. CASE i \in 1..n
        BY <1>0, <1>6, <2>1, <2>3, <3>1 DEF n
      <3>2. CASE i = n + 1
        BY <1>0, <2>1, <2>3, <3>2
      <3> QED
        BY <2>3, <3>1, <3>2
    <2>6. \A i, j \in 1..n + 1 : i < j => k[i] < k[j]
      <3> TAKE i, j \in 1..n + 1
      <3>1. CASE i \in 1..n /\ j \in 1..n
        BY <1>6, <2>3, <3>1 DEF n
      <3>2. CASE i \in 1..n /\ j = n + 1
        BY <1>0, <2>3, <3>2
      <3>3. CASE i = n + 1
        BY <2>2, <3>3
      <3> QED
        BY <2>3, <3>1, <3>2, <3>3
    <2>7. \A i \in 1..Len(d) : d[i].id # id => \E j \in 1..n + 1 : k[j] = i
      <3> SUFFICES ASSUME NEW i \in 1..Len(d), d[i].id # id PROVE \E j \in 1..n + 1 : k[j] = i
        OBVIOUS
      <3>1. PICK j \in 1..n : m[j] = i
        BY <1>6 DEF n
      <3>2. j \in 1..n + 1 /\ k[j] = i
        BY <2>2, <2>3, <3>1
      <3> QED
        BY <3>2
    <2>8. \A j \in 1..n + 1 : k[j] <= Len(d) => e[j].id # id
      <3> SUFFICES ASSUME NEW j \in 1..n + 1, k[j] <= Len(d) PROVE e[j].id # id
        OBVIOUS
      <3>1. j \in 1..n
        BY <1>0, <2>3
      <3> QED
        BY <1>6, <2>1, <3>1 DEF n
    <2>9. Written(d, e, id, x, k)
      BY <2>1, <2>4, <2>5, <2>6, <2>7, <2>8 DEF Written
    <2> QED
      BY <2>1, <2>9
  <1> QED
    BY <1>7, <1>8, <1>9 DEF t

(* What is there after the write was there before, or is what was written.  *)
LEMMA WriteFrom ==
    ASSUME NEW S, NEW d \in Seq(S), NEW e \in Seq(S), NEW id, NEW x, NEW k,
           Written(d, e, id, x, k), NEW i \in DOMAIN e
    PROVE  \/ k[i] \in DOMAIN d /\ e[i] = d[k[i]]
           \/ k[i] = Len(d) + 1 /\ e[i] = x
  <1>1. i \in 1..Len(e) /\ Len(d) \in Nat /\ DOMAIN d = 1..Len(d)
    OBVIOUS
  <1>2. k[i] \in 1..Len(d) + 1 /\ e[i] = IF k[i] <= Len(d) THEN d[k[i]] ELSE x
    BY <1>1 DEF Written
  <1> QED
    BY <1>1, <1>2

-----------------------------------------------------------------------------
(* Types.                                                                   *)

(* The initial state has its types.                                         *)
LEMMA TypeStarts == Init => DataPlaneTypeOK
  <1> SUFFICES ASSUME Init PROVE DataPlaneTypeOK
    OBVIOUS
  <1>1. NoPlane \in Plane
    BY DEF NoPlane, Plane, NoStatus, Status
  <1>2. plane \in [Planes -> Plane] /\ \A p \in Planes : ~plane[p].exists
    BY <1>1 DEF Init, NoPlane
  <1>3. job \in Job /\ job.pc = "idle"
    BY DEF Init, NoJob, Job, PCs, NoShadow, ShadowState
  <1>4. running \in [Envs -> Contents]
    <2>1. <<>> \in [{} -> Refs]
      OBVIOUS
    <2>2. <<>> \in Contents
      BY <2>1, TypedContent
    <2> QED
      BY <2>2 DEF Init
  <1>5. disk \in Seq(Revision) /\ crs \subseteq Revision /\ nextID \in Nat /\ relGen \in [Releases -> Nat]
    BY DEF Init
  <1>6. edits \in 0..MaxEdits /\ faults \in 0..MaxFaults /\ unlisted \in 0..MaxUnlisted
    BY DataPlaneAssumption DEF Init
  <1> QED
    BY <1>2, <1>3, <1>4, <1>5, <1>6 DEF DataPlaneTypeOK

(* A user's edit of a plane keeps the types.                                *)
LEMMA EditTyped ==
    ASSUME DataPlaneTypeOK, NEW p \in Planes, NEW next \in Plane, Edit(p, next),
           next.exists => next.release \in Releases /\ next.env \in Envs
    PROVE  DataPlaneTypeOK'
  <1>1. /\ plane' \in [Planes -> Plane]
        /\ \A x \in Planes : plane'[x].exists => plane'[x].release \in Releases /\ plane'[x].env \in Envs
    BY DEF Edit, DataPlaneTypeOK
  <1>2. edits' \in 0..MaxEdits
    BY DataPlaneAssumption DEF Edit, DataPlaneTypeOK
  <1> QED
    BY <1>1, <1>2 DEF Edit, DataPlaneTypeOK

(* So does everything users do.                                             *)
LEMMA UserTyped == DataPlaneTypeOK /\ User => DataPlaneTypeOK'
  <1> SUFFICES ASSUME DataPlaneTypeOK, User PROVE DataPlaneTypeOK'
    OBVIOUS
  <1>0. \A p \in Planes : plane[p] \in Plane
    BY DEF DataPlaneTypeOK
  <1>1. ASSUME NEW p \in Planes, NEW r \in Releases, NEW e \in Envs, CreatePlane(p, r, e)
        PROVE  DataPlaneTypeOK'
    <2> DEFINE next == [exists |-> TRUE, deleting |-> FALSE, finalizer |-> FALSE, gen |-> 1,
                        release |-> r, env |-> e, status |-> NoStatus]
    <2>1. next \in Plane /\ next.release \in Releases /\ next.env \in Envs
      BY DEF Plane, NoStatus, Status
    <2>2. Edit(p, next)
      BY <1>1, Zenon DEF CreatePlane
    <2> HIDE DEF next
    <2> QED
      BY <2>1, <2>2, EditTyped
  <1>2. ASSUME NEW p \in Planes, NEW r \in Releases, NEW e \in Envs, EditPlane(p, r, e)
        PROVE  DataPlaneTypeOK'
    <2> DEFINE next == [plane[p] EXCEPT !.gen = @ + 1, !.release = r, !.env = e]
    <2>1. next \in Plane /\ next.release \in Releases /\ next.env \in Envs
      <3>1. plane[p].gen + 1 \in Nat
        BY <1>0 DEF Plane
      <3>2. next \in Plane
        BY <1>0, <3>1 DEF Plane
      <3>3. next.release = r /\ next.env = e
        BY <1>0 DEF Plane
      <3> QED
        BY <3>2, <3>3, Zenon
    <2>2. Edit(p, next)
      BY <1>2, Zenon DEF EditPlane
    <2> HIDE DEF next
    <2> QED
      BY <2>1, <2>2, EditTyped
  <1>3. ASSUME NEW p \in Planes, DeletePlane(p)
        PROVE  DataPlaneTypeOK'
    <2> DEFINE next == IF plane[p].finalizer THEN [plane[p] EXCEPT !.deleting = TRUE] ELSE NoPlane
    <2>1. next \in Plane
      <3>1. NoPlane \in Plane
        BY DEF NoPlane, Plane, NoStatus, Status
      <3> QED
        BY <1>0, <3>1 DEF Plane
    <2>2. next.exists => next.release \in Releases /\ next.env \in Envs
      BY <1>0, <1>3 DEF NoPlane, Plane, DataPlaneTypeOK, DeletePlane
    <2>3. Edit(p, next)
      BY <1>3, Zenon DEF DeletePlane
    <2> HIDE DEF next
    <2> QED
      BY <2>1, <2>2, <2>3, EditTyped
  <1>4. ASSUME NEW r \in Releases, EditRelease(r)
        PROVE  DataPlaneTypeOK'
    BY <1>4 DEF EditRelease, DataPlaneTypeOK
  <1> QED
    BY <1>1, <1>2, <1>3, <1>4 DEF User

(* The first steps of Reconcile keep the types.                             *)
LEMMA ReconcileTyped ==
    ASSUME DataPlaneTypeOK, NEW p \in Planes, Reconcile(p)
    PROVE  DataPlaneTypeOK'
  <1>0. plane[p] \in Plane
    BY DEF DataPlaneTypeOK
  <1>1. CASE AddFinalizer(p)
    <2>1. /\ plane' \in [Planes -> Plane]
          /\ \A x \in Planes : plane'[x].exists => plane'[x].release \in Releases /\ plane'[x].env \in Envs
      BY <1>0, <1>1 DEF AddFinalizer, DataPlaneTypeOK, Plane
    <2> QED
      BY <1>1, <2>1 DEF AddFinalizer, others, DataPlaneTypeOK
  <1>2. CASE reconcileDelete(p)
    <2>1. /\ plane' \in [Planes -> Plane]
          /\ \A x \in Planes : plane'[x].exists => plane'[x].release \in Releases /\ plane'[x].env \in Envs
      <3>1. NoPlane \in Plane /\ ~NoPlane.exists
        BY DEF NoPlane, Plane, NoStatus, Status
      <3> QED
        BY <1>2, <3>1 DEF reconcileDelete, DataPlaneTypeOK
    <2> QED
      BY <1>2, <2>1 DEF reconcileDelete, others, DataPlaneTypeOK
  <1>3. CASE Fetch(p)
    <2>1. /\ job' \in Job /\ job'.plane \in Planes /\ job'.release \in Releases /\ job'.env \in Envs
      <3>1. plane[p].gen \in Nat /\ plane[p].release \in Releases /\ plane[p].env \in Envs
        BY <1>0, <1>3 DEF Fetch, Plane, DataPlaneTypeOK
      <3>2. NoJob \in Job
        BY DEF NoJob, Job, PCs, NoShadow, ShadowState
      <3>3. job' = [NoJob EXCEPT !.pc = "resolve", !.plane = p, !.gen = plane[p].gen,
                                 !.release = plane[p].release, !.env = plane[p].env]
        BY <1>3 DEF Fetch
      <3>4. job' \in Job
        BY <3>1, <3>2, <3>3 DEF Job, PCs
      <3>5. job'.plane = p /\ job'.release = plane[p].release /\ job'.env = plane[p].env
        BY <3>2, <3>3 DEF Job
      <3> QED
        BY <3>1, <3>4, <3>5
    <2> QED
      BY <1>3, <2>1 DEF Fetch, others, DataPlaneTypeOK
  <1> QED
    BY <1>1, <1>2, <1>3 DEF Reconcile

(* What a shadow pass may return is a shadow state.                         *)
LEMMA ShadowsTyped ==
    ASSUME DataPlaneTypeOK, NEW sh \in Shadows
    PROVE  sh \in ShadowState
  <1>0. nextID \in Nat
    BY DEF DataPlaneTypeOK
  <1>1. NoShadow \in ShadowState
    BY DEF ShadowState, NoShadow
  <1>2. ASSUME NEW x \in [known : {TRUE}, revision : 0..nextID, inSync : BOOLEAN]
        PROVE  x \in ShadowState
    <2>1. 0..nextID \subseteq Nat /\ {TRUE} \subseteq BOOLEAN
      BY <1>0
    <2>2. [known : {TRUE}, revision : 0..nextID, inSync : BOOLEAN]
             \subseteq [known : BOOLEAN, revision : Nat, inSync : BOOLEAN]
      BY <2>1, Zenon
    <2> QED
      BY <2>2, Zenon DEF ShadowState
  <1> QED
    BY <1>1, <1>2 DEF Shadows

(* What a job that has not resolved its release yet goes on with.           *)
LEMMA BegunTyped ==
    ASSUME DataPlaneTypeOK, HeldInv, job.pc = "resolve", NEW sh \in Shadows
    PROVE  /\ job.plane \in Planes /\ job.release \in Releases /\ job.env \in Envs
           /\ sh \in ShadowState
           /\ relGen[job.release] \in 1..Len(Declared[job.release])
           /\ wanted \in Contents /\ wanted \in AllDeclared
           /\ Begun(sh) \in Job
           /\ Begun(sh).plane = job.plane /\ Begun(sh).gen = job.gen
           /\ Begun(sh).release = job.release /\ Begun(sh).env = job.env
           /\ Begun(sh).relGen = relGen[job.release] /\ Begun(sh).shadow = sh
           /\ Begun(sh).todo = job.todo /\ Begun(sh).promoted = job.promoted
           /\ Begun(sh).rev = job.rev /\ Begun(sh).ok = job.ok
  <1>1. job.plane \in Planes /\ job.release \in Releases /\ job.env \in Envs /\ job \in Job
    BY DEF DataPlaneTypeOK
  <1>2. nextID \in Nat
    BY DEF DataPlaneTypeOK
  <1>3. sh \in ShadowState
    BY ShadowsTyped
  <1>4. relGen[job.release] \in 1..Len(Declared[job.release]) /\ relGen[job.release] \in Nat
    BY <1>1 DEF HeldInv, DataPlaneTypeOK
  <1>5. wanted \in Contents /\ wanted \in AllDeclared
    BY <1>1, <1>4, ContentDeclared, Zenon DEF wanted
  <1>6. Begun(sh) \in Job
    BY <1>1, <1>3, <1>4 DEF Begun, Job
  <1>7. /\ Begun(sh).plane = job.plane /\ Begun(sh).gen = job.gen
        /\ Begun(sh).release = job.release /\ Begun(sh).env = job.env
        /\ Begun(sh).relGen = relGen[job.release] /\ Begun(sh).shadow = sh
        /\ Begun(sh).todo = job.todo /\ Begun(sh).promoted = job.promoted
        /\ Begun(sh).rev = job.rev /\ Begun(sh).ok = job.ok
    BY <1>1 DEF Begun, Job
  <1> QED
    BY <1>1, <1>3, <1>4, <1>5, <1>6, <1>7

(* A shadow pass counts the reads that fail.                                *)
LEMMA ShadowTyped ==
    ASSUME DataPlaneTypeOK, NEW sh, NEW d, NEW r, NEW g, NEW before, Shadow(sh, d, r, g, before)
    PROVE  unlisted' \in 0..MaxUnlisted
  BY DataPlaneAssumption DEF Shadow, DataPlaneTypeOK

(* So does a call that fails.                                               *)
LEMMA FaultTyped ==
    ASSUME DataPlaneTypeOK, Fault \/ NoFault
    PROVE  faults' \in 0..MaxFaults
  BY DataPlaneAssumption DEF Fault, NoFault, DataPlaneTypeOK

(* The end of a reconcile is typed.                                         *)
LEMMA NoJobTyped == NoJob \in Job /\ NoJob.pc = "idle" /\ ~NoJob.promoted /\ NoJob.todo = <<>>
  BY DEF NoJob, Job, PCs, NoShadow, ShadowState

(* The steps of Run before anything is deployed keep the types.             *)
LEMMA RunTyped ==
    ASSUME DataPlaneTypeOK, HeldInv, Skip \/ RunInSync \/ RunViolation \/ PlanFails
    PROVE  DataPlaneTypeOK'
  <1>1. CASE Skip
    BY <1>1, NoJobTyped DEF Skip, Resolve, others, DataPlaneTypeOK
  <1>2. CASE RunInSync
    <2>1. PICK sh \in Shadows : Shadow(sh, disk, job.release, relGen[job.release], NoShadow)
                                /\ job' = [Begun(sh) EXCEPT !.pc = "patch"]
      BY <1>2, Zenon DEF RunInSync
    <2>2. job.pc = "resolve"
      BY <1>2 DEF RunInSync, Resolve
    <2>3. job' \in Job /\ job'.plane \in Planes /\ job'.release \in Releases /\ job'.env \in Envs
      BY <2>1, <2>2, BegunTyped DEF Job, PCs
    <2>4. unlisted' \in 0..MaxUnlisted
      BY <2>1, ShadowTyped
    <2> QED
      BY <1>2, <2>3, <2>4 DEF RunInSync, Resolve, others, DataPlaneTypeOK
  <1>3. CASE RunViolation
    <2>1. PICK sh \in Shadows : Shadow(sh, disk, job.release, relGen[job.release], NoShadow)
                                /\ job' = [Begun(sh) EXCEPT !.pc = "violation"]
      BY <1>3, Zenon DEF RunViolation
    <2>2. job.pc = "resolve"
      BY <1>3 DEF RunViolation, Resolve
    <2>3. job' \in Job /\ job'.plane \in Planes /\ job'.release \in Releases /\ job'.env \in Envs
      BY <2>1, <2>2, BegunTyped DEF Job, PCs
    <2>4. unlisted' \in 0..MaxUnlisted
      BY <2>1, ShadowTyped
    <2> QED
      BY <1>3, <2>3, <2>4 DEF RunViolation, Resolve, others, DataPlaneTypeOK
  <1>4. CASE PlanFails
    <2>1. unlisted' \in 0..MaxUnlisted
      BY <1>4, ShadowTyped DEF PlanFails
    <2> QED
      BY <1>4, <2>1, NoJobTyped DEF PlanFails, Resolve, others, DataPlaneTypeOK
  <1> QED
    BY <1>1, <1>2, <1>3, <1>4

(* Revision IDs, on disk and new ones, are numbers.                         *)
LEMMA RevisionsTyped ==
    ASSUME DataPlaneTypeOK
    PROVE  /\ DOMAIN disk = 1..Len(disk) /\ Len(disk) \in Nat
           /\ \A i \in DOMAIN disk :
                 /\ disk[i] \in Revision
                 /\ disk[i].id \in Nat /\ disk[i].release \in Releases /\ disk[i].env \in Envs
                 /\ disk[i].comps \in Contents
  <1>1. disk \in Seq(Revision)
    BY DEF DataPlaneTypeOK
  <1>2. \A i \in DOMAIN disk : disk[i] \in Revision
    BY <1>1
  <1>3. DOMAIN disk = 1..Len(disk) /\ Len(disk) \in Nat
    BY <1>1
  <1> QED
    BY <1>2, <1>3 DEF Revision

(* A new revision ID is a number.                                           *)
LEMMA NewIDTyped ==
    ASSUME DataPlaneTypeOK, NEW r, NEW e, NEW id \in newIDs(r, e)
    PROVE  id \in Nat
  <1>1. nextID \in Nat
    BY DEF DataPlaneTypeOK
  <1> QED
    BY <1>1, RevisionsTyped DEF newIDs, sameSecondIDs, revisionsOf

(* RunPlan in detail: the pending revision is written, or could not be.     *)
LEMMA RunPlanIs ==
    ASSUME DataPlaneTypeOK, HeldInv, RunPlan
    PROVE  /\ job.pc = "resolve" /\ violations(wanted, job.env) = {}
           /\ UNCHANGED <<relGen, edits, plane, crs, running>>
           /\ unlisted' \in 0..MaxUnlisted /\ faults' \in 0..MaxFaults
           /\ job' \in Job /\ job'.pc = "deploy" /\ job'.plane = job.plane /\ job'.gen = job.gen
           /\ job'.release = job.release /\ job'.env = job.env
           /\ job'.relGen = relGen[job.release] /\ drift(job'.shadow)
           /\ \/ job'.shadow = ShadowOf(disk, job.release, relGen[job.release])
              \/ unlisted' # unlisted
           /\ hasPlan(wanted) /\ job'.todo = planned[wanted] /\ job'.promoted = job.promoted
           /\ \E id \in newIDs(job.release, job.env) :
                 /\ disk' \in {disk, without(disk, id), Append(without(disk, id), pending(id))}
                 /\ nextID' = IF id = nextID THEN nextID + 1 ELSE nextID
                 /\ \/ job'.rev = job.rev
                    \/ job'.rev = id /\ disk' = Append(without(disk, id), pending(id))
  <1>1. /\ job.pc = "resolve" /\ violations(wanted, job.env) = {} /\ hasPlan(wanted)
        /\ UNCHANGED <<relGen, edits, plane, crs, running>>
    BY DEF RunPlan, Resolve, others
  <1>2. PICK sh \in Shadows, id \in newIDs(job.release, job.env) :
           /\ Shadow(sh, disk, job.release, relGen[job.release], NoShadow)
           /\ drift(sh) /\ WritePending(sh, id)
    BY Zenon DEF RunPlan
  <1> DEFINE begun == [Begun(sh) EXCEPT !.pc = "deploy", !.todo = planned[wanted]]
  <1>3. planned[wanted] \in Seq(Comps)
    <2>1. wanted \in AllDeclared /\ wanted \in Contents
      BY <1>1, BegunTyped
    <2>2. planned[wanted] \in Seq(DOMAIN wanted) /\ DOMAIN wanted \subseteq Comps
      BY <2>1, PlannedSound, ContentTyped
    <2> QED
      BY <2>2
  <1>4. begun \in Job
    <2>1. Begun(sh) \in Job
      BY <1>1, BegunTyped
    <2> QED
      BY <2>1, <1>3 DEF Job, PCs
  <1>5. /\ begun.pc = "deploy" /\ begun.plane = job.plane /\ begun.gen = job.gen
        /\ begun.release = job.release /\ begun.env = job.env
        /\ begun.relGen = relGen[job.release] /\ begun.shadow = sh
        /\ begun.todo = planned[wanted] /\ begun.promoted = job.promoted /\ begun.rev = job.rev
    BY <1>1, BegunTyped DEF Job
  <1>6. /\ nextID' = IF id = nextID THEN nextID + 1 ELSE nextID
        /\ \/ /\ disk' = Append(without(disk, id), pending(id))
              /\ job' = [begun EXCEPT !.rev = id]
              /\ NoFault
           \/ /\ disk' \in {disk, without(disk, id), Append(without(disk, id), pending(id))}
              /\ job' = begun
              /\ Fault
    BY <1>2, Zenon DEF WritePending
  <1>7. id \in Nat
    BY NewIDTyped
  <1> HIDE DEF begun
  <1>8. unlisted' \in 0..MaxUnlisted /\ faults' \in 0..MaxFaults
    BY <1>2, <1>6, ShadowTyped, FaultTyped
  <1>9. [begun EXCEPT !.rev = id] \in Job
    BY <1>4, <1>7 DEF Job
  <1>10. LET b == [begun EXCEPT !.rev = id]
         IN  /\ b.pc = "deploy" /\ b.plane = job.plane /\ b.gen = job.gen
             /\ b.release = job.release /\ b.env = job.env
             /\ b.relGen = relGen[job.release] /\ b.shadow = sh
             /\ b.todo = planned[wanted] /\ b.promoted = job.promoted /\ b.rev = id
    BY <1>4, <1>5 DEF Job
  <1>11. sh = ShadowOf(disk, job.release, relGen[job.release]) \/ unlisted' # unlisted
    <2>1. unlisted \in Nat
      BY DEF DataPlaneTypeOK
    <2> QED
      BY <1>2, <2>1 DEF Shadow
  <1>12. disk' \in {disk, without(disk, id), Append(without(disk, id), pending(id))}
    BY <1>6, Zenon
  <1> QED
    BY <1>1, <1>2, <1>4, <1>5, <1>6, <1>8, <1>9, <1>10, <1>11, <1>12, Zenon

(* It keeps the types.                                                      *)
LEMMA RunPlanTyped ==
    ASSUME DataPlaneTypeOK, HeldInv, RunPlan
    PROVE  DataPlaneTypeOK'
  <1>1. job.plane \in Planes /\ job.release \in Releases /\ job.env \in Envs /\ wanted \in Contents
    <2>1. NoShadow \in Shadows
      BY DEF Shadows
    <2> QED
      BY <2>1, RunPlanIs, BegunTyped
  <1>2. disk' \in Seq(Revision) /\ nextID' \in Nat
    <2>1. PICK id \in newIDs(job.release, job.env) :
             /\ disk' \in {disk, without(disk, id), Append(without(disk, id), pending(id))}
             /\ nextID' = IF id = nextID THEN nextID + 1 ELSE nextID
      BY RunPlanIs
    <2>2. nextID \in Nat /\ disk \in Seq(Revision)
      BY DEF DataPlaneTypeOK
    <2>3. id \in Nat
      BY NewIDTyped
    <2>4. pending(id) \in Revision
      BY <1>1, <2>3 DEF pending, Revision
    <2> QED
      BY <2>1, <2>2, <2>4, WriteLeaves
  <1> QED
    BY <1>1, <1>2, RunPlanIs DEF DataPlaneTypeOK

(* Deploy in detail: one component fewer to deploy, which now runs, unless  *)
(* the call failed.                                                         *)
LEMMA DeployIs ==
    ASSUME DataPlaneTypeOK, Deploy
    PROVE  /\ job.pc = "deploy" /\ job.todo # <<>> /\ job.env \in Envs /\ job \in Job
           /\ UNCHANGED <<relGen, edits, plane, disk, nextID, crs, unlisted>>
           /\ faults' \in 0..MaxFaults
           /\ job' \in Job /\ job'.todo = Tail(job.todo) /\ job'.pc = "deploy"
           /\ job'.plane = job.plane /\ job'.gen = job.gen /\ job'.release = job.release
           /\ job'.env = job.env /\ job'.relGen = job.relGen /\ job'.shadow = job.shadow
           /\ job'.rev = job.rev /\ job'.promoted = job.promoted
           /\ running' \in {running, [running EXCEPT ![job.env] = deployed(Head(job.todo))]}
           /\ job'.ok => job.ok /\ running' = [running EXCEPT ![job.env] = deployed(Head(job.todo))]
  <1> DEFINE next == [job EXCEPT !.todo = Tail(@)]
             c == Head(job.todo)
  <1>1. /\ job.pc = "deploy" /\ job.todo # <<>> /\ job.env \in Envs /\ job \in Job
        /\ UNCHANGED <<relGen, edits, plane, disk, nextID, crs, unlisted>>
    BY DEF Deploy, others, DataPlaneTypeOK
  <1>2. \/ /\ running' = [running EXCEPT ![job.env] = deployed(c)]
           /\ job' = next
           /\ NoFault
        \/ /\ running' \in {running, [running EXCEPT ![job.env] = deployed(c)]}
           /\ job' = [next EXCEPT !.ok = FALSE]
           /\ Fault
    BY Zenon DEF Deploy
  <1>3. Tail(job.todo) \in Seq(Comps)
    BY <1>1 DEF Job
  <1>4. next \in Job
    BY <1>1, <1>3 DEF Job
  <1>5. /\ next.todo = Tail(job.todo) /\ next.pc = "deploy" /\ next.plane = job.plane
        /\ next.gen = job.gen /\ next.release = job.release /\ next.env = job.env
        /\ next.relGen = job.relGen /\ next.shadow = job.shadow
        /\ next.rev = job.rev /\ next.promoted = job.promoted /\ next.ok = job.ok
    BY <1>1 DEF Job
  <1> HIDE DEF next
  <1>6. [next EXCEPT !.ok = FALSE] \in Job
    BY <1>4 DEF Job
  <1>7. LET b == [next EXCEPT !.ok = FALSE]
        IN  /\ b.todo = Tail(job.todo) /\ b.pc = "deploy" /\ b.plane = job.plane
            /\ b.gen = job.gen /\ b.release = job.release /\ b.env = job.env
            /\ b.relGen = job.relGen /\ b.shadow = job.shadow
            /\ b.rev = job.rev /\ b.promoted = job.promoted /\ ~b.ok
    BY <1>4, <1>5 DEF Job
  <1>8. running' \in {running, [running EXCEPT ![job.env] = deployed(c)]}
    BY <1>2, Zenon
  <1>9. faults' \in 0..MaxFaults
    BY <1>2, FaultTyped, Zenon
  <1> QED
    BY <1>1, <1>2, <1>4, <1>5, <1>6, <1>7, <1>8, <1>9, Zenon

(* Its component is declared, so what runs is made of references.           *)
LEMMA DeployTyped ==
    ASSUME DataPlaneTypeOK, HeldInv, PlanInv, Deploy
    PROVE  DataPlaneTypeOK'
  <1> DEFINE c == Head(job.todo)
  <1>1. job.pc = "deploy" /\ job.env \in Envs /\ job.release \in Releases /\ job.plane \in Planes
    BY DeployIs DEF DataPlaneTypeOK
  <1>2. jobContent \in Contents
    <2>1. job.relGen \in 1..relGen[job.release] /\ relGen[job.release] \in 1..Len(Declared[job.release])
      BY <1>1 DEF HeldInv, PCs
    <2>2. job.relGen \in 1..Len(Declared[job.release])
      BY <2>1
    <2> QED
      BY <1>1, <2>2, ContentDeclared DEF jobContent
  <1>3. c \in DOMAIN jobContent
    <2>1. job.todo \in Seq(DOMAIN jobContent) /\ job.todo # <<>>
      BY <1>1, DeployIs DEF PlanInv
    <2> QED
      BY <2>1
  <1>4. c \in Comps /\ jobContent[c] \in Refs
    BY <1>2, <1>3, ContentTyped
  <1>5. deployed(c) \in Contents
    <2> DEFINE have == running[job.env]
    <2>1. have \in Contents
      BY <1>1 DEF DataPlaneTypeOK
    <2> HIDE DEF have
    <2>2. DOMAIN have \subseteq Comps /\ have \in [DOMAIN have -> Refs]
      BY <2>1, ContentTyped
    <2>3. DOMAIN have \cup {c} \in SUBSET Comps
      BY <2>2, <1>4
    <2>4. deployed(c) = [x \in DOMAIN have \cup {c} |-> IF x = c THEN jobContent[c] ELSE have[x]]
      BY DEF deployed, jobContent, have
    <2> HIDE DEF c
    <2>5. deployed(c) \in [DOMAIN have \cup {c} -> Refs]
      BY <2>2, <2>4, <1>4
    <2> QED
      BY <2>3, <2>5, TypedContent
  <1> HIDE DEF c
  <1>6. running \in [Envs -> Contents] /\ [running EXCEPT ![job.env] = deployed(c)] \in [Envs -> Contents]
    BY <1>1, <1>5 DEF DataPlaneTypeOK
  <1>7. running' \in [Envs -> Contents]
    BY <1>6, DeployIs DEF c
  <1> QED
    BY <1>1, <1>7, DeployIs DEF DataPlaneTypeOK

(* The outcome written into the job's revision changes only that.           *)
LEMMA RecordedIs ==
    ASSUME DataPlaneTypeOK
    PROVE  /\ recorded \in Seq(Revision) /\ Len(recorded) = Len(disk) /\ DOMAIN recorded = DOMAIN disk
           /\ \A i \in DOMAIN disk :
                 IF disk[i].id = job.rev
                   THEN /\ recorded[i] = [disk[i] EXCEPT !.status = outcome(job.ok)]
                        /\ recorded[i].id = disk[i].id /\ recorded[i].release = disk[i].release
                        /\ recorded[i].env = disk[i].env /\ recorded[i].comps = disk[i].comps
                        /\ recorded[i].status = outcome(job.ok)
                   ELSE recorded[i] = disk[i]
  <1>1. DOMAIN disk = 1..Len(disk) /\ Len(disk) \in Nat /\ \A i \in DOMAIN disk : disk[i] \in Revision
    BY RevisionsTyped
  <1>2. outcome(job.ok) \in {"pending", "promoted", "failed"}
    BY DEF outcome
  <1>3. \A i \in DOMAIN disk : recorded[i] = IF disk[i].id = job.rev
                                               THEN [disk[i] EXCEPT !.status = outcome(job.ok)]
                                               ELSE disk[i]
    BY Zenon DEF recorded
  <1>4. DOMAIN recorded = DOMAIN disk /\ recorded = [i \in DOMAIN disk |-> recorded[i]]
    BY Zenon DEF recorded
  <1> HIDE DEF recorded
  <1>5. ASSUME NEW i \in DOMAIN disk, disk[i].id = job.rev
        PROVE  /\ recorded[i] \in Revision
               /\ recorded[i] = [disk[i] EXCEPT !.status = outcome(job.ok)]
               /\ recorded[i].id = disk[i].id /\ recorded[i].release = disk[i].release
               /\ recorded[i].env = disk[i].env /\ recorded[i].comps = disk[i].comps
               /\ recorded[i].status = outcome(job.ok)
    <2> DEFINE x == [disk[i] EXCEPT !.status = outcome(job.ok)]
    <2>1. recorded[i] = x
      BY <1>3, <1>5, Zenon
    <2>2. disk[i] \in Revision
      BY <1>1
    <2>3. x \in Revision
      BY <2>2, <1>2 DEF Revision
    <2>4. /\ x.id = disk[i].id /\ x.release = disk[i].release /\ x.env = disk[i].env
          /\ x.comps = disk[i].comps /\ x.status = outcome(job.ok)
      BY <2>2 DEF Revision
    <2> QED
      BY <2>1, <2>3, <2>4, Zenon
  <1>6. \A i \in DOMAIN disk : disk[i].id # job.rev => recorded[i] = disk[i]
    BY <1>3, Zenon
  <1>7. \A i \in DOMAIN disk : recorded[i] \in Revision
    BY <1>1, <1>5, <1>6, Zenon
  <1>8. recorded \in [1..Len(disk) -> Revision]
    BY <1>1, <1>4, <1>7, Zenon
  <1>9. recorded \in Seq(Revision) /\ Len(recorded) = Len(disk)
    BY <1>1, <1>8
  <1> QED
    BY <1>4, <1>5, <1>6, <1>9, Zenon

(* Record in detail.                                                        *)
LEMMA RecordIs ==
    ASSUME DataPlaneTypeOK, Record
    PROVE  /\ job.pc = "deploy" /\ job.plane \in Planes /\ job.release \in Releases /\ job.env \in Envs
           /\ job.todo = <<>> /\ UNCHANGED <<relGen, edits, plane, nextID, crs, running>>
           /\ faults' \in 0..MaxFaults /\ unlisted' \in 0..MaxUnlisted
           /\ job' \in Job /\ job'.pc = "patch" /\ job'.todo = job.todo
           /\ job'.plane = job.plane /\ job'.gen = job.gen /\ job'.release = job.release
           /\ job'.env = job.env /\ job'.relGen = job.relGen /\ job'.rev = job.rev
           /\ job'.shadow = ShadowOf(disk', job.release, job.relGen) \/ job'.shadow = job.shadow
           /\ job'.promoted => job.ok /\ job.rev # 0 /\ disk' = recorded
           /\ disk' \in {disk, without(disk, job.rev), recorded}
           /\ job.rev = 0 => disk' = disk
  <1>1. /\ job.pc = "deploy" /\ job.plane \in Planes /\ job.release \in Releases /\ job.env \in Envs
        /\ job.todo = <<>> /\ job \in Job /\ UNCHANGED <<relGen, edits, plane, nextID, crs, running>>
    BY DEF Record, others, DataPlaneTypeOK
  <1>2. PICK sh \in Shadows, stored \in BOOLEAN :
         /\ IF stored
              THEN /\ job.rev # 0
                   /\ disk' = recorded
                   /\ NoFault
              ELSE \/ job.rev = 0 /\ UNCHANGED disk /\ NoFault
                   \/ /\ job.rev # 0
                      /\ disk' \in {disk, without(disk, job.rev), recorded}
                      /\ Fault
         /\ Shadow(sh, disk', job.release, job.relGen, job.shadow)
         /\ job' = [job EXCEPT !.pc = "patch", !.shadow = sh, !.promoted = stored /\ job.ok]
    BY Zenon DEF Record
  <1>3. sh \in ShadowState
    BY ShadowsTyped
  <1>5. job' \in Job
    <2> DEFINE b == stored /\ job.ok
    <2>1. job' = [job EXCEPT !.pc = "patch", !.shadow = sh, !.promoted = b] /\ b \in BOOLEAN
      BY <1>2
    <2> HIDE DEF b
    <2> QED
      BY <2>1, <1>1, <1>3 DEF Job, PCs
  <1>6. /\ job'.pc = "patch" /\ job'.todo = job.todo
        /\ job'.plane = job.plane /\ job'.gen = job.gen /\ job'.release = job.release
        /\ job'.env = job.env /\ job'.relGen = job.relGen /\ job'.rev = job.rev
        /\ job'.shadow = sh
    BY <1>1, <1>2 DEF Job
  <1>7. job'.promoted = (stored /\ job.ok)
    BY <1>1, <1>2 DEF Job
  <1>8. job'.promoted => job.ok /\ job.rev # 0 /\ disk' = recorded
    BY <1>2, <1>7, Zenon
  <1>9. sh = ShadowOf(disk', job.release, job.relGen) \/ sh = job.shadow
    BY <1>2, Zenon DEF Shadow
  <1>10. unlisted' \in 0..MaxUnlisted
    BY <1>2, ShadowTyped
  <1>11. faults' \in 0..MaxFaults
    <2>1. Fault \/ NoFault
      BY <1>2, Zenon
    <2> QED
      BY <2>1, FaultTyped
  <1>12. disk' \in {disk, without(disk, job.rev), recorded} /\ (job.rev = 0 => disk' = disk)
    BY <1>2, Zenon
  <1> QED
    BY <1>1, <1>5, <1>6, <1>8, <1>9, <1>10, <1>11, <1>12, Zenon

(* It keeps the types.                                                      *)
LEMMA RecordTyped ==
    ASSUME DataPlaneTypeOK, Record
    PROVE  DataPlaneTypeOK'
  <1>1. disk \in Seq(Revision)
    BY DEF DataPlaneTypeOK
  <1>2. disk' \in Seq(Revision)
    BY <1>1, WithoutSome, RecordedIs, RecordIs
  <1> QED
    BY <1>2, RecordIs DEF DataPlaneTypeOK

(* A status that is built has its type.                                     *)
LEMMA StatusTyped ==
    ASSUME NEW j \in Job
    PROVE  /\ buildStatus(j) \in Status
           /\ buildStatus(j).obsGen = j.gen /\ buildStatus(j).obsRel = j.relGen
           /\ buildStatus(j).degraded = Degraded(j.shadow) /\ ~buildStatus(j).violation
  <1>1. j.gen \in Nat /\ j.relGen \in Nat /\ j.shadow \in ShadowState
    BY DEF Job
  <1>2. j.shadow.revision \in Nat
    BY <1>1 DEF ShadowState
  <1>3. Degraded(j.shadow) \in {None, "True", "False"}
    BY DEF Degraded
  <1> QED
    BY <1>1, <1>2, <1>3 DEF buildStatus, Status

(* The steps of Reconcile after Run keep the types.                         *)
LEMMA FinishTyped ==
    ASSUME DataPlaneTypeOK, PatchStatus \/ reconcileViolation \/ upsertBoriRevision
    PROVE  DataPlaneTypeOK'
  <1>0. job \in Job /\ \A p \in Planes : plane[p] \in Plane /\ plane[p].status \in Status
    BY DEF DataPlaneTypeOK, Plane
  <1>1. CASE PatchStatus
    <2>1. job.plane \in Planes /\ job.release \in Releases /\ job.env \in Envs
      BY <1>1 DEF PatchStatus, DataPlaneTypeOK
    <2>2. buildStatus(job) \in Status
      BY <1>0, StatusTyped
    <2>3. /\ plane' \in [Planes -> Plane]
          /\ \A x \in Planes : plane'[x].exists => plane'[x].release \in Releases /\ plane'[x].env \in Envs
      <3>1. plane' = [plane EXCEPT ![job.plane].status = buildStatus(job)]
        BY <1>1 DEF PatchStatus
      <3> HIDE DEF buildStatus
      <3>2. plane \in [Planes -> Plane]
        BY DEF DataPlaneTypeOK
      <3>3. [plane[job.plane] EXCEPT !.status = buildStatus(job)] \in Plane
        BY <1>0, <2>1, <2>2 DEF Plane
      <3>4. plane' \in [Planes -> Plane]
        BY <2>1, <3>1, <3>2, <3>3
      <3>5. \A x \in Planes : /\ plane'[x].exists = plane[x].exists
                              /\ plane'[x].release = plane[x].release /\ plane'[x].env = plane[x].env
        BY <1>0, <2>1, <3>1, <3>2 DEF Plane
      <3> QED
        BY <3>4, <3>5 DEF DataPlaneTypeOK
    <2>4. job' \in Job /\ (job'.pc # "idle" => job'.plane = job.plane
                             /\ job'.release = job.release /\ job'.env = job.env)
      <3>1. job' = IF job.promoted THEN [job EXCEPT !.pc = "upsert"] ELSE NoJob
        BY <1>1 DEF PatchStatus
      <3>2. [job EXCEPT !.pc = "upsert"] \in Job
        BY <1>0 DEF Job, PCs
      <3> QED
        BY <1>0, <3>1, <3>2, NoJobTyped DEF Job
    <2> QED
      BY <1>1, <2>1, <2>3, <2>4 DEF PatchStatus, others, DataPlaneTypeOK
  <1>2. CASE reconcileViolation
    <2>1. job.plane \in Planes
      BY <1>2 DEF reconcileViolation, DataPlaneTypeOK
    <2>2. job.gen \in Nat
      BY <1>0 DEF Job
    <2>3. plane' \in [Planes -> Plane]
      <3> DEFINE st == plane[job.plane].status
                 new == [st EXCEPT !.obsGen = job.gen, !.violation = TRUE, !.degraded = "True"]
      <3>1. new \in Status
        BY <1>0, <2>1, <2>2 DEF Status
      <3>2. plane' = [plane EXCEPT ![job.plane].status = new]
        BY <1>2, Zenon DEF reconcileViolation
      <3> HIDE DEF new
      <3> QED
        BY <1>0, <2>1, <3>1, <3>2, ZenonT(40) DEF DataPlaneTypeOK, Plane
    <2>4. \A x \in Planes : plane'[x].exists => plane'[x].release \in Releases /\ plane'[x].env \in Envs
      BY <1>0, <1>2, <2>1 DEF reconcileViolation, DataPlaneTypeOK, Plane
    <2> QED
      BY <1>2, <2>3, <2>4, NoJobTyped DEF reconcileViolation, others, DataPlaneTypeOK
  <1>3. CASE upsertBoriRevision
    <2>1. crs' \subseteq Revision
      BY <1>3, RevisionsTyped DEF upsertBoriRevision, DataPlaneTypeOK
    <2> QED
      BY <1>3, <2>1, NoJobTyped DEF upsertBoriRevision, others, DataPlaneTypeOK
  <1> QED
    BY <1>1, <1>2, <1>3

(* Every step keeps the types.                                              *)
LEMMA TypeKept == DataPlaneTypeOK /\ HeldInv /\ PlanInv /\ [Next]_vars => DataPlaneTypeOK'
  <1> SUFFICES ASSUME DataPlaneTypeOK, HeldInv, PlanInv, [Next]_vars PROVE DataPlaneTypeOK'
    OBVIOUS
  <1>1. CASE User
    BY <1>1, UserTyped
  <1>2. ASSUME NEW p \in Planes, Reconcile(p) PROVE DataPlaneTypeOK'
    BY <1>2, ReconcileTyped
  <1>3. CASE Work
    BY <1>3, RunTyped, RunPlanTyped, DeployTyped, RecordTyped, FinishTyped DEF Work
  <1>4. CASE Abort
    <2>1. faults' \in 0..MaxFaults
      BY <1>4, FaultTyped DEF Abort
    <2> QED
      BY <1>4, <2>1, NoJobTyped DEF Abort, others, DataPlaneTypeOK
  <1>5. CASE ReplacePod
    <2>1. faults' \in 0..MaxFaults
      BY <1>5, FaultTyped DEF ReplacePod
    <2>2. disk' \in Seq(Revision)
      BY <1>5 DEF ReplacePod
    <2> QED
      BY <1>5, <2>1, <2>2, NoJobTyped DEF ReplacePod, others, DataPlaneTypeOK
  <1>6. CASE UNCHANGED vars
    BY <1>6 DEF vars, DataPlaneTypeOK
  <1> QED
    BY <1>1, <1>2, <1>3, <1>4, <1>5, <1>6 DEF Next

-----------------------------------------------------------------------------
(* Generations and the finalizer.                                           *)

(* The initial state.                                                       *)
LEMMA HeldStarts == Init => HeldInv
  <1> SUFFICES ASSUME Init PROVE HeldInv
    OBVIOUS
  <1>1. \A r \in Releases : relGen[r] \in 1..Len(Declared[r])
    <2> TAKE r \in Releases
    <2>1. Declared[r] \in Seq(Contents) /\ Declared[r] # <<>>
      BY DataPlaneAssumption
    <2>2. Len(Declared[r]) \in Nat /\ Len(Declared[r]) # 0
      BY <2>1
    <2> QED
      BY <2>2 DEF Init
  <1>2. \A p \in Planes : plane[p].status.obsGen <= plane[p].gen /\ ~plane[p].exists
    BY DEF Init, NoPlane, NoStatus
  <1>3. job.pc = "idle"
    BY NoJobTyped DEF Init
  <1> QED
    BY <1>1, <1>2, <1>3 DEF HeldInv

(* An edit of the job's plane gives it a later generation or leaves what    *)
(* the job read.                                                            *)
LEMMA EditHeld ==
    ASSUME DataPlaneTypeOK, HeldInv, NEW p \in Planes, NEW next, Edit(p, next),
           next.status.obsGen <= next.gen, next.exists => next.gen > 0,
           job.pc # "idle" /\ p = job.plane =>
              /\ next.exists /\ next.finalizer /\ job.gen <= next.gen
              /\ next.gen = job.gen => next.release = job.release /\ next.env = job.env
    PROVE  HeldInv'
  <1>1. /\ plane' = [plane EXCEPT ![p] = next] /\ plane \in [Planes -> Plane]
        /\ UNCHANGED <<relGen, job>>
    BY DEF Edit, DataPlaneTypeOK
  <1>2. plane'[p] = next /\ \A x \in Planes : x # p => plane'[x] = plane[x]
    BY <1>1
  <1>3. job.pc # "idle" => job.plane \in Planes
    BY DEF DataPlaneTypeOK
  <1>4. \A x \in Planes : /\ plane'[x].status.obsGen <= plane'[x].gen
                          /\ plane'[x].exists => plane'[x].gen > 0
    BY <1>2, Zenon DEF HeldInv
  <1>5. job.pc # "idle" => /\ plane'[job.plane].exists /\ plane'[job.plane].finalizer
                           /\ job.gen <= plane'[job.plane].gen
                           /\ plane'[job.plane].gen = job.gen => plane'[job.plane].release = job.release
                                                                 /\ plane'[job.plane].env = job.env
    BY <1>2, <1>3, Zenon DEF HeldInv
  <1> QED
    BY <1>1, <1>4, <1>5, Zenon DEF HeldInv

(* Users.                                                                   *)
LEMMA UserHeld == DataPlaneTypeOK /\ HeldInv /\ User => HeldInv'
  <1> SUFFICES ASSUME DataPlaneTypeOK, HeldInv, User PROVE HeldInv'
    OBVIOUS
  <1>0. /\ \A p \in Planes : plane[p] \in Plane /\ plane[p].gen \in Nat /\ plane[p].status.obsGen \in Nat
        /\ job.gen \in Nat
    BY DEF DataPlaneTypeOK, Plane, Status, Job
  <1>1. ASSUME NEW p \in Planes, NEW r \in Releases, NEW e \in Envs, CreatePlane(p, r, e)
        PROVE  HeldInv'
    <2> DEFINE next == [exists |-> TRUE, deleting |-> FALSE, finalizer |-> FALSE, gen |-> 1,
                        release |-> r, env |-> e, status |-> NoStatus]
    <2>1. next.status.obsGen <= next.gen /\ next.gen > 0
      BY DEF NoStatus
    <2>2. Edit(p, next) /\ ~plane[p].exists
      BY <1>1, Zenon DEF CreatePlane
    <2>3. ~(job.pc # "idle" /\ p = job.plane)
      BY <2>2 DEF HeldInv
    <2> HIDE DEF next
    <2> QED
      BY <2>1, <2>2, <2>3, EditHeld
  <1>2. ASSUME NEW p \in Planes, NEW r \in Releases, NEW e \in Envs, EditPlane(p, r, e)
        PROVE  HeldInv'
    <2> DEFINE next == [plane[p] EXCEPT !.gen = @ + 1, !.release = r, !.env = e]
    <2>1. next.gen = plane[p].gen + 1 /\ next.status = plane[p].status
          /\ next.exists = plane[p].exists /\ next.finalizer = plane[p].finalizer
      BY <1>0 DEF Plane
    <2>2. Edit(p, next)
      BY <1>2, Zenon DEF EditPlane
    <2> HIDE DEF next
    <2>3. plane[p].status.obsGen <= plane[p].gen
      BY DEF HeldInv
    <2>4. next.status.obsGen <= next.gen /\ next.gen > 0
      BY <2>1, <2>3, <1>0
    <2>5. ASSUME job.pc # "idle", p = job.plane
          PROVE  next.exists /\ next.finalizer /\ job.gen <= next.gen /\ next.gen # job.gen
      <3>1. plane[p].exists /\ plane[p].finalizer /\ job.gen <= plane[p].gen
        BY <2>5 DEF HeldInv
      <3> QED
        BY <3>1, <2>1, <1>0
    <2> QED
      BY <2>2, <2>4, <2>5, EditHeld
  <1>3. ASSUME NEW p \in Planes, DeletePlane(p)
        PROVE  HeldInv'
    <2> DEFINE next == IF plane[p].finalizer THEN [plane[p] EXCEPT !.deleting = TRUE] ELSE NoPlane
    <2>1. Edit(p, next)
      BY <1>3, Zenon DEF DeletePlane
    <2>2. CASE plane[p].finalizer
      <3>1. next = [plane[p] EXCEPT !.deleting = TRUE]
        BY <2>2
      <3> HIDE DEF next
      <3>2. /\ next.gen = plane[p].gen /\ next.status = plane[p].status
            /\ next.exists = plane[p].exists /\ next.finalizer = plane[p].finalizer
            /\ next.release = plane[p].release /\ next.env = plane[p].env
        BY <1>0, <3>1 DEF Plane
      <3>3. next.status.obsGen <= next.gen /\ (next.exists => next.gen > 0)
        BY <3>2 DEF HeldInv
      <3>4. job.pc # "idle" /\ p = job.plane =>
              /\ next.exists /\ next.finalizer /\ job.gen <= next.gen
              /\ next.gen = job.gen => next.release = job.release /\ next.env = job.env
        BY <3>2 DEF HeldInv
      <3> QED
        BY <2>1, <3>3, <3>4, EditHeld
    <2>3. CASE ~plane[p].finalizer
      <3>1. next = NoPlane
        BY <2>3
      <3> HIDE DEF next
      <3>2. next.status.obsGen <= next.gen /\ ~next.exists
        BY <3>1 DEF NoPlane, NoStatus
      <3>3. ~(job.pc # "idle" /\ p = job.plane)
        BY <2>3 DEF HeldInv
      <3> QED
        BY <2>1, <3>2, <3>3, EditHeld
    <2> QED
      BY <2>2, <2>3
  <1>4. ASSUME NEW r \in Releases, EditRelease(r)
        PROVE  HeldInv'
    <2>1. /\ relGen[r] < Len(Declared[r]) /\ relGen' = [relGen EXCEPT ![r] = @ + 1]
          /\ UNCHANGED <<plane, job>>
      BY <1>4 DEF EditRelease
    <2>2. relGen \in [Releases -> Nat] /\ \A x \in Releases : Len(Declared[x]) \in Nat
      BY DataPlaneAssumption DEF DataPlaneTypeOK
    <2>3. \A x \in Releases : /\ relGen'[x] \in 1..Len(Declared[x]) /\ relGen'[x] \in Nat
                              /\ relGen[x] <= relGen'[x]
      BY <2>1, <2>2 DEF HeldInv
    <2>4. job.pc \in PCs \ {"idle", "resolve"} => job.relGen \in 1..relGen'[job.release]
      <3> SUFFICES ASSUME job.pc \in PCs \ {"idle", "resolve"} PROVE job.relGen \in 1..relGen'[job.release]
        OBVIOUS
      <3>1. job.release \in Releases /\ job.relGen \in 1..relGen[job.release]
        BY DEF HeldInv, DataPlaneTypeOK
      <3> QED
        BY <3>1, <2>2, <2>3
    <2> QED
      BY <2>1, <2>3, <2>4, Zenon DEF HeldInv
  <1> QED
    BY <1>1, <1>2, <1>3, <1>4 DEF User

(* Picking a plane up: it is read with its finalizer.                       *)
LEMMA ReconcileHeld ==
    ASSUME DataPlaneTypeOK, HeldInv, NEW p \in Planes, Reconcile(p)
    PROVE  HeldInv'
  <1>0. plane \in [Planes -> Plane] /\ plane[p] \in Plane /\ plane[p].gen \in Nat
    BY DEF DataPlaneTypeOK, Plane
  <1>1. CASE AddFinalizer(p)
    <2>1. plane' = [plane EXCEPT ![p].finalizer = TRUE] /\ UNCHANGED <<relGen, job>> /\ job.pc = "idle"
      BY <1>1 DEF AddFinalizer, others
    <2>2. \A x \in Planes : /\ plane'[x].status = plane[x].status /\ plane'[x].gen = plane[x].gen
                            /\ plane'[x].exists = plane[x].exists
      BY <1>0, <2>1 DEF Plane
    <2> QED
      BY <2>1, <2>2 DEF HeldInv
  <1>2. CASE reconcileDelete(p)
    <2>1. plane' = [plane EXCEPT ![p] = NoPlane] /\ UNCHANGED <<relGen, job>> /\ job.pc = "idle"
      BY <1>2 DEF reconcileDelete, others
    <2>2. \A x \in Planes : plane'[x] = plane[x] \/ plane'[x] = NoPlane
      BY <1>0, <2>1
    <2>3. NoPlane.status.obsGen <= NoPlane.gen /\ ~NoPlane.exists
      BY DEF NoPlane, NoStatus
    <2> QED
      BY <2>1, <2>2, <2>3 DEF HeldInv
  <1>3. CASE Fetch(p)
    <2>1. /\ job' = [NoJob EXCEPT !.pc = "resolve", !.plane = p, !.gen = plane[p].gen,
                                  !.release = plane[p].release, !.env = plane[p].env]
          /\ UNCHANGED <<relGen, plane>> /\ plane[p].exists /\ plane[p].finalizer
      BY <1>3 DEF Fetch, others
    <2>2. /\ job'.pc = "resolve" /\ job'.plane = p /\ job'.gen = plane[p].gen
          /\ job'.release = plane[p].release /\ job'.env = plane[p].env
      BY <2>1, NoJobTyped DEF Job
    <2> QED
      BY <1>0, <2>1, <2>2 DEF HeldInv
  <1> QED
    BY <1>1, <1>2, <1>3 DEF Reconcile

(* A step of the reconcile that leaves the plane alone.                     *)
LEMMA JobHeld ==
    ASSUME DataPlaneTypeOK, HeldInv, UNCHANGED <<relGen, plane>>,
           \/ job'.pc = "idle"
           \/ /\ job.pc # "idle" /\ job'.plane = job.plane /\ job'.gen = job.gen
              /\ job'.release = job.release /\ job'.env = job.env
              /\ \/ job'.relGen = relGen[job.release]
                 \/ job.pc # "resolve" /\ job'.relGen = job.relGen
    PROVE  HeldInv'
  <1>1. CASE job'.pc = "idle"
    BY <1>1 DEF HeldInv
  <1>2. CASE /\ job.pc # "idle" /\ job'.plane = job.plane /\ job'.gen = job.gen
             /\ job'.release = job.release /\ job'.env = job.env
             /\ \/ job'.relGen = relGen[job.release]
                \/ job.pc # "resolve" /\ job'.relGen = job.relGen
    <2>1. job'.relGen \in 1..relGen[job.release]
      <3>1. job.release \in Releases /\ job.pc \in PCs
        BY <1>2 DEF DataPlaneTypeOK, Job
      <3>2. relGen[job.release] \in 1..Len(Declared[job.release])
        BY <3>1 DEF HeldInv
      <3>3. relGen[job.release] \in 1..relGen[job.release]
        BY <3>2
      <3>4. job.pc # "resolve" => job.relGen \in 1..relGen[job.release]
        BY <1>2, <3>1 DEF HeldInv
      <3> QED
        BY <1>2, <3>3, <3>4, Zenon
    <2> QED
      BY <1>2, <2>1, Zenon DEF HeldInv
  <1> QED
    BY <1>1, <1>2

(* A status written: nothing else of the plane, and no other plane, changes. *)
LEMMA StatusWritten ==
    ASSUME DataPlaneTypeOK, job.pc # "idle", NEW st,
           plane' = [plane EXCEPT ![job.plane].status = st]
    PROVE  /\ job.plane \in Planes
           /\ \A x \in Planes : x # job.plane => plane'[x] = plane[x]
           /\ \A x \in Planes : /\ plane'[x].exists = plane[x].exists /\ plane'[x].gen = plane[x].gen
                                /\ plane'[x].release = plane[x].release /\ plane'[x].env = plane[x].env
                                /\ plane'[x].finalizer = plane[x].finalizer
                                /\ plane'[x].deleting = plane[x].deleting
           /\ plane'[job.plane].status = st
  <1>1. plane \in [Planes -> Plane] /\ job.plane \in Planes /\ plane[job.plane] \in Plane
    BY DEF DataPlaneTypeOK
  <1>2. plane'[job.plane] = [plane[job.plane] EXCEPT !.status = st]
        /\ \A x \in Planes : x # job.plane => plane'[x] = plane[x]
    BY <1>1
  <1>3. plane'[job.plane].status = st /\ plane'[job.plane].exists = plane[job.plane].exists
        /\ plane'[job.plane].gen = plane[job.plane].gen
        /\ plane'[job.plane].release = plane[job.plane].release
        /\ plane'[job.plane].env = plane[job.plane].env
        /\ plane'[job.plane].finalizer = plane[job.plane].finalizer
        /\ plane'[job.plane].deleting = plane[job.plane].deleting
    BY <1>1, <1>2 DEF Plane
  <1> QED
    BY <1>1, <1>2, <1>3, Zenon

(* PatchStatus in detail.                                                   *)
LEMMA PatchIs ==
    ASSUME DataPlaneTypeOK, PatchStatus
    PROVE  /\ job.pc = "patch" /\ job \in Job
           /\ UNCHANGED <<relGen, disk, nextID, crs, running>>
           /\ plane' = [plane EXCEPT ![job.plane].status = buildStatus(job)]
           /\ \/ job' = NoJob
              \/ /\ job.promoted /\ job'.pc = "upsert" /\ job'.promoted = job.promoted
                 /\ job'.plane = job.plane /\ job'.gen = job.gen /\ job'.release = job.release
                 /\ job'.env = job.env /\ job'.relGen = job.relGen /\ job'.rev = job.rev
                 /\ job'.todo = job.todo
  <1>1. job \in Job
    BY DEF DataPlaneTypeOK
  <1>2. LET b == [job EXCEPT !.pc = "upsert"]
        IN  /\ b.pc = "upsert" /\ b.promoted = job.promoted
            /\ b.plane = job.plane /\ b.gen = job.gen /\ b.release = job.release
            /\ b.env = job.env /\ b.relGen = job.relGen /\ b.rev = job.rev /\ b.todo = job.todo
    BY <1>1 DEF Job
  <1>3. /\ job.pc = "patch" /\ UNCHANGED <<relGen, disk, nextID, crs, running>>
        /\ plane' = [plane EXCEPT ![job.plane].status = buildStatus(job)]
        /\ job' = IF job.promoted THEN [job EXCEPT !.pc = "upsert"] ELSE NoJob
    BY DEF PatchStatus, others
  <1> QED
    BY <1>1, <1>2, <1>3, Zenon

(* reconcileViolation in detail.                                            *)
LEMMA ViolationIs ==
    ASSUME DataPlaneTypeOK, reconcileViolation
    PROVE  /\ job.pc = "violation" /\ job' = NoJob
           /\ UNCHANGED <<relGen, disk, nextID, crs, running>>
           /\ \E st \in Status : /\ plane' = [plane EXCEPT ![job.plane].status = st]
                                 /\ st.obsGen = job.gen /\ st.violation
  <1> DEFINE old == plane[job.plane].status
             st == [old EXCEPT !.obsGen = job.gen, !.violation = TRUE, !.degraded = "True"]
  <1>1. /\ job.pc = "violation" /\ job' = NoJob /\ UNCHANGED <<relGen, disk, nextID, crs, running>>
        /\ plane' = [plane EXCEPT ![job.plane].status = st]
    BY Zenon DEF reconcileViolation, others
  <1>2. job.gen \in Nat /\ job.plane \in Planes
    BY <1>1 DEF DataPlaneTypeOK, Job
  <1>3. old \in Status
    BY <1>2 DEF DataPlaneTypeOK, Plane
  <1> HIDE DEF old
  <1>4. st \in Status /\ st.obsGen = job.gen /\ st.violation
    BY <1>2, <1>3 DEF Status
  <1> HIDE DEF st
  <1> QED
    BY <1>1, <1>4, Zenon

(* A status with the generation the job read is not ahead of the plane.     *)
LEMMA StatusHeld ==
    ASSUME DataPlaneTypeOK, HeldInv, job.pc # "idle", NEW st, st.obsGen = job.gen,
           plane' = [plane EXCEPT ![job.plane].status = st], UNCHANGED relGen,
           \/ job' = NoJob
           \/ /\ job'.plane = job.plane /\ job'.gen = job.gen /\ job'.release = job.release
              /\ job'.env = job.env /\ job'.relGen = job.relGen /\ job.pc # "resolve"
    PROVE  HeldInv'
  <1>1. /\ job.plane \in Planes
        /\ \A x \in Planes : x # job.plane => plane'[x] = plane[x]
        /\ \A x \in Planes : /\ plane'[x].exists = plane[x].exists /\ plane'[x].gen = plane[x].gen
                             /\ plane'[x].release = plane[x].release /\ plane'[x].env = plane[x].env
                             /\ plane'[x].finalizer = plane[x].finalizer
        /\ plane'[job.plane].status = st
    BY StatusWritten
  <1>2. job.gen <= plane[job.plane].gen /\ job.pc \in PCs
    BY DEF HeldInv, DataPlaneTypeOK, Job
  <1>3. \A x \in Planes : plane'[x].status.obsGen <= plane'[x].gen /\ (plane'[x].exists => plane'[x].gen > 0)
    <2> TAKE x \in Planes
    <2>1. plane[x].status.obsGen <= plane[x].gen /\ (plane[x].exists => plane[x].gen > 0)
      BY Zenon DEF HeldInv
    <2>2. CASE x = job.plane
      BY <2>1, <2>2, <1>1, <1>2
    <2>3. CASE x # job.plane
      BY <2>1, <2>3, <1>1
    <2> QED
      BY <2>2, <2>3
  <1>4. CASE job' = NoJob
    BY <1>3, <1>4, NoJobTyped DEF HeldInv
  <1>5. CASE /\ job'.plane = job.plane /\ job'.gen = job.gen /\ job'.release = job.release
             /\ job'.env = job.env /\ job'.relGen = job.relGen /\ job.pc # "resolve"
    <2>1. job.relGen \in 1..relGen[job.release]
      BY <1>2, <1>5 DEF HeldInv
    <2>2. /\ plane[job.plane].exists /\ plane[job.plane].finalizer /\ job.gen <= plane[job.plane].gen
          /\ plane[job.plane].gen = job.gen =>
                plane[job.plane].release = job.release /\ plane[job.plane].env = job.env
      BY DEF HeldInv
    <2>3. /\ plane'[job'.plane].exists /\ plane'[job'.plane].finalizer
          /\ job'.gen <= plane'[job'.plane].gen
          /\ plane'[job'.plane].gen = job'.gen =>
                plane'[job'.plane].release = job'.release /\ plane'[job'.plane].env = job'.env
      BY <1>1, <1>5, <2>2
    <2>4. job'.relGen \in 1..relGen'[job'.release]
      BY <1>5, <2>1
    <2>5. \A r \in Releases : relGen'[r] \in 1..Len(Declared[r])
      BY DEF HeldInv
    <2> QED
      BY <1>3, <2>3, <2>4, <2>5 DEF HeldInv
  <1> QED
    BY <1>4, <1>5

(* Every step keeps the generations in order and the plane held.            *)
LEMMA HeldKept == DataPlaneTypeOK /\ HeldInv /\ [Next]_vars => HeldInv'
  <1> SUFFICES ASSUME DataPlaneTypeOK, HeldInv, [Next]_vars PROVE HeldInv'
    OBVIOUS
  <1>1. CASE User
    BY <1>1, UserHeld
  <1>2. ASSUME NEW p \in Planes, Reconcile(p) PROVE HeldInv'
    BY <1>2, ReconcileHeld
  <1>3. CASE Skip \/ PlanFails \/ upsertBoriRevision \/ Abort \/ ReplacePod
    <2>1. job' = NoJob /\ UNCHANGED <<relGen, plane>>
      BY <1>3 DEF Skip, PlanFails, Resolve, upsertBoriRevision, Abort, ReplacePod, others
    <2> QED
      BY <2>1, NoJobTyped, JobHeld
  <1>4. CASE RunInSync
    <2>1. job.pc = "resolve" /\ UNCHANGED <<relGen, plane>>
      BY <1>4 DEF RunInSync, Resolve, others
    <2>2. PICK sh \in Shadows : job' = [Begun(sh) EXCEPT !.pc = "patch"]
      BY <1>4, Zenon DEF RunInSync
    <2>3. /\ job'.plane = job.plane /\ job'.gen = job.gen /\ job'.release = job.release
          /\ job'.env = job.env /\ job'.relGen = relGen[job.release]
      BY <2>1, <2>2, BegunTyped DEF Job
    <2> QED
      BY <2>1, <2>3, JobHeld
  <1>5. CASE RunViolation
    <2>1. job.pc = "resolve" /\ UNCHANGED <<relGen, plane>>
      BY <1>5 DEF RunViolation, Resolve, others
    <2>2. PICK sh \in Shadows : job' = [Begun(sh) EXCEPT !.pc = "violation"]
      BY <1>5, Zenon DEF RunViolation
    <2>3. /\ job'.plane = job.plane /\ job'.gen = job.gen /\ job'.release = job.release
          /\ job'.env = job.env /\ job'.relGen = relGen[job.release]
      BY <2>1, <2>2, BegunTyped DEF Job
    <2> QED
      BY <2>1, <2>3, JobHeld
  <1>6. CASE RunPlan
    BY <1>6, RunPlanIs, JobHeld
  <1>7. CASE Deploy
    BY <1>7, DeployIs, JobHeld
  <1>8. CASE Record
    BY <1>8, RecordIs, JobHeld
  <1>9. CASE PatchStatus
    <2>1. buildStatus(job).obsGen = job.gen
      BY StatusTyped DEF DataPlaneTypeOK
    <2> QED
      BY <1>9, <2>1, PatchIs, StatusHeld
  <1>10. CASE reconcileViolation
    BY <1>10, ViolationIs, StatusHeld
  <1>11. CASE UNCHANGED vars
    BY <1>11 DEF vars, HeldInv
  <1> QED
    BY <1>1, <1>2, <1>3, <1>4, <1>5, <1>6, <1>7, <1>8, <1>9, <1>10, <1>11 DEF Next, Work

-----------------------------------------------------------------------------
(* What the plan promises.                                                  *)

(* The initial state.                                                       *)
LEMMA PlanStarts == Init => PlanInv
  <1> SUFFICES ASSUME Init PROVE PlanInv
    OBVIOUS
  <1>1. \A e \in Envs : DOMAIN running[e] = {}
    BY DEF Init
  <1>2. job.pc = "idle" /\ DOMAIN job.todo = {} /\ DOMAIN disk = {}
    BY NoJobTyped DEF Init
  <1> QED
    BY <1>1, <1>2 DEF PlanInv, PolicyKept, NothingForbiddenRuns, DependenciesFirst

(* A step that deploys nothing, adds no revision, and goes on or ends.      *)
LEMMA PlanCarries ==
    ASSUME PlanInv, UNCHANGED running, job'.pc # "deploy", job'.todo \in {<<>>, job.todo},
           \A i \in DOMAIN disk' : \E j \in DOMAIN disk : disk'[i].comps = disk[j].comps
    PROVE  PlanInv'
  <1>1. NothingForbiddenRuns'
    BY DEF PlanInv, PolicyKept, NothingForbiddenRuns
  <1>2. DependenciesFirst'
    <2>1. CASE job'.todo = <<>>
      BY <2>1 DEF DependenciesFirst
    <2>2. CASE job'.todo = job.todo
      BY <2>2 DEF PlanInv, PolicyKept, DependenciesFirst
    <2> QED
      BY <2>1, <2>2
  <1>3. \A i \in DOMAIN disk' : Compatible(disk'[i].comps)
    <2> TAKE i \in DOMAIN disk'
    <2>1. PICK j \in DOMAIN disk : disk'[i].comps = disk[j].comps
      OBVIOUS
    <2>2. Compatible(disk[j].comps)
      BY DEF PlanInv, PolicyKept
    <2> QED
      BY <2>1, <2>2
  <1> QED
    BY <1>1, <1>2, <1>3 DEF PlanInv, PolicyKept

(* RunPlan: the plan has no violations and its order is sound.              *)
LEMMA RunPlanPlans ==
    ASSUME DataPlaneTypeOK, HeldInv, PlanInv, RunPlan
    PROVE  PlanInv'
  <1>1. /\ violations(wanted, job.env) = {} /\ UNCHANGED running /\ UNCHANGED relGen
        /\ job'.pc = "deploy" /\ job'.release = job.release /\ job'.env = job.env
        /\ job'.relGen = relGen[job.release] /\ job'.todo = planned[wanted]
    BY RunPlanIs
  <1>2. jobContent' = wanted
    BY <1>1 DEF jobContent, wanted
  <1>3. wanted \in AllDeclared
    <2>1. NoShadow \in Shadows
      BY DEF Shadows
    <2> QED
      BY <2>1, RunPlanIs, BegunTyped
  <1>4. /\ planned[wanted] \in Seq(DOMAIN wanted)
        /\ \A i, j \in 1..Len(planned[wanted]) :
              i <= j => planned[wanted][j] \notin Requires[planned[wanted][i]]
    BY <1>3, PlannedSound
  <1>5. DependenciesFirst'
    <2>1. DOMAIN planned[wanted] = 1..Len(planned[wanted])
      BY <1>4
    <2> QED
      BY <1>1, <1>4, <2>1, Zenon DEF DependenciesFirst
  <1>6. NothingForbiddenRuns'
    BY <1>1 DEF PlanInv, PolicyKept, NothingForbiddenRuns
  <1>7. \A i \in DOMAIN disk' : Compatible(disk'[i].comps)
    <2>1. \A i \in DOMAIN disk : Compatible(disk[i].comps)
      BY DEF PlanInv, PolicyKept
    <2>2. PICK id : disk' \in {disk, without(disk, id), Append(without(disk, id), pending(id))}
      BY RunPlanIs
    <2> DEFINE d == without(disk, id)
    <2>3. /\ d \in Seq(Revision)
          /\ \A i \in DOMAIN d : \E j \in DOMAIN disk : d[i] = disk[j]
      BY WithoutSome DEF DataPlaneTypeOK
    <2>4. pending(id).comps = wanted /\ Compatible(wanted)
      BY <1>1, NoViolation DEF pending
    <2> HIDE DEF d
    <2>5. ASSUME NEW i \in DOMAIN disk'
          PROVE  Compatible(disk'[i].comps)
      <3>1. \/ i \in DOMAIN disk /\ disk'[i] = disk[i]
            \/ i \in DOMAIN d /\ disk'[i] = d[i]
            \/ disk'[i] = pending(id)
        <4>1. CASE disk' = Append(d, pending(id))
          BY <2>3, <4>1
        <4>2. CASE disk' = d
          BY <4>2
        <4> QED
          BY <2>2, <4>1, <4>2 DEF d
      <3> QED
        BY <2>1, <2>3, <2>4, <3>1, Zenon
    <2> QED
      BY <2>5
  <1> QED
    BY <1>1, <1>2, <1>4, <1>5, <1>6, <1>7 DEF PlanInv, PolicyKept

(* Deploy: what it starts is declared, so not forbidden, and what is left   *)
(* keeps its order.                                                         *)
LEMMA DeployPlans ==
    ASSUME DataPlaneTypeOK, PlanInv, Deploy
    PROVE  PlanInv'
  <1> DEFINE c == Head(job.todo)
  <1>1. /\ job.pc = "deploy" /\ job.todo # <<>> /\ job.env \in Envs
        /\ job'.todo = Tail(job.todo) /\ job'.pc = "deploy" /\ job'.release = job.release
        /\ job'.env = job.env /\ job'.relGen = job.relGen /\ UNCHANGED disk
        /\ running' \in {running, [running EXCEPT ![job.env] = deployed(c)]}
    BY DeployIs
  <1>2. /\ job.todo \in Seq(DOMAIN jobContent) /\ violations(jobContent, job.env) = {}
        /\ DependenciesFirst /\ NothingForbiddenRuns
        /\ \A i \in DOMAIN disk : Compatible(disk[i].comps)
    BY <1>1 DEF PlanInv, PolicyKept
  <1>3. jobContent' = jobContent
    BY <1>1 DEF jobContent
  <1>4. c \in DOMAIN jobContent
    BY <1>1, <1>2
  <1>5. job'.todo \in Seq(DOMAIN jobContent)
    <2>1. Tail(job.todo) \in Seq(DOMAIN jobContent)
      BY <1>1, <1>2, HeadTailProperties, Zenon
    <2> QED
      BY <1>1, <2>1, Zenon
  <1>6. DependenciesFirst'
    <2>1. /\ DOMAIN job'.todo = 1..Len(job.todo) - 1 /\ DOMAIN job.todo = 1..Len(job.todo)
          /\ Len(job.todo) \in Nat /\ \A i \in DOMAIN job'.todo : job'.todo[i] = job.todo[i + 1]
      BY <1>1, <1>2
    <2>2. ASSUME NEW i \in DOMAIN job'.todo, NEW j \in DOMAIN job'.todo, i <= j
          PROVE  job'.todo[j] \notin Requires[job'.todo[i]]
      <3>1. i + 1 \in DOMAIN job.todo /\ j + 1 \in DOMAIN job.todo /\ i + 1 <= j + 1
        BY <2>1, <2>2
      <3>2. job.todo[j + 1] \notin Requires[job.todo[i + 1]]
        BY <3>1, <1>2, Zenon DEF DependenciesFirst
      <3> QED
        BY <3>2, <2>1, Zenon
    <2> QED
      BY <2>2 DEF DependenciesFirst
  <1> HIDE DEF c
  <1>7. NothingForbiddenRuns'
    <2>1. CASE running' = running
      BY <2>1, <1>2 DEF NothingForbiddenRuns
    <2>2. CASE running' = [running EXCEPT ![job.env] = deployed(c)]
      <3>1. DOMAIN deployed(c) = DOMAIN running[job.env] \cup {c}
        BY DEF deployed
      <3>2. <<c, job.env>> \notin Forbidden
        BY <1>2, <1>4, NoViolation
      <3>3. running \in [Envs -> Contents]
        BY DEF DataPlaneTypeOK
      <3>4. ASSUME NEW e \in Envs, NEW x \in DOMAIN running'[e] PROVE <<x, e>> \notin Forbidden
        <4>1. CASE e = job.env
          <5>1. x \in DOMAIN running[e] \cup {c}
            BY <4>1, <3>1, <3>3, <2>2, <1>1
          <5> QED
            BY <4>1, <5>1, <3>2, <1>2 DEF NothingForbiddenRuns
        <4>2. CASE e # job.env
          <5>1. x \in DOMAIN running[e]
            BY <4>2, <3>3, <2>2
          <5> QED
            BY <5>1, <1>2 DEF NothingForbiddenRuns
        <4> QED
          BY <4>1, <4>2
      <3> QED
        BY <3>4 DEF NothingForbiddenRuns
    <2> QED
      BY <1>1, <2>1, <2>2
  <1> QED
    BY <1>1, <1>2, <1>3, <1>5, <1>6, <1>7 DEF PlanInv, PolicyKept

(* Every step keeps what the plan promises.                                 *)
LEMMA PlanKept == DataPlaneTypeOK /\ HeldInv /\ PlanInv /\ [Next]_vars => PlanInv'
  <1> SUFFICES ASSUME DataPlaneTypeOK, HeldInv, PlanInv, [Next]_vars PROVE PlanInv'
    OBVIOUS
  <1>1. CASE User \/ (\E p \in Planes : AddFinalizer(p) \/ reconcileDelete(p)) \/ UNCHANGED vars
    <2>1. UNCHANGED <<job, disk, running>>
      BY <1>1 DEF User, CreatePlane, EditPlane, DeletePlane, EditRelease, Edit, AddFinalizer,
                  reconcileDelete, vars
    <2> QED
      BY <2>1 DEF PlanInv, PolicyKept, NothingForbiddenRuns, DependenciesFirst, jobContent
  <1>2. ASSUME NEW p \in Planes, Fetch(p) PROVE PlanInv'
    <2>1. /\ job' = [NoJob EXCEPT !.pc = "resolve", !.plane = p, !.gen = plane[p].gen,
                                  !.release = plane[p].release, !.env = plane[p].env]
          /\ UNCHANGED <<disk, running>>
      BY <1>2 DEF Fetch, others
    <2>2. job'.pc = "resolve" /\ job'.todo = <<>>
      BY <2>1, NoJobTyped DEF Job
    <2> QED
      BY <2>1, <2>2, PlanCarries
  <1>3. CASE Skip \/ PlanFails \/ reconcileViolation \/ upsertBoriRevision \/ Abort
    <2>1. job' = NoJob /\ UNCHANGED <<disk, running>>
      BY <1>3 DEF Skip, PlanFails, Resolve, reconcileViolation, upsertBoriRevision, Abort, others
    <2> QED
      BY <2>1, NoJobTyped, PlanCarries
  <1>4. CASE ReplacePod
    <2>1. job' = NoJob /\ UNCHANGED running /\ DOMAIN disk' = {}
      BY <1>4 DEF ReplacePod, others
    <2> QED
      BY <2>1, NoJobTyped, PlanCarries
  <1>5. CASE RunInSync \/ RunViolation
    <2>1. job.pc = "resolve" /\ UNCHANGED <<disk, running>>
      BY <1>5 DEF RunInSync, RunViolation, Resolve
    <2>2. PICK sh \in Shadows : \/ job' = [Begun(sh) EXCEPT !.pc = "patch"]
                                \/ job' = [Begun(sh) EXCEPT !.pc = "violation"]
      BY <1>5, Zenon DEF RunInSync, RunViolation
    <2>3. job'.pc # "deploy" /\ job'.todo = job.todo
      BY <2>1, <2>2, BegunTyped DEF Job
    <2> QED
      BY <2>1, <2>3, PlanCarries
  <1>6. CASE RunPlan
    BY <1>6, RunPlanPlans
  <1>7. CASE Deploy
    BY <1>7, DeployPlans
  <1>8. CASE Record
    <2>1. /\ job'.pc = "patch" /\ job'.todo = job.todo /\ UNCHANGED running
          /\ disk' \in {disk, without(disk, job.rev), recorded}
      BY <1>8, RecordIs
    <2>2. \A i \in DOMAIN disk' : \E j \in DOMAIN disk : disk'[i].comps = disk[j].comps
      <3>1. CASE disk' = without(disk, job.rev)
        <4>1. disk \in Seq(Revision)
          BY DEF DataPlaneTypeOK
        <4> QED
          BY <3>1, <4>1, WithoutSome
      <3>2. CASE disk' = recorded
        BY <3>2, RecordedIs
      <3>3. CASE disk' = disk
        BY <3>3
      <3> QED
        BY <2>1, <3>1, <3>2, <3>3
    <2> QED
      BY <2>1, <2>2, PlanCarries
  <1>9. CASE PatchStatus
    <2>1. UNCHANGED <<disk, running>> /\ job'.pc # "deploy" /\ job'.todo \in {<<>>, job.todo}
      BY <1>9, PatchIs, NoJobTyped
    <2> QED
      BY <2>1, PlanCarries
  <1> QED
    BY <1>1, <1>2, <1>3, <1>4, <1>5, <1>6, <1>7, <1>8, <1>9 DEF Next, Work, Reconcile

-----------------------------------------------------------------------------
(* What runs.                                                               *)

(* A step that leaves the job alone, or ends it.                            *)
LEMMA JobSteps ==
    ASSUME [Next]_vars
    PROVE  \/ UNCHANGED <<job, disk, nextID, running>>
           \/ job' = NoJob
           \/ \E p \in Planes : Fetch(p)
           \/ RunInSync \/ RunViolation \/ RunPlan \/ Deploy \/ Record \/ PatchStatus
  <1>1. CASE User \/ (\E p \in Planes : AddFinalizer(p) \/ reconcileDelete(p)) \/ UNCHANGED vars
    BY <1>1 DEF User, CreatePlane, EditPlane, DeletePlane, EditRelease, Edit, AddFinalizer,
                reconcileDelete, vars
  <1>2. CASE Skip \/ PlanFails \/ reconcileViolation \/ upsertBoriRevision \/ Abort \/ ReplacePod
    <2>1. job' = NoJob
      BY <1>2 DEF Skip, PlanFails, reconcileViolation, upsertBoriRevision, Abort, ReplacePod
    <2> QED
      BY <2>1
  <1> QED
    BY <1>1, <1>2 DEF Next, Work, Reconcile

(* RunInSync and RunViolation in detail.                                    *)
LEMMA RunEndsIs ==
    ASSUME DataPlaneTypeOK, HeldInv, RunInSync \/ RunViolation
    PROVE  /\ job.pc = "resolve" /\ job.release \in Releases
           /\ UNCHANGED <<disk, nextID, plane, relGen, running>>
           /\ \/ /\ job'.pc = "patch" /\ ~drift(job'.shadow)
                 /\ \/ job'.shadow = ShadowOf(disk, job.release, relGen[job.release])
                    \/ job'.shadow = NoShadow
              \/ job'.pc = "violation"
           /\ job'.plane = job.plane /\ job'.gen = job.gen /\ job'.release = job.release
           /\ job'.env = job.env /\ job'.relGen = relGen[job.release]
           /\ job'.rev = job.rev /\ job'.promoted = job.promoted
  <1>1. job.pc = "resolve" /\ UNCHANGED <<disk, nextID, plane, relGen, running>>
    BY DEF RunInSync, RunViolation, Resolve, others
  <1>2. PICK sh \in Shadows :
           \/ /\ job' = [Begun(sh) EXCEPT !.pc = "patch"] /\ ~drift(sh)
              /\ Shadow(sh, disk, job.release, relGen[job.release], NoShadow)
           \/ job' = [Begun(sh) EXCEPT !.pc = "violation"]
    BY Zenon DEF RunInSync, RunViolation
  <1>3. /\ Begun(sh) \in Job /\ job.release \in Releases
        /\ Begun(sh).plane = job.plane /\ Begun(sh).gen = job.gen
        /\ Begun(sh).release = job.release /\ Begun(sh).env = job.env
        /\ Begun(sh).relGen = relGen[job.release] /\ Begun(sh).shadow = sh
        /\ Begun(sh).promoted = job.promoted /\ Begun(sh).rev = job.rev
    BY <1>1, BegunTyped
  <1>4. /\ job'.plane = job.plane /\ job'.gen = job.gen /\ job'.release = job.release
        /\ job'.env = job.env /\ job'.relGen = relGen[job.release]
        /\ job'.rev = job.rev /\ job'.promoted = job.promoted /\ job'.shadow = sh
        /\ \/ job'.pc = "violation"
           \/ job'.pc = "patch" /\ ~drift(sh)
              /\ Shadow(sh, disk, job.release, relGen[job.release], NoShadow)
    BY <1>2, <1>3 DEF Job
  <1> QED
    BY <1>1, <1>3, <1>4, Zenon DEF Shadow

(* Fetch in detail.                                                         *)
LEMMA FetchIs ==
    ASSUME NEW p, Fetch(p)
    PROVE  /\ job'.pc = "resolve" /\ job'.rev = 0 /\ ~job'.promoted
           /\ UNCHANGED <<disk, nextID, plane, relGen>>
  BY DEF Fetch, NoJob, others

(* Deploy: the component is deployed, unless the call failed.              *)
LEMMA DeployRuns ==
    ASSUME DataPlaneTypeOK, PlanInv, DeployInv, Deploy, job'.ok, NEW c \in DOMAIN jobContent
    PROVE  runs(c)' \/ \E i \in DOMAIN job'.todo : job'.todo[i] = c
  <1> DEFINE h == Head(job.todo)
  <1>1. /\ job.pc = "deploy" /\ job.todo # <<>> /\ job.env \in Envs /\ job \in Job
        /\ job'.todo = Tail(job.todo) /\ job'.release = job.release /\ job'.env = job.env
        /\ job'.relGen = job.relGen /\ job.ok
        /\ running' = [running EXCEPT ![job.env] = deployed(h)]
    BY DeployIs
  <1>2. jobContent' = jobContent
    BY <1>1 DEF jobContent
  <1>3. running \in [Envs -> Contents]
    BY DEF DataPlaneTypeOK
  <1>4. running'[job.env] = deployed(h)
    BY <1>1, <1>3
  <1>5. /\ DOMAIN deployed(h) = DOMAIN running[job.env] \cup {h}
        /\ \A x \in DOMAIN running[job.env] \cup {h} :
              deployed(h)[x] = IF x = h THEN jobContent[h] ELSE running[job.env][x]
    BY DEF deployed, jobContent
  <1>6. /\ job.todo \in Seq(Comps) /\ Len(job.todo) \in Nat /\ DOMAIN job.todo = 1..Len(job.todo)
        /\ h = job.todo[1] /\ DOMAIN Tail(job.todo) = 1..Len(job.todo) - 1
        /\ \A i \in 1..Len(job.todo) - 1 : Tail(job.todo)[i] = job.todo[i + 1]
    <2>1. job.todo \in Seq(Comps)
      BY <1>1 DEF Job
    <2> QED
      BY <1>1, <2>1
  <1> HIDE DEF h
  <1>7. CASE c = h
    BY <1>1, <1>2, <1>4, <1>5, <1>7 DEF runs
  <1>8. CASE c # h /\ runs(c)
    BY <1>1, <1>2, <1>4, <1>5, <1>8 DEF runs
  <1>9. ASSUME c # h, NEW i \in DOMAIN job.todo, job.todo[i] = c
        PROVE  \E j \in DOMAIN job'.todo : job'.todo[j] = c
    <2>1. i \in 1..Len(job.todo) /\ i # 1
      BY <1>6, <1>9
    <2>2. i - 1 \in 1..Len(job.todo) - 1 /\ (i - 1) + 1 = i
      BY <1>6, <2>1
    <2>3. Tail(job.todo)[i - 1] = c
      BY <1>6, <1>9, <2>2
    <2> QED
      BY <1>1, <1>6, <2>2, <2>3
  <1>10. runs(c) \/ \E i \in DOMAIN job.todo : job.todo[i] = c
    BY <1>1 DEF DeployInv
  <1> QED
    BY <1>7, <1>8, <1>9, <1>10

(* What is not left to deploy runs, and what a job has promoted.            *)
LEMMA DeployKept ==
    ASSUME DataPlaneTypeOK, HeldInv, PlanInv, DeployInv, RevisionInv, [Next]_vars
    PROVE  DeployInv'
  <1> DEFINE Deploying == job.pc = "deploy" /\ job.ok =>
                \A c \in DOMAIN jobContent : runs(c) \/ \E i \in DOMAIN job.todo : job.todo[i] = c
             Promoted == job.promoted => \A c \in DOMAIN jobContent : runs(c)
  <1>1. Deploying /\ Promoted
    BY DEF DeployInv
  <1>2. SUFFICES Deploying' /\ Promoted'
    BY DEF DeployInv
  <1>3. ASSUME UNCHANGED running, job'.promoted => job.promoted /\ job'.env = job.env
                  /\ job'.release = job.release /\ job'.relGen = job.relGen
        PROVE  Promoted'
    BY <1>1, <1>3 DEF runs, jobContent
  <1>4. CASE UNCHANGED <<job, disk, nextID, running>>
    BY <1>1, <1>4 DEF runs, jobContent
  <1>5. CASE job' = NoJob
    BY <1>5, NoJobTyped
  <1>6. CASE \E p \in Planes : Fetch(p)
    BY <1>6, FetchIs
  <1>7. CASE RunInSync \/ RunViolation
    <2>1. /\ job.pc = "resolve" /\ job'.pc # "deploy" /\ job'.promoted = job.promoted
      BY <1>7, RunEndsIs
    <2>2. ~job'.promoted
      BY <2>1 DEF RevisionInv
    <2> QED
      BY <2>1, <2>2
  <1>8. CASE RunPlan
    <2>1. /\ job.pc = "resolve" /\ job'.promoted = job.promoted /\ job'.todo = planned[wanted]
          /\ job'.release = job.release /\ job'.relGen = relGen[job.release]
          /\ hasPlan(wanted) /\ UNCHANGED relGen
      BY <1>8, RunPlanIs
    <2>2. ~job'.promoted
      BY <2>1 DEF RevisionInv
    <2>3. jobContent' = wanted
      BY <2>1 DEF jobContent, wanted
    <2>4. wanted \in AllDeclared
      <3>1. NoShadow \in Shadows
        BY DEF Shadows
      <3> QED
        BY <2>1, <3>1, BegunTyped
    <2>5. \A c \in DOMAIN wanted : \E i \in DOMAIN planned[wanted] : planned[wanted][i] = c
      BY <2>1, <2>4, PlannedSound
    <2> QED
      BY <2>1, <2>2, <2>3, <2>5
  <1>9. CASE Deploy
    <2>1. /\ job.pc = "deploy" /\ job'.promoted = job.promoted /\ job'.release = job.release
          /\ job'.relGen = job.relGen /\ UNCHANGED relGen
      BY <1>9, DeployIs
    <2>2. ~job'.promoted
      BY <2>1 DEF RevisionInv
    <2>3. jobContent' = jobContent
      BY <2>1 DEF jobContent
    <2>4. Deploying'
      BY <1>9, <2>3, DeployRuns
    <2> QED
      BY <2>2, <2>4
  <1>10. CASE Record
    <2>1. /\ job.pc = "deploy" /\ job'.pc = "patch" /\ job.todo = <<>> /\ UNCHANGED running
          /\ job'.release = job.release /\ job'.relGen = job.relGen /\ job'.env = job.env
          /\ job'.promoted => job.ok
      BY <1>10, RecordIs
    <2>2. DOMAIN job.todo = {}
      BY <2>1
    <2>3. jobContent' = jobContent /\ \A c : runs(c)' <=> runs(c)
      BY <2>1 DEF jobContent, runs
    <2>4. job.ok => \A c \in DOMAIN jobContent : runs(c)
      BY <1>1, <2>1, <2>2
    <2> QED
      BY <2>1, <2>3, <2>4
  <1>11. CASE PatchStatus
    BY <1>3, <1>11, PatchIs, NoJobTyped
  <1> QED
    BY <1>4, <1>5, <1>6, <1>7, <1>8, <1>9, <1>10, <1>11, JobSteps

-----------------------------------------------------------------------------
(* Revisions.                                                               *)

(* The job's pending revision is the last one, and the only one of its ID.  *)
LEMMA PendingLast ==
    ASSUME DataPlaneTypeOK, RevisionInv, job.pc = "deploy", job.rev # 0
    PROVE  /\ Len(disk) \in DOMAIN disk /\ Len(disk) \in Nat /\ DOMAIN disk = 1..Len(disk)
           /\ \A i \in DOMAIN disk : disk[i].id = job.rev <=> i = Len(disk)
           /\ disk[Len(disk)] = jobRevision("pending") /\ disk[Len(disk)].status = "pending"
  <1>1. disk # <<>> /\ disk[Len(disk)] = jobRevision("pending")
    BY DEF RevisionInv
  <1>2. disk[Len(disk)].id = job.rev /\ disk[Len(disk)].status = "pending"
    BY <1>1 DEF jobRevision
  <1>3. disk \in Seq(Revision)
    BY DEF DataPlaneTypeOK
  <1>4. Len(disk) \in DOMAIN disk /\ Len(disk) \in Nat /\ DOMAIN disk = 1..Len(disk)
    BY <1>1, <1>3
  <1>5. \A i \in DOMAIN disk : disk[i].id = job.rev <=> i = Len(disk)
    BY <1>2, <1>4, Zenon DEF RevisionInv
  <1> QED
    BY <1>1, <1>2, <1>4, <1>5

(* The outcome is written as the newest revision.                           *)
LEMMA RecordedLast ==
    ASSUME DataPlaneTypeOK, RevisionInv, job.pc = "deploy", job.rev # 0
    PROVE  /\ DOMAIN recorded = DOMAIN disk /\ Len(disk) \in DOMAIN disk
           /\ recorded[Len(disk)] = jobRevision(outcome(job.ok))
           /\ \E k : Written(disk, recorded, job.rev, jobRevision(outcome(job.ok)), k)
  <1> DEFINE n == Len(disk)
             x == jobRevision(outcome(job.ok))
  <1>1. /\ n \in DOMAIN disk /\ n \in Nat /\ DOMAIN disk = 1..n
        /\ \A i \in DOMAIN disk : disk[i].id = job.rev <=> i = n
        /\ disk[n] = jobRevision("pending")
    BY PendingLast
  <1>2. /\ Len(recorded) = n /\ DOMAIN recorded = DOMAIN disk
        /\ recorded[n] = [disk[n] EXCEPT !.status = outcome(job.ok)]
        /\ \A i \in DOMAIN disk : i # n => recorded[i] = disk[i]
    BY <1>1, RecordedIs
  <1>3. recorded[n] = x
    BY <1>1, <1>2 DEF jobRevision
  <1> DEFINE k == [i \in 1..n |-> IF i = n THEN n + 1 ELSE i]
  <1> HIDE DEF x, n
  <1>4. /\ \A i \in 1..n : i # n => k[i] = i /\ k[i] <= n /\ ~(k[i] > n)
        /\ k[n] = n + 1 /\ ~(k[n] <= n)
        /\ k \in [1..n -> 1..n + 1]
    BY <1>1
  <1>5. \A i, j \in 1..n : i < j => k[i] < k[j]
    BY <1>1
  <1> HIDE DEF k
  <1>6. \A i \in 1..n : recorded[i] = IF k[i] <= n THEN disk[k[i]] ELSE x
    BY <1>1, <1>2, <1>3, <1>4, Zenon
  <1>7. \A i \in 1..n : disk[i].id # job.rev => \E j \in 1..n : k[j] = i
    BY <1>1, <1>4, Zenon
  <1>8. \A j \in 1..n : k[j] <= n => recorded[j].id # job.rev
    BY <1>1, <1>2, <1>4, Zenon
  <1>9. Written(disk, recorded, job.rev, x, k)
    BY <1>2, <1>4, <1>5, <1>6, <1>7, <1>8 DEF Written, n
  <1> QED
    BY <1>1, <1>2, <1>3, <1>9 DEF n, x

(* What a step does to the revision directory.                              *)
LEMMA DiskSteps ==
    ASSUME DataPlaneTypeOK, HeldInv, RevisionInv, [Next]_vars
    PROVE  \/ UNCHANGED <<disk, nextID>>
           \/ ReplacePod /\ disk' = <<>> /\ UNCHANGED nextID
           \/ \E id \in newIDs(job.release, job.env) : \E k :
                 /\ RunPlan /\ Written(disk, disk', id, pending(id), k)
                 /\ nextID' = IF id = nextID THEN nextID + 1 ELSE nextID
           \/ \E x, k :
                 /\ Record /\ job.pc = "deploy" /\ job.rev # 0 /\ UNCHANGED nextID
                 /\ x = jobRevision(outcome(job.ok)) /\ Written(disk, disk', job.rev, x, k)
  <1>0. disk \in Seq(Revision)
    BY DEF DataPlaneTypeOK
  <1>1. CASE RunPlan
    <2>1. PICK id \in newIDs(job.release, job.env) :
             /\ disk' \in {disk, without(disk, id), Append(without(disk, id), pending(id))}
             /\ nextID' = IF id = nextID THEN nextID + 1 ELSE nextID
      BY <1>1, RunPlanIs
    <2>2. pending(id) \in Revision
      <3>1. NoShadow \in Shadows
        BY DEF Shadows
      <3>2. job.release \in Releases /\ job.env \in Envs /\ wanted \in Contents
        BY <1>1, <3>1, RunPlanIs, BegunTyped
      <3>3. id \in Nat
        BY NewIDTyped
      <3> QED
        BY <3>2, <3>3 DEF pending, Revision
    <2>3. \E k : Written(disk, disk', id, pending(id), k)
      <3> DEFINE x == pending(id)
      <3> HIDE DEF x
      <3>1. x \in Revision /\ disk' \in {disk, without(disk, id), Append(without(disk, id), x)}
        BY <2>1, <2>2 DEF x
      <3>2. \E k : Written(disk, disk', id, x, k)
        BY <1>0, <3>1, WriteLeaves
      <3> QED
        BY <3>2 DEF x
    <2> QED
      BY <1>1, <2>1, <2>3
  <1>2. CASE Record
    <2> DEFINE x == jobRevision(outcome(job.ok))
    <2>1. /\ job.pc = "deploy" /\ UNCHANGED nextID
          /\ disk' \in {disk, without(disk, job.rev), recorded}
          /\ job.rev = 0 => disk' = disk
      BY <1>2, RecordIs
    <2>2. CASE disk' = recorded /\ job.rev # 0
      BY <1>2, <2>1, <2>2, RecordedLast
    <2>3. CASE disk' = without(disk, job.rev) /\ job.rev # 0
      <3>1. recorded[Len(disk)] = x /\ Len(disk) \in DOMAIN recorded /\ recorded \in Seq(Revision)
        BY <2>1, <2>3, RecordedLast, RecordedIs
      <3>2. x \in Revision
        BY <3>1
      <3> HIDE DEF x
      <3>3. \E k : Written(disk, disk', job.rev, x, k)
        BY <1>0, <2>3, <3>2, WriteLeaves
      <3> QED
        BY <1>2, <2>1, <2>3, <3>3 DEF x
    <2> QED
      BY <2>1, <2>2, <2>3
  <1>3. CASE ~RunPlan /\ ~Record
    BY <1>3 DEF Next, User, CreatePlane, EditPlane, DeletePlane, EditRelease, Edit, Reconcile,
                AddFinalizer, reconcileDelete, Fetch, Work, Skip, RunInSync, RunViolation, PlanFails,
                Resolve, Deploy, PatchStatus, reconcileViolation, upsertBoriRevision, Abort,
                ReplacePod, others, vars
  <1> QED
    BY <1>1, <1>2, <1>3

(* A write leaves every file of another ID.                                 *)
LEMMA WriteKeeps ==
    ASSUME NEW d \in Seq(Revision), NEW e \in Seq(Revision), NEW id, NEW x, NEW k,
           Written(d, e, id, x, k), NEW i \in DOMAIN d, d[i].id # id
    PROVE  \E j \in DOMAIN e : e[j] = d[i]
  <1>0. DOMAIN d = 1..Len(d) /\ DOMAIN e = 1..Len(e) /\ Len(d) \in Nat /\ Len(e) \in Nat
    OBVIOUS
  <1>1. PICK j \in 1..Len(e) : k[j] = i
    BY <1>0 DEF Written
  <1>2. e[j] = d[i]
    BY <1>0, <1>1 DEF Written
  <1> QED
    BY <1>0, <1>2

(* It leaves no two files of one ID.                                        *)
LEMMA WriteUnique ==
    ASSUME NEW d \in Seq(Revision), NEW e \in Seq(Revision), NEW id, NEW x, x.id = id, NEW k,
           Written(d, e, id, x, k), \A i, j \in DOMAIN d : d[i].id = d[j].id => i = j
    PROVE  \A i, j \in DOMAIN e : e[i].id = e[j].id => i = j
  <1>0. DOMAIN d = 1..Len(d) /\ DOMAIN e = 1..Len(e) /\ Len(d) \in Nat /\ Len(e) \in Nat
    OBVIOUS
  <1>2. \A i, j \in DOMAIN e : k[i] = k[j] => i = j
    <2> SUFFICES ASSUME NEW i \in DOMAIN e, NEW j \in DOMAIN e, k[i] = k[j], i # j PROVE FALSE
      OBVIOUS
    <2>1. k[i] \in 1..Len(d) + 1 /\ k[j] \in 1..Len(d) + 1
      BY <1>0 DEF Written
    <2>2. k[i] < k[j] \/ k[j] < k[i]
      BY <1>0 DEF Written
    <2> QED
      BY <2>1, <2>2
  <1>3. ASSUME NEW i \in DOMAIN e, NEW j \in DOMAIN e, e[i].id = e[j].id PROVE i = j
    <2>1. CASE k[i] = Len(d) + 1 /\ k[j] = Len(d) + 1
      BY <1>2, <2>1
    <2>2. CASE k[i] \in DOMAIN d /\ e[i] = d[k[i]] /\ k[j] \in DOMAIN d /\ e[j] = d[k[j]]
      BY <1>2, <1>3, <2>2
    <2>3. CASE k[i] \in DOMAIN d /\ k[j] = Len(d) + 1 /\ e[j] = x
      <3>1. k[i] <= Len(d) /\ k[j] > Len(d)
        BY <1>0, <2>3
      <3>2. e[i].id # id
        BY <1>0, <3>1 DEF Written
      <3> QED
        BY <1>3, <2>3, <3>2
    <2>4. CASE k[j] \in DOMAIN d /\ k[i] = Len(d) + 1 /\ e[i] = x
      <3>1. k[j] <= Len(d) /\ k[i] > Len(d)
        BY <1>0, <2>4
      <3>2. e[j].id # id
        BY <1>0, <3>1 DEF Written
      <3> QED
        BY <1>3, <2>4, <3>2
    <2> QED
      BY <2>1, <2>2, <2>3, <2>4, WriteFrom
  <1> QED
    BY <1>3

(* A run takes the next ID, or the one of the last revision of its release  *)
(* and environment.                                                         *)
LEMMA NewIDIs ==
    ASSUME DataPlaneTypeOK, RevisionInv, NEW id \in newIDs(job.release, job.env)
    PROVE  /\ id = nextID \/ id \in 1..nextID - 1
           /\ \A i \in DOMAIN disk : disk[i].id = id =>
                 SameSecond /\ disk[i].release = job.release /\ disk[i].env = job.env
  <1>1. /\ nextID \in Nat /\ nextID > 0 /\ \A i \in DOMAIN disk : disk[i].id \in 1..nextID - 1
        /\ \A i, j \in DOMAIN disk : disk[i].id = disk[j].id => i = j
    BY DEF DataPlaneTypeOK, RevisionInv
  <1>2. CASE id = nextID
    BY <1>1, <1>2
  <1>3. CASE id \in sameSecondIDs(job.release, job.env)
    <2>1. PICK j \in revisionsOf(job.release, job.env) : SameSecond /\ id = disk[j].id
      BY <1>3 DEF sameSecondIDs
    <2>2. j \in DOMAIN disk /\ disk[j].release = job.release /\ disk[j].env = job.env
      BY DEF revisionsOf
    <2> QED
      BY <1>1, <2>1, <2>2
  <1> QED
    BY <1>2, <1>3 DEF newIDs

(* IDs stay different.                                                      *)
LEMMA IDsKept ==
    ASSUME DataPlaneTypeOK, DataPlaneTypeOK', HeldInv, RevisionInv, [Next]_vars
    PROVE  /\ nextID' > 0
           /\ \A i \in DOMAIN disk' : disk'[i].id \in 1..nextID' - 1
           /\ \A i, j \in DOMAIN disk' : disk'[i].id = disk'[j].id => i = j
  <1>0. /\ disk \in Seq(Revision) /\ disk' \in Seq(Revision) /\ nextID \in Nat /\ nextID > 0
        /\ \A i \in DOMAIN disk : disk[i].id \in 1..nextID - 1
        /\ \A i, j \in DOMAIN disk : disk[i].id = disk[j].id => i = j
    BY DEF DataPlaneTypeOK, RevisionInv
  <1>1. CASE UNCHANGED <<disk, nextID>>
    BY <1>0, <1>1
  <1>2. CASE disk' = <<>> /\ UNCHANGED nextID
    BY <1>0, <1>2
  <1>3. ASSUME NEW id, NEW x, NEW k, Written(disk, disk', id, x, k), x.id = id,
               id \in 1..nextID' - 1, nextID' \in Nat, nextID <= nextID'
        PROVE  /\ nextID' > 0
               /\ \A i \in DOMAIN disk' : disk'[i].id \in 1..nextID' - 1
               /\ \A i, j \in DOMAIN disk' : disk'[i].id = disk'[j].id => i = j
    <2>1. \A i, j \in DOMAIN disk' : disk'[i].id = disk'[j].id => i = j
      BY <1>0, <1>3, WriteUnique
    <2>2. ASSUME NEW i \in DOMAIN disk' PROVE disk'[i].id \in 1..nextID' - 1
      <3>1. \/ k[i] \in DOMAIN disk /\ disk'[i] = disk[k[i]]
            \/ disk'[i] = x
        BY <1>0, <1>3, WriteFrom
      <3> QED
        BY <1>0, <1>3, <3>1
    <2> QED
      BY <1>0, <1>3, <2>1, <2>2
  <1>4. ASSUME NEW id \in newIDs(job.release, job.env), NEW k, Written(disk, disk', id, pending(id), k),
               nextID' = IF id = nextID THEN nextID + 1 ELSE nextID
        PROVE  /\ pending(id).id = id /\ id \in 1..nextID' - 1 /\ nextID' \in Nat /\ nextID <= nextID'
    <2>1. id = nextID \/ id \in 1..nextID - 1
      BY NewIDIs
    <2>2. pending(id).id = id
      BY DEF pending
    <2> QED
      BY <1>0, <1>4, <2>1, <2>2
  <1>5. ASSUME job.pc = "deploy", job.rev # 0, UNCHANGED nextID
        PROVE  /\ jobRevision(outcome(job.ok)).id = job.rev
               /\ job.rev \in 1..nextID' - 1 /\ nextID' \in Nat /\ nextID <= nextID'
    <2>1. Len(disk) \in DOMAIN disk /\ disk[Len(disk)].id = job.rev
      BY <1>5, PendingLast
    <2>2. jobRevision(outcome(job.ok)).id = job.rev
      BY DEF jobRevision
    <2> QED
      BY <1>0, <1>5, <2>1, <2>2
  <1> QED
    BY <1>1, <1>2, <1>3, <1>4, <1>5, DiskSteps

(* What the job knows of its revision stays true.                           *)
LEMMA RevisionKept ==
    ASSUME DataPlaneTypeOK, DataPlaneTypeOK', HeldInv, RevisionInv, [Next]_vars
    PROVE  RevisionInv'
  <1>1. /\ nextID' > 0
        /\ \A i \in DOMAIN disk' : disk'[i].id \in 1..nextID' - 1
        /\ \A i, j \in DOMAIN disk' : disk'[i].id = disk'[j].id => i = j
    BY IDsKept
  <1> DEFINE Resolving == job.pc = "resolve" => job.rev = 0 /\ ~job.promoted
             Unpromoted == job.pc = "deploy" => ~job.promoted
             Deploying == job.pc = "deploy" /\ job.rev # 0 =>
                             disk # <<>> /\ disk[Len(disk)] = jobRevision("pending")
             Promoted == job.promoted => \E i \in DOMAIN disk : disk[i] = jobRevision("promoted")
             Upserting == job.pc = "upsert" => job.promoted
  <1>2. Resolving /\ Unpromoted /\ Deploying /\ Promoted /\ Upserting
    BY DEF RevisionInv
  <1>3. SUFFICES Resolving' /\ Unpromoted' /\ Deploying' /\ Promoted' /\ Upserting'
    BY <1>1 DEF RevisionInv
  <1>4. CASE UNCHANGED <<job, disk, nextID, running>>
    BY <1>2, <1>4 DEF jobRevision, jobContent
  <1>5. CASE job' = NoJob
    BY <1>5, NoJobTyped
  <1>6. CASE \E p \in Planes : Fetch(p)
    BY <1>6, FetchIs
  <1>7. CASE RunInSync \/ RunViolation
    <2>1. /\ job.pc = "resolve" /\ job'.pc \in {"patch", "violation"} /\ job'.promoted = job.promoted
      BY <1>7, RunEndsIs
    <2> QED
      BY <1>2, <2>1
  <1>8. CASE RunPlan
    <2>1. /\ job.pc = "resolve" /\ job'.pc = "deploy" /\ job'.release = job.release
          /\ job'.env = job.env /\ job'.relGen = relGen[job.release]
          /\ job'.promoted = job.promoted /\ UNCHANGED relGen
          /\ \/ job'.rev = job.rev
             \/ disk' = Append(without(disk, job'.rev), pending(job'.rev))
      BY <1>8, RunPlanIs
    <2>2. ~job'.promoted /\ job.rev = 0
      BY <1>2, <2>1
    <2>3. jobRevision("pending")' = pending(job'.rev)
      BY <2>1 DEF jobRevision, jobContent, pending, wanted
    <2>4. Deploying'
      <3>1. CASE disk' = Append(without(disk, job'.rev), pending(job'.rev))
        <4>1. without(disk, job'.rev) \in Seq(Revision)
          BY WithoutSome DEF DataPlaneTypeOK
        <4>2. disk' # <<>> /\ disk'[Len(disk')] = pending(job'.rev)
          BY <3>1, <4>1
        <4> QED
          BY <2>3, <4>2
      <3> QED
        BY <2>1, <2>2, <3>1
    <2> QED
      BY <2>1, <2>2, <2>4
  <1>9. CASE Deploy
    <2>1. /\ job.pc = "deploy" /\ job'.pc = "deploy" /\ job'.release = job.release
          /\ job'.env = job.env /\ job'.relGen = job.relGen /\ job'.rev = job.rev
          /\ job'.promoted = job.promoted /\ UNCHANGED disk
      BY <1>9, DeployIs
    <2>2. jobRevision("pending")' = jobRevision("pending")
      BY <2>1 DEF jobRevision, jobContent
    <2> QED
      BY <1>2, <2>1, <2>2
  <1>10. CASE Record
    <2>1. /\ job.pc = "deploy" /\ job'.pc = "patch" /\ job'.rev = job.rev /\ job'.release = job.release
          /\ job'.env = job.env /\ job'.relGen = job.relGen
          /\ job'.promoted => job.ok /\ job.rev # 0 /\ disk' = recorded
      BY <1>10, RecordIs
    <2>2. ASSUME job'.promoted PROVE \E i \in DOMAIN disk' : disk'[i] = jobRevision("promoted")'
      <3>1. outcome(job.ok) = "promoted"
        BY <2>1, <2>2 DEF outcome
      <3>2. Len(disk) \in DOMAIN disk' /\ disk'[Len(disk)] = jobRevision("promoted")
        BY <2>1, <2>2, <3>1, RecordedLast
      <3>3. jobRevision("promoted")' = jobRevision("promoted")
        BY <2>1 DEF jobRevision, jobContent
      <3> QED
        BY <3>2, <3>3
    <2> QED
      BY <2>1, <2>2
  <1>11. CASE PatchStatus
    <2>1. /\ job' # NoJob => /\ job.promoted /\ job'.pc = "upsert" /\ job'.promoted = job.promoted
                             /\ job'.rev = job.rev /\ job'.release = job.release
                             /\ job'.env = job.env /\ job'.relGen = job.relGen
          /\ UNCHANGED disk
      BY <1>11, PatchIs
    <2>2. job' # NoJob => jobRevision("promoted")' = jobRevision("promoted")
      BY <2>1 DEF jobRevision, jobContent
    <2> QED
      BY <1>2, <1>5, <2>1, <2>2
  <1> QED
    BY <1>4, <1>5, <1>6, <1>7, <1>8, <1>9, <1>10, <1>11, JobSteps

(* A finished revision is lost with the directory, or to a run of its       *)
(* release and environment within the second; and the newest promoted one   *)
(* only to a run that found it wanting or could not read the directory.     *)
LEMMA HistoryStep ==
    ASSUME DataPlaneInv, DataPlaneTypeOK', [Next]_vars, NEW i \in DOMAIN disk, disk[i].status # "pending"
    PROVE  \/ \E j \in DOMAIN disk' : disk'[j] = disk[i]
           \/ ReplacePod
           \/ /\ SameSecond /\ job.pc = "resolve"
              /\ disk[i].release = job.release /\ disk[i].env = job.env
              /\ i = latest(disk, job.release) =>
                    ~inSync(wanted, disk[i].comps) \/ unlisted' # unlisted
  <1>0. /\ DataPlaneTypeOK /\ HeldInv /\ RevisionInv
        /\ disk \in Seq(Revision) /\ disk' \in Seq(Revision)
    BY DEF DataPlaneInv, DataPlaneTypeOK
  <1>1. CASE UNCHANGED <<disk, nextID>>
    BY <1>1
  <1>2. CASE ReplacePod
    BY <1>2
  <1>3. ASSUME NEW id \in newIDs(job.release, job.env), NEW k,
               RunPlan, Written(disk, disk', id, pending(id), k)
        PROVE  \/ \E j \in DOMAIN disk' : disk'[j] = disk[i]
               \/ /\ SameSecond /\ job.pc = "resolve"
                  /\ disk[i].release = job.release /\ disk[i].env = job.env
                  /\ i = latest(disk, job.release) =>
                        ~inSync(wanted, disk[i].comps) \/ unlisted' # unlisted
    <2>1. CASE disk[i].id # id
      BY <1>0, <1>3, <2>1, WriteKeeps
    <2>2. CASE disk[i].id = id
      <3>1. SameSecond /\ disk[i].release = job.release /\ disk[i].env = job.env
        BY <1>0, <2>2, NewIDIs
      <3>2. /\ job.pc = "resolve" /\ drift(job'.shadow)
            /\ \/ job'.shadow = ShadowOf(disk, job.release, relGen[job.release])
               \/ unlisted' # unlisted
        BY <1>0, <1>3, RunPlanIs
      <3>3. ASSUME i = latest(disk, job.release),
                   job'.shadow = ShadowOf(disk, job.release, relGen[job.release])
            PROVE  ~inSync(wanted, disk[i].comps)
        <4> DEFINE sh == ShadowOf(disk, job.release, relGen[job.release])
        <4>1. i # 0 /\ disk[i].id # 0
          <5>1. i \in 1..Len(disk) /\ Len(disk) \in Nat
            BY <1>0
          <5>2. disk[i].id \in 1..nextID - 1 /\ nextID \in Nat
            BY <1>0 DEF RevisionInv, DataPlaneTypeOK
          <5> QED
            BY <5>1, <5>2
        <4>2. sh.known /\ sh.revision = disk[i].id /\ sh.inSync = inSync(wanted, disk[i].comps)
          BY <3>3, <4>1 DEF ShadowOf, wanted
        <4> HIDE DEF sh
        <4>3. drift(sh)
          BY <3>2, <3>3 DEF sh
        <4> QED
          BY <4>1, <4>2, <4>3 DEF drift
      <3> QED
        BY <3>1, <3>2, <3>3
    <2> QED
      BY <2>1, <2>2
  <1>4. ASSUME NEW x, NEW k, job.pc = "deploy", job.rev # 0,
               x = jobRevision(outcome(job.ok)), Written(disk, disk', job.rev, x, k)
        PROVE  \E j \in DOMAIN disk' : disk'[j] = disk[i]
    <2>1. disk[i].id # job.rev
      BY <1>0, <1>4, PendingLast
    <2> QED
      BY <1>0, <1>4, <2>1, WriteKeeps
  <1> QED
    BY <1>0, <1>1, <1>2, <1>3, <1>4, DiskSteps

(* A CR is made for what the job has promoted, and that runs.               *)
LEMMA CRStep ==
    ASSUME DataPlaneInv, [Next]_vars, NEW cr \in crs' \ crs
    PROVE  /\ cr.status = "promoted"
           /\ \A c \in DOMAIN cr.comps : c \in DOMAIN running[cr.env] /\ running[cr.env][c] = cr.comps[c]
  <1>0. DataPlaneTypeOK /\ HeldInv /\ DeployInv /\ RevisionInv
    BY DEF DataPlaneInv
  <1>1. CASE ~upsertBoriRevision
    <2>1. UNCHANGED crs
      <3>1. CASE RunPlan \/ Record
        BY <1>0, <3>1, RunPlanIs, RecordIs
      <3>2. CASE ~RunPlan /\ ~Record
        BY <1>1, <3>2 DEF Next, User, CreatePlane, EditPlane, DeletePlane, EditRelease, Edit, Reconcile,
                AddFinalizer, reconcileDelete, Fetch, Work, Skip, RunInSync, RunViolation, PlanFails,
                Resolve, Deploy, PatchStatus, reconcileViolation, Abort, ReplacePod, vars
      <3> QED
        BY <3>1, <3>2
    <2> QED
      BY <2>1
  <1>2. CASE upsertBoriRevision
    <2>1. /\ job.pc = "upsert"
          /\ crs' \subseteq crs \cup {disk[i] : i \in {j \in DOMAIN disk : disk[j].id = job.rev}}
      BY <1>2 DEF upsertBoriRevision
    <2>2. PICK i \in DOMAIN disk : disk[i].id = job.rev /\ cr = disk[i]
      BY <2>1
    <2>3. job.promoted
      BY <1>0, <2>1 DEF RevisionInv
    <2>4. PICK j \in DOMAIN disk : disk[j] = jobRevision("promoted")
      BY <1>0, <2>3 DEF RevisionInv
    <2>5. disk[j].id = job.rev
      BY <2>4 DEF jobRevision
    <2>6. cr = jobRevision("promoted")
      BY <1>0, <2>2, <2>4, <2>5 DEF RevisionInv
    <2>7. cr.status = "promoted" /\ cr.env = job.env /\ cr.comps = jobContent
      BY <2>6 DEF jobRevision
    <2>8. \A c \in DOMAIN jobContent : runs(c)
      BY <1>0, <2>3 DEF DeployInv
    <2> QED
      BY <2>7, <2>8 DEF runs
  <1> QED
    BY <1>1, <1>2

-----------------------------------------------------------------------------
(* Statuses.                                                                *)

(* What a step does to a plane, as far as its status can tell.              *)
LEMMA PlaneSteps ==
    ASSUME DataPlaneTypeOK, HeldInv, [Next]_vars, NEW p \in Planes
    PROVE  \/ /\ plane'[p].status = plane[p].status /\ plane'[p].gen = plane[p].gen
              /\ plane'[p].release = plane[p].release /\ plane'[p].exists = plane[p].exists
           \/ ~reportsSync(p)'
           \/ PatchStatus /\ p = job.plane
  <1>0. /\ plane \in [Planes -> Plane] /\ plane[p] \in Plane /\ plane[p].gen \in Nat
        /\ plane[p].status.obsGen \in Nat /\ plane[p].status.obsGen <= plane[p].gen
    BY DEF DataPlaneTypeOK, Plane, Status, HeldInv
  <1>1. ASSUME NEW x \in Planes, NEW next, Edit(x, next),
               x = p => \/ ~next.exists
                        \/ next.status.obsGen # next.gen
                        \/ /\ next.status = plane[p].status /\ next.gen = plane[p].gen
                           /\ next.release = plane[p].release /\ next.exists = plane[p].exists
        PROVE  \/ /\ plane'[p].status = plane[p].status /\ plane'[p].gen = plane[p].gen
                  /\ plane'[p].release = plane[p].release /\ plane'[p].exists = plane[p].exists
               \/ ~reportsSync(p)'
    <2>1. plane'[p] = IF x = p THEN next ELSE plane[p]
      BY <1>0, <1>1 DEF Edit
    <2>2. CASE x = p
      <3>1. plane'[p] = next
        BY <2>1, <2>2
      <3> QED
        BY <1>1, <2>2, <3>1 DEF reportsSync
    <2>3. CASE x # p
      BY <2>1, <2>3
    <2> QED
      BY <2>2, <2>3
  <1>2. ASSUME NEW x \in Planes, NEW r \in Releases, NEW e \in Envs, CreatePlane(x, r, e)
        PROVE  \/ /\ plane'[p].status = plane[p].status /\ plane'[p].gen = plane[p].gen
                  /\ plane'[p].release = plane[p].release /\ plane'[p].exists = plane[p].exists
               \/ ~reportsSync(p)'
    <2> DEFINE next == [exists |-> TRUE, deleting |-> FALSE, finalizer |-> FALSE, gen |-> 1,
                        release |-> r, env |-> e, status |-> NoStatus]
    <2>1. next.status.obsGen # next.gen
      BY DEF NoStatus
    <2>2. Edit(x, next)
      BY <1>2, Zenon DEF CreatePlane
    <2> HIDE DEF next
    <2> QED
      BY <1>1, <2>1, <2>2
  <1>3. ASSUME NEW x \in Planes, NEW r \in Releases, NEW e \in Envs, EditPlane(x, r, e)
        PROVE  \/ /\ plane'[p].status = plane[p].status /\ plane'[p].gen = plane[p].gen
                  /\ plane'[p].release = plane[p].release /\ plane'[p].exists = plane[p].exists
               \/ ~reportsSync(p)'
    <2> DEFINE next == [plane[x] EXCEPT !.gen = @ + 1, !.release = r, !.env = e]
    <2>1. x = p => next.gen = plane[p].gen + 1 /\ next.status = plane[p].status
      BY <1>0 DEF Plane
    <2>2. Edit(x, next)
      BY <1>3, Zenon DEF EditPlane
    <2> HIDE DEF next
    <2>3. x = p => next.status.obsGen # next.gen
      BY <2>1, <1>0
    <2> QED
      BY <1>1, <2>2, <2>3
  <1>4. ASSUME NEW x \in Planes, DeletePlane(x)
        PROVE  \/ /\ plane'[p].status = plane[p].status /\ plane'[p].gen = plane[p].gen
                  /\ plane'[p].release = plane[p].release /\ plane'[p].exists = plane[p].exists
               \/ ~reportsSync(p)'
    <2> DEFINE next == IF plane[x].finalizer THEN [plane[x] EXCEPT !.deleting = TRUE] ELSE NoPlane
    <2>1. x = p => \/ ~next.exists
                   \/ /\ next.status = plane[p].status /\ next.gen = plane[p].gen
                      /\ next.release = plane[p].release /\ next.exists = plane[p].exists
      BY <1>0 DEF Plane, NoPlane
    <2>2. Edit(x, next)
      BY <1>4, Zenon DEF DeletePlane
    <2> HIDE DEF next
    <2> QED
      BY <1>1, <2>1, <2>2
  <1>5. ASSUME NEW x \in Planes, AddFinalizer(x)
        PROVE  /\ plane'[p].status = plane[p].status /\ plane'[p].gen = plane[p].gen
               /\ plane'[p].release = plane[p].release /\ plane'[p].exists = plane[p].exists
    BY <1>0, <1>5 DEF AddFinalizer, Plane
  <1>6. ASSUME NEW x \in Planes, reconcileDelete(x)
        PROVE  plane'[p] = plane[p] \/ ~reportsSync(p)'
    <2>1. plane'[p] = IF x = p THEN NoPlane ELSE plane[p]
      BY <1>0, <1>6 DEF reconcileDelete
    <2> QED
      BY <2>1 DEF NoPlane, reportsSync
  <1>7. CASE PatchStatus
    BY <1>7, PatchIs, StatusWritten
  <1>8. CASE reconcileViolation
    <2>1. PICK st \in Status : plane' = [plane EXCEPT ![job.plane].status = st] /\ st.violation
      BY <1>8, ViolationIs
    <2>2. job.pc # "idle"
      BY <1>8, ViolationIs
    <2>3. /\ p # job.plane => plane'[p] = plane[p]
          /\ plane'[job.plane].status = st
      BY <2>1, <2>2, StatusWritten
    <2> QED
      BY <2>1, <2>3 DEF reportsSync
  <1>9. CASE UNCHANGED plane
    BY <1>9
  <1>10. \/ User \/ (\E x \in Planes : AddFinalizer(x) \/ reconcileDelete(x))
         \/ PatchStatus \/ reconcileViolation \/ UNCHANGED plane
    BY DEF Next, Reconcile, Fetch, Work, Skip, RunInSync, RunViolation, PlanFails, RunPlan, Resolve,
           Deploy, Record, upsertBoriRevision, Abort, ReplacePod, vars
  <1>11. CASE User
    <2>1. (\E r \in Releases : EditRelease(r)) => UNCHANGED plane
      BY DEF EditRelease
    <2> QED
      BY <1>2, <1>3, <1>4, <1>9, <1>11, <2>1 DEF User
  <1> QED
    BY <1>5, <1>6, <1>7, <1>8, <1>9, <1>10, <1>11

(* A plane whose status the step leaves alone is still what it reports: a   *)
(* release only moves on, and what a job promotes meanwhile is what the     *)
(* release declares.                                                        *)
LEMMA ReportKept ==
    ASSUME DataPlaneTypeOK, DataPlaneTypeOK', HeldInv, HeldInv', RevisionInv, StatusInv,
           [Next]_vars, NEW p \in Planes, reportsSync(p)',
           plane'[p].status = plane[p].status, plane'[p].gen = plane[p].gen,
           plane'[p].release = plane[p].release, plane'[p].exists = plane[p].exists
    PROVE  LET st == plane'[p].status
               r == plane'[p].release
           IN  /\ st.obsRel <= relGen'[r]
               /\ job'.pc = "deploy" /\ job'.release = r => st.obsRel <= job'.relGen
               /\ st.obsRel = relGen'[r] =>
                     \A k \in named(p)', i \in promoted(disk', r) :
                        k <= i => inSync(content(r, relGen'[r]), disk'[i].comps)
  <1> DEFINE g == plane[p].status.obsRel
             r == plane[p].release
  <1>1. reportsSync(p)
    BY DEF reportsSync, compared
  <1>2. /\ g <= relGen[r]
        /\ job.pc = "deploy" /\ job.release = r => g <= job.relGen
        /\ g = relGen[r] => \A k \in named(p), i \in promoted(disk, r) :
                               k <= i => inSync(content(r, relGen[r]), disk[i].comps)
    BY <1>1 DEF StatusInv
  <1>3. r \in Releases /\ g \in Nat
    BY <1>1 DEF reportsSync, DataPlaneTypeOK, Plane, Status
  <1>4. relGen[r] \in Nat /\ relGen'[r] \in Nat /\ relGen[r] <= relGen'[r]
    <2>1. relGen \in [Releases -> Nat] /\ relGen' \in [Releases -> Nat]
      BY DEF DataPlaneTypeOK
    <2>2. CASE UNCHANGED relGen
      BY <2>1, <2>2, <1>3
    <2>3. ASSUME NEW x \in Releases, EditRelease(x) PROVE relGen[r] <= relGen'[r]
      BY <2>1, <2>3, <1>3 DEF EditRelease
    <2>4. UNCHANGED relGen \/ \E x \in Releases : EditRelease(x)
      BY DEF Next, User, CreatePlane, EditPlane, DeletePlane, Edit, Reconcile, AddFinalizer,
             reconcileDelete, Fetch, Work, Skip, RunInSync, RunViolation, PlanFails, RunPlan, Resolve,
             Deploy, Record, PatchStatus, reconcileViolation, upsertBoriRevision, Abort, ReplacePod,
             vars, others
    <2> QED
      BY <1>3, <2>1, <2>2, <2>3, <2>4
  <1> HIDE DEF g, r
  <1>5. g <= relGen'[r]
    BY <1>2, <1>3, <1>4
  <1>6. ASSUME job'.pc = "deploy", job'.release = r PROVE g <= job'.relGen
    <2>1. CASE UNCHANGED job
      BY <1>2, <1>6, <2>1
    <2>2. CASE RunPlan
      BY <1>2, <1>6, <2>2, RunPlanIs
    <2>3. CASE Deploy
      BY <1>2, <1>6, <2>3, DeployIs
    <2>4. UNCHANGED job \/ RunPlan \/ Deploy
      <3>1. ~(job' = NoJob) /\ ~(\E x \in Planes : Fetch(x))
        BY <1>6, NoJobTyped, FetchIs
      <3>2. ~RunInSync /\ ~RunViolation /\ ~Record /\ ~PatchStatus
        BY <1>6, RunEndsIs, RecordIs, PatchIs, NoJobTyped
      <3> QED
        BY <3>1, <3>2, JobSteps
    <2> QED
      BY <2>1, <2>2, <2>3, <2>4
  <1>7. ASSUME g = relGen'[r], NEW k \in named(p)', NEW i \in promoted(disk', r), k <= i
        PROVE  inSync(content(r, relGen'[r]), disk'[i].comps)
    <2>1. relGen'[r] = relGen[r] /\ g = relGen[r]
      BY <1>2, <1>3, <1>4, <1>7
    <2>2. \A h \in named(p), j \in promoted(disk, r) :
             h <= j => inSync(content(r, relGen[r]), disk[j].comps)
      BY <1>2, <2>1
    <2>3. /\ k \in DOMAIN disk' /\ disk'[k].release = r /\ disk'[k].status = "promoted"
          /\ disk'[k].id = plane[p].status.revision
          /\ i \in DOMAIN disk' /\ disk'[i].release = r /\ disk'[i].status = "promoted"
      BY DEF named, promoted, r
    <2>4. ASSUME NEW h \in DOMAIN disk, disk'[k] = disk[h],
                 NEW j \in DOMAIN disk, disk'[i] = disk[j], h <= j
          PROVE  inSync(content(r, relGen'[r]), disk'[i].comps)
      <3>1. h \in named(p) /\ j \in promoted(disk, r)
        BY <2>3, <2>4 DEF named, promoted, r
      <3> QED
        BY <2>1, <2>2, <2>4, <3>1
    <2>5. CASE UNCHANGED <<disk, nextID>>
      BY <1>7, <2>3, <2>4, <2>5
    <2>6. CASE disk' = <<>>
      BY <2>3, <2>6
    <2>7. ASSUME NEW id, NEW x, NEW m, Written(disk, disk', id, x, m)
          PROVE  inSync(content(r, relGen'[r]), disk'[i].comps) \/ disk'[i] = x
      <3>1. disk \in Seq(Revision) /\ disk' \in Seq(Revision)
        BY DEF DataPlaneTypeOK
      <3>2. /\ i \in 1..Len(disk') /\ k \in 1..Len(disk') /\ Len(disk) \in Nat
            /\ m[i] \in 1..Len(disk) + 1 /\ m[k] \in 1..Len(disk) + 1
        BY <2>3, <2>7, <3>1 DEF Written
      <3>3. CASE m[i] \in DOMAIN disk /\ disk'[i] = disk[m[i]]
        <4>1. m[k] <= m[i]
          <5>1. CASE k = i
            BY <3>2, <5>1
          <5>2. CASE k < i
            <6>1. m[k] < m[i]
              BY <2>7, <3>2, <5>2 DEF Written
            <6> QED
              BY <3>2, <6>1
          <5> QED
            BY <1>7, <3>2, <5>1, <5>2
        <4>2. m[k] \in DOMAIN disk /\ disk'[k] = disk[m[k]]
          <5>1. m[k] # Len(disk) + 1
            BY <3>1, <3>2, <3>3, <4>1
          <5> QED
            BY <2>3, <2>7, <3>1, <5>1, WriteFrom
        <4> QED
          BY <2>4, <3>3, <4>1, <4>2
      <3> QED
        BY <2>3, <2>7, <3>1, <3>3, WriteFrom
    <2>8. ASSUME NEW id, NEW m, Written(disk, disk', id, pending(id), m)
          PROVE  inSync(content(r, relGen'[r]), disk'[i].comps)
      <3>1. pending(id).status # "promoted"
        BY DEF pending
      <3> QED
        BY <2>3, <2>7, <2>8, <3>1
    <2>9. ASSUME NEW x, NEW m, job.pc = "deploy", x = jobRevision(outcome(job.ok)),
                 Written(disk, disk', job.rev, x, m)
          PROVE  inSync(content(r, relGen'[r]), disk'[i].comps)
      <3> SUFFICES ASSUME disk'[i] = x PROVE inSync(content(r, relGen'[r]), disk'[i].comps)
        BY <2>7, <2>9
      <3>1. job.release = r /\ x.comps = jobContent
        BY <2>3, <2>9 DEF jobRevision
      <3>2. g <= job.relGen
        BY <1>2, <2>9, <3>1
      <3>3. job.relGen \in 1..relGen[r]
        BY <2>9, <3>1 DEF HeldInv, PCs
      <3>4. job.relGen = relGen[r]
        BY <3>2, <3>3, <2>1, <1>3, <1>4
      <3>5. disk'[i].comps = content(r, relGen'[r])
        BY <2>1, <3>1, <3>4 DEF jobContent
      <3> QED
        BY <3>5, InSyncItself
    <2> QED
      BY <2>5, <2>6, <2>8, <2>9, DiskSteps
  <1>8. plane'[p].release = r /\ plane'[p].status.obsRel = g
    BY DEF g, r
  <1> QED
    BY <1>5, <1>6, <1>7, <1>8

(* A plane that is told to be in sync is: the job has compared the disk     *)
(* with the generation it records, and the plane is the one it read.        *)
LEMMA PatchReports ==
    ASSUME DataPlaneTypeOK, HeldInv, RevisionInv, StatusInv, PatchStatus,
           NEW p \in Planes, p = job.plane, reportsSync(p)'
    PROVE  LET st == plane'[p].status
               r == plane'[p].release
           IN  /\ st.obsRel <= relGen'[r]
               /\ job'.pc # "deploy"
               /\ st.obsRel = relGen'[r] =>
                     \A k \in named(p)', i \in promoted(disk', r) :
                        k <= i => inSync(content(r, relGen'[r]), disk'[i].comps)
  <1> DEFINE r == job.release
             i == latest(disk, r)
  <1>1. /\ job.pc = "patch" /\ job \in Job /\ UNCHANGED <<relGen, disk>>
        /\ plane' = [plane EXCEPT ![job.plane].status = buildStatus(job)] /\ job'.pc # "deploy"
    BY PatchIs, NoJobTyped
  <1>2. /\ plane'[p].status = buildStatus(job)
        /\ plane'[p].gen = plane[p].gen
        /\ plane'[p].release = plane[p].release
    BY <1>1, StatusWritten
  <1>3. /\ buildStatus(job).obsGen = job.gen /\ buildStatus(job).obsRel = job.relGen
        /\ buildStatus(job).degraded = Degraded(job.shadow)
        /\ buildStatus(job).revision = job.shadow.revision
    BY <1>1, StatusTyped DEF buildStatus
  <1>4. plane[p].gen = job.gen /\ Degraded(job.shadow) = "False"
    BY <1>2, <1>3 DEF reportsSync, compared
  <1>5. plane'[p].release = r
    BY <1>1, <1>2, <1>4 DEF HeldInv
  <1>6. job.relGen \in 1..relGen[r] /\ r \in Releases /\ relGen[r] \in Nat
    BY <1>1 DEF HeldInv, PCs, DataPlaneTypeOK
  <1>7. job.shadow.known /\ job.shadow.inSync /\ job.shadow.revision # 0
    <2>1. job.shadow.known \in BOOLEAN /\ job.shadow.inSync \in BOOLEAN
      BY <1>1 DEF Job, ShadowState
    <2> QED
      BY <1>4, <2>1 DEF Degraded, None
  <1>8. job.shadow = ShadowOf(disk, r, job.relGen)
    BY <1>1, <1>7 DEF StatusInv, drift
  <1>9. /\ i # 0 /\ job.shadow.revision = disk[i].id
        /\ inSync(content(r, job.relGen), disk[i].comps)
    <2> DEFINE sh == ShadowOf(disk, r, job.relGen)
    <2>1. /\ sh.revision = IF i = 0 THEN 0 ELSE disk[i].id
          /\ sh.inSync = inSync(content(r, job.relGen), IF i = 0 THEN <<>> ELSE disk[i].comps)
      BY DEF ShadowOf
    <2> HIDE DEF sh, i
    <2>2. sh.revision # 0 /\ sh.inSync
      BY <1>7, <1>8 DEF sh
    <2> QED
      BY <1>8, <2>1, <2>2 DEF sh
  <1> HIDE DEF r
  <1>10. job.relGen <= relGen[r]
    BY <1>6
  <1>11. ASSUME NEW k \in named(p)', NEW j \in promoted(disk, r), k <= j PROVE j = i
    <2>1. k \in promoted(disk, r) /\ disk[k].id = disk[i].id
      BY <1>1, <1>2, <1>3, <1>5, <1>9 DEF named
    <2>2. i \in promoted(disk, r) /\ j <= i /\ promoted(disk, r) \subseteq 1..Len(disk)
      BY <1>9, LatestIs DEF DataPlaneTypeOK
    <2>3. k \in DOMAIN disk /\ i \in DOMAIN disk
      BY <2>1, <2>2 DEF promoted
    <2>4. k = i
      BY <2>1, <2>3 DEF RevisionInv
    <2> HIDE DEF i
    <2> QED
      BY <1>11, <2>2, <2>4
  <1> HIDE DEF i
  <1> QED
    BY <1>1, <1>2, <1>3, <1>5, <1>9, <1>10, <1>11

(* What statuses and jobs say of the disk stays true.                       *)
LEMMA StatusKept ==
    ASSUME DataPlaneTypeOK, DataPlaneTypeOK', HeldInv, HeldInv', RevisionInv, StatusInv, [Next]_vars
    PROVE  StatusInv'
  <1> DEFINE Deploying == job.pc = "deploy" => drift(job.shadow)
             Patching == job.pc = "patch" => \/ drift(job.shadow)
                                             \/ job.shadow = ShadowOf(disk, job.release, job.relGen)
  <1>1. Deploying /\ Patching
    BY DEF StatusInv
  <1>2. Deploying' /\ Patching'
    <2>1. CASE UNCHANGED <<job, disk, nextID, running>>
      BY <1>1, <2>1 DEF drift
    <2>2. CASE job' = NoJob
      BY <2>2, NoJobTyped
    <2>3. CASE \E p \in Planes : Fetch(p)
      BY <2>3, FetchIs
    <2>4. CASE RunInSync \/ RunViolation
      <3>1. drift(NoShadow)
        BY DEF drift, NoShadow
      <3> QED
        BY <2>4, <3>1, RunEndsIs
    <2>5. CASE RunPlan
      BY <2>5, RunPlanIs
    <2>6. CASE Deploy
      BY <1>1, <2>6, DeployIs
    <2>7. CASE Record
      BY <1>1, <2>7, RecordIs
    <2>8. CASE PatchStatus
      BY <2>8, PatchIs, NoJobTyped
    <2> QED
      BY <2>1, <2>2, <2>3, <2>4, <2>5, <2>6, <2>7, <2>8, JobSteps
  <1>3. ASSUME NEW p \in Planes, reportsSync(p)'
        PROVE  LET st == plane'[p].status
                   r == plane'[p].release
               IN  /\ st.obsRel <= relGen'[r]
                   /\ job'.pc = "deploy" /\ job'.release = r => st.obsRel <= job'.relGen
                   /\ st.obsRel = relGen'[r] =>
                         \A k \in named(p)', i \in promoted(disk', r) :
                            k <= i => inSync(content(r, relGen'[r]), disk'[i].comps)
    <2>1. CASE /\ plane'[p].status = plane[p].status /\ plane'[p].gen = plane[p].gen
               /\ plane'[p].release = plane[p].release /\ plane'[p].exists = plane[p].exists
      BY <1>3, <2>1, ReportKept
    <2>2. CASE PatchStatus /\ p = job.plane
      BY <1>3, <2>2, PatchReports
    <2> QED
      BY <1>3, <2>1, <2>2, PlaneSteps
  <1> QED
    BY <1>2, <1>3 DEF StatusInv

-----------------------------------------------------------------------------
(* The theorems.                                                            *)

(* The initial state satisfies the invariant.                               *)
LEMMA DataPlaneStarts == Init => DataPlaneInv
  <1> SUFFICES ASSUME Init PROVE DataPlaneInv
    OBVIOUS
  <1>1. DataPlaneTypeOK /\ HeldInv /\ PlanInv
    BY TypeStarts, HeldStarts, PlanStarts
  <1>2. RevisionInv /\ DeployInv
    BY NoJobTyped DEF Init, RevisionInv, DeployInv
  <1>3. StatusInv
    BY NoJobTyped DEF Init, StatusInv, reportsSync, NoPlane
  <1> QED
    BY <1>1, <1>2, <1>3 DEF DataPlaneInv

(* Every step preserves it.                                                 *)
LEMMA DataPlaneKept == DataPlaneInv /\ [Next]_vars => DataPlaneInv'
  <1> SUFFICES ASSUME DataPlaneInv, [Next]_vars PROVE DataPlaneInv'
    OBVIOUS
  <1>1. DataPlaneTypeOK /\ HeldInv /\ PlanInv /\ DeployInv /\ RevisionInv /\ StatusInv
    BY DEF DataPlaneInv
  <1>2. DataPlaneTypeOK'
    BY <1>1, TypeKept
  <1>3. HeldInv'
    BY <1>1, HeldKept
  <1>4. PlanInv'
    BY <1>1, PlanKept
  <1>5. DeployInv'
    BY <1>1, DeployKept
  <1>6. RevisionInv'
    BY <1>1, <1>2, RevisionKept
  <1>7. StatusInv'
    BY <1>1, <1>2, <1>3, StatusKept
  <1> QED
    BY <1>2, <1>3, <1>4, <1>5, <1>6, <1>7 DEF DataPlaneInv

(* DataPlaneInv holds in every state the delivery plane can reach: however  *)
(* user edits, failing calls, crashes and lost directories interleave with  *)
(* the calls of a reconcile.                                                *)
THEOREM DataPlaneInductive == Spec => []DataPlaneInv
  <1>1. Init => DataPlaneInv
    BY DataPlaneStarts
  <1>2. DataPlaneInv /\ [Next]_vars => DataPlaneInv'
    BY DataPlaneKept
  <1> QED
    BY <1>1, <1>2, PTL DEF Spec

(* A status is written only to the object the run has read: the finalizer   *)
(* keeps a deleted plane until the reconcile that works for it is over.     *)
THEOREM PlaneIsHeld == Spec => []HeldWhileReconciled
  <1>1. DataPlaneInv => HeldWhileReconciled
    <2> SUFFICES ASSUME DataPlaneInv, job.pc # "idle"
                 PROVE  plane[job.plane].exists /\ plane[job.plane].gen >= job.gen
      BY DEF HeldWhileReconciled
    <2>1. plane[job.plane].exists /\ job.gen <= plane[job.plane].gen
      BY DEF DataPlaneInv, HeldInv
    <2>2. job.gen \in Nat /\ plane[job.plane].gen \in Nat
      BY DEF DataPlaneInv, DataPlaneTypeOK, Job, Plane
    <2> QED
      BY <2>1, <2>2
  <1> QED
    BY <1>1, DataPlaneInductive, PTL

(* Whatever fails and whenever the release changes, nothing runs where the  *)
(* namespace policy forbids it, no revision holds components the matrix     *)
(* calls incompatible, and a component is deployed after what it depends    *)
(* on: the gates of planner.Plan and the order of release.Order hold.       *)
THEOREM PlanIsKept == Spec => []PolicyKept
  <1>1. DataPlaneInv => PolicyKept
    BY DEF DataPlaneInv, PlanInv
  <1> QED
    BY <1>1, DataPlaneInductive, PTL

(* A release has a plan exactly if its components depend on no cycle: the   *)
(* error of release.Order that ends planner.Plan is raised for every cycle  *)
(* and for nothing else, in whatever order the components are listed.       *)
THEOREM PlanUnlessCycle ==
    ASSUME NEW want \in AllDeclared
    PROVE  hasPlan(want) <=> ~cyclic(want)
  <1> DEFINE I == {i \in DOMAIN Listed : Listed[i] \in DOMAIN want}
             l == Keep(Listed, I)
  <1>1. /\ Listed \in Seq(Comps) /\ Distinct(Listed) /\ DOMAIN Listed = 1..Len(Listed)
        /\ \A c \in Comps : \E i \in DOMAIN Listed : Listed[i] = c
    BY DataPlaneAssumption DEF Distinct, InRelease
  <1>2. planned[want] = Order(l, Requires)
    BY Zenon DEF planned
  <1>3. DOMAIN want \subseteq Comps
    BY DeclaredComps
  <1>4. \A c : c \in DOMAIN want <=> \E i \in I \cap 1..Len(Listed) : c = Listed[i]
    BY <1>1, <1>3
  <1> HIDE DEF I
  <1>5. l \in Seq(Comps) /\ Distinct(l) /\ InRelease(l) = {Listed[i] : i \in I \cap 1..Len(Listed)}
    BY <1>1, KeepElements
  <1>6. InRelease(l) = DOMAIN want
    BY <1>4, <1>5
  <1> HIDE DEF l
  <1>7. Cardinality(DOMAIN want) = Len(l)
    BY <1>5, <1>6, ElementsCounted
  <1>8. Len(Order(l, Requires)) = Len(l) <=> ~HasCycle(l, Requires)
    BY <1>5, OrderCycles
  <1>9. hasPlan(want) <=> Len(Order(l, Requires)) = Len(l)
    BY <1>2, <1>7 DEF hasPlan
  <1>10. cyclic(want) <=> HasCycle(l, Requires)
    BY <1>6 DEF cyclic, HasCycle
  <1> QED
    BY <1>8, <1>9, <1>10

(* A plane that is skipped with Degraded False has its release promoted, as *)
(* long as the revision its status names is on disk: whether or not IDs are *)
(* reused and directories lost.                                             *)
THEOREM SkipIsSound == Spec => []SkipSound
  <1>1. DataPlaneInv => SkipSound
    <2> SUFFICES ASSUME DataPlaneInv, NEW p \in Planes, skipped(p), compared(p), named(p) # {}
                 PROVE  LET i == latest(disk, plane[p].release)
                        IN  i # 0 /\ inSync(desired(p), disk[i].comps)
      BY DEF SkipSound
    <2> DEFINE r == plane[p].release
               i == latest(disk, r)
    <2>1. reportsSync(p) /\ plane[p].status.obsRel = relGen[r]
      BY DEF skipped, skippable, releaseUnchanged, isUnhealthy, reportsSync
    <2>2. PICK k \in named(p) : k \in promoted(disk, r)
      BY DEF named
    <2>3. i \in promoted(disk, r) \cup {0} /\ k <= i /\ k \in 1..Len(disk)
      BY <2>2, LatestIs DEF DataPlaneInv, DataPlaneTypeOK
    <2>4. i # 0
      <3>1. Len(disk) \in Nat
        BY DEF DataPlaneInv, DataPlaneTypeOK
      <3> HIDE DEF i
      <3> QED
        BY <2>3, <3>1
    <2>5. \A h \in named(p), j \in promoted(disk, r) :
             h <= j => inSync(content(r, relGen[r]), disk[j].comps)
      BY <2>1 DEF DataPlaneInv, StatusInv
    <2> QED
      BY <2>2, <2>3, <2>4, <2>5 DEF desired
  <1> QED
    BY <1>1, DataPlaneInductive, PTL

(* A BoriRevision CR is made only of a promoted revision, whose components  *)
(* all run in its environment as it records them, whatever failed before.   *)
THEOREM CRsWereDeployed == Spec => CRsDeployed
  <1>1. DataPlaneInv /\ [Next]_vars =>
           [\A cr \in crs' \ crs :
               /\ cr.status = "promoted"
               /\ \A c \in DOMAIN cr.comps :
                     c \in DOMAIN running[cr.env] /\ running[cr.env][c] = cr.comps[c]]_vars
    BY CRStep
  <1> QED
    BY <1>1, DataPlaneInductive, PTL DEF Spec, CRsDeployed

(* Whether or not IDs are reused and directories lost, a finished revision  *)
(* is lost in the two ways HistoryKept names only.                          *)
THEOREM HistoryIsKept == Spec => HistoryKept
  <1>1. DataPlaneInv /\ DataPlaneInv' /\ [Next]_vars =>
           [\A i \in DOMAIN disk : disk[i].status # "pending" =>
              \/ \E j \in DOMAIN disk' : disk'[j] = disk[i]
              \/ ReplacePod
              \/ /\ SameSecond /\ job.pc = "resolve"
                 /\ disk[i].release = job.release /\ disk[i].env = job.env
                 /\ i = latest(disk, job.release) =>
                       ~inSync(wanted, disk[i].comps) \/ unlisted' # unlisted]_vars
    BY HistoryStep DEF DataPlaneInv
  <1> QED
    BY <1>1, DataPlaneInductive, PTL DEF Spec, HistoryKept
=============================================================================
