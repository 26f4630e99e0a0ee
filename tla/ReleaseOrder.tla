---------------------------- MODULE ReleaseOrder ----------------------------
(***************************************************************************)
(* pkg/release: the dependency order of a release (Kahn's algorithm) and   *)
(* the compatibility matrix.  listed is the sequence of the components as  *)
(* the release lists them, requires maps a component to the set of its     *)
(* dependencies, want a component to its reference; a constraint of the    *)
(* matrix is [comp, version, needs, min].                                  *)
(***************************************************************************)
EXTENDS Keeping, Integers, FiniteSets

InRelease(listed) == {listed[i] : i \in DOMAIN listed}

\* Dependencies outside the release are passed over.
OrderStart(listed, requires) ==
    LET degree == [c \in InRelease(listed) |-> Cardinality(requires[c] \cap InRelease(listed))]
    IN  [degree |-> degree, ordered |-> <<>>,
         queue |-> Keep(listed, {i \in DOMAIN listed : degree[listed[i]] = 0})]

\* The head of the queue is next; the components it was the last to hold back
\* follow at the end, in the order of the release.
OrderNext(listed, requires, st) ==
    LET done == Head(st.queue)
        degree == [c \in InRelease(listed) |->
                     IF done \in requires[c] THEN st.degree[c] - 1 ELSE st.degree[c]]
    IN  [degree |-> degree, ordered |-> Append(st.ordered, done),
         queue |-> Tail(st.queue) \o
                   Keep(listed, {i \in DOMAIN listed : done \in requires[listed[i]]
                                                       /\ degree[listed[i]] = 0})]

\* Mutant of Order: the components are taken as the release lists them.
OrderListed(listed, requires) == listed

\* release.Order; on a cycle some component is never reached.
Order(listed, requires) ==
    LET after[k \in 0..Len(listed)] ==
            IF k = 0 THEN OrderStart(listed, requires)
            ELSE IF after[k - 1].queue = <<>> THEN after[k - 1]
            ELSE OrderNext(listed, requires, after[k - 1])
    IN  after[Len(listed)].ordered

\* versionAtLeast, for versions in the order of semverCompare.
VersionAtLeast(version, min) == version >= min

\* A constraint applies to one version of a component and asks for another
\* component of the release, in a version not older than min.
CheckCompatibility(want, matrix) ==
    {k \in matrix :
        /\ k.comp \in DOMAIN want /\ want[k.comp].version = k.version
        /\ k.needs \in DOMAIN want => ~VersionAtLeast(want[k.needs].version, k.min)}
=============================================================================
