-------------------------- MODULE EvaluationProofs --------------------------
(***************************************************************************)
(* The evaluator against its references, for every snapshot, and what its  *)
(* readers (policy, candidates, recovery) make of it. First the searches   *)
(* for cycles, on which the end of every other recursion rests: recursions *)
(* over ever lighter calls, loops over finite sets, then the two searches. *)
(***************************************************************************)
EXTENDS Evaluation, Extrema, SequenceTheorems

-----------------------------------------------------------------------------
(* Recursion over calls that weigh less and less.                           *)

(* What holds of a call if it holds of all lighter ones holds of all.       *)
LEMMA Descent ==
    ASSUME NEW D, NEW mu \in [D -> Nat], NEW Good,
           \A c \in D : (\A d \in D : mu[d] < mu[c] => d \in Good) => c \in Good
    PROVE  D \subseteq Good
  <1> DEFINE Bad == {mu[c] : c \in D \ Good}
  <1> SUFFICES ASSUME D \ Good # {} PROVE FALSE
    OBVIOUS
  <1>1. Bad \in SUBSET Nat /\ Bad # {}
    OBVIOUS
  <1>2. PICK m \in Bad : \A n \in Bad : m <= n
    BY <1>1, Least, Zenon
  <1>3. PICK c \in D \ Good : m = mu[c]
    BY <1>2
  <1>4. \A d \in D : mu[d] < mu[c] => d \in Good
    <2> SUFFICES ASSUME NEW d \in D, mu[d] < mu[c], d \notin Good PROVE FALSE
      OBVIOUS
    <2>1. mu[d] \in Bad
      OBVIOUS
    <2>2. mu[c] <= mu[d]
      BY <1>2, <1>3, <2>1
    <2>3. mu[c] \in Nat /\ mu[d] \in Nat
      BY <1>3
    <2> HIDE DEF Bad
    <2> QED
      BY <2>2, <2>3
  <1> QED
    BY <1>3, <1>4

\* The functions on D with a value in T[c] at c.
Typed(D, T) == {f \in [D -> UNION {T[c] : c \in D}] : \A c \in D : f[c] \in T[c]}

\* The body B stays within T and looks at lighter calls only.
Descends(D, N, mu, T, B) ==
    /\ N \in Nat /\ mu \in [D -> Nat] /\ \A c \in D : mu[c] < N /\ T[c] # {}
    /\ \A f \in Typed(D, T) : \A c \in D : B[<<f, c>>] \in T[c]
    /\ \A f, g \in Typed(D, T) : \A c \in D :
          (\A d \in D : mu[d] < mu[c] => f[d] = g[d]) => B[<<f, c>>] = B[<<g, c>>]

(* Such a recursion has a solution: iterating the body settles the calls    *)
(* weight by weight.                                                        *)
LEMMA Recursion ==
    ASSUME NEW D, NEW N, NEW mu, NEW T, NEW B, Descends(D, N, mu, T, B)
    PROVE  \E f \in Typed(D, T) : \A c \in D : f[c] = B[<<f, c>>]
  <1> USE DEF Descends
  <1> DEFINE Settled(f, k) == \A c \in D : mu[c] < k => f[c] = B[<<f, c>>]
             Done == {k \in Nat : \E f \in Typed(D, T) : Settled(f, k)}
  <1>1. 0 \in Done
    <2> DEFINE f == [c \in D |-> CHOOSE x \in T[c] : TRUE]
    <2>1. \A c \in D : f[c] \in T[c]
      OBVIOUS
    <2>2. f \in [D -> UNION {T[c] : c \in D}]
      BY <2>1
    <2>3. f \in Typed(D, T)
      BY <2>1, <2>2 DEF Typed
    <2>4. Settled(f, 0)
      OBVIOUS
    <2> HIDE DEF f
    <2> QED
      BY <2>3, <2>4
  <1>2. ASSUME NEW k \in 0 .. N - 1, k \in Done PROVE k + 1 \in Done
    <2>1. PICK f \in Typed(D, T) : Settled(f, k)
      BY <1>2
    <2> DEFINE g == [c \in D |-> B[<<f, c>>]]
    <2>2. g \in [D -> UNION {T[c] : c \in D}] /\ \A c \in D : g[c] \in T[c]
      BY <2>1
    <2>3. g \in Typed(D, T)
      BY <2>2 DEF Typed
    <2>4. ASSUME NEW c \in D, mu[c] < k + 1 PROVE g[c] = B[<<g, c>>]
      <3>1. \A d \in D : mu[d] < mu[c] => mu[d] < k
        BY <2>4
      <3>2. \A d \in D : mu[d] < mu[c] => f[d] = g[d]
        BY <2>1, <3>1
      <3>3. B[<<f, c>>] = B[<<g, c>>]
        <4> HIDE DEF g
        <4> QED
          BY <2>1, <2>3, <3>2
      <3>4. g[c] = B[<<f, c>>]
        OBVIOUS
      <3> HIDE DEF g
      <3> QED
        BY <3>3, <3>4
    <2> HIDE DEF g
    <2>5. Settled(g, k + 1)
      BY <2>4
    <2> QED
      BY <2>3, <2>5
  <1>3. N \in Done
    <2> HIDE DEF Done
    <2> QED
      BY <1>1, <1>2, UpTo
  <1>4. PICK f \in Typed(D, T) : Settled(f, N)
    BY <1>3
  <1> QED
    BY <1>4

-----------------------------------------------------------------------------
(* Loops.                                                                   *)

\* What the loop makes of the elements of s, given what it makes of fewer.
LoopBody(op, base, f, s) ==
    IF s = {} THEN base
    ELSE op[<<CHOOSE x \in s : TRUE, f[s \ {CHOOSE x \in s : TRUE}]>>]

Loop(op, base, S) == CHOOSE f : f = [s \in SUBSET S |-> LoopBody(op, base, f, s)]

(* The fold is that recursion.                                              *)
LEMMA FoldIsLoop ==
    ASSUME NEW op, NEW base, NEW S
    PROVE  FoldOver(op, base, S) = Loop(op, base, S)[S]
  BY Zenon DEF FoldOver, FoldSet, MapThenFoldSet, Loop, LoopBody

(* The loop over a finite set satisfies its recursion, if op stays within A. *)
LEMMA LoopSolves ==
    ASSUME NEW S, IsFiniteSet(S), NEW A, NEW base \in A, NEW op,
           \A x \in S, a \in A : op[<<x, a>>] \in A
    PROVE  /\ \A s \in SUBSET S : /\ Loop(op, base, S)[s] = LoopBody(op, base, Loop(op, base, S), s)
                                  /\ Loop(op, base, S)[s] \in A
  <1> DEFINE D == SUBSET S
             mu == [s \in D |-> Cardinality(s)]
             T == [s \in D |-> A]
             B == [p \in Typed(D, T) \X D |-> LoopBody(op, base, p[1], p[2])]
             N == Cardinality(S) + 1
             L == Loop(op, base, S)
  <1>1. /\ \A s \in D : IsFiniteSet(s) /\ Cardinality(s) \in Nat /\ Cardinality(s) <= Cardinality(S)
        /\ Cardinality(S) \in Nat
    BY FS_Subset, FS_CardinalityType
  <1>2. /\ N \in Nat /\ mu \in [D -> Nat] /\ \A s \in D : mu[s] < N /\ T[s] # {}
    BY <1>1
  <1>3. ASSUME NEW s \in D, s # {}
        PROVE  /\ (CHOOSE x \in s : TRUE) \in S /\ s \ {CHOOSE x \in s : TRUE} \in D
               /\ mu[s \ {CHOOSE x \in s : TRUE}] < mu[s]
    <2> DEFINE x == CHOOSE x \in s : TRUE
    <2>1. x \in s
      BY <1>3
    <2> HIDE DEF x
    <2>2. Cardinality(s \ {x}) = Cardinality(s) - 1
      BY <1>1, <2>1, FS_RemoveElement
    <2>3. s \ {x} \in D /\ x \in S
      BY <2>1
    <2>4. mu[s \ {x}] < mu[s]
      BY <1>1, <2>2, <2>3
    <2> QED
      BY <2>3, <2>4 DEF x
  <1>4. ASSUME NEW f, NEW s \in D, \A d \in D : mu[d] < mu[s] => f[d] \in A
        PROVE  LoopBody(op, base, f, s) \in A
    <2>1. CASE s = {}
      BY <2>1 DEF LoopBody
    <2>2. CASE s # {}
      <3> DEFINE x == CHOOSE x \in s : TRUE
      <3>1. x \in S /\ f[s \ {x}] \in A
        BY <1>3, <1>4, <2>2
      <3>2. LoopBody(op, base, f, s) = op[<<x, f[s \ {x}]>>]
        BY <2>2 DEF LoopBody
      <3> HIDE DEF x
      <3> QED
        BY <3>1, <3>2
    <2> QED
      BY <2>1, <2>2
  <1>5. ASSUME NEW f, NEW g, NEW s \in D, \A d \in D : mu[d] < mu[s] => f[d] = g[d]
        PROVE  LoopBody(op, base, f, s) = LoopBody(op, base, g, s)
    <2>1. CASE s = {}
      BY <2>1 DEF LoopBody
    <2>2. CASE s # {}
      <3> DEFINE x == CHOOSE x \in s : TRUE
      <3>1. f[s \ {x}] = g[s \ {x}]
        <4> HIDE DEF mu
        <4> QED
          BY <1>3, <1>5, <2>2
      <3>2. /\ LoopBody(op, base, f, s) = op[<<x, f[s \ {x}]>>]
            /\ LoopBody(op, base, g, s) = op[<<x, g[s \ {x}]>>]
        BY <2>2 DEF LoopBody
      <3> HIDE DEF x
      <3> QED
        BY <3>1, <3>2
    <2> QED
      BY <2>1, <2>2
  <1>6. \E f \in Typed(D, T) : \A c \in D : f[c] = B[<<f, c>>]
    <2>1. \A f \in Typed(D, T) : \A c \in D : B[<<f, c>>] = LoopBody(op, base, f, c)
      OBVIOUS
    <2>2. \A f \in Typed(D, T) : \A c \in D : f[c] \in A
      BY DEF Typed
    <2>3. \A f \in Typed(D, T) : \A c \in D : B[<<f, c>>] \in T[c]
      <3> SUFFICES ASSUME NEW f \in Typed(D, T), NEW c \in D PROVE LoopBody(op, base, f, c) \in A
        BY <2>1
      <3> HIDE DEF mu, T
      <3> QED
        BY <1>4, <2>2
    <2>4. \A f, g \in Typed(D, T) : \A c \in D :
               (\A d \in D : mu[d] < mu[c] => f[d] = g[d]) => B[<<f, c>>] = B[<<g, c>>]
      <3> HIDE DEF mu, T, B, D
      <3> QED
        BY <1>5, <2>1
    <2>5. Descends(D, N, mu, T, B)
      <3> HIDE DEF mu, T, B, D, N
      <3> QED
        BY <1>2, <2>3, <2>4, Zenon DEF Descends
    <2> HIDE DEF mu, T, B, D, N
    <2> QED
      BY <2>5, Recursion, SMTT(30)
  <1>7. L = [s \in D |-> LoopBody(op, base, L, s)]
    <2>1. PICK f \in Typed(D, T) : \A c \in D : f[c] = B[<<f, c>>]
      BY <1>6
    <2>2. \A c \in D : B[<<f, c>>] = LoopBody(op, base, f, c)
      BY <2>1
    <2>3. f \in [D -> UNION {T[c] : c \in D}]
      BY <2>1 DEF Typed
    <2>4. f = [s \in D |-> f[s]]
      BY <2>3
    <2>5. f = [s \in D |-> LoopBody(op, base, f, s)]
      <3> HIDE DEF B, T, D, mu
      <3> QED
        BY <2>1, <2>2, <2>4
    <2> QED
      BY <2>5, Zenon DEF Loop
  <1>8. \A s \in D : L[s] = LoopBody(op, base, L, s)
    <2> HIDE DEF L, D
    <2> QED
      BY <1>7
  <1>9. D \subseteq {s \in D : L[s] \in A}
    <2> DEFINE Good == {s \in D : L[s] \in A}
    <2>1. \A c \in D : (\A d \in D : mu[d] < mu[c] => d \in Good) => c \in Good
      <3> HIDE DEF D, L, mu
      <3> QED
        BY <1>4, <1>8
    <2>2. mu \in [D -> Nat]
      BY <1>2
    <2>3. D \subseteq Good
      <3> HIDE DEF D, Good, mu
      <3> QED
        BY <2>1, <2>2, Descent, Zenon
    <2> QED
      BY <2>3
  <1> QED
    BY <1>8, <1>9

(* What a loop establishes: pairs of the elements done and the result.      *)
LEMMA LoopInvariant ==
    ASSUME NEW S, IsFiniteSet(S), NEW A, NEW base \in A, NEW op,
           \A x \in S, a \in A : op[<<x, a>>] \in A,
           NEW I, <<{}, base>> \in I,
           \A s \in SUBSET S, x \in S, a \in A :
               x \notin s /\ <<s, a>> \in I => <<s \cup {x}, op[<<x, a>>]>> \in I
    PROVE  FoldOver(op, base, S) \in A /\ <<S, FoldOver(op, base, S)>> \in I
  <1> DEFINE D == SUBSET S
             mu == [s \in D |-> Cardinality(s)]
             L == Loop(op, base, S)
             Good == {s \in D : <<s, L[s]>> \in I}
  <1>1. \A s \in D : IsFiniteSet(s) /\ Cardinality(s) \in Nat
    BY FS_Subset, FS_CardinalityType
  <1>2. \A s \in D : L[s] = LoopBody(op, base, L, s) /\ L[s] \in A
    BY LoopSolves
  <1>3. ASSUME NEW s \in D, \A d \in D : mu[d] < mu[s] => d \in Good PROVE s \in Good
    <2>1. CASE s = {}
      BY <1>2, <2>1 DEF LoopBody
    <2>2. CASE s # {}
      <3> DEFINE x == CHOOSE x \in s : TRUE
                 r == s \ {x}
      <3>1. x \in s
        BY <2>2
      <3>2. L[s] = op[<<x, L[r]>>]
        BY <1>2, <2>2 DEF LoopBody
      <3> HIDE DEF x, L
      <3>3. r \in D /\ x \in S /\ x \notin r /\ s = r \cup {x}
        BY <3>1
      <3>4. Cardinality(r) = Cardinality(s) - 1
        BY <1>1, <3>1, FS_RemoveElement
      <3>5. r \in Good
        <4>1. mu[r] < mu[s]
          BY <1>1, <3>3, <3>4
        <4> HIDE DEF mu, Good, r, D
        <4> QED
          BY <1>3, <3>3, <4>1
      <3>6. L[r] \in A
        BY <1>2, <3>3
      <3> QED
        BY <3>2, <3>3, <3>5, <3>6
    <2> QED
      BY <2>1, <2>2
  <1>4. D \subseteq Good
    <2>1. mu \in [D -> Nat]
      BY <1>1
    <2> HIDE DEF D, Good, mu
    <2> QED
      BY <1>3, <2>1, Descent
  <1>5. S \in D
    OBVIOUS
  <1> QED
    BY <1>2, <1>4, <1>5, FoldIsLoop

(* Two loops that do the same at every point one of them gets to.           *)
LEMMA LoopSame ==
    ASSUME NEW S, IsFiniteSet(S), NEW A, NEW base \in A, NEW op, NEW oq,
           \A x \in S, a \in A : op[<<x, a>>] \in A /\ op[<<x, a>>] = oq[<<x, a>>]
    PROVE  FoldOver(op, base, S) = FoldOver(oq, base, S)
  <1> DEFINE D == SUBSET S
             mu == [s \in D |-> Cardinality(s)]
             L == Loop(op, base, S)
             M == Loop(oq, base, S)
             Good == {s \in D : L[s] = M[s]}
  <1>1. \A s \in D : IsFiniteSet(s) /\ Cardinality(s) \in Nat
    BY FS_Subset, FS_CardinalityType
  <1>2. \A s \in D : L[s] = LoopBody(op, base, L, s) /\ L[s] \in A
    BY LoopSolves
  <1>3. \A s \in D : M[s] = LoopBody(oq, base, M, s) /\ M[s] \in A
    <2>1. \A x \in S, a \in A : oq[<<x, a>>] \in A
      OBVIOUS
    <2> QED
      BY <2>1, LoopSolves
  <1>4. ASSUME NEW s \in D, \A d \in D : mu[d] < mu[s] => d \in Good PROVE s \in Good
    <2>1. CASE s = {}
      BY <1>2, <1>3, <2>1 DEF LoopBody
    <2>2. CASE s # {}
      <3> DEFINE x == CHOOSE x \in s : TRUE
                 r == s \ {x}
      <3>1. x \in s
        BY <2>2
      <3>2. L[s] = op[<<x, L[r]>>] /\ M[s] = oq[<<x, M[r]>>]
        BY <1>2, <1>3, <2>2 DEF LoopBody
      <3> HIDE DEF x, L, M
      <3>3. r \in D /\ x \in S
        BY <3>1
      <3>4. Cardinality(r) = Cardinality(s) - 1
        BY <1>1, <3>1, FS_RemoveElement
      <3>5. r \in Good
        <4>1. mu[r] < mu[s]
          BY <1>1, <3>3, <3>4
        <4> HIDE DEF mu, Good, r, D
        <4> QED
          BY <1>4, <3>3, <4>1
      <3>6. L[r] \in A /\ L[r] = M[r]
        BY <1>2, <3>3, <3>5
      <3> QED
        BY <3>2, <3>3, <3>6
    <2> QED
      BY <2>1, <2>2
  <1>5. D \subseteq Good
    <2>1. mu \in [D -> Nat]
      BY <1>1
    <2> HIDE DEF D, Good, mu
    <2> QED
      BY <1>4, <2>1, Descent, Zenon
  <1>6. L[S] = M[S]
    <2>1. S \in D
      OBVIOUS
    <2> QED
      BY <1>5, <2>1
  <1> QED
    BY <1>6, FoldIsLoop

-----------------------------------------------------------------------------
(* Graphs.                                                                  *)

FiniteGraph(G) == IsFiniteSet(DOMAIN G) /\ \A v \in DOMAIN G : G[v] \subseteq DOMAIN G

\* Some edges lead from p to m.
Leads(G, p, m) == \A X \in Closed(G) : G[p] \subseteq X => m \in X

(* One edge, one more edge, and one way after another.                      *)
LEMMA Ways ==
    ASSUME NEW G, FiniteGraph(G), NEW n \in DOMAIN G
    PROVE  /\ \A m \in G[n] : Leads(G, n, m)
           /\ \A p \in DOMAIN G : \A m \in G[n] : Leads(G, p, n) => Leads(G, p, m)
           /\ \A p, m \in DOMAIN G : Leads(G, p, n) /\ Leads(G, n, m) => Leads(G, p, m)
           /\ n \in OnCycle(G) <=> Leads(G, n, n)
  BY DEF Leads, Closed, OnCycle, FiniteGraph

-----------------------------------------------------------------------------
(* The search of localCycle.                                                *)

LocalEdge(G, f, c) ==
    [e \in G[c[1]] \X Answers(G) |-> FollowLocal(f, c[2] \cup {c[1]}, e[1], e[2])]
LocalLoop(G, f, c) ==
    FoldOver(LocalEdge(G, f, c), [found |-> FALSE, done |-> c[3]], G[c[1]])
LocalBody(G, f, c) ==
    IF LocalLoop(G, f, c).found THEN LocalLoop(G, f, c)
    ELSE [LocalLoop(G, f, c) EXCEPT !.done = @ \cup {c[1]}]

\* A visit weighs what is not on its path.
LocalWeight(G) == [c \in Visits(G) |-> Cardinality(DOMAIN G \ c[2])]

(* What the search does is that recursion.                                  *)
LEMMA CycleFromIs ==
    ASSUME NEW G
    PROVE  CycleFrom(G) = CHOOSE f : f = [c \in Visits(G) |-> LocalBody(G, f, c)]
  BY Zenon DEF CycleFrom, LocalBody, LocalLoop, LocalEdge

(* A visit, and the visits it makes.                                        *)
LEMMA VisitFacts ==
    ASSUME NEW G, FiniteGraph(G), NEW c \in Visits(G)
    PROVE  /\ c[1] \in DOMAIN G /\ c[2] \in SUBSET DOMAIN G /\ c[3] \in SUBSET DOMAIN G
           /\ c[1] \notin c[2] /\ G[c[1]] \subseteq DOMAIN G /\ IsFiniteSet(G[c[1]])
           /\ LocalWeight(G)[c] \in Nat /\ LocalWeight(G)[c] < Cardinality(DOMAIN G) + 1
           /\ \A m \in DOMAIN G, done \in SUBSET DOMAIN G :
                 m \notin c[2] \cup {c[1]} =>
                 /\ <<m, c[2] \cup {c[1]}, done>> \in Visits(G)
                 /\ LocalWeight(G)[<<m, c[2] \cup {c[1]}, done>>] < LocalWeight(G)[c]
  <1>1. /\ c[1] \in DOMAIN G /\ c[2] \in SUBSET DOMAIN G /\ c[3] \in SUBSET DOMAIN G
        /\ c[1] \notin c[2] /\ G[c[1]] \subseteq DOMAIN G
    BY DEF Visits, FiniteGraph
  <1>2. IsFiniteSet(G[c[1]]) /\ IsFiniteSet(DOMAIN G) /\ Cardinality(DOMAIN G) \in Nat
    BY <1>1, FS_Subset, FS_CardinalityType DEF FiniteGraph
  <1> DEFINE rest == DOMAIN G \ c[2]
  <1>3. IsFiniteSet(rest) /\ Cardinality(rest) \in Nat /\ Cardinality(rest) <= Cardinality(DOMAIN G)
    BY <1>2, FS_Subset, FS_CardinalityType
  <1>4. LocalWeight(G)[c] = Cardinality(rest)
    BY DEF LocalWeight
  <1>5. Cardinality(rest \ {c[1]}) = Cardinality(rest) - 1
    BY <1>1, <1>3, FS_RemoveElement
  <1>6. ASSUME NEW m \in DOMAIN G, NEW done \in SUBSET DOMAIN G, m \notin c[2] \cup {c[1]}
        PROVE  /\ <<m, c[2] \cup {c[1]}, done>> \in Visits(G)
               /\ LocalWeight(G)[<<m, c[2] \cup {c[1]}, done>>] < LocalWeight(G)[c]
    <2> DEFINE d == <<m, c[2] \cup {c[1]}, done>>
    <2>1. d \in Visits(G)
      BY <1>1, <1>6 DEF Visits
    <2>2. d[2] = c[2] \cup {c[1]}
      OBVIOUS
    <2>3. DOMAIN G \ d[2] = rest \ {c[1]}
      BY <2>2
    <2>4. LocalWeight(G)[d] = Cardinality(DOMAIN G \ d[2])
      <3> HIDE DEF d
      <3> QED
        BY <2>1 DEF LocalWeight
    <2>5. LocalWeight(G)[d] < LocalWeight(G)[c]
      <3>1. LocalWeight(G)[d] = Cardinality(rest) - 1
        <4> HIDE DEF d, rest
        <4> QED
          BY <1>5, <2>3, <2>4, Zenon
      <3> HIDE DEF d, rest
      <3> QED
        BY <1>3, <1>4, <3>1
    <2> QED
      BY <2>1, <2>5
  <1> HIDE DEF rest
  <1>7. LocalWeight(G)[c] \in Nat /\ LocalWeight(G)[c] < Cardinality(DOMAIN G) + 1
    BY <1>2, <1>3, <1>4
  <1> QED
    BY <1>1, <1>2, <1>6, <1>7

(* The edges keep to answers, if the lighter visits do.                     *)
LEMMA LocalEdgeTyped ==
    ASSUME NEW G, FiniteGraph(G), NEW f, NEW c \in Visits(G),
           \A d \in Visits(G) : LocalWeight(G)[d] < LocalWeight(G)[c] => f[d] \in Answers(G)
    PROVE  /\ [found |-> FALSE, done |-> c[3]] \in Answers(G)
           /\ \A x \in G[c[1]], a \in Answers(G) :
                 /\ LocalEdge(G, f, c)[<<x, a>>] = FollowLocal(f, c[2] \cup {c[1]}, x, a)
                 /\ LocalEdge(G, f, c)[<<x, a>>] \in Answers(G)
  <1>1. [found |-> FALSE, done |-> c[3]] \in Answers(G)
    BY VisitFacts DEF Answers
  <1>2. ASSUME NEW x \in G[c[1]], NEW a \in Answers(G)
        PROVE  /\ LocalEdge(G, f, c)[<<x, a>>] = FollowLocal(f, c[2] \cup {c[1]}, x, a)
               /\ FollowLocal(f, c[2] \cup {c[1]}, x, a) \in Answers(G)
    <2>1. LocalEdge(G, f, c)[<<x, a>>] = FollowLocal(f, c[2] \cup {c[1]}, x, a)
      BY DEF LocalEdge
    <2>2. a.done \in SUBSET DOMAIN G /\ [a EXCEPT !.found = TRUE] \in Answers(G)
      BY DEF Answers
    <2>3. x \in DOMAIN G
      BY VisitFacts
    <2>4. x \notin c[2] \cup {c[1]} => f[<<x, c[2] \cup {c[1]}, a.done>>] \in Answers(G)
      BY <2>2, <2>3, VisitFacts
    <2> QED
      BY <2>1, <2>2, <2>4 DEF FollowLocal
  <1> QED
    BY <1>1, <1>2

(* The body answers, and looks at lighter visits only.                      *)
LEMMA LocalBodyTyped ==
    ASSUME NEW G, FiniteGraph(G), NEW f, NEW c \in Visits(G),
           \A d \in Visits(G) : LocalWeight(G)[d] < LocalWeight(G)[c] => f[d] \in Answers(G)
    PROVE  LocalBody(G, f, c) \in Answers(G)
  <1> DEFINE base == [found |-> FALSE, done |-> c[3]]
             op == LocalEdge(G, f, c)
             all == FoldOver(op, base, G[c[1]])
             I == (SUBSET G[c[1]]) \X Answers(G)
  <1>1. base \in Answers(G) /\ \A x \in G[c[1]], a \in Answers(G) : op[<<x, a>>] \in Answers(G)
    BY LocalEdgeTyped
  <1>2. IsFiniteSet(G[c[1]])
    BY VisitFacts
  <1>3. all \in Answers(G)
    <2> HIDE DEF base, op
    <2>1. <<{}, base>> \in I
      BY <1>1
    <2>2. \A s \in SUBSET G[c[1]], x \in G[c[1]], a \in Answers(G) :
             x \notin s /\ <<s, a>> \in I => <<s \cup {x}, op[<<x, a>>]>> \in I
      BY <1>1
    <2> HIDE DEF I
    <2> QED
      BY <1>1, <1>2, <2>1, <2>2, LoopInvariant
  <1>4. all = LocalLoop(G, f, c)
    BY DEF LocalLoop
  <1> HIDE DEF all
  <1> QED
    BY <1>3, <1>4, VisitFacts DEF LocalBody, Answers

(* Two functions that agree on lighter visits have the same body.           *)
LEMMA LocalBodySame ==
    ASSUME NEW G, FiniteGraph(G), NEW f, NEW g, NEW c \in Visits(G),
           \A d \in Visits(G) : LocalWeight(G)[d] < LocalWeight(G)[c] =>
                                f[d] \in Answers(G) /\ f[d] = g[d]
    PROVE  LocalBody(G, f, c) = LocalBody(G, g, c)
  <1> DEFINE base == [found |-> FALSE, done |-> c[3]]
             op == LocalEdge(G, f, c)
             oq == LocalEdge(G, g, c)
             path == c[2] \cup {c[1]}
  <1>1. /\ base \in Answers(G)
        /\ \A x \in G[c[1]], a \in Answers(G) : op[<<x, a>>] \in Answers(G)
        /\ \A x \in G[c[1]], a \in Answers(G) : op[<<x, a>>] = FollowLocal(f, path, x, a)
        /\ \A x \in G[c[1]], a \in Answers(G) : oq[<<x, a>>] = FollowLocal(g, path, x, a)
    <2>1. \A d \in Visits(G) : LocalWeight(G)[d] < LocalWeight(G)[c] => g[d] \in Answers(G)
      OBVIOUS
    <2>2. /\ base \in Answers(G)
          /\ \A x \in G[c[1]], a \in Answers(G) : /\ op[<<x, a>>] = FollowLocal(f, path, x, a)
                                                 /\ op[<<x, a>>] \in Answers(G)
      BY LocalEdgeTyped, Zenon
    <2>3. /\ base \in Answers(G)
          /\ \A x \in G[c[1]], a \in Answers(G) : /\ oq[<<x, a>>] = FollowLocal(g, path, x, a)
                                                 /\ oq[<<x, a>>] \in Answers(G)
      BY <2>1, LocalEdgeTyped, Zenon
    <2> QED
      BY <2>2, <2>3, Zenon
  <1>2. IsFiniteSet(G[c[1]])
    BY VisitFacts
  <1>3. ASSUME NEW x \in G[c[1]], NEW a \in Answers(G)
        PROVE  FollowLocal(f, path, x, a) = FollowLocal(g, path, x, a)
    <2>1. x \in DOMAIN G /\ a.done \in SUBSET DOMAIN G
      BY VisitFacts DEF Answers
    <2>2. x \notin path => f[<<x, path, a.done>>] = g[<<x, path, a.done>>]
      BY <2>1, VisitFacts
    <2> HIDE DEF path
    <2> QED
      BY <2>2 DEF FollowLocal
  <1>4. FoldOver(op, base, G[c[1]]) = FoldOver(oq, base, G[c[1]])
    <2>1. \A x \in G[c[1]], a \in Answers(G) : op[<<x, a>>] \in Answers(G) /\ op[<<x, a>>] = oq[<<x, a>>]
      <3> SUFFICES ASSUME NEW x \in G[c[1]], NEW a \in Answers(G)
                   PROVE  op[<<x, a>>] \in Answers(G) /\ op[<<x, a>>] = oq[<<x, a>>]
        OBVIOUS
      <3>1. FollowLocal(f, path, x, a) = FollowLocal(g, path, x, a)
        BY <1>3
      <3> HIDE DEF op, oq, path
      <3> QED
        BY <1>1, <3>1
    <2> DEFINE S == G[c[1]]
               A == Answers(G)
    <2>2. /\ IsFiniteSet(S) /\ base \in A
          /\ \A x \in S, a \in A : op[<<x, a>>] \in A /\ op[<<x, a>>] = oq[<<x, a>>]
      BY <1>1, <1>2, <2>1, Zenon
    <2> HIDE DEF op, oq, base, S, A
    <2>3. FoldOver(op, base, S) = FoldOver(oq, base, S)
      BY <2>2, LoopSame
    <2> QED
      BY <2>3 DEF S
  <1> QED
    BY <1>4 DEF LocalBody, LocalLoop

(* The search satisfies its recursion.                                      *)
LEMMA CycleFromSolves ==
    ASSUME NEW G, FiniteGraph(G)
    PROVE  \A c \in Visits(G) : /\ CycleFrom(G)[c] = LocalBody(G, CycleFrom(G), c)
                                /\ CycleFrom(G)[c] \in Answers(G)
  <1> DEFINE D == Visits(G)
             mu == LocalWeight(G)
             N == Cardinality(DOMAIN G) + 1
             T == [c \in D |-> Answers(G)]
             B == [p \in Typed(D, T) \X D |-> LocalBody(G, p[1], p[2])]
             F == CycleFrom(G)
  <1>1. N \in Nat /\ mu \in [D -> Nat] /\ \A c \in D : mu[c] < N
    <2>1. \A c \in D : mu[c] \in Nat /\ mu[c] < N
      BY VisitFacts
    <2>2. mu = [c \in D |-> mu[c]]
      BY DEF LocalWeight
    <2>3. N \in Nat
      BY FS_CardinalityType DEF FiniteGraph
    <2> HIDE DEF mu, D, N
    <2> QED
      BY <2>1, <2>2, <2>3
  <1>2. \A f \in Typed(D, T) : \A c \in D : f[c] \in Answers(G)
    BY DEF Typed
  <1>3. \A f \in Typed(D, T) : \A c \in D : B[<<f, c>>] = LocalBody(G, f, c)
    OBVIOUS
  <1>4. Descends(D, N, mu, T, B)
    <2>1. \A c \in D : T[c] # {}
      <3>1. [found |-> FALSE, done |-> {}] \in Answers(G)
        BY DEF Answers
      <3> QED
        BY <3>1
    <2>2. \A f \in Typed(D, T) : \A c \in D : B[<<f, c>>] \in T[c]
      <3> SUFFICES ASSUME NEW f \in Typed(D, T), NEW c \in D PROVE LocalBody(G, f, c) \in Answers(G)
        BY <1>3
      <3> HIDE DEF T
      <3> QED
        BY <1>2, LocalBodyTyped
    <2>3. \A f, g \in Typed(D, T) : \A c \in D :
             (\A d \in D : mu[d] < mu[c] => f[d] = g[d]) => B[<<f, c>>] = B[<<g, c>>]
      <3> SUFFICES ASSUME NEW f \in Typed(D, T), NEW g \in Typed(D, T), NEW c \in D,
                          \A d \in D : mu[d] < mu[c] => f[d] = g[d]
                   PROVE  LocalBody(G, f, c) = LocalBody(G, g, c)
        <4> HIDE DEF B, T, D, mu
        <4> QED
          BY <1>3
      <3> HIDE DEF T
      <3> QED
        BY <1>2, LocalBodySame
    <2> HIDE DEF D, mu, N, T, B
    <2> QED
      BY <1>1, <2>1, <2>2, <2>3 DEF Descends
  <1>5. F = [c \in D |-> LocalBody(G, F, c)]
    <2>1. PICK f \in Typed(D, T) : \A c \in D : f[c] = B[<<f, c>>]
      <3> HIDE DEF D, mu, N, T, B
      <3> QED
        BY <1>4, Recursion, SMTT(30)
    <2>2. \A c \in D : f[c] = LocalBody(G, f, c)
      <3> HIDE DEF D, T, B
      <3> QED
        BY <1>3, <2>1
    <2>3. f = [c \in D |-> f[c]]
      BY <2>1 DEF Typed
    <2>4. f = [c \in D |-> LocalBody(G, f, c)]
      <3> HIDE DEF D
      <3> QED
        BY <2>2, <2>3
    <2> QED
      BY <2>4, CycleFromIs, Zenon
  <1>6. \A c \in D : F[c] = LocalBody(G, F, c)
    <2> HIDE DEF F, D
    <2> QED
      BY <1>5
  <1>7. D \subseteq {c \in D : F[c] \in Answers(G)}
    <2> DEFINE Good == {c \in D : F[c] \in Answers(G)}
    <2>1. \A c \in D : (\A d \in D : mu[d] < mu[c] => d \in Good) => c \in Good
      <3> HIDE DEF F
      <3> QED
        BY <1>6, LocalBodyTyped
    <2>2. D \subseteq Good
      <3> HIDE DEF D, Good, mu
      <3> QED
        BY <1>1, <2>1, Descent, Zenon
    <2> QED
      BY <2>2
  <1> QED
    BY <1>6, <1>7

\* Nodes that lead to no other and are on no cycle.
Clean(G, done) == done \in Closed(G) /\ done \cap OnCycle(G) = {}

\* What a visit may rely on, and what it answers for.
VisitPre(G, c) ==
    /\ c[1] \notin c[3] /\ Clean(G, c[3]) /\ c[2] \cap c[3] = {}
    /\ \A p \in c[2] : Leads(G, p, c[1])
VisitPost(G, c, a) ==
    /\ a.found => OnCycle(G) # {}
    /\ ~a.found => /\ c[3] \cup {c[1]} \subseteq a.done
                   /\ Clean(G, a.done) /\ a.done \cap c[2] = {}

\* What the loop over the requirements of c has answered for after s.
LocalSoFar(G, c, s, a) ==
    /\ a.found => OnCycle(G) # {}
    /\ ~a.found => s \cup c[3] \subseteq a.done /\ Clean(G, a.done) /\ a.done \cap (c[2] \cup {c[1]}) = {}

(* One requirement of a visit.                                              *)
LEMMA LocalStep ==
    ASSUME NEW G, FiniteGraph(G), NEW c \in Visits(G), VisitPre(G, c), NEW f,
           \A d \in Visits(G) : LocalWeight(G)[d] < LocalWeight(G)[c] =>
                                f[d] \in Answers(G) /\ (VisitPre(G, d) => VisitPost(G, d, f[d])),
           NEW s, NEW x \in G[c[1]], NEW a \in Answers(G), LocalSoFar(G, c, s, a)
    PROVE  LocalSoFar(G, c, s \cup {x}, FollowLocal(f, c[2] \cup {c[1]}, x, a))
  <1> DEFINE path == c[2] \cup {c[1]}
             b == FollowLocal(f, path, x, a)
  <1>1. /\ x \in DOMAIN G /\ c[1] \in DOMAIN G /\ c[2] \subseteq DOMAIN G
        /\ a.done \in SUBSET DOMAIN G /\ a.found \in BOOLEAN
    BY VisitFacts DEF Answers
  <1>2. \A p \in path : Leads(G, p, x)
    <2>1. Leads(G, c[1], x)
      BY <1>1, Ways
    <2>2. ASSUME NEW p \in c[2] PROVE Leads(G, p, x)
      BY <1>1, Ways DEF VisitPre
    <2> QED
      BY <2>1, <2>2
  <1>3. CASE a.found \/ x \in a.done
    BY <1>3 DEF FollowLocal, LocalSoFar
  <1>4. CASE ~a.found /\ x \notin a.done /\ x \in path
    <2>1. x \in OnCycle(G)
      BY <1>1, <1>2, <1>4, Ways
    <2>2. b = [a EXCEPT !.found = TRUE]
      BY <1>4 DEF FollowLocal
    <2>3. b.found
      BY <2>2 DEF Answers
    <2> QED
      BY <2>1, <2>3 DEF LocalSoFar
  <1>5. CASE ~a.found /\ x \notin a.done /\ x \notin path
    <2> DEFINE d == <<x, path, a.done>>
    <2>1. d \in Visits(G) /\ LocalWeight(G)[d] < LocalWeight(G)[c]
      BY <1>1, <1>5, VisitFacts
    <2>2. d[1] = x /\ d[2] = path /\ d[3] = a.done
      OBVIOUS
    <2>3. Clean(G, a.done) /\ a.done \cap path = {} /\ s \cup c[3] \subseteq a.done
      BY <1>5 DEF LocalSoFar
    <2>4. b = f[d]
      BY <1>5 DEF FollowLocal
    <2> HIDE DEF d, b
    <2>5. VisitPre(G, d)
      <3> HIDE DEF path
      <3> QED
        BY <1>2, <1>5, <2>2, <2>3 DEF VisitPre
    <2>6. VisitPost(G, d, b) /\ b \in Answers(G)
      BY <2>1, <2>4, <2>5
    <2> HIDE DEF path
    <2>7. LocalSoFar(G, c, s \cup {x}, b)
      BY <2>2, <2>3, <2>6 DEF VisitPost, LocalSoFar, path
    <2> QED
      BY <2>7 DEF b, path
  <1> QED
    BY <1>3, <1>4, <1>5

(* A visit answers rightly.                                                 *)
LEMMA VisitRight ==
    ASSUME NEW G, FiniteGraph(G), NEW c \in Visits(G), VisitPre(G, c)
    PROVE  VisitPost(G, c, CycleFrom(G)[c])
  <1> DEFINE F == CycleFrom(G)
             D == Visits(G)
             mu == LocalWeight(G)
             Good == {d \in D : VisitPre(G, d) => VisitPost(G, d, F[d])}
  <1>1. \A d \in D : F[d] = LocalBody(G, F, d) /\ F[d] \in Answers(G)
    BY CycleFromSolves
  <1> HIDE DEF F
  <1>2. ASSUME NEW d \in D, \A e \in D : mu[e] < mu[d] => e \in Good, VisitPre(G, d)
        PROVE  VisitPost(G, d, F[d])
    <2> DEFINE S == G[d[1]]
               A == Answers(G)
               base == [found |-> FALSE, done |-> d[3]]
               op == LocalEdge(G, F, d)
               I == {p \in (SUBSET S) \X A : LocalSoFar(G, d, p[1], p[2])}
               all == FoldOver(op, base, S)
    <2>1. /\ base \in A
          /\ \A x \in S, a \in A : /\ op[<<x, a>>] \in A
                                  /\ op[<<x, a>>] = FollowLocal(F, d[2] \cup {d[1]}, x, a)
      BY <1>1, LocalEdgeTyped
    <2>2. IsFiniteSet(S) /\ S \subseteq DOMAIN G /\ d[1] \in DOMAIN G /\ d[1] \notin d[2]
      BY VisitFacts
    <2>3. <<{}, base>> \in I
      <3>1. LocalSoFar(G, d, {}, base)
        BY <1>2 DEF LocalSoFar, VisitPre
      <3> QED
        BY <2>1, <3>1
    <2>4. ASSUME NEW s \in SUBSET S, NEW x \in S, NEW a \in A, <<s, a>> \in I
          PROVE  <<s \cup {x}, op[<<x, a>>]>> \in I
      <3>1. LocalSoFar(G, d, s, a)
        BY <2>4
      <3>2. \A e \in D : mu[e] < mu[d] => F[e] \in A /\ (VisitPre(G, e) => VisitPost(G, e, F[e]))
        BY <1>1, <1>2
      <3>3. LocalSoFar(G, d, s \cup {x}, FollowLocal(F, d[2] \cup {d[1]}, x, a))
        BY <1>2, <3>1, <3>2, LocalStep
      <3>4. LocalSoFar(G, d, s \cup {x}, op[<<x, a>>]) /\ op[<<x, a>>] \in A
        BY <2>1, <3>3
      <3> HIDE DEF op, S, A
      <3> QED
        BY <3>4
    <2>5. all \in A /\ <<S, all>> \in I
      <3> HIDE DEF op, S, A, base, I
      <3> QED
        BY <2>1, <2>2, <2>3, <2>4, LoopInvariant
    <2>6. F[d] = IF all.found THEN all ELSE [all EXCEPT !.done = @ \cup {d[1]}]
      BY <1>1 DEF LocalBody, LocalLoop
    <2>7. LocalSoFar(G, d, S, all)
      <3> HIDE DEF all
      <3> QED
        BY <2>5
    <2> HIDE DEF all
    <2>8. CASE all.found
      BY <2>6, <2>7, <2>8 DEF LocalSoFar, VisitPost
    <2>9. CASE ~all.found
      <3>1. /\ S \cup d[3] \subseteq all.done /\ Clean(G, all.done)
            /\ all.done \cap (d[2] \cup {d[1]}) = {}
        BY <2>7, <2>9 DEF LocalSoFar
      <3>2. /\ F[d].done = all.done \cup {d[1]} /\ F[d].found = FALSE
        BY <2>5, <2>6, <2>9 DEF Answers
      <3>3. d[1] \notin OnCycle(G)
        BY <2>2, <3>1 DEF OnCycle, Clean
      <3>4. all.done \cup {d[1]} \in Closed(G)
        BY <2>2, <3>1 DEF Closed, Clean
      <3>5. Clean(G, F[d].done)
        BY <3>1, <3>2, <3>3, <3>4 DEF Clean
      <3> QED
        BY <2>2, <3>1, <3>2, <3>5 DEF VisitPost
    <2> QED
      BY <2>8, <2>9
  <1>3. \A d \in D : (\A e \in D : mu[e] < mu[d] => e \in Good) => d \in Good
    BY <1>2
  <1>4. mu \in [D -> Nat]
    <2>1. \A d \in D : mu[d] \in Nat
      BY VisitFacts
    <2>2. mu = [d \in D |-> mu[d]]
      BY DEF LocalWeight
    <2> HIDE DEF mu, D
    <2> QED
      BY <2>1, <2>2
  <1>5. D \subseteq Good
    <2> HIDE DEF mu, D, Good
    <2> QED
      BY <1>3, <1>4, Descent, Zenon
  <1> QED
    BY <1>5 DEF F

(* localCycle finds a cycle exactly if there is one.                        *)
LEMMA LocalCycleExact ==
    ASSUME NEW G, FiniteGraph(G)
    PROVE  HasLocalCycle(G) <=> OnCycle(G) # {}
  <1> DEFINE F == CycleFrom(G)
             S == DOMAIN G
             A == Answers(G)
             base == [found |-> FALSE, done |-> {}]
             op == [c \in S \X A |-> FollowLocal(F, {}, c[1], c[2])]
             Top(s, a) == /\ a.found => OnCycle(G) # {}
                          /\ ~a.found => s \subseteq a.done /\ Clean(G, a.done)
             I == {p \in (SUBSET S) \X A : Top(p[1], p[2])}
             all == FoldOver(op, base, S)
  <1>1. IsFiniteSet(S) /\ base \in A /\ Top({}, base)
    BY DEF FiniteGraph, Answers, Clean, Closed
  <1>2. ASSUME NEW s \in SUBSET S, NEW x \in S, NEW a \in A
        PROVE  op[<<x, a>>] \in A /\ (Top(s, a) => Top(s \cup {x}, op[<<x, a>>]))
    <2>1. op[<<x, a>>] = FollowLocal(F, {}, x, a)
      OBVIOUS
    <2>2. a.done \in SUBSET S /\ a.found \in BOOLEAN
      BY DEF Answers
    <2>3. CASE a.found \/ x \in a.done
      <3>1. op[<<x, a>>] = a
        BY <2>1, <2>3 DEF FollowLocal
      <3> HIDE DEF op
      <3> QED
        BY <2>3, <3>1
    <2>4. CASE ~a.found /\ x \notin a.done
      <3> DEFINE d == <<x, {}, a.done>>
      <3>1. op[<<x, a>>] = F[d]
        BY <2>1, <2>4 DEF FollowLocal
      <3>2. d \in Visits(G) /\ d[1] = x /\ d[2] = {} /\ d[3] = a.done
        BY <2>2 DEF Visits
      <3> HIDE DEF d, op, F
      <3>3. F[d] \in A
        BY <3>2, CycleFromSolves DEF F
      <3>4. ASSUME Top(s, a) PROVE Top(s \cup {x}, F[d])
        <4>1. VisitPre(G, d)
          BY <2>4, <3>2, <3>4 DEF VisitPre
        <4>2. VisitPost(G, d, F[d])
          BY <3>2, <4>1, VisitRight DEF F
        <4> QED
          BY <2>4, <3>2, <3>4, <4>2 DEF VisitPost
      <3> QED
        BY <3>1, <3>3, <3>4
    <2> QED
      BY <2>3, <2>4
  <1>3. all \in A /\ <<S, all>> \in I
    <2>1. <<{}, base>> \in I
      BY <1>1
    <2>2. \A x \in S, a \in A : op[<<x, a>>] \in A
      BY <1>2
    <2>3. \A s \in SUBSET S, x \in S, a \in A :
             x \notin s /\ <<s, a>> \in I => <<s \cup {x}, op[<<x, a>>]>> \in I
      <3> HIDE DEF op, A, S, Top
      <3> QED
        BY <1>2
    <2> HIDE DEF op, A, S, base, I
    <2> QED
      BY <1>1, <2>1, <2>2, <2>3, LoopInvariant
  <1>4. Top(S, all)
    <2> HIDE DEF all
    <2> QED
      BY <1>3
  <1>5. HasLocalCycle(G) = all.found
    BY Zenon DEF HasLocalCycle
  <1> HIDE DEF all
  <1>6. all.found \in BOOLEAN /\ OnCycle(G) \subseteq S
    BY <1>3 DEF Answers, OnCycle
  <1> QED
    BY <1>4, <1>5, <1>6 DEF Clean

-----------------------------------------------------------------------------
(* The search of rejectCycles: its states.                                  *)

(* What a search state is.                                                  *)
LEMMA StateFacts ==
    ASSUME NEW G, NEW st
    PROVE  st \in SearchStates(G) <=>
           /\ st = [index |-> st.index, low |-> st.low, stack |-> st.stack, next |-> st.next,
                    cyclic |-> st.cyclic]
           /\ st.index \in [DOMAIN G -> Nat] /\ st.low \in [DOMAIN G -> Nat]
           /\ st.stack \in Seq(DOMAIN G) /\ st.next \in Nat \ {0} /\ st.cyclic \in SUBSET SUBSET DOMAIN G
           /\ \A u \in DOMAIN G : st.index[u] < st.next
           /\ \A i \in 1 .. Len(st.stack) :
                 /\ st.index[st.stack[i]] # 0
                 /\ \A j \in 1 .. i - 1 : st.index[st.stack[j]] < st.index[st.stack[i]]
  <1>1. st \in [index : [DOMAIN G -> Nat], low : [DOMAIN G -> Nat], stack : Seq(DOMAIN G),
                next : Nat \ {0}, cyclic : SUBSET SUBSET DOMAIN G] <=>
           /\ st = [index |-> st.index, low |-> st.low, stack |-> st.stack, next |-> st.next,
                    cyclic |-> st.cyclic]
           /\ st.index \in [DOMAIN G -> Nat] /\ st.low \in [DOMAIN G -> Nat]
           /\ st.stack \in Seq(DOMAIN G) /\ st.next \in Nat \ {0} /\ st.cyclic \in SUBSET SUBSET DOMAIN G
    OBVIOUS
  <1>2. st.stack \in Seq(DOMAIN G) => DOMAIN st.stack = 1 .. Len(st.stack)
    OBVIOUS
  <1> QED
    BY <1>1, <1>2 DEF SearchStates, Seen

(* Entering a node.                                                         *)
LEMMA EnterFacts ==
    ASSUME NEW G, NEW st \in SearchStates(G), NEW v \in DOMAIN G, ~Seen(st, v), NEW e, e = Enter(st, v)
    PROVE  /\ e \in SearchStates(G)
           /\ e.index[v] = st.next /\ e.low[v] = st.next
           /\ \A u \in DOMAIN G : u # v => e.index[u] = st.index[u] /\ e.low[u] = st.low[u]
           /\ e.next = st.next + 1 /\ e.cyclic = st.cyclic
           /\ Len(e.stack) = Len(st.stack) + 1 /\ e.stack[Len(st.stack) + 1] = v
           /\ \A i \in 1 .. Len(st.stack) : e.stack[i] = st.stack[i]
  <1>1. /\ st = [index |-> st.index, low |-> st.low, stack |-> st.stack, next |-> st.next,
                 cyclic |-> st.cyclic]
        /\ st.index \in [DOMAIN G -> Nat] /\ st.low \in [DOMAIN G -> Nat]
        /\ st.stack \in Seq(DOMAIN G) /\ st.next \in Nat \ {0} /\ st.cyclic \in SUBSET SUBSET DOMAIN G
        /\ \A u \in DOMAIN G : st.index[u] < st.next
        /\ \A i \in 1 .. Len(st.stack) :
              /\ st.index[st.stack[i]] # 0
              /\ \A j \in 1 .. i - 1 : st.index[st.stack[j]] < st.index[st.stack[i]]
    BY StateFacts
  <1>2. e = [index |-> [st.index EXCEPT ![v] = st.next], low |-> [st.low EXCEPT ![v] = st.next],
             stack |-> Append(st.stack, v), next |-> st.next + 1, cyclic |-> st.cyclic]
    BY <1>1 DEF Enter
  <1>3. /\ e.index = [st.index EXCEPT ![v] = st.next] /\ e.low = [st.low EXCEPT ![v] = st.next]
        /\ e.next = st.next + 1 /\ e.stack = Append(st.stack, v) /\ e.cyclic = st.cyclic
    BY <1>2
  <1>4. /\ e.index \in [DOMAIN G -> Nat] /\ e.low \in [DOMAIN G -> Nat]
        /\ e.next \in Nat \ {0} /\ e.cyclic \in SUBSET SUBSET DOMAIN G
        /\ \A u \in DOMAIN G : e.index[u] < e.next
    BY <1>1, <1>3
  <1>5. /\ e.stack \in Seq(DOMAIN G) /\ Len(e.stack) = Len(st.stack) + 1
        /\ \A i \in 1 .. Len(st.stack) : e.stack[i] = st.stack[i] /\ st.stack[i] \in DOMAIN G
        /\ e.stack[Len(st.stack) + 1] = v /\ Len(st.stack) \in Nat
    BY <1>1, <1>3
  <1>6. \A i \in 1 .. Len(st.stack) : st.stack[i] # v /\ e.index[e.stack[i]] = st.index[st.stack[i]]
    BY <1>1, <1>3, <1>5 DEF Seen
  <1>7. e.index[v] = st.next /\ st.next # 0
    BY <1>1, <1>3
  <1>8. ASSUME NEW i \in 1 .. Len(e.stack)
        PROVE  /\ e.index[e.stack[i]] # 0
               /\ \A j \in 1 .. i - 1 : e.index[e.stack[j]] < e.index[e.stack[i]]
    <2>1. CASE i \in 1 .. Len(st.stack)
      <3>1. \A j \in 1 .. i - 1 : j \in 1 .. Len(st.stack)
        BY <1>5, <2>1
      <3>2. \A j \in 1 .. i - 1 : st.index[st.stack[j]] < st.index[st.stack[i]]
        BY <1>1, <2>1
      <3>3. \A j \in 1 .. i - 1 : e.index[e.stack[j]] < e.index[e.stack[i]]
        BY <1>6, <2>1, <3>1, <3>2
      <3> QED
        BY <1>1, <1>6, <2>1, <3>3
    <2>2. CASE i = Len(st.stack) + 1
      <3>1. ASSUME NEW j \in 1 .. i - 1 PROVE e.index[e.stack[j]] < e.index[e.stack[i]]
        <4>1. j \in 1 .. Len(st.stack)
          BY <1>5, <2>2
        <4>2. e.index[e.stack[j]] = st.index[st.stack[j]] /\ st.index[st.stack[j]] < st.next
          BY <1>1, <1>5, <1>6, <4>1
        <4> QED
          BY <1>5, <1>7, <2>2, <4>2
      <3> QED
        BY <1>5, <1>7, <2>2, <3>1
    <2> QED
      BY <1>5, <2>1, <2>2
  <1>9. e \in SearchStates(G)
    BY <1>2, <1>3, <1>4, <1>5, <1>8, StateFacts
  <1>10. /\ e.index[v] = st.next /\ e.low[v] = st.next
         /\ \A u \in DOMAIN G : u # v => e.index[u] = st.index[u] /\ e.low[u] = st.low[u]
    BY <1>1, <1>3
  <1> QED
    BY <1>3, <1>5, <1>9, <1>10

\* e is st with the lesser of its low and n as the low of v.
Lowered(G, st, v, n, e) ==
    /\ e.index = st.index /\ e.next = st.next /\ e.stack = st.stack /\ e.cyclic = st.cyclic
    /\ e.low[v] = (IF st.low[v] <= n THEN st.low[v] ELSE n)
    /\ \A u \in DOMAIN G : u # v => e.low[u] = st.low[u]

(* Lowering the low of a node.                                              *)
LEMMA LowerFacts ==
    ASSUME NEW G, NEW st \in SearchStates(G), NEW v \in DOMAIN G, NEW n \in Nat, NEW e, e = Lower(st, v, n)
    PROVE  e \in SearchStates(G) /\ Lowered(G, st, v, n, e)
  <1>1. /\ st = [index |-> st.index, low |-> st.low, stack |-> st.stack, next |-> st.next,
                 cyclic |-> st.cyclic]
        /\ st.low \in [DOMAIN G -> Nat]
    BY StateFacts
  <1> DEFINE m == Min({st.low[v], n})
  <1>2. m = (IF st.low[v] <= n THEN st.low[v] ELSE n) /\ m \in Nat
    BY <1>1, MinPair
  <1>3. e = [index |-> st.index, low |-> [st.low EXCEPT ![v] = m], stack |-> st.stack,
             next |-> st.next, cyclic |-> st.cyclic]
    BY <1>1 DEF Lower
  <1> HIDE DEF m
  <1>4. /\ e.index = st.index /\ e.next = st.next /\ e.stack = st.stack /\ e.cyclic = st.cyclic
        /\ e.low = [st.low EXCEPT ![v] = m]
    BY <1>3
  <1>5. /\ e.low \in [DOMAIN G -> Nat] /\ e.low[v] = m
        /\ \A u \in DOMAIN G : u # v => e.low[u] = st.low[u]
    BY <1>1, <1>2, <1>4
  <1>6. e \in SearchStates(G)
    <2>1. /\ st.index \in [DOMAIN G -> Nat] /\ st.stack \in Seq(DOMAIN G)
          /\ st.next \in Nat \ {0} /\ st.cyclic \in SUBSET SUBSET DOMAIN G
          /\ \A u \in DOMAIN G : st.index[u] < st.next
          /\ \A i \in 1 .. Len(st.stack) :
                /\ st.index[st.stack[i]] # 0
                /\ \A j \in 1 .. i - 1 : st.index[st.stack[j]] < st.index[st.stack[i]]
      BY StateFacts
    <2>2. e = [index |-> e.index, low |-> e.low, stack |-> e.stack, next |-> e.next,
               cyclic |-> e.cyclic]
      BY <1>3, <1>4
    <2>3. /\ e.index \in [DOMAIN G -> Nat] /\ e.stack \in Seq(DOMAIN G)
          /\ e.next \in Nat \ {0} /\ e.cyclic \in SUBSET SUBSET DOMAIN G
          /\ \A u \in DOMAIN G : e.index[u] < e.next
          /\ \A i \in 1 .. Len(e.stack) :
                /\ e.index[e.stack[i]] # 0
                /\ \A j \in 1 .. i - 1 : e.index[e.stack[j]] < e.index[e.stack[i]]
      BY <1>4, <2>1, Zenon
    <2> QED
      BY <1>5, <2>2, <2>3, StateFacts, Zenon
  <1> QED
    BY <1>2, <1>4, <1>5, <1>6 DEF Lowered

(* The part of a sequence below a position.                                 *)
LEMMA Below ==
    ASSUME NEW S, NEW s \in Seq(S), NEW k \in 1 .. Len(s)
    PROVE  /\ SubSeq(s, 1, k - 1) \in Seq(S) /\ Len(SubSeq(s, 1, k - 1)) = k - 1
           /\ \A i \in 1 .. k - 1 : SubSeq(s, 1, k - 1)[i] = s[i]
  <1> DEFINE n == k - 1
             p == SubSeq(s, 1, n)
  <1>1. n \in Int /\ 1 \in Int /\ 0 <= n /\ \A i \in 1 .. n : s[i] \in S
    OBVIOUS
  <1> HIDE DEF n
  <1>2. /\ p \in Seq(S) /\ Len(p) = IF 1 <= n THEN n - 1 + 1 ELSE 0
        /\ \A i \in 1 .. n - 1 + 1 : p[i] = s[1 + i - 1]
    BY <1>1, SubSeqProperties
  <1> HIDE DEF p
  <1>3. p \in Seq(S) /\ Len(p) = n /\ \A i \in 1 .. n : p[i] = s[i]
    BY <1>1, <1>2
  <1> QED
    BY <1>3 DEF p, n

\* What lies on the stack from position k up.
Above(st, k) == {st.stack[j] : j \in k .. Len(st.stack)}

\* e is st without them, and with their set if they are a cycle.
Popped(G, st, k, e) ==
    /\ e.index = st.index /\ e.low = st.low /\ e.next = st.next
    /\ Len(e.stack) = k - 1 /\ \A i \in 1 .. k - 1 : e.stack[i] = st.stack[i]
    /\ e.cyclic = IF IsCycle(G, Above(st, k)) THEN st.cyclic \cup {Above(st, k)} ELSE st.cyclic

(* Popping the component of the node at position k of the stack.            *)
LEMMA PopFacts ==
    ASSUME NEW G, NEW st \in SearchStates(G), NEW k \in 1 .. Len(st.stack),
           NEW e, e = PopComponent(G, st, st.stack[k])
    PROVE  e \in SearchStates(G) /\ Popped(G, st, k, e)
  <1>1. /\ st = [index |-> st.index, low |-> st.low, stack |-> st.stack, next |-> st.next,
                 cyclic |-> st.cyclic]
        /\ st.index \in [DOMAIN G -> Nat] /\ st.low \in [DOMAIN G -> Nat]
        /\ st.stack \in Seq(DOMAIN G) /\ st.next \in Nat \ {0} /\ st.cyclic \in SUBSET SUBSET DOMAIN G
        /\ \A u \in DOMAIN G : st.index[u] < st.next
        /\ \A i \in 1 .. Len(st.stack) :
              /\ st.index[st.stack[i]] # 0
              /\ \A j \in 1 .. i - 1 : st.index[st.stack[j]] < st.index[st.stack[i]]
    BY StateFacts
  <1>2. /\ DOMAIN st.stack = 1 .. Len(st.stack) /\ Len(st.stack) \in Nat /\ k \in Nat
        /\ \A i \in 1 .. Len(st.stack) : st.stack[i] \in DOMAIN G
    BY <1>1
  <1>3. \A j \in DOMAIN st.stack : st.stack[j] = st.stack[k] => j = k
    <2> SUFFICES ASSUME NEW j \in 1 .. Len(st.stack), st.stack[j] = st.stack[k], j # k PROVE FALSE
      BY <1>2
    <2>1. st.index[st.stack[j]] \in Nat
      BY <1>1, <1>2
    <2>2. CASE j < k
      <3>1. j \in 1 .. k - 1
        BY <1>2, <2>2
      <3>2. st.index[st.stack[j]] < st.index[st.stack[k]]
        BY <1>1, <3>1, Zenon
      <3> QED
        BY <2>1, <3>2
    <2>3. CASE k < j
      <3>1. k \in 1 .. j - 1
        BY <1>2, <2>3
      <3>2. st.index[st.stack[k]] < st.index[st.stack[j]]
        BY <1>1, <3>1, Zenon
      <3> QED
        BY <2>1, <3>2
    <2> QED
      BY <1>2, <2>2, <2>3
  <1>4. (CHOOSE j \in DOMAIN st.stack : st.stack[j] = st.stack[k]) = k
    BY <1>2, <1>3
  <1> DEFINE scc == {st.stack[j] : j \in k .. Len(st.stack)}
             cyclic == IF IsCycle(G, scc) THEN st.cyclic \cup {scc} ELSE st.cyclic
             stack == SubSeq(st.stack, 1, k - 1)
  <1>5. e = [st EXCEPT !.stack = stack, !.cyclic = cyclic]
    BY <1>4 DEF PopComponent
  <1>6. scc \in SUBSET DOMAIN G /\ cyclic \in SUBSET SUBSET DOMAIN G
    <2>1. \A j \in k .. Len(st.stack) : j \in 1 .. Len(st.stack)
      BY <1>2
    <2>2. scc \in SUBSET DOMAIN G
      BY <1>2, <2>1, Zenon
    <2> HIDE DEF scc
    <2>3. st.cyclic \cup {scc} \in SUBSET SUBSET DOMAIN G
      BY <1>1, <2>2
    <2> QED
      BY <1>1, <2>2, <2>3, Zenon
  <1>7. stack \in Seq(DOMAIN G) /\ Len(stack) = k - 1 /\ \A i \in 1 .. k - 1 : stack[i] = st.stack[i]
    BY <1>1, <1>2, Below
  <1> HIDE DEF cyclic, stack
  <1>8. e = [index |-> st.index, low |-> st.low, stack |-> stack, next |-> st.next, cyclic |-> cyclic]
    BY <1>1, <1>5
  <1>9. /\ e.index = st.index /\ e.low = st.low /\ e.next = st.next /\ e.stack = stack
        /\ e.cyclic = cyclic
    BY <1>8
  <1>10. \A i \in 1 .. Len(e.stack) :
              /\ e.index[e.stack[i]] # 0
              /\ \A j \in 1 .. i - 1 : e.index[e.stack[j]] < e.index[e.stack[i]]
    <2> SUFFICES ASSUME NEW i \in 1 .. k - 1
                 PROVE  /\ st.index[stack[i]] # 0
                        /\ \A j \in 1 .. i - 1 : st.index[stack[j]] < st.index[stack[i]]
      BY <1>7, <1>9
    <2>1. i \in 1 .. Len(st.stack) /\ stack[i] = st.stack[i] /\ \A j \in 1 .. i - 1 : stack[j] = st.stack[j]
      BY <1>2, <1>7
    <2> QED
      BY <1>1, <2>1
  <1>11. e \in SearchStates(G)
    BY <1>1, <1>6, <1>7, <1>8, <1>9, <1>10, StateFacts
  <1>12. e.cyclic = IF IsCycle(G, Above(st, k)) THEN st.cyclic \cup {Above(st, k)} ELSE st.cyclic
    BY <1>9 DEF cyclic, Above
  <1> QED
    BY <1>7, <1>9, <1>11, <1>12 DEF Popped

\* b comes after a in the search: what was seen keeps its index and, but for
\* v, its low; what was not seen, or lies higher on the stack, is newer.
Later(G, a, b, v) ==
    /\ a.next <= b.next
    /\ \A u \in DOMAIN G : /\ Seen(a, u) => b.index[u] = a.index[u] /\ (u # v => b.low[u] = a.low[u])
                           /\ ~Seen(a, u) => b.index[u] = 0 \/ a.next <= b.index[u]
    /\ Len(a.stack) <= Len(b.stack) /\ \A i \in 1 .. Len(a.stack) : b.stack[i] = a.stack[i]
    /\ \A i \in 1 .. Len(b.stack) : Len(a.stack) < i => a.next <= b.index[b.stack[i]]

(* States come after each other.                                            *)
LEMMA LaterLater ==
    ASSUME NEW G, NEW v, NEW a \in SearchStates(G), NEW b \in SearchStates(G), NEW c \in SearchStates(G),
           Later(G, a, b, v), Later(G, b, c, v)
    PROVE  Later(G, a, c, v)
  <1>1. /\ a.next \in Nat \ {0} /\ b.next \in Nat /\ c.next \in Nat
        /\ a.index \in [DOMAIN G -> Nat] /\ b.index \in [DOMAIN G -> Nat] /\ c.index \in [DOMAIN G -> Nat]
        /\ a.stack \in Seq(DOMAIN G) /\ b.stack \in Seq(DOMAIN G) /\ c.stack \in Seq(DOMAIN G)
        /\ \A i \in 1 .. Len(b.stack) : b.index[b.stack[i]] # 0
        /\ \A u \in DOMAIN G : a.index[u] < a.next /\ b.index[u] < b.next
    BY StateFacts
  <1>2. a.next <= c.next
    BY <1>1 DEF Later
  <1>3. \A u \in DOMAIN G : /\ Seen(a, u) => c.index[u] = a.index[u] /\ (u # v => c.low[u] = a.low[u])
                            /\ ~Seen(a, u) => c.index[u] = 0 \/ a.next <= c.index[u]
    <2> SUFFICES ASSUME NEW u \in DOMAIN G
                 PROVE  /\ Seen(a, u) => c.index[u] = a.index[u] /\ (u # v => c.low[u] = a.low[u])
                        /\ ~Seen(a, u) => c.index[u] = 0 \/ a.next <= c.index[u]
      OBVIOUS
    <2>1. CASE Seen(a, u)
      BY <2>1 DEF Later, Seen
    <2>2. CASE ~Seen(a, u)
      <3>1. b.index[u] = 0 \/ a.next <= b.index[u]
        BY <2>2 DEF Later
      <3>2. b.index[u] = 0 => c.index[u] = 0 \/ b.next <= c.index[u]
        BY DEF Later, Seen
      <3>3. b.index[u] # 0 => c.index[u] = b.index[u]
        BY DEF Later, Seen
      <3>4. a.next <= b.next /\ c.index[u] \in Nat /\ b.index[u] \in Nat
        BY <1>1 DEF Later
      <3> QED
        BY <1>1, <2>2, <3>1, <3>2, <3>3, <3>4
    <2> QED
      BY <2>1, <2>2
  <1>4. Len(a.stack) \in Nat /\ Len(b.stack) \in Nat /\ Len(c.stack) \in Nat
    BY <1>1
  <1>5. Len(a.stack) <= Len(c.stack) /\ \A i \in 1 .. Len(a.stack) : c.stack[i] = a.stack[i]
    <2>1. Len(a.stack) <= Len(b.stack) /\ Len(b.stack) <= Len(c.stack)
      BY DEF Later
    <2>2. ASSUME NEW i \in 1 .. Len(a.stack) PROVE c.stack[i] = a.stack[i]
      <3>1. i \in 1 .. Len(b.stack)
        BY <1>4, <2>1
      <3> QED
        BY <3>1 DEF Later
    <2> QED
      BY <1>4, <2>1, <2>2
  <1>6. ASSUME NEW i \in 1 .. Len(c.stack), Len(a.stack) < i PROVE a.next <= c.index[c.stack[i]]
    <2>1. CASE i \in 1 .. Len(b.stack)
      <3>1. c.stack[i] = b.stack[i] /\ a.next <= b.index[b.stack[i]]
        BY <1>6, <2>1 DEF Later
      <3>2. b.stack[i] \in DOMAIN G /\ b.index[b.stack[i]] # 0
        <4>1. b.stack \in Seq(DOMAIN G)
          BY <1>1
        <4>2. b.stack[i] \in DOMAIN G
          BY <2>1, <4>1
        <4> QED
          BY <1>1, <2>1, <4>2
      <3>3. c.index[b.stack[i]] = b.index[b.stack[i]]
        BY <3>2 DEF Later, Seen
      <3> QED
        BY <3>1, <3>3
    <2>2. CASE Len(b.stack) < i
      <3>1. b.next <= c.index[c.stack[i]] /\ a.next <= b.next
        BY <2>2 DEF Later
      <3>2. c.index[c.stack[i]] \in Nat
        BY <1>1
      <3> QED
        BY <1>1, <3>1, <3>2
    <2> QED
      BY <1>4, <2>1, <2>2
  <1> QED
    BY <1>2, <1>3, <1>5, <1>6 DEF Later

(* What is not seen yet gets less.                                          *)
LEMMA LaterSees ==
    ASSUME NEW G, NEW v, NEW a \in SearchStates(G), NEW b \in SearchStates(G), Later(G, a, b, v),
           NEW u \in DOMAIN G, Seen(a, u)
    PROVE  Seen(b, u) /\ b.index[u] = a.index[u]
  BY DEF Later, Seen

-----------------------------------------------------------------------------
(* The search of rejectCycles: its recursion.                               *)

EdgeOp(G, f, c) == [e \in G[c[2]] \X SearchStates(G) |-> FollowEdge(f, c[2], e[1], e[2])]
SearchLoop(G, f, c) == FoldOver(EdgeOp(G, f, c), Enter(c[1], c[2]), G[c[2]])
ConnectBody(G, f, c) == Leave(G, SearchLoop(G, f, c), c[2])

\* A call weighs what has not been seen.
Unseen(G, st) == {u \in DOMAIN G : ~Seen(st, u)}
SearchWeight(G) == [c \in Calls(G) |-> Cardinality(Unseen(G, c[1]))]

\* The states a call may leave, and the states of its loop.
Left(G, c) == {b \in SearchStates(G) : Later(G, c[1], b, c[2]) /\ Seen(b, c[2])}
Inside(G, c) == {b \in SearchStates(G) : Later(G, Enter(c[1], c[2]), b, c[2])}

(* What the search does is that recursion.                                  *)
LEMMA StrongConnectIs ==
    ASSUME NEW G
    PROVE  StrongConnect(G) = CHOOSE f : f = [c \in Calls(G) |-> ConnectBody(G, f, c)]
  BY Zenon DEF StrongConnect, ConnectBody, SearchLoop, EdgeOp

(* A call, the node it enters, and the calls it makes.                      *)
LEMMA CallFacts ==
    ASSUME NEW G, FiniteGraph(G), NEW c \in Calls(G), NEW e, e = Enter(c[1], c[2])
    PROVE  /\ c[1] \in SearchStates(G) /\ c[2] \in DOMAIN G /\ ~Seen(c[1], c[2])
           /\ G[c[2]] \subseteq DOMAIN G /\ IsFiniteSet(G[c[2]])
           /\ SearchWeight(G)[c] \in Nat /\ SearchWeight(G)[c] < Cardinality(DOMAIN G) + 1
           /\ e \in SearchStates(G) /\ Later(G, c[1], e, c[2]) /\ Later(G, e, e, c[2]) /\ Seen(e, c[2])
           /\ \A b \in Inside(G, c), w \in DOMAIN G :
                 ~Seen(b, w) => /\ <<b, w>> \in Calls(G)
                                /\ SearchWeight(G)[<<b, w>>] < SearchWeight(G)[c]
  <1> DEFINE a == c[1]
             v == c[2]
  <1>1. a \in SearchStates(G) /\ v \in DOMAIN G /\ ~Seen(a, v) /\ G[v] \subseteq DOMAIN G
    BY DEF Calls, FiniteGraph
  <1>2. IsFiniteSet(G[v]) /\ IsFiniteSet(DOMAIN G) /\ Cardinality(DOMAIN G) \in Nat
    BY <1>1, FS_Subset, FS_CardinalityType DEF FiniteGraph
  <1>3. \A st : /\ IsFiniteSet(Unseen(G, st)) /\ Cardinality(Unseen(G, st)) \in Nat
                /\ Cardinality(Unseen(G, st)) <= Cardinality(DOMAIN G)
    <2> SUFFICES ASSUME NEW st
                 PROVE  /\ IsFiniteSet(Unseen(G, st)) /\ Cardinality(Unseen(G, st)) \in Nat
                        /\ Cardinality(Unseen(G, st)) <= Cardinality(DOMAIN G)
      OBVIOUS
    <2>1. Unseen(G, st) \in SUBSET DOMAIN G
      BY DEF Unseen
    <2> QED
      BY <1>2, <2>1, FS_Subset, FS_CardinalityType
  <1>4. SearchWeight(G)[c] = Cardinality(Unseen(G, a))
    BY DEF SearchWeight
  <1> HIDE DEF a, v
  <1>5. e = Enter(a, v)
    BY DEF a, v
  <1>6. /\ a.index \in [DOMAIN G -> Nat] /\ a.low \in [DOMAIN G -> Nat] /\ a.next \in Nat \ {0}
        /\ a.stack \in Seq(DOMAIN G) /\ Len(a.stack) \in Nat
        /\ \A i \in 1 .. Len(a.stack) : a.stack[i] \in DOMAIN G
    BY <1>1, StateFacts
  <1>7. /\ e \in SearchStates(G) /\ e.next = a.next + 1
        /\ e.index[v] = a.next /\ \A u \in DOMAIN G : u # v => e.index[u] = a.index[u] /\ e.low[u] = a.low[u]
        /\ Len(e.stack) = Len(a.stack) + 1 /\ e.stack[Len(a.stack) + 1] = v
        /\ \A i \in 1 .. Len(a.stack) : e.stack[i] = a.stack[i]
    BY <1>1, <1>5, EnterFacts
  <1>8. Seen(e, v)
    BY <1>6, <1>7 DEF Seen
  <1>9. Later(G, a, e, v)
    <2>1. \A u \in DOMAIN G : /\ Seen(a, u) => e.index[u] = a.index[u] /\ (u # v => e.low[u] = a.low[u])
                              /\ ~Seen(a, u) => e.index[u] = 0 \/ a.next <= e.index[u]
      <3> SUFFICES ASSUME NEW u \in DOMAIN G
                   PROVE  /\ Seen(a, u) => e.index[u] = a.index[u] /\ (u # v => e.low[u] = a.low[u])
                          /\ ~Seen(a, u) => e.index[u] = 0 \/ a.next <= e.index[u]
        OBVIOUS
      <3>1. CASE u = v
        BY <1>1, <1>6, <1>7, <3>1
      <3>2. CASE u # v
        BY <1>7, <3>2 DEF Seen
      <3> QED
        BY <3>1, <3>2
    <2>2. \A i \in 1 .. Len(e.stack) : Len(a.stack) < i => a.next <= e.index[e.stack[i]]
      <3> SUFFICES ASSUME NEW i \in 1 .. Len(e.stack), Len(a.stack) < i PROVE a.next <= e.index[e.stack[i]]
        OBVIOUS
      <3>1. i = Len(a.stack) + 1
        BY <1>6, <1>7
      <3> QED
        BY <1>6, <1>7, <3>1
    <2>3. a.next <= e.next /\ Len(a.stack) <= Len(e.stack)
      BY <1>6, <1>7
    <2> QED
      BY <1>7, <2>1, <2>2, <2>3 DEF Later
  <1>10. Later(G, e, e, v)
    <2>1. e.next \in Nat /\ Len(e.stack) \in Nat
      BY <1>6, <1>7
    <2> QED
      BY <2>1 DEF Later, Seen
  <1>11. ASSUME NEW b \in Inside(G, c), NEW w \in DOMAIN G, ~Seen(b, w)
         PROVE  /\ <<b, w>> \in Calls(G)
                /\ SearchWeight(G)[<<b, w>>] < SearchWeight(G)[c]
    <2>1. b \in SearchStates(G) /\ Later(G, e, b, v)
      BY DEF Inside, a, v
    <2>2. <<b, w>> \in Calls(G)
      BY <1>11, <2>1 DEF Calls
    <2>3. SearchWeight(G)[<<b, w>>] = Cardinality(Unseen(G, b))
      BY <2>2 DEF SearchWeight
    <2>4. Unseen(G, b) \subseteq Unseen(G, a) \ {v}
      <3> SUFFICES ASSUME NEW u \in DOMAIN G, ~Seen(b, u) PROVE ~Seen(a, u) /\ u # v
        BY DEF Unseen
      <3>1. ~Seen(e, u)
        BY <1>7, <2>1, LaterSees
      <3> QED
        BY <1>7, <1>8, <3>1 DEF Seen
    <2>5. Cardinality(Unseen(G, a) \ {v}) = Cardinality(Unseen(G, a)) - 1
      <3>1. v \in Unseen(G, a)
        BY <1>1 DEF Unseen, a, v
      <3> QED
        BY <1>3, <3>1, FS_RemoveElement
    <2>6. Cardinality(Unseen(G, b)) <= Cardinality(Unseen(G, a) \ {v})
      <3>1. IsFiniteSet(Unseen(G, a) \ {v})
        BY <1>3, FS_Subset
      <3> QED
        BY <2>4, <3>1, FS_Subset
    <2>7. Cardinality(Unseen(G, b)) \in Nat /\ Cardinality(Unseen(G, a)) \in Nat
      BY <1>3
    <2> QED
      BY <1>4, <2>2, <2>3, <2>5, <2>6, <2>7
  <1>12. SearchWeight(G)[c] \in Nat /\ SearchWeight(G)[c] < Cardinality(DOMAIN G) + 1
    <2>1. Cardinality(Unseen(G, a)) \in Nat /\ Cardinality(Unseen(G, a)) <= Cardinality(DOMAIN G)
      BY <1>3
    <2> QED
      BY <1>2, <1>4, <2>1
  <1> QED
    BY <1>1, <1>2, <1>7, <1>8, <1>9, <1>10, <1>11, <1>12 DEF a, v

(* A call for a node not seen leaves the low of all that was seen.          *)
LEMMA LaterOther ==
    ASSUME NEW G, NEW a, NEW b, NEW w, NEW v, Later(G, a, b, w), ~Seen(a, w)
    PROVE  Later(G, a, b, v)
  BY DEF Later, Seen

(* Lowering the low of v is a later state.                                  *)
LEMMA LowerLater ==
    ASSUME NEW G, NEW st \in SearchStates(G), NEW v \in DOMAIN G, NEW n \in Nat, NEW e, e = Lower(st, v, n)
    PROVE  e \in SearchStates(G) /\ Later(G, st, e, v)
  <1>1. /\ e \in SearchStates(G)
        /\ e.index = st.index /\ e.next = st.next /\ e.stack = st.stack
        /\ \A u \in DOMAIN G : u # v => e.low[u] = st.low[u]
    BY LowerFacts DEF Lowered
  <1>2. st.next \in Nat /\ Len(st.stack) \in Nat
    BY StateFacts
  <1>3. Later(G, st, e, v)
    BY <1>1, <1>2 DEF Later, Seen
  <1> QED
    BY <1>1, <1>3

(* The edges keep to the states of the loop, if the lighter calls do.       *)
LEMMA EdgeKeeps ==
    ASSUME NEW G, FiniteGraph(G), NEW f, NEW c \in Calls(G),
           \A d \in Calls(G) : SearchWeight(G)[d] < SearchWeight(G)[c] => f[d] \in Left(G, d),
           NEW x \in G[c[2]], NEW b \in Inside(G, c)
    PROVE  /\ EdgeOp(G, f, c)[<<x, b>>] = FollowEdge(f, c[2], x, b)
           /\ FollowEdge(f, c[2], x, b) \in Inside(G, c)
  <1> DEFINE e == Enter(c[1], c[2])
             v == c[2]
             r == FollowEdge(f, v, x, b)
  <1>1. b \in SearchStates(G) /\ Later(G, e, b, v)
    BY DEF Inside
  <1>2. EdgeOp(G, f, c)[<<x, b>>] = r
    BY <1>1 DEF EdgeOp
  <1>3. e \in SearchStates(G) /\ v \in DOMAIN G /\ x \in DOMAIN G
    <2>1. G[c[2]] \subseteq DOMAIN G /\ c[2] \in DOMAIN G
      BY CallFacts
    <2>2. e \in SearchStates(G)
      BY CallFacts
    <2> QED
      BY <2>1, <2>2
  <1>4. \A st \in SearchStates(G) : st.low[x] \in Nat /\ st.index[x] \in Nat
    BY <1>3, StateFacts
  <1>5. r \in SearchStates(G) /\ Later(G, e, r, v)
    <2>1. CASE ~Seen(b, x)
      <3> DEFINE sub == f[<<b, x>>]
      <3>1. <<b, x>> \in Calls(G) /\ SearchWeight(G)[<<b, x>>] < SearchWeight(G)[c]
        BY <1>3, <2>1, CallFacts
      <3>2. sub \in Left(G, <<b, x>>)
        BY <3>1
      <3>3. sub \in SearchStates(G) /\ Later(G, b, sub, x)
        BY <3>2 DEF Left
      <3>4. r = Lower(sub, v, sub.low[x])
        BY <2>1 DEF FollowEdge
      <3> HIDE DEF sub, v, r, e
      <3>5. Later(G, b, sub, v)
        BY <2>1, <3>3, LaterOther
      <3>6. Later(G, e, sub, v)
        BY <1>1, <1>3, <3>3, <3>5, LaterLater
      <3>7. r \in SearchStates(G) /\ Later(G, sub, r, v)
        BY <1>3, <1>4, <3>3, <3>4, LowerLater
      <3> QED
        BY <1>1, <1>3, <3>3, <3>6, <3>7, LaterLater
    <2>2. CASE Seen(b, x) /\ Contains(b.stack, x)
      <3>1. r = Lower(b, v, b.index[x])
        BY <2>2 DEF FollowEdge
      <3> HIDE DEF v, r, e
      <3>2. r \in SearchStates(G) /\ Later(G, b, r, v)
        BY <1>1, <1>3, <1>4, <3>1, LowerLater
      <3> QED
        BY <1>1, <1>3, <3>2, LaterLater
    <2>3. CASE Seen(b, x) /\ ~Contains(b.stack, x)
      BY <1>1, <2>3 DEF FollowEdge
    <2> QED
      BY <2>1, <2>2, <2>3
  <1>6. r \in Inside(G, c)
    <2> HIDE DEF r
    <2> QED
      BY <1>5 DEF Inside
  <1> QED
    BY <1>2, <1>6

(* How a call leaves v, which lies right above what was on the stack.       *)
LEMMA LeaveFacts ==
    ASSUME NEW G, FiniteGraph(G), NEW c \in Calls(G), NEW b \in Inside(G, c),
           NEW k, k = Len(c[1].stack) + 1, NEW r, r = Leave(G, b, c[2])
    PROVE  /\ b \in SearchStates(G) /\ Later(G, c[1], b, c[2]) /\ Seen(b, c[2])
           /\ b.index[c[2]] = c[1].next
           /\ k \in 1 .. Len(b.stack) /\ b.stack[k] = c[2]
           /\ r \in Left(G, c)
           /\ b.low[c[2]] # b.index[c[2]] => r = b
           /\ b.low[c[2]] = b.index[c[2]] => Popped(G, b, k, r)
  <1> DEFINE a == c[1]
             v == c[2]
             e == Enter(a, v)
  <1>1. /\ a \in SearchStates(G) /\ v \in DOMAIN G /\ ~Seen(a, v) /\ e \in SearchStates(G)
        /\ Later(G, a, e, v) /\ Seen(e, v)
    BY CallFacts
  <1>2. b \in SearchStates(G) /\ Later(G, e, b, v)
    BY DEF Inside
  <1>3. r = Leave(G, b, v) /\ k = Len(a.stack) + 1
    OBVIOUS
  <1>4. e = Enter(a, v)
    OBVIOUS
  <1> HIDE DEF a, v, e
  <1>5. Len(e.stack) = k /\ e.stack[k] = v /\ e.index[v] = a.next
    BY <1>1, <1>3, <1>4, EnterFacts
  <1>6. Later(G, a, b, v)
    BY <1>1, <1>2, LaterLater
  <1>7. Len(a.stack) \in Nat /\ Len(b.stack) \in Nat
    BY <1>1, <1>2, StateFacts
  <1>8. k \in 1 .. Len(b.stack) /\ b.stack[k] = v
    <2>1. Len(e.stack) <= Len(b.stack) /\ \A i \in 1 .. Len(e.stack) : b.stack[i] = e.stack[i]
      BY <1>2 DEF Later
    <2>2. k \in 1 .. k /\ k \in Nat
      BY <1>3, <1>7
    <2> QED
      BY <1>5, <1>7, <2>1, <2>2
  <1>9. Seen(b, v) /\ b.index[v] = a.next
    BY <1>1, <1>2, <1>5, LaterSees
  <1>10. CASE b.low[v] # b.index[v]
    <2>1. r = b
      BY <1>3, <1>10 DEF Leave
    <2>2. r \in Left(G, c)
      BY <1>2, <1>6, <1>9, <2>1 DEF Left, a, v
    <2> QED
      BY <1>2, <1>6, <1>8, <1>9, <1>10, <2>1, <2>2 DEF a, v
  <1>11. CASE b.low[v] = b.index[v]
    <2>1. r = PopComponent(G, b, b.stack[k])
      BY <1>3, <1>8, <1>11 DEF Leave
    <2>2. r \in SearchStates(G) /\ Popped(G, b, k, r)
      BY <1>2, <1>8, <2>1, PopFacts
    <2>3. Later(G, a, r, v)
      <3>1. Len(r.stack) = Len(a.stack) /\ \A i \in 1 .. Len(a.stack) : r.stack[i] = a.stack[i]
        BY <1>3, <1>6, <1>7, <2>2 DEF Later, Popped
      <3>2. \A i \in 1 .. Len(r.stack) : ~(Len(a.stack) < i)
        BY <1>7, <3>1
      <3>3. Len(a.stack) <= Len(r.stack)
        BY <1>7, <3>1
      <3> QED
        BY <1>6, <2>2, <3>1, <3>2, <3>3 DEF Later, Popped
    <2>4. Seen(r, v)
      BY <1>9, <2>2 DEF Seen, Popped
    <2>5. r \in Left(G, c)
      BY <2>2, <2>3, <2>4 DEF Left, a, v
    <2> QED
      BY <1>2, <1>6, <1>8, <1>9, <1>11, <2>2, <2>5 DEF a, v
  <1> QED
    BY <1>10, <1>11 DEF v

(* The body leaves a later state, and looks at lighter calls only.          *)
LEMMA SearchLoopKeeps ==
    ASSUME NEW G, FiniteGraph(G), NEW f, NEW c \in Calls(G),
           \A d \in Calls(G) : SearchWeight(G)[d] < SearchWeight(G)[c] => f[d] \in Left(G, d)
    PROVE  SearchLoop(G, f, c) \in Inside(G, c) /\ ConnectBody(G, f, c) \in Left(G, c)
  <1> DEFINE S == G[c[2]]
             A == Inside(G, c)
             base == Enter(c[1], c[2])
             op == EdgeOp(G, f, c)
             I == (SUBSET S) \X A
  <1>1. base \in A
    <2>1. base \in SearchStates(G) /\ Later(G, base, base, c[2])
      BY CallFacts
    <2> QED
      BY <2>1 DEF Inside
  <1>2. \A x \in S, b \in A : op[<<x, b>>] \in A
    BY EdgeKeeps
  <1>3. IsFiniteSet(S)
    BY CallFacts
  <1>4. FoldOver(op, base, S) \in A
    <2> HIDE DEF base, op, A, S
    <2>1. <<{}, base>> \in I
      BY <1>1
    <2>2. \A s \in SUBSET S, x \in S, a \in A :
             x \notin s /\ <<s, a>> \in I => <<s \cup {x}, op[<<x, a>>]>> \in I
      BY <1>2
    <2> HIDE DEF I
    <2> QED
      BY <1>1, <1>2, <1>3, <2>1, <2>2, LoopInvariant
  <1>5. SearchLoop(G, f, c) \in A
    BY <1>4 DEF SearchLoop
  <1> DEFINE b == SearchLoop(G, f, c)
             r == Leave(G, b, c[2])
             k == Len(c[1].stack) + 1
  <1>6. b \in Inside(G, c)
    BY <1>5
  <1>7. ConnectBody(G, f, c) = r
    BY DEF ConnectBody
  <1>8. r \in Left(G, c)
    <2>1. k = Len(c[1].stack) + 1 /\ r = Leave(G, b, c[2])
      OBVIOUS
    <2> HIDE DEF b, k, r
    <2> QED
      BY <1>6, <2>1, LeaveFacts
  <1> QED
    BY <1>6, <1>7, <1>8

(* Two functions that agree on lighter calls have the same body.            *)
LEMMA ConnectBodySame ==
    ASSUME NEW G, FiniteGraph(G), NEW f, NEW g, NEW c \in Calls(G),
           \A d \in Calls(G) : SearchWeight(G)[d] < SearchWeight(G)[c] => f[d] \in Left(G, d) /\ f[d] = g[d]
    PROVE  ConnectBody(G, f, c) = ConnectBody(G, g, c)
  <1> DEFINE S == G[c[2]]
             A == Inside(G, c)
             base == Enter(c[1], c[2])
             op == EdgeOp(G, f, c)
             oq == EdgeOp(G, g, c)
  <1>1. base \in A
    <2>1. base \in SearchStates(G) /\ Later(G, base, base, c[2])
      BY CallFacts
    <2> QED
      BY <2>1 DEF Inside
  <1>2. IsFiniteSet(S) /\ S \subseteq DOMAIN G
    BY CallFacts
  <1>3. ASSUME NEW x \in S, NEW b \in A PROVE op[<<x, b>>] \in A /\ op[<<x, b>>] = oq[<<x, b>>]
    <2>1. op[<<x, b>>] = FollowEdge(f, c[2], x, b) /\ op[<<x, b>>] \in A
      BY EdgeKeeps
    <2>2. oq[<<x, b>>] = FollowEdge(g, c[2], x, b)
      BY EdgeKeeps
    <2>3. ~Seen(b, x) => f[<<b, x>>] = g[<<b, x>>]
      BY <1>2, CallFacts
    <2>4. FollowEdge(f, c[2], x, b) = FollowEdge(g, c[2], x, b)
      BY <2>3 DEF FollowEdge
    <2> HIDE DEF op, oq, A
    <2> QED
      BY <2>1, <2>2, <2>4
  <1>4. FoldOver(op, base, S) = FoldOver(oq, base, S)
    <2> HIDE DEF op, oq, A, S, base
    <2> QED
      BY <1>1, <1>2, <1>3, LoopSame
  <1> QED
    BY <1>4 DEF ConnectBody, SearchLoop

(* The search satisfies its recursion.                                      *)
LEMMA ConnectSolves ==
    ASSUME NEW G, FiniteGraph(G)
    PROVE  \A c \in Calls(G) : /\ StrongConnect(G)[c] = ConnectBody(G, StrongConnect(G), c)
                               /\ StrongConnect(G)[c] \in Left(G, c)
  <1> DEFINE D == Calls(G)
             mu == SearchWeight(G)
             N == Cardinality(DOMAIN G) + 1
             T == [c \in D |-> Left(G, c)]
             B == [p \in Typed(D, T) \X D |-> ConnectBody(G, p[1], p[2])]
             F == StrongConnect(G)
  <1>1. N \in Nat /\ mu \in [D -> Nat] /\ \A c \in D : mu[c] < N
    <2>1. \A c \in D : mu[c] \in Nat /\ mu[c] < N
      BY CallFacts
    <2>2. mu = [c \in D |-> mu[c]]
      BY DEF SearchWeight
    <2>3. N \in Nat
      BY FS_CardinalityType DEF FiniteGraph
    <2> HIDE DEF mu, D, N
    <2> QED
      BY <2>1, <2>2, <2>3
  <1>2. \A f \in Typed(D, T) : \A c \in D : f[c] \in Left(G, c)
    BY DEF Typed
  <1>3. \A f \in Typed(D, T) : \A c \in D : B[<<f, c>>] = ConnectBody(G, f, c)
    OBVIOUS
  <1>4. Descends(D, N, mu, T, B)
    <2>1. \A c \in D : T[c] # {}
      <3> SUFFICES ASSUME NEW c \in D PROVE Left(G, c) # {}
        OBVIOUS
      <3>1. /\ Enter(c[1], c[2]) \in SearchStates(G) /\ Later(G, c[1], Enter(c[1], c[2]), c[2])
            /\ Seen(Enter(c[1], c[2]), c[2])
        BY CallFacts
      <3> QED
        BY <3>1 DEF Left
    <2>2. \A f \in Typed(D, T) : \A c \in D : B[<<f, c>>] \in T[c]
      <3> SUFFICES ASSUME NEW f \in Typed(D, T), NEW c \in D PROVE ConnectBody(G, f, c) \in Left(G, c)
        BY <1>3
      <3> HIDE DEF T
      <3> QED
        BY <1>2, SearchLoopKeeps
    <2>3. \A f, g \in Typed(D, T) : \A c \in D :
             (\A d \in D : mu[d] < mu[c] => f[d] = g[d]) => B[<<f, c>>] = B[<<g, c>>]
      <3> SUFFICES ASSUME NEW f \in Typed(D, T), NEW g \in Typed(D, T), NEW c \in D,
                          \A d \in D : mu[d] < mu[c] => f[d] = g[d]
                   PROVE  ConnectBody(G, f, c) = ConnectBody(G, g, c)
        <4> HIDE DEF B, T, D, mu
        <4> QED
          BY <1>3
      <3> HIDE DEF T
      <3> QED
        BY <1>2, ConnectBodySame
    <2> HIDE DEF D, mu, N, T, B
    <2> QED
      BY <1>1, <2>1, <2>2, <2>3 DEF Descends
  <1>5. F = [c \in D |-> ConnectBody(G, F, c)]
    <2>1. PICK f \in Typed(D, T) : \A c \in D : f[c] = B[<<f, c>>]
      <3> HIDE DEF D, mu, N, T, B
      <3> QED
        BY <1>4, Recursion, SMTT(30)
    <2>2. \A c \in D : f[c] = ConnectBody(G, f, c)
      <3> HIDE DEF D, T, B
      <3> QED
        BY <1>3, <2>1
    <2>3. f = [c \in D |-> f[c]]
      BY <2>1 DEF Typed
    <2>4. f = [c \in D |-> ConnectBody(G, f, c)]
      <3> HIDE DEF D
      <3> QED
        BY <2>2, <2>3
    <2> QED
      BY <2>4, StrongConnectIs, Zenon
  <1>6. \A c \in D : F[c] = ConnectBody(G, F, c)
    <2> HIDE DEF F, D
    <2> QED
      BY <1>5
  <1>7. D \subseteq {c \in D : F[c] \in Left(G, c)}
    <2> DEFINE Good == {c \in D : F[c] \in Left(G, c)}
    <2>1. \A c \in D : (\A d \in D : mu[d] < mu[c] => d \in Good) => c \in Good
      <3> HIDE DEF F
      <3> QED
        BY <1>6, SearchLoopKeeps
    <2>2. D \subseteq Good
      <3> HIDE DEF D, Good, mu
      <3> QED
        BY <1>1, <2>1, Descent, Zenon
    <2> QED
      BY <2>2
  <1> QED
    BY <1>6, <1>7

-----------------------------------------------------------------------------
(* The search of rejectCycles: what it finds.                               *)

OnStack(st) == {st.stack[i] : i \in 1 .. Len(st.stack)}
Finished(G, st) == {u \in DOMAIN G : Seen(st, u) /\ u \notin OnStack(st)}

\* No edge, or some, lead from p to n.
Reach(G, p, n) == \A X \in Closed(G) : p \in X => n \in X

(* Reach is reflexive and transitive and follows edges; two nodes that      *)
(* reach each other are on a cycle.                                         *)
LEMMA Reaches ==
    ASSUME NEW G, FiniteGraph(G)
    PROVE  /\ \A u : Reach(G, u, u)
           /\ \A u, v, w : Reach(G, u, v) /\ Reach(G, v, w) => Reach(G, u, w)
           /\ \A u \in DOMAIN G : \A w \in G[u] : Reach(G, u, w)
           /\ \A u, w \in DOMAIN G : u # w /\ Reach(G, u, w) /\ Reach(G, w, u) => u \in OnCycle(G)
  <1>1. \A u : Reach(G, u, u)
    BY DEF Reach
  <1>2. \A u, v, w : Reach(G, u, v) /\ Reach(G, v, w) => Reach(G, u, w)
    BY DEF Reach
  <1>3. \A u \in DOMAIN G : \A w \in G[u] : Reach(G, u, w)
    BY DEF Reach, Closed
  <1>4. ASSUME NEW u \in DOMAIN G, NEW w \in DOMAIN G, u # w, Reach(G, u, w), Reach(G, w, u)
        PROVE  u \in OnCycle(G)
    <2> SUFFICES ASSUME NEW X \in Closed(G), G[u] \subseteq X PROVE u \in X
      BY DEF OnCycle
    <2>1. X \cup {u} \in Closed(G)
      BY DEF Closed
    <2>2. w \in X \cup {u}
      BY <1>4, <2>1 DEF Reach
    <2> QED
      BY <1>4, <2>2 DEF Reach
  <1> QED
    BY <1>1, <1>2, <1>3, <1>4

\* The nodes of a, in the later state b.
Grown(G, a, b) ==
    /\ OnStack(a) \subseteq OnStack(b) /\ OnStack(b) \subseteq DOMAIN G
    /\ a.next \in Nat /\ a.next <= b.next /\ b.next \in Nat
    /\ \A y \in OnStack(b) : Seen(b, y) /\ (y \in OnStack(a) <=> b.index[y] < a.next)
    /\ \A u \in DOMAIN G : /\ a.index[u] \in Nat /\ b.index[u] \in Nat /\ b.index[u] < b.next
                           /\ a.index[u] < a.next
                           /\ Seen(a, u) => Seen(b, u) /\ b.index[u] = a.index[u]
                           /\ ~Seen(a, u) /\ Seen(b, u) => a.next <= b.index[u]
                           /\ a.low[u] \in Nat /\ b.low[u] \in Nat

(* The stack of a later state holds the old one below newer nodes.          *)
LEMMA LaterStack ==
    ASSUME NEW G, NEW v, NEW a \in SearchStates(G), NEW b \in SearchStates(G), Later(G, a, b, v)
    PROVE  Grown(G, a, b)
  <1>1. /\ a.next \in Nat \ {0} /\ b.next \in Nat
        /\ a.index \in [DOMAIN G -> Nat] /\ b.index \in [DOMAIN G -> Nat]
        /\ a.low \in [DOMAIN G -> Nat] /\ b.low \in [DOMAIN G -> Nat]
        /\ a.stack \in Seq(DOMAIN G) /\ b.stack \in Seq(DOMAIN G)
        /\ \A i \in 1 .. Len(a.stack) : a.index[a.stack[i]] # 0
        /\ \A i \in 1 .. Len(b.stack) : b.index[b.stack[i]] # 0
        /\ \A u \in DOMAIN G : a.index[u] < a.next /\ b.index[u] < b.next
    BY StateFacts
  <1>2. /\ Len(a.stack) \in Nat /\ Len(b.stack) \in Nat
        /\ \A i \in 1 .. Len(a.stack) : a.stack[i] \in DOMAIN G
        /\ \A i \in 1 .. Len(b.stack) : b.stack[i] \in DOMAIN G
    <2>1. a.stack \in Seq(DOMAIN G) /\ b.stack \in Seq(DOMAIN G)
      BY <1>1
    <2> QED
      BY <2>1
  <1>3. /\ a.next <= b.next
        /\ \A u \in DOMAIN G : /\ Seen(a, u) => b.index[u] = a.index[u]
                               /\ ~Seen(a, u) => b.index[u] = 0 \/ a.next <= b.index[u]
        /\ Len(a.stack) <= Len(b.stack) /\ \A i \in 1 .. Len(a.stack) : b.stack[i] = a.stack[i]
        /\ \A i \in 1 .. Len(b.stack) : Len(a.stack) < i => a.next <= b.index[b.stack[i]]
    BY DEF Later
  <1>4. \A i \in 1 .. Len(a.stack) : i \in 1 .. Len(b.stack)
    BY <1>2, <1>3
  <1>5. OnStack(a) \subseteq OnStack(b) /\ OnStack(b) \subseteq DOMAIN G
    BY <1>2, <1>3, <1>4 DEF OnStack
  <1>6. ASSUME NEW u \in DOMAIN G
        PROVE  /\ a.index[u] \in Nat /\ b.index[u] \in Nat /\ b.index[u] < b.next
               /\ a.index[u] < a.next
               /\ Seen(a, u) => Seen(b, u) /\ b.index[u] = a.index[u]
               /\ ~Seen(a, u) /\ Seen(b, u) => a.next <= b.index[u]
               /\ a.low[u] \in Nat /\ b.low[u] \in Nat
    BY <1>1, <1>3 DEF Seen
  <1>7. ASSUME NEW y \in OnStack(b) PROVE Seen(b, y) /\ (y \in OnStack(a) <=> b.index[y] < a.next)
    <2>1. PICK i \in 1 .. Len(b.stack) : y = b.stack[i]
      BY DEF OnStack
    <2>2. y \in DOMAIN G /\ Seen(b, y)
      BY <1>1, <1>2, <2>1 DEF Seen
    <2>3. y \in OnStack(a) => b.index[y] < a.next
      <3> SUFFICES ASSUME NEW j \in 1 .. Len(a.stack), y = a.stack[j] PROVE b.index[y] < a.next
        BY DEF OnStack
      <3>1. Seen(a, y)
        BY <1>1 DEF Seen
      <3> QED
        BY <1>6, <2>2, <3>1
    <2>4. y \notin OnStack(a) => ~(b.index[y] < a.next)
      <3>0. a.next \in Nat /\ b.index[y] \in Nat
        BY <1>1, <2>2
      <3> SUFFICES ASSUME y \notin OnStack(a) PROVE a.next <= b.index[y]
        BY <3>0
      <3>1. i \notin 1 .. Len(a.stack)
        BY <1>3, <2>1 DEF OnStack
      <3>2. Len(a.stack) < i
        BY <1>2, <3>1
      <3> QED
        BY <1>3, <2>1, <3>2
    <2> QED
      BY <2>2, <2>3, <2>4
  <1> QED
    BY <1>1, <1>3, <1>5, <1>6, <1>7 DEF Grown

\* What holds of the search while the calls for the nodes P are under way:
\* nothing leads out of what is finished; a node without a call has only
\* seen successors; each node on the stack reaches what lies above it and
\* some node at or below it with a call; the cycles found are the finished
\* nodes on a cycle.
SearchInv(G, st, P) ==
    /\ P \subseteq OnStack(st)
    /\ Finished(G, st) \in Closed(G)
    /\ \A u \in OnStack(st) \ P : \A w \in G[u] : Seen(st, w)
    /\ \A y, z \in OnStack(st) : st.index[y] <= st.index[z] => Reach(G, y, z)
    /\ \A y \in OnStack(st) : \E p \in P : st.index[p] <= st.index[y] /\ Reach(G, y, p)
    /\ UNION st.cyclic = Finished(G, st) \cap OnCycle(G)

\* What a call may rely on, and what it leaves.
CallPre(G, c, P) == SearchInv(G, c[1], P) /\ \A p \in P : Reach(G, p, c[2])

\* The low of v is the index of some node of the stack that v reaches.
LowIsReached(G, b, v) ==
    b.low[v] <= b.index[v] /\ \E z \in OnStack(b) : b.index[z] = b.low[v] /\ Reach(G, v, z)

\* No edge leads from X to a node of the stack of a below the low of v.
LowCovers(G, a, b, v, X) ==
    \A x \in X : \A y \in G[x] : y \in OnStack(a) => b.low[v] <= b.index[y]

CallPost(G, c, b, P) ==
    /\ SearchInv(G, b, P)
    /\ IF c[2] \in OnStack(b) THEN LowIsReached(G, b, c[2]) ELSE b.low[c[2]] = b.index[c[2]]
    /\ LowCovers(G, c[1], b, c[2], OnStack(b) \ OnStack(c[1]))

\* What holds of the loop of a call after the successors s.
LoopInv(G, c, P, s, b) ==
    /\ SearchInv(G, b, P \cup {c[2]})
    /\ \A w \in s : Seen(b, w) /\ (w \in OnStack(c[1]) => b.low[c[2]] <= b.index[w])
    /\ LowIsReached(G, b, c[2])
    /\ LowCovers(G, c[1], b, c[2], OnStack(b) \ (OnStack(c[1]) \cup {c[2]}))

(* The invariant says nothing of low and next.                              *)
LEMMA SearchInvSame ==
    ASSUME NEW G, NEW P, NEW a, NEW b, b.index = a.index, b.stack = a.stack, b.cyclic = a.cyclic
    PROVE  /\ OnStack(b) = OnStack(a) /\ Finished(G, b) = Finished(G, a)
           /\ SearchInv(G, a, P) => SearchInv(G, b, P)
  <1>1. OnStack(b) = OnStack(a)
    BY DEF OnStack
  <1>2. Finished(G, b) = Finished(G, a)
    BY <1>1 DEF Finished, Seen
  <1> QED
    BY <1>1, <1>2 DEF SearchInv, Seen

(* Entering v: the loop starts with its invariant.                          *)
LEMMA LoopStarts ==
    ASSUME NEW G, FiniteGraph(G), NEW c \in Calls(G), NEW P, CallPre(G, c, P), NEW e, e = Enter(c[1], c[2])
    PROVE  LoopInv(G, c, P, {}, e)
  <1> DEFINE a == c[1]
             v == c[2]
  <1>1. /\ a \in SearchStates(G) /\ v \in DOMAIN G /\ ~Seen(a, v) /\ e \in SearchStates(G)
        /\ Later(G, a, e, v) /\ Seen(e, v)
    BY CallFacts
  <1>2. e = Enter(a, v) /\ SearchInv(G, a, P) /\ \A p \in P : Reach(G, p, v)
    BY DEF CallPre
  <1>3. LoopInv(G, c, P, {}, e) <=>
          /\ SearchInv(G, e, P \cup {v}) /\ LowIsReached(G, e, v)
          /\ LowCovers(G, a, e, v, OnStack(e) \ (OnStack(a) \cup {v}))
    BY DEF LoopInv
  <1> HIDE DEF a, v
  <1>4. /\ e.index[v] = a.next /\ e.low[v] = a.next /\ e.cyclic = a.cyclic
        /\ \A u \in DOMAIN G : u # v => e.index[u] = a.index[u]
        /\ Len(e.stack) = Len(a.stack) + 1 /\ e.stack[Len(a.stack) + 1] = v
        /\ \A i \in 1 .. Len(a.stack) : e.stack[i] = a.stack[i]
    BY <1>1, <1>2, EnterFacts
  <1>5. OnStack(e) = OnStack(a) \cup {v}
    <2>1. Len(a.stack) \in Nat
      BY <1>1, StateFacts
    <2>2. 1 .. Len(e.stack) = (1 .. Len(a.stack)) \cup {Len(a.stack) + 1}
      BY <1>4, <2>1
    <2> QED
      BY <1>4, <2>2 DEF OnStack
  <1>6. /\ OnStack(a) \subseteq DOMAIN G /\ v \notin OnStack(a) /\ a.next \in Nat
        /\ \A u \in DOMAIN G : a.index[u] < a.next /\ a.index[u] \in Nat
        /\ \A y \in OnStack(a) : e.index[y] = a.index[y]
    <2>1. /\ OnStack(a) \subseteq OnStack(e) /\ OnStack(e) \subseteq DOMAIN G /\ a.next \in Nat
          /\ \A y \in OnStack(e) : (y \in OnStack(a) <=> e.index[y] < a.next)
          /\ \A u \in DOMAIN G : a.index[u] \in Nat /\ a.index[u] < a.next
      <3>1. Grown(G, a, e)
        BY <1>1, LaterStack
      <3> QED
        BY <3>1 DEF Grown
    <2>2. v \notin OnStack(a)
      BY <1>4, <2>1
    <2> QED
      BY <1>4, <2>1, <2>2
  <1>7. Finished(G, e) = Finished(G, a)
    BY <1>1, <1>4, <1>5 DEF Finished, Seen
  <1>8. ASSUME NEW y \in OnStack(a) PROVE Reach(G, y, v)
    <2>1. PICK p \in P : Reach(G, y, p)
      BY <1>2 DEF SearchInv
    <2> QED
      BY <1>2, <2>1, Reaches
  <1>9. SearchInv(G, e, P \cup {v})
    <2>1. P \cup {v} \subseteq OnStack(e)
      BY <1>2, <1>5 DEF SearchInv
    <2>2. Finished(G, e) \in Closed(G) /\ UNION e.cyclic = Finished(G, e) \cap OnCycle(G)
      BY <1>2, <1>4, <1>7 DEF SearchInv
    <2>3. \A u \in OnStack(e) \ (P \cup {v}) : \A w \in G[u] : Seen(e, w)
      <3> SUFFICES ASSUME NEW u \in OnStack(a) \ P, NEW w \in G[u] PROVE Seen(e, w)
        BY <1>5
      <3>1. Seen(a, w) /\ w \in DOMAIN G
        BY <1>2, <1>6 DEF SearchInv, FiniteGraph
      <3> QED
        BY <1>1, <1>4, <3>1 DEF Seen
    <2>4. ASSUME NEW y \in OnStack(e), NEW z \in OnStack(e), e.index[y] <= e.index[z] PROVE Reach(G, y, z)
      <3>1. CASE z = v
        BY <1>5, <1>8, <3>1, Reaches
      <3>2. CASE z # v
        <4>1. z \in OnStack(a) /\ e.index[z] = a.index[z] /\ a.index[z] < a.next /\ a.index[z] \in Nat
          BY <1>5, <1>6, <3>2
        <4>2. y \in OnStack(a)
          BY <1>4, <1>5, <1>6, <2>4, <4>1
        <4>3. e.index[y] = a.index[y]
          BY <1>6, <4>2
        <4> QED
          BY <1>2, <2>4, <4>1, <4>2, <4>3 DEF SearchInv
      <3> QED
        BY <3>1, <3>2
    <2>5. ASSUME NEW y \in OnStack(e)
          PROVE  \E p \in P \cup {v} : e.index[p] <= e.index[y] /\ Reach(G, y, p)
      <3>1. CASE y = v
        BY <1>4, <1>6, <3>1, Reaches
      <3>2. CASE y \in OnStack(a)
        <4>1. PICK p \in P : a.index[p] <= a.index[y] /\ Reach(G, y, p)
          BY <1>2, <3>2 DEF SearchInv
        <4>2. p \in OnStack(a)
          BY <1>2, <4>1 DEF SearchInv
        <4>3. e.index[p] <= e.index[y]
          BY <1>6, <3>2, <4>1, <4>2
        <4> QED
          BY <4>1, <4>3
      <3> QED
        BY <1>5, <3>1, <3>2
    <2> QED
      BY <2>1, <2>2, <2>3, <2>4, <2>5 DEF SearchInv
  <1>10. LowIsReached(G, e, v)
    BY <1>4, <1>5, <1>6, Reaches DEF LowIsReached
  <1>11. LowCovers(G, a, e, v, OnStack(e) \ (OnStack(a) \cup {v}))
    BY <1>5 DEF LowCovers
  <1> QED
    BY <1>3, <1>9, <1>10, <1>11

(* One successor of a call keeps the invariant of its loop.                 *)
LEMMA LoopEdge ==
    ASSUME NEW G, FiniteGraph(G), NEW c \in Calls(G), NEW P \in SUBSET DOMAIN G, CallPre(G, c, P), NEW f,
           \A d \in Calls(G) : SearchWeight(G)[d] < SearchWeight(G)[c] =>
              f[d] \in Left(G, d) /\ \A Q \in SUBSET DOMAIN G : CallPre(G, d, Q) => CallPost(G, d, f[d], Q),
           NEW s \in SUBSET G[c[2]], NEW x \in G[c[2]], NEW b \in Inside(G, c), LoopInv(G, c, P, s, b)
    PROVE  LoopInv(G, c, P, s \cup {x}, FollowEdge(f, c[2], x, b))
  <1> DEFINE a == c[1]
             v == c[2]
             r == FollowEdge(f, v, x, b)
             Q == P \cup {v}
             new == OnStack(b) \ (OnStack(a) \cup {v})
  <1>1. /\ a \in SearchStates(G) /\ v \in DOMAIN G /\ ~Seen(a, v)
        /\ G[v] \subseteq DOMAIN G /\ s \subseteq G[v]
    BY CallFacts
  <1>2. b \in SearchStates(G) /\ Later(G, a, b, v) /\ Seen(b, v)
    BY LeaveFacts
  <1>3. x \in DOMAIN G /\ x \in G[v] /\ Q \in SUBSET DOMAIN G
    BY <1>1
  <1>4. \A p \in P : Reach(G, p, v)
    BY DEF CallPre
  <1>5. /\ SearchInv(G, b, Q)
        /\ \A w \in s : Seen(b, w) /\ (w \in OnStack(a) => b.low[v] <= b.index[w])
        /\ LowIsReached(G, b, v) /\ LowCovers(G, a, b, v, new)
    BY DEF LoopInv
  <1>6. ASSUME NEW e PROVE LoopInv(G, c, P, s \cup {x}, e) <=>
           /\ SearchInv(G, e, Q)
           /\ \A w \in s \cup {x} : Seen(e, w) /\ (w \in OnStack(a) => e.low[v] <= e.index[w])
           /\ LowIsReached(G, e, v) /\ LowCovers(G, a, e, v, OnStack(e) \ (OnStack(a) \cup {v}))
    BY DEF LoopInv
  <1>7. ~Seen(b, x) => /\ <<b, x>> \in Calls(G) /\ f[<<b, x>>] \in Left(G, <<b, x>>)
                       /\ CallPre(G, <<b, x>>, Q) => CallPost(G, <<b, x>>, f[<<b, x>>], Q)
    <2> SUFFICES ASSUME ~Seen(b, x)
                 PROVE  /\ <<b, x>> \in Calls(G) /\ f[<<b, x>>] \in Left(G, <<b, x>>)
                        /\ CallPre(G, <<b, x>>, Q) => CallPost(G, <<b, x>>, f[<<b, x>>], Q)
      OBVIOUS
    <2>1. <<b, x>> \in Calls(G) /\ SearchWeight(G)[<<b, x>>] < SearchWeight(G)[c]
      BY <1>3, CallFacts
    <2> HIDE DEF Q
    <2> QED
      BY <1>3, <2>1
  <1> HIDE DEF a, v
  <1>8. Grown(G, a, b)
    BY <1>1, <1>2, LaterStack
  <1>9. CASE ~Seen(b, x)
    <2> DEFINE d == <<b, x>>
               sub == f[d]
    <2>1. /\ sub \in SearchStates(G) /\ Later(G, b, sub, x) /\ Seen(sub, x)
          /\ d[1] = b /\ d[2] = x
      BY <1>7, <1>9 DEF Left
    <2>2. r = Lower(sub, v, sub.low[x])
      BY <1>9 DEF FollowEdge
    <2>3. CallPre(G, d, Q) => CallPost(G, d, sub, Q)
      BY <1>7, <1>9
    <2> HIDE DEF d, sub, r
    <2>4. CallPre(G, d, Q)
      <3>1. Reach(G, v, x)
        BY <1>1, <1>3, Reaches
      <3>2. \A p \in Q : Reach(G, p, x)
        BY <1>4, <3>1, Reaches
      <3> HIDE DEF Q
      <3> QED
        BY <1>5, <2>1, <3>2 DEF CallPre
    <2>5. /\ SearchInv(G, sub, Q)
          /\ IF x \in OnStack(sub) THEN LowIsReached(G, sub, x) ELSE sub.low[x] = sub.index[x]
          /\ LowCovers(G, b, sub, x, OnStack(sub) \ OnStack(b))
      BY <2>1, <2>3, <2>4 DEF CallPost
    <2>6. Grown(G, b, sub)
      BY <1>2, <2>1, LaterStack
    <2>7. sub.low[x] \in Nat
      BY <1>3, <2>6 DEF Grown
    <2>8. /\ r.index = sub.index /\ r.stack = sub.stack /\ r.cyclic = sub.cyclic
          /\ r.low[v] = (IF sub.low[v] <= sub.low[x] THEN sub.low[v] ELSE sub.low[x])
      <3>1. Lowered(G, sub, v, sub.low[x], r)
        BY <1>1, <2>1, <2>2, <2>7, LowerFacts
      <3> QED
        BY <3>1 DEF Lowered
    <2>9. sub.low[v] = b.low[v] /\ b.low[v] \in Nat /\ b.index[v] \in Nat
      <3>1. v # x
        BY <1>2, <1>9
      <3> QED
        BY <1>1, <1>2, <1>8, <2>1, <3>1 DEF Later, Grown
    <2>10. /\ r.low[v] \in Nat /\ r.low[v] <= b.low[v] /\ r.low[v] <= sub.low[x]
           /\ r.low[v] = b.low[v] \/ (r.low[v] = sub.low[x] /\ sub.low[x] < b.low[v])
      BY <2>7, <2>8, <2>9
    <2>11. OnStack(r) = OnStack(sub) /\ SearchInv(G, r, Q)
      BY <2>5, <2>8, SearchInvSame
    <2>12. r.index[v] = b.index[v] /\ b.index[v] < b.next /\ b.next \in Nat
      BY <1>1, <1>2, <2>6, <2>8 DEF Grown
    <2>13. b.low[v] <= b.index[v]
      BY <1>5 DEF LowIsReached
    <2>14. ASSUME NEW w \in s \cup {x} PROVE Seen(r, w) /\ (w \in OnStack(a) => r.low[v] <= r.index[w])
      <3>1. CASE w = x
        <4>1. x \notin OnStack(a)
          BY <1>8, <1>9 DEF Grown
        <4> QED
          BY <2>1, <2>8, <3>1, <4>1 DEF Seen
      <3>2. CASE w \in s
        <4>1. Seen(b, w) /\ (w \in OnStack(a) => b.low[v] <= b.index[w])
          BY <1>5, <3>2
        <4>2. w \in DOMAIN G
          BY <1>1, <3>2
        <4> QED
          BY <2>6, <2>8, <2>9, <2>10, <4>1, <4>2 DEF Grown, Seen
      <3> QED
        BY <3>1, <3>2
    <2>15. LowIsReached(G, r, v)
      <3>1. r.low[v] <= r.index[v]
        BY <2>9, <2>10, <2>12, <2>13
      <3>2. CASE r.low[v] = b.low[v]
        <4>1. PICK z \in OnStack(b) : b.index[z] = b.low[v] /\ Reach(G, v, z)
          BY <1>5 DEF LowIsReached
        <4>2. z \in OnStack(sub) /\ sub.index[z] = b.index[z]
          BY <2>6, <4>1, <1>8 DEF Grown
        <4> QED
          BY <2>8, <2>11, <3>1, <3>2, <4>1, <4>2 DEF LowIsReached
      <3>3. CASE r.low[v] = sub.low[x] /\ sub.low[x] < b.low[v]
        <4>1. x \in OnStack(sub)
          <5> SUFFICES ASSUME x \notin OnStack(sub) PROVE FALSE
            OBVIOUS
          <5>1. sub.low[x] = sub.index[x]
            BY <2>5
          <5>2. b.next <= sub.index[x] /\ sub.index[x] \in Nat
            BY <1>3, <1>9, <2>1, <2>6 DEF Grown
          <5> QED
            BY <2>9, <2>12, <2>13, <3>3, <5>1, <5>2
        <4>2. PICK z \in OnStack(sub) : sub.index[z] = sub.low[x] /\ Reach(G, x, z)
          BY <2>5, <4>1 DEF LowIsReached
        <4>3. Reach(G, v, z)
          BY <1>1, <1>3, <4>2, Reaches
        <4> QED
          BY <2>8, <2>11, <3>1, <3>3, <4>2, <4>3 DEF LowIsReached
      <3> QED
        BY <2>10, <3>2, <3>3
    <2>16. LowCovers(G, a, r, v, OnStack(r) \ (OnStack(a) \cup {v}))
      <3> SUFFICES ASSUME NEW u \in OnStack(sub) \ (OnStack(a) \cup {v}), NEW y \in G[u], y \in OnStack(a)
                   PROVE  r.low[v] <= r.index[y]
        BY <2>11 DEF LowCovers
      <3>1. y \in OnStack(b) /\ y \in DOMAIN G /\ Seen(b, y)
        BY <1>8 DEF Grown
      <3>2. r.index[y] = b.index[y] /\ sub.index[y] = b.index[y] /\ b.index[y] \in Nat
        BY <2>6, <2>8, <3>1 DEF Grown
      <3>3. CASE u \in OnStack(b)
        <4>1. b.low[v] <= b.index[y]
          BY <1>5, <3>3 DEF LowCovers
        <4> QED
          BY <2>9, <2>10, <3>2, <4>1
      <3>4. CASE u \notin OnStack(b)
        <4>1. sub.low[x] <= sub.index[y]
          BY <2>5, <3>1, <3>4 DEF LowCovers
        <4> QED
          BY <2>7, <2>10, <3>2, <4>1
      <3> QED
        BY <3>3, <3>4
    <2>17. LoopInv(G, c, P, s \cup {x}, r)
      BY <1>6, <2>11, <2>14, <2>15, <2>16
    <2> QED
      BY <2>17 DEF r, v
  <1>10. CASE Seen(b, x) /\ Contains(b.stack, x)
    <2>1. r = Lower(b, v, b.index[x])
      BY <1>10 DEF FollowEdge
    <2> HIDE DEF r
    <2>2. x \in OnStack(b)
      BY <1>10 DEF OnStack, Contains
    <2>3. /\ b.index[x] \in Nat /\ b.low[v] \in Nat /\ b.index[v] \in Nat
          /\ \A u \in DOMAIN G : b.index[u] \in Nat
      BY <1>1, <1>3, <1>8 DEF Grown
    <2>4. /\ r.index = b.index /\ r.stack = b.stack /\ r.cyclic = b.cyclic
          /\ r.low[v] = (IF b.low[v] <= b.index[x] THEN b.low[v] ELSE b.index[x])
      <3>1. Lowered(G, b, v, b.index[x], r)
        BY <1>1, <1>2, <2>1, <2>3, LowerFacts
      <3> QED
        BY <3>1 DEF Lowered
    <2>5. OnStack(r) = OnStack(b) /\ SearchInv(G, r, Q)
      BY <1>5, <2>4, SearchInvSame
    <2>6. /\ r.low[v] \in Nat /\ r.low[v] <= b.low[v] /\ r.low[v] <= b.index[x]
          /\ r.low[v] = b.low[v] \/ r.low[v] = b.index[x]
      BY <2>3, <2>4
    <2>7. ASSUME NEW w \in s \cup {x} PROVE Seen(r, w) /\ (w \in OnStack(a) => r.low[v] <= r.index[w])
      <3>1. CASE w = x
        BY <1>10, <2>4, <2>6, <3>1 DEF Seen
      <3>2. CASE w \in s
        <4>1. Seen(b, w) /\ (w \in OnStack(a) => b.low[v] <= b.index[w])
          BY <1>5, <3>2
        <4>2. w \in OnStack(a) => b.index[w] \in Nat
          BY <1>8, <2>3 DEF Grown
        <4> QED
          BY <2>3, <2>4, <2>6, <4>1, <4>2 DEF Seen
      <3> QED
        BY <3>1, <3>2
    <2>8. LowIsReached(G, r, v)
      <3>1. r.low[v] <= r.index[v]
        BY <1>5, <2>3, <2>4, <2>6 DEF LowIsReached
      <3>2. \E z \in OnStack(b) : b.index[z] = r.low[v] /\ Reach(G, v, z)
        <4>1. Reach(G, v, x)
          BY <1>1, <1>3, Reaches
        <4> QED
          BY <1>5, <2>2, <2>6, <4>1 DEF LowIsReached
      <3> QED
        BY <2>4, <2>5, <3>1, <3>2 DEF LowIsReached
    <2>9. LowCovers(G, a, r, v, OnStack(r) \ (OnStack(a) \cup {v}))
      <3> SUFFICES ASSUME NEW u \in OnStack(b) \ (OnStack(a) \cup {v}), NEW y \in G[u], y \in OnStack(a)
                   PROVE  r.low[v] <= b.index[y]
        BY <2>4, <2>5 DEF LowCovers
      <3>1. b.low[v] <= b.index[y]
        BY <1>5 DEF LowCovers
      <3>2. b.index[y] \in Nat
        BY <1>8, <2>3 DEF Grown
      <3> QED
        BY <2>3, <2>6, <3>1, <3>2
    <2>10. LoopInv(G, c, P, s \cup {x}, r)
      BY <1>6, <2>5, <2>7, <2>8, <2>9
    <2> QED
      BY <2>10 DEF r, v
  <1>11. CASE Seen(b, x) /\ ~Contains(b.stack, x)
    <2>1. r = b
      BY <1>11 DEF FollowEdge
    <2> HIDE DEF r
    <2>2. x \notin OnStack(a)
      <3>1. x \notin OnStack(b)
        BY <1>11 DEF OnStack, Contains
      <3> QED
        BY <1>8, <3>1 DEF Grown
    <2>3. LoopInv(G, c, P, s \cup {x}, r)
      BY <1>5, <1>6, <1>11, <2>1, <2>2
    <2> QED
      BY <2>3 DEF r, v
  <1> QED
    BY <1>9, <1>10, <1>11

(* The set popped is the nodes newer than the call, and the old stack stays. *)
LEMMA PoppedStack ==
    ASSUME NEW G, NEW a \in SearchStates(G), NEW b \in SearchStates(G), NEW v, Later(G, a, b, v),
           NEW k, k = Len(a.stack) + 1, NEW r, Popped(G, b, k, r)
    PROVE  OnStack(r) = OnStack(a) /\ Above(b, k) = OnStack(b) \ OnStack(a)
  <1>1. Len(a.stack) \in Nat /\ Len(b.stack) \in Nat /\ Len(a.stack) <= Len(b.stack)
    BY StateFacts DEF Later
  <1>2. \A i \in 1 .. Len(a.stack) : r.stack[i] = a.stack[i] /\ b.stack[i] = a.stack[i]
    BY <1>1 DEF Popped, Later
  <1>3. OnStack(r) = OnStack(a)
    BY <1>1, <1>2 DEF OnStack, Popped
  <1>4. Grown(G, a, b)
    BY LaterStack
  <1>5. 1 .. Len(b.stack) = (1 .. Len(a.stack)) \cup (k .. Len(b.stack))
    BY <1>1
  <1>6. OnStack(b) = OnStack(a) \cup Above(b, k)
    BY <1>2, <1>5 DEF OnStack, Above
  <1>7. ASSUME NEW y \in Above(b, k) PROVE y \notin OnStack(a)
    <2>1. PICK i \in k .. Len(b.stack) : y = b.stack[i]
      BY DEF Above
    <2>2. i \in 1 .. Len(b.stack) /\ Len(a.stack) < i
      BY <1>1, <2>1
    <2>3. a.next <= b.index[y]
      BY <2>1, <2>2 DEF Later
    <2>4. y \in OnStack(b)
      BY <2>1, <2>2 DEF OnStack
    <2>5. b.index[y] \in Nat /\ a.next \in Nat
      BY <1>4, <2>4 DEF Grown
    <2> QED
      BY <1>4, <2>3, <2>4, <2>5 DEF Grown
  <1> QED
    BY <1>3, <1>6, <1>7

(* The component of v: nothing leads out of it, it is what v reaches and    *)
(* what reaches v, and it is a cycle exactly if its nodes are on one.       *)
LEMMA ComponentExact ==
    ASSUME NEW G, FiniteGraph(G), NEW scc \in SUBSET DOMAIN G, NEW v \in scc, NEW fin \in Closed(G),
           v \notin fin, fin \cup scc \in Closed(G),
           \A u \in scc : Reach(G, u, v) /\ Reach(G, v, u)
    PROVE  IF IsCycle(G, scc) THEN scc \subseteq OnCycle(G) ELSE scc \cap OnCycle(G) = {}
  <1>1. CASE \E w \in scc : w # v
    <2>1. PICK w \in scc : w # v
      BY <1>1
    <2>2. IsFiniteSet(scc)
      BY FS_Subset DEF FiniteGraph
    <2>3. {v, w} \in SUBSET scc /\ Cardinality({v, w}) = 2
      <3>1. Cardinality({w}) = 1 /\ IsFiniteSet({w})
        BY FS_Singleton
      <3>2. Cardinality({w} \cup {v}) = Cardinality({w}) + 1
        BY <2>1, <3>1, FS_AddElement
      <3>3. {w} \cup {v} = {v, w}
        OBVIOUS
      <3> QED
        BY <3>1, <3>2, <3>3
    <2>4. Cardinality(scc) > 1
      <3>1. Cardinality({v, w}) <= Cardinality(scc) /\ Cardinality(scc) \in Nat
        BY <2>2, <2>3, FS_Subset, FS_CardinalityType
      <3> QED
        BY <2>3, <3>1
    <2>5. ASSUME NEW u \in scc PROVE u \in OnCycle(G)
      <3>1. PICK o \in scc : o # u
        BY <2>1
      <3>2. Reach(G, u, o) /\ Reach(G, o, u)
        BY Reaches
      <3> QED
        BY <3>1, <3>2, Reaches
    <2> QED
      BY <2>4, <2>5 DEF IsCycle
  <1>2. CASE scc = {v}
    <2>1. ~(Cardinality(scc) > 1)
      BY <1>2, FS_Singleton
    <2>2. IsCycle(G, scc) <=> v \in G[v]
      BY <1>2, <2>1 DEF IsCycle
    <2>3. v \in G[v] => v \in OnCycle(G)
      BY DEF OnCycle
    <2>4. v \notin G[v] => v \notin OnCycle(G)
      <3> SUFFICES ASSUME v \notin G[v] PROVE v \notin OnCycle(G)
        OBVIOUS
      <3>1. G[v] \subseteq fin
        BY <1>2 DEF Closed
      <3> QED
        BY <3>1 DEF OnCycle
    <2> QED
      BY <1>2, <2>2, <2>3, <2>4
  <1> QED
    BY <1>1, <1>2

(* Leaving v after all its successors.                                      *)
LEMMA LeaveRight ==
    ASSUME NEW G, FiniteGraph(G), NEW c \in Calls(G), NEW P \in SUBSET DOMAIN G, CallPre(G, c, P),
           NEW b \in Inside(G, c), LoopInv(G, c, P, G[c[2]], b), NEW r, r = Leave(G, b, c[2])
    PROVE  CallPost(G, c, r, P)
  <1> DEFINE a == c[1]
             v == c[2]
             k == Len(a.stack) + 1
             Q == P \cup {v}
             old == OnStack(a)
  <1>1. a \in SearchStates(G) /\ v \in DOMAIN G /\ ~Seen(a, v) /\ G[v] \subseteq DOMAIN G
    BY CallFacts
  <1>2. k = Len(c[1].stack) + 1
    OBVIOUS
  <1>3. /\ b \in SearchStates(G) /\ Later(G, a, b, v) /\ Seen(b, v) /\ b.index[v] = a.next
        /\ k \in 1 .. Len(b.stack) /\ b.stack[k] = v
        /\ b.low[v] # b.index[v] => r = b
        /\ b.low[v] = b.index[v] => Popped(G, b, k, r)
    <2> HIDE DEF k
    <2> QED
      BY <1>2, LeaveFacts
  <1>4. SearchInv(G, a, P) /\ \A p \in P : Reach(G, p, v)
    BY DEF CallPre
  <1>5. /\ SearchInv(G, b, Q)
        /\ \A w \in G[v] : Seen(b, w) /\ (w \in old => b.low[v] <= b.index[w])
        /\ LowIsReached(G, b, v) /\ LowCovers(G, a, b, v, OnStack(b) \ (old \cup {v}))
    BY DEF LoopInv
  <1>6. CallPost(G, c, r, P) <=>
          /\ SearchInv(G, r, P)
          /\ IF v \in OnStack(r) THEN LowIsReached(G, r, v) ELSE r.low[v] = r.index[v]
          /\ LowCovers(G, a, r, v, OnStack(r) \ old)
    BY DEF CallPost
  <1>7. k = Len(a.stack) + 1
    OBVIOUS
  <1> HIDE DEF a, v, k
  <1>8. Grown(G, a, b)
    BY <1>1, <1>3, LaterStack
  <1>9. P \subseteq old /\ v \notin old /\ v \in OnStack(b) /\ old \subseteq OnStack(b)
    <2>1. v \in OnStack(b)
      BY <1>3 DEF OnStack
    <2>2. a.next <= b.index[v] /\ a.next \in Nat /\ b.index[v] \in Nat
      BY <1>1, <1>3, <1>8 DEF Grown
    <2> QED
      BY <1>4, <1>8, <2>1, <2>2 DEF SearchInv, Grown
  <1>10. /\ \A y \in OnStack(b) : y \in DOMAIN G /\ b.index[y] \in Nat
         /\ \A y \in old : b.index[y] < b.index[v]
         /\ b.index[v] \in Nat /\ b.low[v] \in Nat
    <2>1. a.next <= b.index[v] /\ a.next \in Nat /\ b.index[v] \in Nat
      BY <1>1, <1>3, <1>8 DEF Grown
    <2>2. \A y \in OnStack(b) : y \in DOMAIN G /\ b.index[y] \in Nat
      BY <1>8 DEF Grown
    <2>3. ASSUME NEW y \in old PROVE b.index[y] < b.index[v]
      <3>1. b.index[y] < a.next /\ b.index[y] \in Nat
        BY <1>8, <1>9, <2>2 DEF Grown
      <3> QED
        BY <2>1, <3>1
    <2> QED
      BY <1>1, <1>8, <2>1, <2>2, <2>3 DEF Grown
  <1>11. CASE b.low[v] # b.index[v]
    <2>1. r = b
      BY <1>3, <1>11
    <2>2. PICK z \in OnStack(b) : b.index[z] = b.low[v] /\ Reach(G, v, z)
      BY <1>5 DEF LowIsReached
    <2>3. b.index[z] < b.index[v]
      BY <1>5, <1>10, <1>11, <2>2 DEF LowIsReached
    <2>4. PICK p \in Q : b.index[p] <= b.index[z] /\ Reach(G, z, p)
      BY <1>5 DEF SearchInv
    <2>5. p \in P /\ b.index[p] \in Nat
      <3>1. b.index[p] \in Nat
        BY <1>9, <1>10, <2>4
      <3>2. p # v
        BY <1>10, <2>2, <2>3, <2>4, <3>1
      <3> QED
        BY <2>4, <3>1, <3>2
    <2>6. Reach(G, v, p) /\ b.index[p] < b.index[v]
      <3>1. Reach(G, v, p)
        BY <2>2, <2>4, Reaches
      <3> QED
        BY <1>10, <2>2, <2>3, <2>4, <2>5, <3>1
    <2>7. SearchInv(G, b, P)
      <3>1. P \subseteq OnStack(b)
        BY <1>9
      <3>2. \A u \in OnStack(b) \ P : \A w \in G[u] : Seen(b, w)
        BY <1>5 DEF SearchInv
      <3>3. ASSUME NEW y \in OnStack(b) PROVE \E q \in P : b.index[q] <= b.index[y] /\ Reach(G, y, q)
        <4>1. PICK q \in Q : b.index[q] <= b.index[y] /\ Reach(G, y, q)
          BY <1>5 DEF SearchInv
        <4>2. CASE q = v
          <5>1. Reach(G, y, p)
            BY <2>6, <4>1, <4>2, Reaches
          <5>2. b.index[p] <= b.index[y]
            BY <1>10, <2>5, <2>6, <4>1, <4>2
          <5> QED
            BY <2>5, <5>1, <5>2
        <4> QED
          BY <4>1, <4>2
      <3>4. /\ Finished(G, b) \in Closed(G)
            /\ \A y, z2 \in OnStack(b) : b.index[y] <= b.index[z2] => Reach(G, y, z2)
            /\ UNION b.cyclic = Finished(G, b) \cap OnCycle(G)
        BY <1>5 DEF SearchInv
      <3> QED
        BY <3>1, <3>2, <3>3, <3>4 DEF SearchInv
    <2>8. LowCovers(G, a, b, v, OnStack(b) \ old)
      BY <1>5 DEF LowCovers
    <2> QED
      BY <1>5, <1>6, <1>9, <2>1, <2>7, <2>8
  <1>12. CASE b.low[v] = b.index[v]
    <2> DEFINE scc == Above(b, k)
               fin == Finished(G, b)
    <2>1. Popped(G, b, k, r)
      BY <1>3, <1>12
    <2>2. OnStack(r) = old /\ scc = OnStack(b) \ old
      BY <1>1, <1>3, <1>7, <2>1, PoppedStack
    <2>3. r.index = b.index /\ r.low = b.low
      BY <2>1 DEF Popped
    <2>4. r.cyclic = IF IsCycle(G, scc) THEN b.cyclic \cup {scc} ELSE b.cyclic
      BY <2>1 DEF Popped
    <2> HIDE DEF scc
    <2>5. Finished(G, r) = fin \cup scc
      BY <1>8, <1>9, <2>2, <2>3 DEF Finished, Seen, Grown
    <2>6. v \in scc /\ v \notin fin /\ scc \in SUBSET DOMAIN G /\ fin \in Closed(G)
      <3>1. v \in scc /\ scc \in SUBSET DOMAIN G
        BY <1>9, <1>10, <2>2
      <3>2. v \notin fin
        BY <1>9 DEF Finished
      <3>3. fin \in Closed(G)
        BY <1>5 DEF SearchInv
      <3> QED
        BY <3>1, <3>2, <3>3
    <2>7. fin \cup scc \in Closed(G)
      <3>1. ASSUME NEW u \in scc, NEW y \in G[u] PROVE y \in fin \cup scc
        <4>1. u \in OnStack(b) /\ u \notin old /\ u \in DOMAIN G
          BY <1>10, <2>2
        <4>2. Seen(b, y)
          BY <1>5, <1>9, <4>1 DEF SearchInv
        <4>3. y \in DOMAIN G
          BY <4>1 DEF FiniteGraph
        <4>4. y \notin old
          <5> SUFFICES ASSUME y \in old PROVE FALSE
            OBVIOUS
          <5>1. b.low[v] <= b.index[y]
            BY <1>5, <4>1 DEF LowCovers
          <5>2. b.index[y] < b.index[v] /\ b.index[y] \in Nat
            BY <1>9, <1>10
          <5> QED
            BY <1>10, <1>12, <5>1, <5>2
        <4> QED
          BY <2>2, <4>2, <4>3, <4>4 DEF Finished
      <3>2. fin \cup scc \in SUBSET DOMAIN G
        BY <2>6 DEF Closed
      <3>3. \A u \in fin : G[u] \subseteq fin
        BY <2>6 DEF Closed
      <3> HIDE DEF fin
      <3> QED
        BY <3>1, <3>2, <3>3 DEF Closed
    <2>8. ASSUME NEW u \in scc PROVE Reach(G, u, v) /\ Reach(G, v, u)
      <3>1. u \in OnStack(b) /\ u \notin old
        BY <2>2
      <3>2. PICK p \in Q : Reach(G, u, p)
        BY <1>5, <3>1 DEF SearchInv
      <3>3. Reach(G, p, v)
        BY <1>4, Reaches
      <3>4. b.index[v] <= b.index[u]
        <4>1. ~(b.index[u] < a.next) /\ a.next \in Nat /\ b.index[u] \in Nat
          BY <1>8, <1>10, <3>1 DEF Grown
        <4> QED
          BY <1>3, <4>1
      <3>5. Reach(G, v, u)
        BY <1>5, <1>9, <3>1, <3>4 DEF SearchInv
      <3> QED
        BY <3>2, <3>3, <3>5, Reaches
    <2>9. IF IsCycle(G, scc) THEN scc \subseteq OnCycle(G) ELSE scc \cap OnCycle(G) = {}
      <3> HIDE DEF fin
      <3> QED
        BY <2>6, <2>7, <2>8, ComponentExact
    <2>10. UNION r.cyclic = Finished(G, r) \cap OnCycle(G)
      <3>1. UNION b.cyclic = fin \cap OnCycle(G)
        BY <1>5 DEF SearchInv
      <3>2. CASE IsCycle(G, scc)
        <4>1. UNION r.cyclic = (UNION b.cyclic) \cup scc
          BY <2>4, <3>2
        <4> HIDE DEF fin
        <4> QED
          BY <2>5, <2>9, <3>1, <3>2, <4>1
      <3>3. CASE ~IsCycle(G, scc)
        <4> HIDE DEF fin
        <4> QED
          BY <2>4, <2>5, <2>9, <3>1, <3>3
      <3> QED
        BY <3>2, <3>3
    <2>11. \A u \in old \ P : \A w \in G[u] : Seen(r, w)
      BY <1>5, <1>9, <2>3 DEF SearchInv, Seen
    <2>12. \A y, z \in old : r.index[y] <= r.index[z] => Reach(G, y, z)
      BY <1>5, <1>9, <2>3 DEF SearchInv
    <2>13. ASSUME NEW y \in old PROVE \E p \in P : r.index[p] <= r.index[y] /\ Reach(G, y, p)
      <3>1. PICK p \in Q : b.index[p] <= b.index[y] /\ Reach(G, y, p)
        BY <1>5, <1>9 DEF SearchInv
      <3>2. b.index[y] < b.index[v] /\ b.index[y] \in Nat /\ b.index[v] \in Nat
        BY <1>9, <1>10
      <3>3. p # v
        BY <3>1, <3>2
      <3> QED
        BY <2>3, <3>1, <3>3
    <2>14. SearchInv(G, r, P)
      <3>1. Finished(G, r) \in Closed(G)
        BY <2>5, <2>7
      <3> HIDE DEF old
      <3> QED
        BY <1>9, <2>2, <2>10, <2>11, <2>12, <2>13, <3>1 DEF SearchInv
    <2>15. LowCovers(G, a, r, v, OnStack(r) \ old)
      BY <2>2 DEF LowCovers
    <2> QED
      BY <1>6, <1>9, <1>12, <2>2, <2>3, <2>14, <2>15
  <1> QED
    BY <1>11, <1>12

(* A call does what it should, whatever calls are under way.                *)
LEMMA CallRight ==
    ASSUME NEW G, FiniteGraph(G), NEW c \in Calls(G), NEW P \in SUBSET DOMAIN G, CallPre(G, c, P)
    PROVE  CallPost(G, c, StrongConnect(G)[c], P)
  <1> DEFINE F == StrongConnect(G)
             D == Calls(G)
             mu == SearchWeight(G)
             Good == {d \in D : \A Q \in SUBSET DOMAIN G : CallPre(G, d, Q) => CallPost(G, d, F[d], Q)}
  <1>1. \A d \in D : F[d] = ConnectBody(G, F, d) /\ F[d] \in Left(G, d)
    BY ConnectSolves
  <1> HIDE DEF F
  <1>2. ASSUME NEW d \in D, \A e \in D : mu[e] < mu[d] => e \in Good,
               NEW Q \in SUBSET DOMAIN G, CallPre(G, d, Q)
        PROVE  CallPost(G, d, F[d], Q)
    <2> DEFINE S == G[d[2]]
               A == Inside(G, d)
               base == Enter(d[1], d[2])
               op == EdgeOp(G, F, d)
               I == {p \in (SUBSET S) \X A : LoopInv(G, d, Q, p[1], p[2])}
               all == FoldOver(op, base, S)
    <2>1. base \in A
      <3>1. base \in SearchStates(G) /\ Later(G, base, base, d[2])
        BY CallFacts
      <3> QED
        BY <3>1 DEF Inside
    <2>2. ASSUME NEW x \in S, NEW b \in A
          PROVE  op[<<x, b>>] = FollowEdge(F, d[2], x, b) /\ op[<<x, b>>] \in A
      BY <1>1, EdgeKeeps
    <2>3. IsFiniteSet(S)
      BY CallFacts
    <2>4. <<{}, base>> \in I
      <3>1. LoopInv(G, d, Q, {}, base)
        BY <1>2, LoopStarts
      <3> HIDE DEF base, A
      <3> QED
        BY <2>1, <3>1
    <2>5. ASSUME NEW s \in SUBSET S, NEW x \in S, NEW b \in A, <<s, b>> \in I
          PROVE  <<s \cup {x}, op[<<x, b>>]>> \in I
      <3>1. LoopInv(G, d, Q, s, b)
        BY <2>5
      <3>2. \A e \in D : mu[e] < mu[d] =>
               F[e] \in Left(G, e) /\ \A R \in SUBSET DOMAIN G : CallPre(G, e, R) => CallPost(G, e, F[e], R)
        BY <1>1, <1>2
      <3>3. LoopInv(G, d, Q, s \cup {x}, FollowEdge(F, d[2], x, b))
        BY <1>2, <3>1, <3>2, LoopEdge
      <3>4. LoopInv(G, d, Q, s \cup {x}, op[<<x, b>>]) /\ op[<<x, b>>] \in A
        BY <2>2, <3>3
      <3> HIDE DEF op, S, A
      <3> QED
        BY <3>4
    <2>6. all \in A /\ <<S, all>> \in I
      <3>1. \A x \in S, b \in A : op[<<x, b>>] \in A
        BY <2>2
      <3> HIDE DEF op, S, A, base, I
      <3> QED
        BY <2>1, <2>3, <2>4, <2>5, <3>1, LoopInvariant
    <2>7. F[d] = Leave(G, all, d[2])
      BY <1>1 DEF ConnectBody, SearchLoop
    <2>8. LoopInv(G, d, Q, S, all)
      <3> HIDE DEF all, S
      <3> QED
        BY <2>6
    <2> HIDE DEF all
    <2> QED
      BY <1>2, <2>6, <2>7, <2>8, LeaveRight
  <1>3. \A d \in D : (\A e \in D : mu[e] < mu[d] => e \in Good) => d \in Good
    BY <1>2
  <1>4. mu \in [D -> Nat]
    <2>1. \A d \in D : mu[d] \in Nat
      BY CallFacts
    <2>2. mu = [d \in D |-> mu[d]]
      BY DEF SearchWeight
    <2> HIDE DEF mu, D
    <2> QED
      BY <2>1, <2>2
  <1>5. D \subseteq Good
    <2> HIDE DEF mu, D, Good
    <2> QED
      BY <1>3, <1>4, Descent, Zenon
  <1> QED
    BY <1>5 DEF F

(* rejectCycles reports exactly the nodes on a cycle.                       *)
LEMMA ComponentsExact ==
    ASSUME NEW G, FiniteGraph(G)
    PROVE  UNION CyclicComponents(G) = OnCycle(G)
  <1> DEFINE F == StrongConnect(G)
             S == DOMAIN G
             A == {st \in SearchStates(G) : SearchInv(G, st, {})}
             base == NothingSeen(G)
             op == [c \in S \X SearchStates(G) |-> IF Seen(c[2], c[1]) THEN c[2] ELSE F[<<c[2], c[1]>>]]
             I == {p \in (SUBSET S) \X A : \A w \in p[1] : Seen(p[2], w)}
             all == FoldOver(op, base, S)
  <1>1. base \in A
    <2>1. /\ base.index = [u \in S |-> 0] /\ base.low = [u \in S |-> 0] /\ base.stack = <<>>
          /\ base.next = 1 /\ base.cyclic = {}
          /\ base = [index |-> base.index, low |-> base.low, stack |-> base.stack, next |-> base.next,
                     cyclic |-> base.cyclic]
      BY DEF NothingSeen
    <2> HIDE DEF base
    <2>2. Len(base.stack) = 0 /\ 1 .. Len(base.stack) = {} /\ base.stack \in Seq(S)
      BY <2>1
    <2>3. base \in SearchStates(G)
      <3>1. /\ base.index \in [S -> Nat] /\ base.low \in [S -> Nat] /\ base.next \in Nat \ {0}
            /\ base.cyclic \in SUBSET SUBSET S /\ \A u \in S : base.index[u] < base.next
        BY <2>1
      <3>2. \A i \in 1 .. Len(base.stack) :
               /\ base.index[base.stack[i]] # 0
               /\ \A j \in 1 .. i - 1 : base.index[base.stack[j]] < base.index[base.stack[i]]
        BY <2>2
      <3> QED
        BY <2>1, <2>2, <3>1, <3>2, StateFacts, Zenon
    <2>4. OnStack(base) = {} /\ Finished(G, base) = {} /\ UNION base.cyclic = {}
      BY <2>1, <2>2 DEF OnStack, Finished, Seen
    <2>5. SearchInv(G, base, {})
      BY <2>4 DEF SearchInv, Closed
    <2> QED
      BY <2>3, <2>5
  <1>2. ASSUME NEW s \in SUBSET S, NEW x \in S, NEW b \in A
        PROVE  /\ op[<<x, b>>] \in A /\ Seen(op[<<x, b>>], x)
               /\ \A w \in s : Seen(b, w) => Seen(op[<<x, b>>], w)
    <2>1. op[<<x, b>>] = IF Seen(b, x) THEN b ELSE F[<<b, x>>]
      OBVIOUS
    <2> HIDE DEF op
    <2>2. CASE Seen(b, x)
      BY <2>1, <2>2
    <2>3. CASE ~Seen(b, x)
      <3> DEFINE d == <<b, x>>
                 r == F[d]
      <3>1. d \in Calls(G) /\ d[1] = b /\ d[2] = x /\ b \in SearchStates(G) /\ SearchInv(G, b, {})
        BY <2>3 DEF Calls
      <3>2. op[<<x, b>>] = r
        BY <2>1, <2>3
      <3> HIDE DEF d
      <3>3. r \in Left(G, d)
        BY <3>1, ConnectSolves
      <3>4. CallPre(G, d, {})
        BY <3>1 DEF CallPre
      <3>5. CallPost(G, d, r, {})
        BY <3>1, <3>4, CallRight
      <3> HIDE DEF r
      <3>6. r \in SearchStates(G) /\ Later(G, b, r, x) /\ Seen(r, x) /\ SearchInv(G, r, {})
        BY <3>1, <3>3, <3>5 DEF Left, CallPost
      <3>7. \A w \in s : Seen(b, w) => Seen(r, w)
        BY <3>1, <3>6, LaterSees
      <3> QED
        BY <3>2, <3>6, <3>7
    <2> QED
      BY <2>2, <2>3
  <1>3. all \in A /\ <<S, all>> \in I
    <2>1. \A x \in S, b \in A : op[<<x, b>>] \in A
      BY <1>2
    <2>2. \A s \in SUBSET S, x \in S, b \in A :
             x \notin s /\ <<s, b>> \in I => <<s \cup {x}, op[<<x, b>>]>> \in I
      <3> HIDE DEF op, S, A
      <3> QED
        BY <1>2
    <2>3. <<{}, base>> \in I /\ IsFiniteSet(S)
      BY <1>1 DEF FiniteGraph
    <2> HIDE DEF op, S, A, base, I
    <2> QED
      BY <1>1, <2>1, <2>2, <2>3, LoopInvariant
  <1>4. CyclicComponents(G) = all.cyclic
    BY Zenon DEF CyclicComponents
  <1>5. \A u \in S : Seen(all, u)
    <2> HIDE DEF all
    <2> QED
      BY <1>3
  <1>6. SearchInv(G, all, {})
    <2> HIDE DEF all
    <2> QED
      BY <1>3
  <1> HIDE DEF all
  <1>7. OnStack(all) = {}
    BY <1>6 DEF SearchInv
  <1>8. Finished(G, all) = S
    BY <1>5, <1>7 DEF Finished
  <1>9. OnCycle(G) \subseteq S
    BY DEF OnCycle
  <1> QED
    BY <1>4, <1>6, <1>8, <1>9 DEF SearchInv

-----------------------------------------------------------------------------
(* Sets with at most one member.                                            *)

(* Two members of a set with at most one.                                   *)
LEMMA OneOf ==
    ASSUME NEW X, IsFiniteSet(X), ~(Cardinality(X) > 1), NEW x \in X, NEW y \in X
    PROVE  x = y
  <1> SUFFICES ASSUME x # y PROVE FALSE
    OBVIOUS
  <1>1. Cardinality({x}) = 1 /\ IsFiniteSet({x})
    BY FS_Singleton
  <1>2. Cardinality({x} \cup {y}) = Cardinality({x}) + 1
    <2>1. y \notin {x}
      OBVIOUS
    <2> QED
      BY <1>1, <2>1, FS_AddElement
  <1>3. {x} \cup {y} \subseteq X
    OBVIOUS
  <1>4. Cardinality({x} \cup {y}) <= Cardinality(X)
    BY <1>3, FS_Subset
  <1>5. Cardinality(X) \in Nat
    BY FS_CardinalityType
  <1> QED
    BY <1>1, <1>2, <1>4, <1>5

(* A set without two different members.                                     *)
LEMMA NotMore ==
    ASSUME NEW X, \A x, y \in X : x = y
    PROVE  ~(Cardinality(X) > 1)
  <1>1. CASE X = {}
    BY <1>1, FS_EmptySet
  <1>2. CASE X # {}
    <2>1. PICK x : x \in X
      BY <1>2
    <2>2. X = {x}
      BY <2>1
    <2> QED
      BY <2>2, FS_Singleton
  <1> QED
    BY <1>1, <1>2

-----------------------------------------------------------------------------
(* A target without defects has its UID alone.                              *)
LEMMA AloneUnderUID ==
    ASSUME NEW S, IsFiniteSet(S.targets), NEW t \in Resolved(S), NEW d \in Resolved(S), d.uid = t.uid
    PROVE  d = t
  <1>1. t \in S.targets /\ d \in S.targets /\ Defects(S, t) = {}
    BY DEF Resolved
  <1>2. ~(Cardinality(SameUID(S, t.uid)) > 1)
    <2> SUFFICES ASSUME Cardinality(SameUID(S, t.uid)) > 1 PROVE FALSE
      OBVIOUS
    <2>1. "duplicate-target-uid" \in Defects(S, t)
      BY DEF Defects
    <2> QED
      BY <1>1, <2>1
  <1>3. IsFiniteSet(SameUID(S, t.uid))
    BY FS_Subset DEF SameUID
  <1>4. t \in SameUID(S, t.uid) /\ d \in SameUID(S, t.uid)
    BY <1>1 DEF SameUID
  <1> QED
    BY <1>2, <1>3, <1>4, OneOf

(* A valid target is a resolved one.                                        *)
LEMMA ValidResolved ==
    ASSUME NEW S
    PROVE  Valid(S) \subseteq Resolved(S)
  BY Zenon DEF Valid, WithoutCycles

(* The assessment has a result for exactly the capabilities of the valid    *)
(* targets.                                                                 *)
LEMMA AssessedNodes ==
    ASSUME NEW S
    PROVE  Evaluate(S).valid = Valid(S) /\ DOMAIN Evaluate(S).caps = Nodes(S, Valid(S))
  <1>1. \A valid : DOMAIN Capabilities(S, valid) = Nodes(S, valid)
    BY Zenon DEF Capabilities
  <1>2. Evaluate(S).valid = Valid(S) /\ Evaluate(S).caps = Capabilities(S, Valid(S))
    BY DEF Evaluate, Assess
  <1> QED
    BY <1>1, <1>2

LEMMA AssessedCapabilities ==
    ASSUME NEW S, IsFiniteSet(S.targets), NEW t \in Valid(S), NEW c
    PROVE  <<t.uid, c>> \in DOMAIN Evaluate(S).caps <=> c \in DOMAIN ContractOf(S, t).caps
  <1>1. DOMAIN Evaluate(S).caps = Nodes(S, Valid(S))
    BY AssessedNodes
  <1>2. ASSUME c \in DOMAIN ContractOf(S, t).caps
        PROVE  <<t.uid, c>> \in Nodes(S, Valid(S))
    BY <1>2 DEF Nodes
  <1>3. ASSUME <<t.uid, c>> \in Nodes(S, Valid(S))
        PROVE  c \in DOMAIN ContractOf(S, t).caps
    <2>1. PICK d \in Valid(S) : <<t.uid, c>> \in {<<d.uid, n>> : n \in DOMAIN ContractOf(S, d).caps}
      BY <1>3 DEF Nodes
    <2>2. d.uid = t.uid /\ c \in DOMAIN ContractOf(S, d).caps
      BY <2>1
    <2>3. d = t
      BY <2>2, ValidResolved, AloneUnderUID
    <2> QED
      BY <2>2, <2>3
  <1> QED
    BY <1>1, <1>2, <1>3

-----------------------------------------------------------------------------
(* What the summary and the proposals read is the same.                      *)

\* The summary's input shows the results that A has for t.
Agrees(in, A, t, P) ==
    /\ in.ns = t.ns /\ in.name = t.name /\ in.uid = t.uid /\ in.profile = P
    /\ \A c : c \in DOMAIN in.st.caps <=> <<t.uid, c>> \in DOMAIN A.caps
    /\ \A c \in DOMAIN in.st.caps : in.st.caps[c] = A.caps[<<t.uid, c>>]

(* The proposals and the summary see the same state of a capability.         *)
LEMMA SameState ==
    ASSUME NEW in, NEW A, NEW t, NEW P, Agrees(in, A, t, P), NEW c
    PROVE  CapState(A, t, c) = IF c \in DOMAIN in.st.caps THEN in.st.caps[c].state ELSE ""
  BY DEF Agrees, CapState

(* The same declarations are triggered.                                     *)
LEMMA SameDeclared ==
    ASSUME NEW in, NEW A, NEW t, NEW P, Agrees(in, A, t, P), ProfileValid(P)
    PROVE  Triggered(A, t, P) = Declared(in)
  <1>1. \A r \in P.responses : r.states \subseteq {"DEGRADED", "UNAVAILABLE", "UNKNOWN"}
    BY Zenon DEF ProfileValid
  <1>2. ASSUME NEW r \in P.responses
        PROVE  /\ (CapState(A, t, r.for) # "" /\ TriggersProposal(r, CapState(A, t, r.for))) <=>
                  (r.for \in DOMAIN in.st.caps /\ Triggers(r, in.st.caps[r.for].state))
               /\ (r.ns = t.ns /\ r.name = t.name /\ (r.uid # 0 => r.uid = t.uid)) <=>
                  (r.ns = in.ns /\ r.name = in.name /\ r.uid \in {0, in.uid})
    <2>1. CapState(A, t, r.for) = IF r.for \in DOMAIN in.st.caps THEN in.st.caps[r.for].state ELSE ""
      BY SameState
    <2>2. \A s : TriggersProposal(r, s) <=> Triggers(r, s)
      BY DEF TriggersProposal, Triggers
    <2>3. ~Triggers(r, "")
      BY <1>1 DEF Triggers
    <2> QED
      BY <2>1, <2>2, <2>3 DEF Agrees
  <1>3. in.profile.responses = P.responses
    BY DEF Agrees
  <1> QED
    BY <1>2, <1>3, Zenon DEF Triggered, Declared

(* The same preconditions hold.                                             *)
LEMMA SamePrecondition ==
    ASSUME NEW in, NEW A, NEW t, NEW P, Agrees(in, A, t, P), NEW p
    PROVE  /\ PreconditionOf(in, p) = Precondition(CapState(A, t, p))
           /\ PreconditionOf(in, p) \in {"proven", "unmet", "unproven"}
           /\ PreconditionOf(in, p) = "unmet" <=> CapState(A, t, p) \in {"DEGRADED", "UNAVAILABLE"}
  BY SameState DEF Precondition, PreconditionOf

(* The same owners are declared.                                            *)
LEMMA SameOwners ==
    ASSUME NEW in, NEW A, NEW t, NEW P, Agrees(in, A, t, P), ProfileValid(P), NEW r
    PROVE  OwnersDeclared(A, t, P, r) = OwnersOf(in, r)
  BY SameDeclared, Zenon DEF OwnersDeclared, OwnersOf

(* A response is applicable unless the summary shows it inapplicable.       *)
LEMMA SameApplicable ==
    ASSUME NEW in, NEW A, NEW t, NEW P, Agrees(in, A, t, P), NEW r
    PROVE  Applicable(A, t, r) <=> ResponseStatus(in, r) # "Inapplicable"
  <1>1. Applicable(A, t, r) <=> ~ \E p \in r.pre : PreconditionOf(in, p) = "unmet"
    BY SamePrecondition DEF Applicable
  <1> QED
    BY <1>1 DEF ResponseStatus

(* What a response shown ready has.                                         *)
LEMMA ReadyMeans ==
    ASSUME NEW in, NEW r
    PROVE  ResponseStatus(in, r) = "Ready" <=>
             /\ \A p \in r.pre : PreconditionOf(in, p) \notin {"unmet", "unproven"}
             /\ ~(Cardinality(OwnersOf(in, r)) > 1) /\ r.owner # "" /\ ~r.decide
  BY DEF ResponseStatus

(* The responses with one key are shown alike.                              *)
LEMMA SameKey ==
    ASSUME NEW in, NEW r, NEW x, ResponseKey(r) = ResponseKey(x)
    PROVE  /\ r.action = x.action /\ r.for = x.for /\ r.owner = x.owner
           /\ r.decide = x.decide /\ r.pre = x.pre
           /\ ResponseStatus(in, r) = ResponseStatus(in, x)
  <1>1. /\ r.action = x.action /\ r.for = x.for /\ r.owner = x.owner
        /\ r.decide = x.decide /\ r.pre = x.pre
    BY DEF ResponseKey
  <1>2. OwnersOf(in, r) = OwnersOf(in, x)
    BY <1>1, Zenon DEF OwnersOf
  <1> QED
    BY <1>1, <1>2, Zenon DEF ResponseStatus

-----------------------------------------------------------------------------
(* The decision on a capability.                                            *)

\* How the summary shows a declared response.
Entry(in, r) ==
    [for |-> r.for, action |-> r.action, owner |-> r.owner, decide |-> r.decide, pre |-> r.pre,
     status |-> ResponseStatus(in, r)]

\* The ways out it has for capability n.
WaysOut(in, n) == Viable({r \in Responses(in) : r.for = n})

(* The ways out are the applicable declarations for the capability.         *)
LEMMA WaysDeclared ==
    ASSUME NEW in, NEW n
    PROVE  WaysOut(in, n) =
             {Entry(in, r) : r \in {x \in Declared(in) :
                                      x.for = n /\ ResponseStatus(in, x) # "Inapplicable"}}
  <1>1. Responses(in) = {Entry(in, r) : r \in Declared(in)}
    BY Zenon DEF Responses, Entry
  <1>2. \A r : Entry(in, r).for = r.for /\ Entry(in, r).status = ResponseStatus(in, r)
    BY DEF Entry
  <1> QED
    BY <1>1, <1>2 DEF WaysOut, Viable

(* Where there is a way out, the decision names what stands in its way.      *)
LEMMA DecisionOnWays ==
    ASSUME NEW in, NEW n, WaysOut(in, n) # {}
    PROVE  DecideCapability(in, n) =
             (IF Cardinality(WaysOut(in, n)) > 1 THEN {Decide("no-priority-authority", n, n)} ELSE {}) \cup
             {Decide(CodeOf(r.status), n, r.action) : r \in {x \in WaysOut(in, n) : x.status # "Ready"}} \cup
             (IF Cardinality(WaysOut(in, n)) = 1 /\ \A r \in WaysOut(in, n) : r.status = "Ready"
              THEN {Notice("declared-response-ready", n)} ELSE {})
  <1>1. {r \in Responses(in) : r.for = n} # {}
    BY DEF WaysOut, Viable
  <1> QED
    BY <1>1, Zenon DEF DecideCapability, WaysOut

(* One way out that is ready is shown ready.                                *)
LEMMA OneWayShown ==
    ASSUME NEW in, NEW n, NEW v, WaysOut(in, n) = {v}, v.status = "Ready"
    PROVE  ShownReady(in, n)
  <1>1. Cardinality(WaysOut(in, n)) = 1
    BY FS_Singleton
  <1>2. DecideCapability(in, n) =
             (IF Cardinality(WaysOut(in, n)) > 1 THEN {Decide("no-priority-authority", n, n)} ELSE {}) \cup
             {Decide(CodeOf(r.status), n, r.action) : r \in {x \in WaysOut(in, n) : x.status # "Ready"}} \cup
             (IF Cardinality(WaysOut(in, n)) = 1 /\ \A r \in WaysOut(in, n) : r.status = "Ready"
              THEN {Notice("declared-response-ready", n)} ELSE {})
    BY DecisionOnWays
  <1>3. DecideCapability(in, n) = {Notice("declared-response-ready", n)}
    BY <1>1, <1>2
  <1> QED
    BY <1>3, Zenon DEF ShownReady

(* What is shown ready is the only way out.                                 *)
LEMMA ShownIsOneWay ==
    ASSUME NEW in, NEW n, ShownReady(in, n), IsFiniteSet(Declared(in)),
           NEW v \in WaysOut(in, n), NEW w \in WaysOut(in, n)
    PROVE  v = w
  <1>1. IsFiniteSet(WaysOut(in, n))
    <2> DEFINE D == {x \in Declared(in) : x.for = n /\ ResponseStatus(in, x) # "Inapplicable"}
    <2>1. IsFiniteSet(D)
      BY FS_Subset
    <2>2. WaysOut(in, n) = {Entry(in, r) : r \in D}
      BY WaysDeclared
    <2> HIDE DEF D
    <2> DEFINE f == [r \in D |-> Entry(in, r)]
    <2>3. f \in Surjection(D, WaysOut(in, n))
      BY <2>2 DEF Surjection
    <2> QED
      BY <2>1, <2>3, FS_Surjection
  <1>2. ~(Cardinality(WaysOut(in, n)) > 1)
    <2> SUFFICES ASSUME Cardinality(WaysOut(in, n)) > 1 PROVE FALSE
      OBVIOUS
    <2>1. Decide("no-priority-authority", n, n) \in DecideCapability(in, n)
      BY DecisionOnWays
    <2>2. Decide("no-priority-authority", n, n) = Notice("declared-response-ready", n)
      BY <2>1 DEF ShownReady
    <2> QED
      BY <2>2 DEF Decide, Notice, Raise
  <1> QED
    BY <1>1, <1>2, OneOf

-----------------------------------------------------------------------------
(* The handoff.                                                             *)

(* What the gates and the policy ask of a proposal.                         *)
LEMMA HandoverMeans ==
    ASSUME NEW p
    PROVE  HandedOverByPolicy(p) <=>
             /\ p.human = {} /\ p.owner # "" /\ ~p.ownerConflict
             /\ p.exec.provider \in DOMAIN Registrations /\ Authorises(p.exec.provider, p)
             /\ \A x \in p.pre : x[2] = "proven"
             /\ Durable
  <1> DEFINE A == Gate("owner-undeclared", p.owner = "")
             B == Gate("owner-conflict", p.ownerConflict)
             C == Gate("no-approver", p.human # {} /\ p.exec.approvers = {})
             D == Gate("provider-unregistered", p.exec.provider \notin DOMAIN Registrations)
             E == Gate("authority-insufficient",
                       p.exec.provider \in DOMAIN Registrations /\ ~Authorises(p.exec.provider, p))
             F == {"precondition-" \o c[2] : c \in {x \in p.pre : x[2] # "proven"}}
             G == Gate("journal-not-durable", ~Durable)
             H == Gate("target-busy", FALSE)
  <1>1. Gates(p, FALSE) = A \cup B \cup C \cup D \cup E \cup F \cup G \cup H
    BY Zenon DEF Gates
  <1>2. /\ A = {} <=> p.owner # ""
        /\ B = {} <=> ~p.ownerConflict
        /\ C = {} <=> ~(p.human # {} /\ p.exec.approvers = {})
        /\ D = {} <=> p.exec.provider \in DOMAIN Registrations
        /\ E = {} <=> ~(p.exec.provider \in DOMAIN Registrations /\ ~Authorises(p.exec.provider, p))
        /\ G = {} <=> Durable
        /\ H = {}
    BY DEF Gate
  <1>3. F = {} <=> \A x \in p.pre : x[2] = "proven"
    BY Zenon
  <1>4. HandedOverByPolicy(p) <=> p.human = {} /\ Gates(p, FALSE) = {}
    BY Zenon DEF HandedOverByPolicy, ApprovedByPolicy
  <1> HIDE DEF A, B, C, D, E, F, G, H
  <1>5. Gates(p, FALSE) = {} <=>
          A = {} /\ B = {} /\ C = {} /\ D = {} /\ E = {} /\ F = {} /\ G = {} /\ H = {}
    BY <1>1
  <1> QED
    BY <1>2, <1>3, <1>4, <1>5, Zenon

(* The fields of a proposal.                                                *)
LEMMA ProposalFields ==
    ASSUME NEW A, NEW t, NEW P, NEW r
    PROVE  /\ ProposalOf(A, t, P, r).ns = t.ns
           /\ ProposalOf(A, t, P, r).action = r.action
           /\ ProposalOf(A, t, P, r).for = r.for
           /\ ProposalOf(A, t, P, r).owner = r.owner
           /\ ProposalOf(A, t, P, r).exec = r.exec
           /\ ProposalOf(A, t, P, r).pre = {<<p, Precondition(CapState(A, t, p))>> : p \in r.pre}
           /\ ProposalOf(A, t, P, r).human =
                HumanDecisionReasons(r) \cup
                (IF Competing(A, t, P, r) THEN {"no-priority-authority"} ELSE {})
           /\ ProposalOf(A, t, P, r).ownerConflict = (Cardinality(OwnersDeclared(A, t, P, r)) > 1)
  BY DEF ProposalOf

(* No person is asked for a response that needs none and competes with none. *)
LEMMA NobodyAsked ==
    ASSUME NEW A, NEW t, NEW P, NEW r, r.exec # NoExecution
    PROVE  ProposalOf(A, t, P, r).human = {} <=>
             ~r.decide /\ r.exec.interrupt = {} /\ ~Competing(A, t, P, r)
  <1>1. ProposalOf(A, t, P, r).human =
          HumanDecisionReasons(r) \cup
          (IF Competing(A, t, P, r) THEN {"no-priority-authority"} ELSE {})
    BY ProposalFields
  <1>2. HumanDecisionReasons(r) = {} <=> ~r.decide /\ r.exec.interrupt = {}
    BY DEF HumanDecisionReasons
  <1> QED
    BY <1>1, <1>2

(* The applicable declarations for a capability, as the proposals and as    *)
(* the summary see them.                                                    *)
LEMMA SameViable ==
    ASSUME NEW in, NEW A, NEW t, NEW P, Agrees(in, A, t, P), ProfileValid(P), NEW n
    PROVE  {x \in Triggered(A, t, P) : x.for = n /\ Applicable(A, t, x)} =
           {x \in Declared(in) : x.for = n /\ ResponseStatus(in, x) # "Inapplicable"}
  <1>1. Triggered(A, t, P) = Declared(in)
    BY SameDeclared
  <1>2. \A x : Applicable(A, t, x) <=> ResponseStatus(in, x) # "Inapplicable"
    BY SameApplicable
  <1> QED
    BY <1>1, <1>2, Zenon

(* The preconditions of a proposal are proven if the summary finds them so.  *)
LEMMA SameProven ==
    ASSUME NEW in, NEW A, NEW t, NEW P, Agrees(in, A, t, P), NEW r
    PROVE  (\A x \in ProposalOf(A, t, P, r).pre : x[2] = "proven") <=>
           \A p \in r.pre : PreconditionOf(in, p) \notin {"unmet", "unproven"}
  <1>1. ProposalOf(A, t, P, r).pre = {<<p, Precondition(CapState(A, t, p))>> : p \in r.pre}
    BY ProposalFields
  <1>2. \A p : Precondition(CapState(A, t, p)) = "proven" <=>
               PreconditionOf(in, p) \notin {"unmet", "unproven"}
    BY SamePrecondition
  <1>3. (\A x \in ProposalOf(A, t, P, r).pre : x[2] = "proven") <=>
        \A p \in r.pre : Precondition(CapState(A, t, p)) = "proven"
    <2> DEFINE q(p) == Precondition(CapState(A, t, p))
               L == {<<p, q(p)>> : p \in r.pre}
    <2>1. ProposalOf(A, t, P, r).pre = L
      BY <1>1, Zenon
    <2>2. ASSUME \A x \in L : x[2] = "proven", NEW p \in r.pre PROVE q(p) = "proven"
      <3>1. <<p, q(p)>> \in L
        BY Zenon
      <3>2. <<p, q(p)>>[2] = "proven"
        BY <2>2, <3>1, Zenon
      <3> HIDE DEF q
      <3> QED
        BY <3>2
    <2>3. ASSUME \A p \in r.pre : q(p) = "proven", NEW x \in L PROVE x[2] = "proven"
      <3>1. PICK p \in r.pre : x = <<p, q(p)>>
        BY Zenon
      <3>2. q(p) = "proven"
        BY <2>3, Zenon
      <3> HIDE DEF q
      <3> QED
        BY <3>1, <3>2
    <2> HIDE DEF L
    <2> QED
      BY <2>1, <2>2, <2>3, Zenon
  <1> QED
    BY <1>2, <1>3, Zenon

(* What is handed over without a person is shown ready, alone.              *)
LEMMA HandedOverShown ==
    ASSUME NEW in, NEW A, NEW t, NEW P, Agrees(in, A, t, P), ProfileValid(P),
           IsFiniteSet(P.responses),
           NEW r \in Triggered(A, t, P), r.exec # NoExecution,
           HandedOverByPolicy(ProposalOf(A, t, P, r))
    PROVE  ShownReady(in, r.for)
  <1> DEFINE viable == {x \in Triggered(A, t, P) : x.for = r.for /\ Applicable(A, t, x)}
             keys == {ResponseKey(x) : x \in viable}
  <1>1. /\ ProposalOf(A, t, P, r).human = {} /\ r.owner # ""
        /\ ~(Cardinality(OwnersDeclared(A, t, P, r)) > 1)
        /\ \A x \in ProposalOf(A, t, P, r).pre : x[2] = "proven"
    <2> DEFINE p == ProposalOf(A, t, P, r)
    <2>1. p.owner = r.owner /\ p.ownerConflict = (Cardinality(OwnersDeclared(A, t, P, r)) > 1)
      BY ProposalFields
    <2>2. p.human = {} /\ p.owner # "" /\ ~p.ownerConflict /\ \A x \in p.pre : x[2] = "proven"
      BY HandoverMeans, Zenon
    <2> QED
      BY <2>1, <2>2, Zenon
  <1>2. ~r.decide /\ ~Competing(A, t, P, r)
    BY <1>1, NobodyAsked
  <1>3. ResponseStatus(in, r) = "Ready"
    <2>1. OwnersOf(in, r) = OwnersDeclared(A, t, P, r)
      BY SameOwners
    <2>2. \A p \in r.pre : PreconditionOf(in, p) \notin {"unmet", "unproven"}
      BY <1>1, SameProven, Zenon
    <2> QED
      BY <1>1, <1>2, <2>1, <2>2, ReadyMeans, Zenon
  <1>4. r \in viable
    BY <1>3, SameApplicable
  <1>5. ~(Cardinality(keys) > 1)
    BY <1>2, Zenon DEF Competing
  <1>6. IsFiniteSet(keys)
    <2>1. Triggered(A, t, P) \subseteq P.responses
      BY DEF Triggered
    <2>2. IsFiniteSet(viable)
      BY <2>1, FS_Subset
    <2> HIDE DEF viable
    <2> DEFINE f == [x \in viable |-> ResponseKey(x)]
    <2>3. f \in Surjection(viable, keys)
      BY DEF Surjection
    <2> QED
      BY <2>2, <2>3, FS_Surjection
  <1>7. ASSUME NEW x \in viable PROVE Entry(in, x) = Entry(in, r)
    <2>1. ResponseKey(x) \in keys /\ ResponseKey(r) \in keys
      BY <1>4
    <2>2. ResponseKey(x) = ResponseKey(r)
      <3> HIDE DEF keys
      <3> QED
        BY <1>5, <1>6, <2>1, OneOf
    <2>3. /\ x.action = r.action /\ x.for = r.for /\ x.owner = r.owner
          /\ x.decide = r.decide /\ x.pre = r.pre
          /\ ResponseStatus(in, x) = ResponseStatus(in, r)
      BY <2>2, SameKey
    <2> QED
      BY <2>3, Zenon DEF Entry
  <1>8. WaysOut(in, r.for) = {Entry(in, x) : x \in viable}
    BY WaysDeclared, SameViable
  <1>9. WaysOut(in, r.for) = {Entry(in, r)}
    BY <1>4, <1>7, <1>8, Zenon
  <1>10. Entry(in, r).status = "Ready"
    BY <1>3 DEF Entry
  <1> QED
    BY <1>9, <1>10, OneWayShown

(* What is shown ready, with one execution contract that interrupts nothing  *)
(* and an authorised provider, is handed over.                              *)
LEMMA ShownHandedOver ==
    ASSUME NEW in, NEW A, NEW t, NEW P, Agrees(in, A, t, P), ProfileValid(P),
           IsFiniteSet(P.responses),
           NEW r \in Declared(in), r.exec # NoExecution,
           ShownReady(in, r.for), r.exec.interrupt = {}, ResponseStatus(in, r) = "Ready",
           \A x \in Declared(in) : x.exec # NoExecution /\ x.for = r.for => x.exec = r.exec,
           r.exec.provider \in DOMAIN Registrations, Durable,
           r.owner = Registrations[r.exec.provider].owner,
           r.action \in Registrations[r.exec.provider].actions,
           t.ns \in Registrations[r.exec.provider].namespaces
    PROVE  HandedOverByPolicy(ProposalOf(A, t, P, r))
  <1> DEFINE p == ProposalOf(A, t, P, r)
             viable == {x \in Triggered(A, t, P) : x.for = r.for /\ Applicable(A, t, x)}
             same == {x \in viable : x.exec # NoExecution /\ ResponseKey(x) = ResponseKey(r)}
  <1>1. /\ \A c \in r.pre : PreconditionOf(in, c) \notin {"unmet", "unproven"}
        /\ ~(Cardinality(OwnersOf(in, r)) > 1) /\ r.owner # "" /\ ~r.decide
    BY ReadyMeans, Zenon
  <1>2. IsFiniteSet(Declared(in))
    <2>1. Declared(in) \subseteq P.responses
      BY DEF Declared, Agrees
    <2> QED
      BY <2>1, FS_Subset
  <1>3. viable = {x \in Declared(in) : x.for = r.for /\ ResponseStatus(in, x) # "Inapplicable"}
    BY SameViable
  <1>4. r \in viable
    BY <1>3
  <1>5. ASSUME NEW x \in viable PROVE ResponseKey(x) = ResponseKey(r)
    <2>1. WaysOut(in, r.for) = {Entry(in, y) : y \in viable}
      BY <1>3, WaysDeclared
    <2> HIDE DEF viable
    <2>2. Entry(in, x) \in WaysOut(in, r.for) /\ Entry(in, r) \in WaysOut(in, r.for)
      BY <1>4, <2>1, Zenon
    <2>3. Entry(in, x) = Entry(in, r)
      BY <1>2, <2>2, ShownIsOneWay
    <2>4. /\ x.action = r.action /\ x.for = r.for /\ x.owner = r.owner
          /\ x.decide = r.decide /\ x.pre = r.pre
      BY <2>3 DEF Entry
    <2> QED
      BY <2>4, Zenon DEF ResponseKey
  <1>6. ~(Cardinality({ResponseKey(x) : x \in viable}) > 1)
    <2> DEFINE K == {ResponseKey(x) : x \in viable}
    <2>1. \A a, b \in K : a = b
      <3> HIDE DEF viable
      <3> QED
        BY <1>5, Zenon
    <2> HIDE DEF K
    <2>2. ~(Cardinality(K) > 1)
      BY <2>1, NotMore
    <2> QED
      BY <2>2 DEF K
  <1>7. ~(Cardinality({DeclarationKey(x) : x \in same}) > 1)
    <2> DEFINE K == {DeclarationKey(x) : x \in same}
    <2>1. ASSUME NEW x \in same PROVE DeclarationKey(x) = <<ResponseKey(r), r.exec>>
      <3>1. x \in Declared(in) /\ x.for = r.for /\ x.exec # NoExecution /\ ResponseKey(x) = ResponseKey(r)
        BY <1>3, Zenon
      <3>2. x.exec = r.exec
        BY <3>1, Zenon
      <3> QED
        BY <3>1, <3>2, Zenon DEF DeclarationKey
    <2>2. \A a, b \in K : a = b
      <3> HIDE DEF same
      <3> QED
        BY <2>1, Zenon
    <2> HIDE DEF K
    <2>3. ~(Cardinality(K) > 1)
      BY <2>2, NotMore
    <2> QED
      BY <2>3 DEF K
  <1>8. ~Competing(A, t, P, r)
    BY <1>6, <1>7, Zenon DEF Competing
  <1>9. p.human = {}
    BY <1>1, <1>8, NobodyAsked
  <1>10. /\ p.ns = t.ns /\ p.action = r.action /\ p.owner = r.owner /\ p.exec = r.exec
         /\ p.ownerConflict = (Cardinality(OwnersDeclared(A, t, P, r)) > 1)
    BY ProposalFields
  <1>11. OwnersDeclared(A, t, P, r) = OwnersOf(in, r)
    BY SameOwners
  <1>12. \A x \in p.pre : x[2] = "proven"
    <2>1. (\A x \in p.pre : x[2] = "proven") <=>
          \A c \in r.pre : PreconditionOf(in, c) \notin {"unmet", "unproven"}
      BY SameProven
    <2> QED
      BY <1>1, <2>1, Zenon
  <1> HIDE DEF p
  <1>13. Authorises(p.exec.provider, p)
    BY <1>1, <1>10 DEF Authorises
  <1>14. ~p.ownerConflict
    BY <1>1, <1>10, <1>11, Zenon
  <1>15. p.owner # "" /\ p.exec.provider \in DOMAIN Registrations
    BY <1>1, <1>10, Zenon
  <1> QED
    BY <1>9, <1>12, <1>13, <1>14, <1>15, HandoverMeans, Zenon DEF p

-----------------------------------------------------------------------------
(* The graph of the capabilities of the valid targets.                      *)

\* No set of capabilities needs only itself.
Acyclic(S, valid) ==
    \A X \in SUBSET Nodes(S, valid) :
        (\A n \in X : EdgesOf(S, valid, n) \cap X # {}) => X = {}

(* A target of a UID that is resolved is the one found under it.            *)
LEMMA FoundUnderUID ==
    ASSUME NEW S, IsFiniteSet(S.targets), NEW t \in Resolved(S)
    PROVE  TargetOf(S, t.uid) = t
  <1>1. t \in S.targets /\ Defects(S, t) = {}
    BY DEF Resolved
  <1>2. TargetOf(S, t.uid) \in S.targets /\ TargetOf(S, t.uid).uid = t.uid
    BY <1>1, Zenon DEF TargetOf
  <1>3. ~(Cardinality(SameUID(S, t.uid)) > 1)
    <2> SUFFICES ASSUME Cardinality(SameUID(S, t.uid)) > 1 PROVE FALSE
      OBVIOUS
    <2>1. "duplicate-target-uid" \in Defects(S, t)
      BY DEF Defects
    <2> QED
      BY <1>1, <2>1
  <1>4. IsFiniteSet(SameUID(S, t.uid))
    BY FS_Subset DEF SameUID
  <1>5. t \in SameUID(S, t.uid) /\ TargetOf(S, t.uid) \in SameUID(S, t.uid)
    BY <1>1, <1>2 DEF SameUID
  <1> QED
    BY <1>3, <1>4, <1>5, OneOf

(* The contract of a resolved target is there, valid, and the only one.      *)
LEMMA ResolvedContract ==
    ASSUME NEW S, NEW t \in Resolved(S)
    PROVE  ContractOf(S, t) \in S.contracts /\ ContractValid(ContractOf(S, t))
  <1>1. Defects(S, t) = {}
    BY DEF Resolved
  <1> DEFINE D == CASE t.contract.ns # t.ns -> {"cross-namespace-contract-ref"}
                    [] t.contract.ns = t.ns /\ ContractsOf(S, t) = {} -> {"contract-unresolved"}
                    [] t.contract.ns = t.ns /\ Cardinality(ContractsOf(S, t)) > 1 -> {"contract-ambiguous"}
                    [] OTHER -> IF ContractValid(ContractOf(S, t)) THEN BindingDefects(S, t)
                                ELSE {"invalid-contract"}
  <1>2. D = {}
    BY <1>1 DEF Defects
  <1>3. Cardinality({}) = 0
    BY FS_EmptySet
  <1>4. t.contract.ns = t.ns /\ ContractsOf(S, t) # {} /\ ContractValid(ContractOf(S, t))
    BY <1>2, <1>3
  <1>5. ContractOf(S, t) \in ContractsOf(S, t)
    BY <1>4, Zenon DEF ContractOf
  <1> QED
    BY <1>4, <1>5 DEF ContractsOf

(* A capability of a valid target, and what it refers to.                   *)
LEMMA NodeFacts ==
    ASSUME NEW S, IsSnapshot(S), NEW valid \in SUBSET Resolved(S), NEW n \in Nodes(S, valid)
    PROVE  LET t == TargetOf(S, n[1])
               c == ContractOf(S, t)
           IN /\ t \in valid /\ t.uid = n[1] /\ n = <<n[1], n[2]>> /\ n[2] \in DOMAIN c.caps
              /\ c \in S.contracts /\ ContractValid(c) /\ IsContract(c)
              /\ \A r \in c.caps[n[2]] :
                    /\ r.kind \in {"assertion", "envelope", "local", "dependency"}
                    /\ r.onUnmet \in {"DEGRADED", "UNAVAILABLE"} /\ ReferenceOK(c, r)
  <1>1. PICK t \in valid : n \in {<<t.uid, m>> : m \in DOMAIN ContractOf(S, t).caps}
    BY DEF Nodes
  <1>2. n = <<n[1], n[2]>> /\ n[1] = t.uid /\ n[2] \in DOMAIN ContractOf(S, t).caps
    BY <1>1
  <1>3. TargetOf(S, n[1]) = t
    BY <1>2, FoundUnderUID DEF IsSnapshot
  <1> DEFINE c == ContractOf(S, t)
  <1>4. c \in S.contracts /\ ContractValid(c)
    BY ResolvedContract
  <1>5. IsContract(c)
    BY <1>4 DEF IsSnapshot
  <1> HIDE DEF c
  <1>6. c.sound /\ \A m \in DOMAIN c.caps : \A r \in c.caps[m] : ReferenceOK(c, r)
    BY <1>4 DEF ContractValid
  <1>7. \A r \in c.caps[n[2]] : /\ r.kind \in {"assertion", "envelope", "local", "dependency"}
                                /\ r.onUnmet \in {"DEGRADED", "UNAVAILABLE"} /\ ReferenceOK(c, r)
    BY <1>2, <1>5, <1>6 DEF IsContract, c
  <1> QED
    BY <1>2, <1>3, <1>4, <1>5, <1>7 DEF c

(* A capability of a valid target is a node.                                *)
LEMMA NodeOf ==
    ASSUME NEW S, NEW valid, NEW d \in valid, NEW k \in DOMAIN ContractOf(S, d).caps
    PROVE  <<d.uid, k>> \in Nodes(S, valid)
  BY DEF Nodes

(* The capabilities a requirement needs are capabilities of valid targets,   *)
(* and edges of the graph.                                                  *)
LEMMA NeedsAreEdges ==
    ASSUME NEW S, IsSnapshot(S), NEW valid \in SUBSET Resolved(S), NEW n \in Nodes(S, valid),
           NEW r \in ContractOf(S, TargetOf(S, n[1])).caps[n[2]]
    PROVE  /\ r.kind = "local" => /\ <<n[1], r.ref>> \in EdgesOf(S, valid, n)
                                  /\ <<n[1], r.ref>> \in Nodes(S, valid)
           /\ r.kind = "dependency" /\ Resolves(S, valid, TargetOf(S, n[1]), r) =>
                /\ <<TargetOf(S, n[1]).deps[r.ref].uid, r.cap>> \in EdgesOf(S, valid, n)
                /\ <<TargetOf(S, n[1]).deps[r.ref].uid, r.cap>> \in Nodes(S, valid)
  <1> DEFINE t == TargetOf(S, n[1])
             c == ContractOf(S, t)
  <1>1. t \in valid /\ t.uid = n[1] /\ ReferenceOK(c, r)
    BY NodeFacts
  <1>2. ASSUME r.kind = "local"
        PROVE  <<n[1], r.ref>> \in EdgesOf(S, valid, n) /\ <<n[1], r.ref>> \in Nodes(S, valid)
    <2>1. r.ref \in DOMAIN c.caps
      BY <1>1, <1>2 DEF ReferenceOK
    <2>2. <<n[1], r.ref>> \in Nodes(S, valid)
      BY <1>1, <2>1, NodeOf
    <2>3. <<n[1], r.ref>> \in EdgesOf(S, valid, n)
      BY <1>2, Zenon DEF EdgesOf
    <2> QED
      BY <2>2, <2>3
  <1>3. ASSUME r.kind = "dependency", Resolves(S, valid, t, r)
        PROVE  /\ <<t.deps[r.ref].uid, r.cap>> \in EdgesOf(S, valid, n)
               /\ <<t.deps[r.ref].uid, r.cap>> \in Nodes(S, valid)
    <2>1. PICK d \in valid : d.uid = t.deps[r.ref].uid /\ r.cap \in DOMAIN ContractOf(S, d).caps
      BY <1>3, Zenon DEF Resolves
    <2>2. <<t.deps[r.ref].uid, r.cap>> \in Nodes(S, valid)
      BY <2>1, NodeOf
    <2>3. <<t.deps[r.ref].uid, r.cap>> \in EdgesOf(S, valid, n)
      BY <1>3, Zenon DEF EdgesOf
    <2> QED
      BY <2>2, <2>3
  <1> QED
    BY <1>2, <1>3

(* Edges lead to capabilities of valid targets.                             *)
LEMMA EdgesInside ==
    ASSUME NEW S, IsSnapshot(S), NEW valid \in SUBSET Resolved(S), NEW n \in Nodes(S, valid)
    PROVE  EdgesOf(S, valid, n) \subseteq Nodes(S, valid)
  <1> DEFINE t == TargetOf(S, n[1])
             reqs == ContractOf(S, t).caps[n[2]]
  <1> SUFFICES ASSUME NEW m \in EdgesOf(S, valid, n) PROVE m \in Nodes(S, valid)
    OBVIOUS
  <1>1. \/ \E r \in reqs : r.kind = "local" /\ m = <<n[1], r.ref>>
        \/ \E r \in reqs : /\ r.kind = "dependency" /\ Resolves(S, valid, t, r)
                           /\ m = <<t.deps[r.ref].uid, r.cap>>
    BY Zenon DEF EdgesOf
  <1> QED
    BY <1>1, NeedsAreEdges

(* The capabilities of the valid targets are finitely many.                 *)
LEMMA FiniteNodes ==
    ASSUME NEW S, IsSnapshot(S), NEW valid \in SUBSET Resolved(S)
    PROVE  IsFiniteSet(Nodes(S, valid))
  <1> DEFINE own(t) == {<<t.uid, n>> : n \in DOMAIN ContractOf(S, t).caps}
             all == {own(t) : t \in valid}
  <1>1. valid \subseteq S.targets
    BY DEF Resolved
  <1>2. IsFiniteSet(valid)
    BY <1>1, FS_Subset DEF IsSnapshot
  <1>3. ASSUME NEW t \in valid PROVE IsFiniteSet(own(t))
    <2>1. IsFiniteSet(DOMAIN ContractOf(S, t).caps)
      BY ResolvedContract DEF IsSnapshot, IsContract
    <2> DEFINE D == DOMAIN ContractOf(S, t).caps
               f == [n \in D |-> <<t.uid, n>>]
    <2> HIDE DEF D
    <2>2. f \in Surjection(D, {<<t.uid, n>> : n \in D})
      BY DEF Surjection
    <2>3. IsFiniteSet({<<t.uid, n>> : n \in D})
      BY <2>1, <2>2, FS_Surjection DEF D
    <2> QED
      BY <2>3 DEF D
  <1>4. IsFiniteSet(all)
    <2> DEFINE f == [t \in valid |-> own(t)]
    <2>1. f \in Surjection(valid, all)
      <3> HIDE DEF own
      <3> QED
        BY DEF Surjection
    <2> QED
      BY <1>2, <2>1, FS_Surjection
  <1>5. Nodes(S, valid) = UNION all
    BY DEF Nodes
  <1>6. \A X \in all : IsFiniteSet(X)
    <2> HIDE DEF own
    <2> QED
      BY <1>3, Zenon
  <1> HIDE DEF all
  <1> QED
    BY <1>4, <1>5, <1>6, FS_UNION

(* A finite set of nodes that each have a successor in it has one on a       *)
(* cycle: one from which fewest nodes follow.                               *)
LEMMA SelfSustained ==
    ASSUME NEW G, IsFiniteSet(DOMAIN G), \A v \in DOMAIN G : G[v] \subseteq DOMAIN G,
           NEW X \in SUBSET DOMAIN G, X # {}, \A v \in X : G[v] \cap X # {}
    PROVE  \E v \in X : v \in OnCycle(G)
  <1> DEFINE Beyond(v) == {w \in DOMAIN G : \A C \in Closed(G) : G[v] \subseteq C => w \in C}
             weights == {Cardinality(Beyond(v)) : v \in X}
  <1>1. \A v \in DOMAIN G : v \in OnCycle(G) <=> v \in Beyond(v)
    BY Zenon DEF OnCycle
  <1>2. SUFFICES ASSUME \A v \in X : v \notin Beyond(v) PROVE FALSE
    <2> HIDE DEF Beyond
    <2> QED
      BY <1>1, Zenon
  <1>3. ASSUME NEW v \in DOMAIN G
        PROVE  /\ IsFiniteSet(Beyond(v)) /\ Cardinality(Beyond(v)) \in Nat
               /\ Beyond(v) \in Closed(G) /\ G[v] \subseteq Beyond(v)
    <2>1. IsFiniteSet(Beyond(v))
      BY FS_Subset
    <2>2. Cardinality(Beyond(v)) \in Nat
      <3> HIDE DEF Beyond
      <3> QED
        BY <2>1, FS_CardinalityType
    <2>3. G[v] \subseteq Beyond(v)
      BY DEF Closed
    <2>4. Beyond(v) \in Closed(G)
      BY DEF Closed
    <2> QED
      BY <2>1, <2>2, <2>3, <2>4
  <1>4. PICK v \in X : \A u \in X : Cardinality(Beyond(v)) <= Cardinality(Beyond(u))
    <2> HIDE DEF Beyond
    <2>1. weights \in SUBSET Nat /\ weights # {}
      BY <1>3
    <2>2. \E m \in weights : \A k \in weights : m <= k
      <3> HIDE DEF weights
      <3> QED
        BY <2>1, Least
    <2> QED
      BY <2>2
  <1>5. PICK u \in X : u \in G[v]
    OBVIOUS
  <1>6. u \in Beyond(v) /\ G[u] \subseteq Beyond(v) /\ Beyond(v) \in Closed(G)
    BY <1>3, <1>5 DEF Closed
  <1>7. Beyond(u) \subseteq Beyond(v)
    BY <1>6
  <1>8. u \notin Beyond(u)
    BY <1>2
  <1>9. IsFiniteSet(Beyond(v)) /\ Cardinality(Beyond(v)) \in Nat /\ Cardinality(Beyond(u)) \in Nat
    BY <1>3
  <1>10. Cardinality(Beyond(v)) <= Cardinality(Beyond(u))
    BY <1>4
  <1> HIDE DEF Beyond
  <1>11. Beyond(u) \subseteq Beyond(v) \ {u}
    BY <1>7, <1>8
  <1>12. IsFiniteSet(Beyond(v) \ {u}) /\ Cardinality(Beyond(v) \ {u}) = Cardinality(Beyond(v)) - 1
    BY <1>6, <1>9, FS_RemoveElement
  <1>13. Cardinality(Beyond(u)) <= Cardinality(Beyond(v) \ {u})
    BY <1>11, <1>12, FS_Subset
  <1> QED
    BY <1>9, <1>10, <1>12, <1>13

(* Fewer targets have fewer capabilities and edges.                         *)
LEMMA FewerEdges ==
    ASSUME NEW S, NEW more, NEW fewer \in SUBSET more
    PROVE  /\ Nodes(S, fewer) \subseteq Nodes(S, more)
           /\ \A n : EdgesOf(S, fewer, n) \subseteq EdgesOf(S, more, n)
  <1>1. Nodes(S, fewer) \subseteq Nodes(S, more)
    BY DEF Nodes
  <1>2. \A t, r : Resolves(S, fewer, t, r) => Resolves(S, more, t, r)
    BY DEF Resolves
  <1>3. ASSUME NEW n PROVE EdgesOf(S, fewer, n) \subseteq EdgesOf(S, more, n)
    BY <1>2, Zenon DEF EdgesOf
  <1> QED
    BY <1>1, <1>3

(* Where exactly the targets on a cycle are rejected, nothing that remains   *)
(* needs only itself.                                                        *)
LEMMA NoCycleLeft ==
    ASSUME NEW S, IsSnapshot(S), Valid(S) = OnNoCycle(S)
    PROVE  Acyclic(S, Valid(S))
  <1> DEFINE V == Valid(S)
             R == Resolved(S)
             G == CapabilityGraph(S, R)
  <1> SUFFICES ASSUME NEW X \in SUBSET Nodes(S, V), X # {},
                      \A n \in X : EdgesOf(S, V, n) \cap X # {}
               PROVE  FALSE
    BY Zenon DEF Acyclic
  <1>1. V \subseteq R /\ R \in SUBSET Resolved(S)
    BY ValidResolved
  <1>2. DOMAIN G = Nodes(S, R) /\ \A n \in Nodes(S, R) : G[n] = EdgesOf(S, R, n)
    BY DEF CapabilityGraph
  <1>3. IsFiniteSet(DOMAIN G) /\ \A n \in DOMAIN G : G[n] \subseteq DOMAIN G
    BY <1>2, FiniteNodes, EdgesInside
  <1>4. X \in SUBSET DOMAIN G
    BY <1>1, <1>2, FewerEdges
  <1>5. \A n \in X : G[n] \cap X # {}
    <2> TAKE n \in X
    <2>1. EdgesOf(S, V, n) \subseteq EdgesOf(S, R, n)
      BY <1>1, FewerEdges
    <2>2. G[n] = EdgesOf(S, R, n)
      BY <1>2, <1>4
    <2> QED
      BY <2>1, <2>2
  <1>6. PICK n \in X : n \in OnCycle(G)
    <2> HIDE DEF G
    <2> QED
      BY <1>3, <1>4, <1>5, SelfSustained
  <1>7. TargetOf(S, n[1]) \in V /\ TargetOf(S, n[1]).uid = n[1]
    BY <1>1, NodeFacts
  <1>8. \A t \in V : t.uid \notin {m[1] : m \in OnCycle(G)}
    BY Zenon DEF OnNoCycle
  <1> HIDE DEF G
  <1> QED
    BY <1>6, <1>7, <1>8

(* The graph of the capabilities, and the one inside a contract.             *)
LEMMA GraphsAreFinite ==
    ASSUME NEW S, IsSnapshot(S)
    PROVE  /\ FiniteGraph(CapabilityGraph(S, Resolved(S)))
           /\ \A c \in S.contracts : FiniteGraph(LocalGraph(c))
  <1> DEFINE R == Resolved(S)
  <1>1. /\ DOMAIN CapabilityGraph(S, R) = Nodes(S, R)
        /\ \A n \in Nodes(S, R) : CapabilityGraph(S, R)[n] = EdgesOf(S, R, n)
    BY DEF CapabilityGraph
  <1>2. IsFiniteSet(Nodes(S, R)) /\ \A n \in Nodes(S, R) : EdgesOf(S, R, n) \subseteq Nodes(S, R)
    BY FiniteNodes, EdgesInside
  <1>3. ASSUME NEW c \in S.contracts PROVE FiniteGraph(LocalGraph(c))
    <2>1. IsFiniteSet(DOMAIN c.caps)
      BY DEF IsSnapshot, IsContract
    <2> QED
      BY <2>1 DEF FiniteGraph, LocalGraph
  <1> QED
    BY <1>1, <1>2, <1>3 DEF FiniteGraph

(* rejectCycles leaves exactly the targets without a capability on a cycle.  *)
LEMMA RejectsTheCyclic ==
    ASSUME NEW S, IsSnapshot(S)
    PROVE  Valid(S) = OnNoCycle(S)
  <1>1. UNION CyclicComponents(CapabilityGraph(S, Resolved(S))) = OnCycle(CapabilityGraph(S, Resolved(S)))
    BY GraphsAreFinite, ComponentsExact
  <1> QED
    BY <1>1, Zenon DEF Valid, WithoutCycles, CyclicTargets, OnNoCycle

(* What the evaluator shows as valid is on no cycle, and nothing that        *)
(* remains needs itself.                                                     *)
LEMMA ShownAcyclic ==
    ASSUME result = Evaluate(snap), IsSnapshot(snap)
    PROVE  result.valid = Valid(snap) /\ OnNoCycle(snap) = Valid(snap) /\ Acyclic(snap, Valid(snap))
  <1>1. result.valid = Valid(snap)
    BY AssessedNodes
  <1> QED
    BY <1>1, RejectsTheCyclic, NoCycleLeft

-----------------------------------------------------------------------------
(* The results satisfy the recursion that defines them.                     *)

(* A capability depends on the results of the capabilities it needs only.    *)
LEMMA OnlyNeedsMatter ==
    ASSUME NEW S, IsSnapshot(S), NEW valid \in SUBSET Resolved(S), NEW n \in Nodes(S, valid),
           NEW f, NEW g, \A m \in EdgesOf(S, valid, n) : f[m] = g[m]
    PROVE  CapabilityOf(S, valid, f, n) = CapabilityOf(S, valid, g, n)
  <1> DEFINE t == TargetOf(S, n[1])
             reqs == ContractOf(S, t).caps[n[2]]
  <1>1. ASSUME NEW r \in reqs
        PROVE  RequirementVerdict(S, valid, f, n, r) = RequirementVerdict(S, valid, g, n, r)
    <2>1. r.kind \in {"assertion", "envelope", "local", "dependency"}
      BY NodeFacts
    <2>2. CASE r.kind = "assertion"
      BY <2>2 DEF RequirementVerdict
    <2>3. CASE r.kind = "envelope"
      BY <2>3 DEF RequirementVerdict
    <2>4. CASE r.kind = "local"
      <3>1. f[<<n[1], r.ref>>] = g[<<n[1], r.ref>>]
        BY <2>4, NeedsAreEdges
      <3> QED
        BY <2>4, <3>1 DEF RequirementVerdict
    <2>5. CASE r.kind = "dependency"
      <3>1. Resolves(S, valid, t, r) =>
              f[<<t.deps[r.ref].uid, r.cap>>] = g[<<t.deps[r.ref].uid, r.cap>>]
        BY <2>5, NeedsAreEdges
      <3> QED
        BY <2>5, <3>1 DEF RequirementVerdict
    <2> QED
      BY <2>1, <2>2, <2>3, <2>4, <2>5
  <1>2. [r \in reqs |-> RequirementVerdict(S, valid, f, n, r)] =
        [r \in reqs |-> RequirementVerdict(S, valid, g, n, r)]
    BY <1>1, Zenon
  <1> QED
    BY <1>2, Zenon DEF CapabilityOf

(* The recursion has a solution: of the sets of capabilities that need       *)
(* nothing outside and have one, the largest has all capabilities.           *)
LEMMA ResultsExist ==
    ASSUME NEW S, IsSnapshot(S), NEW valid \in SUBSET Resolved(S), Acyclic(S, valid)
    PROVE  \E f : f = [n \in Nodes(S, valid) |-> CapabilityOf(S, valid, f, n)]
  <1> DEFINE N == Nodes(S, valid)
             Edge(n) == EdgesOf(S, valid, n)
             Cap(f, n) == CapabilityOf(S, valid, f, n)
             Solves(f, C) == \A n \in C : f[n] = Cap(f, n)
             Solved == {C \in SUBSET N : (\A n \in C : Edge(n) \subseteq C) /\ \E f : Solves(f, C)}
             size == [C \in Solved |-> Cardinality(C)]
  <1>1. IsFiniteSet(N) /\ \A n \in N : Edge(n) \subseteq N
    BY FiniteNodes, EdgesInside
  <1>2. ASSUME NEW n \in N, NEW f, NEW g, \A m \in Edge(n) : f[m] = g[m] PROVE Cap(f, n) = Cap(g, n)
    BY <1>2, OnlyNeedsMatter
  <1>3. \A X \in SUBSET N : (\A n \in X : Edge(n) \cap X # {}) => X = {}
    BY Zenon DEF Acyclic
  <1> HIDE DEF N, Edge, Cap
  <1>4. {} \in Solved
    OBVIOUS
  <1>5. \A C \in SUBSET N : IsFiniteSet(C) /\ Cardinality(C) \in Nat
    <2>1. \A C \in SUBSET N : IsFiniteSet(C)
      BY <1>1, FS_Subset
    <2> QED
      BY <2>1, FS_CardinalityType
  <1>6. PICK C \in Solved : \A B \in Solved : Cardinality(B) <= Cardinality(C)
    <2>1. IsFiniteSet(Solved)
      <3>1. IsFiniteSet(SUBSET N)
        BY <1>1, FS_SUBSET
      <3>2. Solved \subseteq SUBSET N
        BY Zenon
      <3> HIDE DEF Solved
      <3> QED
        BY <3>1, <3>2, FS_Subset
    <2>2. size \in [Solved -> Nat]
      BY <1>5
    <2>3. \A B \in Solved : size[B] = Cardinality(B)
      BY Zenon
    <2> HIDE DEF Solved, size
    <2>4. \E B \in Solved : \A D \in Solved : size[D] <= size[B]
      BY <1>4, <2>1, <2>2, Heaviest
    <2> QED
      BY <2>3, <2>4
  <1>7. C \in SUBSET N /\ (\A n \in C : Edge(n) \subseteq C)
    BY <1>6, Zenon
  <1>8. PICK f : Solves(f, C)
    BY <1>6, Zenon
  <1>9. CASE C = N
    <2> DEFINE g == [n \in N |-> f[n]]
    <2>1. ASSUME NEW n \in N PROVE g[n] = Cap(g, n)
      <3>1. \A m \in Edge(n) : g[m] = f[m]
        BY <1>1
      <3>2. Cap(g, n) = Cap(f, n)
        <4> HIDE DEF g
        <4> QED
          BY <1>2, <3>1
      <3>3. f[n] = Cap(f, n)
        BY <1>8, <1>9
      <3> QED
        BY <3>2, <3>3
    <2>2. g = [n \in N |-> Cap(g, n)]
      BY <2>1
    <2> HIDE DEF g
    <2> QED
      BY <2>2, Zenon DEF N, Cap
  <1>10. CASE C # N
    <2> DEFINE X == N \ C
    <2>1. X \in SUBSET N /\ X # {}
      BY <1>7, <1>10
    <2>2. PICK n \in X : Edge(n) \cap X = {}
      BY <1>3, <2>1, Zenon
    <2>3. n \in N /\ n \notin C /\ Edge(n) \subseteq C
      BY <1>1, <2>2
    <2> DEFINE g == [m \in N |-> IF m = n THEN Cap(f, n) ELSE f[m]]
               B == C \cup {n}
    <2>4. \A m \in C : g[m] = f[m]
      BY <1>7, <2>3
    <2>5. ASSUME NEW m \in B PROVE g[m] = Cap(g, m) /\ Edge(m) \subseteq B
      <3>1. m \in N /\ Edge(m) \subseteq C
        BY <1>7, <2>3
      <3>2. \A k \in Edge(m) : g[k] = f[k]
        BY <2>4, <3>1
      <3>3. Cap(g, m) = Cap(f, m)
        <4> HIDE DEF g
        <4> QED
          BY <1>2, <3>1, <3>2
      <3>4. g[m] = Cap(f, m)
        BY <1>8, <2>3, <2>4, <3>1
      <3> QED
        BY <3>1, <3>3, <3>4
    <2>6. B \in Solved
      <3>1. B \in SUBSET N /\ (\A m \in B : Edge(m) \subseteq B) /\ Solves(g, B)
        BY <1>7, <2>3, <2>5
      <3> HIDE DEF g, B
      <3> QED
        BY <3>1, Zenon
    <2>7. Cardinality(B) = Cardinality(C) + 1
      BY <1>5, <1>7, <2>3, FS_AddElement
    <2>8. Cardinality(C) \in Nat /\ Cardinality(B) <= Cardinality(C)
      BY <1>5, <1>6, <1>7, <2>6
    <2> HIDE DEF B
    <2> QED
      BY <2>7, <2>8
  <1> QED
    BY <1>9, <1>10

(* So the evaluator's results are such a solution.                          *)
LEMMA ResultsSolve ==
    ASSUME NEW S, IsSnapshot(S), NEW valid \in SUBSET Resolved(S), Acyclic(S, valid)
    PROVE  /\ DOMAIN Capabilities(S, valid) = Nodes(S, valid)
           /\ \A n \in Nodes(S, valid) :
                 Capabilities(S, valid)[n] = CapabilityOf(S, valid, Capabilities(S, valid), n)
  <1> DEFINE res == CHOOSE f : f = [n \in Nodes(S, valid) |-> CapabilityOf(S, valid, f, n)]
  <1>1. res = [n \in Nodes(S, valid) |-> CapabilityOf(S, valid, res, n)]
    BY ResultsExist, Zenon
  <1>2. Capabilities(S, valid) = [n \in Nodes(S, valid) |-> res[n]]
    BY Zenon DEF Capabilities
  <1> HIDE DEF res
  <1>3. Capabilities(S, valid) = res
    BY <1>1, <1>2
  <1> QED
    BY <1>1, <1>3

-----------------------------------------------------------------------------
(* What a verdict and a state mean.                                         *)

(* The latest of some statements.                                           *)
LEMMA SomeLatest ==
    ASSUME NEW O, O # {}, \A o \in O : o.age \in Nat
    PROVE  LatestOnly(O) # {} /\ LatestOnly(O) \subseteq O
  <1> DEFINE ages == {o.age : o \in O}
  <1>1. ages \in SUBSET Nat /\ ages # {}
    OBVIOUS
  <1>2. \E m \in ages : \A n \in ages : m <= n
    <2> HIDE DEF ages
    <2> QED
      BY <1>1, Least
  <1> QED
    BY <1>2 DEF LatestOnly

(* Evidence from a group of statements is current when they agree on one     *)
(* admitted value and all still hold.                                       *)
LEMMA CurrentMeans ==
    ASSUME NEW L, L # {}, \A o \in L : o.kind \in {"value", "unavailable"}
    PROVE  /\ EvidenceOf(L).status = "Current" <=>
                /\ \A x \in L : IsCurrent(x) /\ x.kind = "value" /\ x.val \in Admitted
                /\ \A x, y \in L : x.val = y.val
           /\ EvidenceOf(L).status = "Current" => \A x \in L : EvidenceOf(L).val = x.val
  <1> DEFINE o == CHOOSE x \in L : TRUE
             stale == \E x \in L : ~IsCurrent(x)
             odd == \E x \in L : x.kind = "value" /\ x.val \notin Admitted
             split == \E x \in L : x.kind # o.kind \/ x.val # o.val
  <1>1. EvidenceOf(L) =
          IF stale THEN Status("Stale", "evidence-stale")
          ELSE IF odd THEN Status("TypeMismatch", "evidence-type-mismatch")
          ELSE IF split THEN Status("Conflicting", "conflicting-authoritative-evidence")
          ELSE IF o.kind = "unavailable" THEN Status("ProviderUnavailable", "provider-unavailable")
          ELSE [status |-> "Current", code |-> "", val |-> o.val]
    BY Zenon DEF EvidenceOf
  <1>2. o \in L
    BY Zenon
  <1>3. \A a, b : Status(a, b).status = a
    BY DEF Status
  <1> HIDE DEF o
  <1> DEFINE current == [status |-> "Current", code |-> "", val |-> o.val]
  <1>4. EvidenceOf(L).status = "Current" <=> ~stale /\ ~odd /\ ~split /\ o.kind # "unavailable"
    <2> HIDE DEF stale, odd, split
    <2>1. ~stale /\ ~odd /\ ~split /\ o.kind # "unavailable" => EvidenceOf(L) = current
      BY <1>1, Zenon
    <2>2. \/ ~stale /\ ~odd /\ ~split /\ o.kind # "unavailable"
          \/ EvidenceOf(L) = Status("Stale", "evidence-stale")
          \/ EvidenceOf(L) = Status("TypeMismatch", "evidence-type-mismatch")
          \/ EvidenceOf(L) = Status("Conflicting", "conflicting-authoritative-evidence")
          \/ EvidenceOf(L) = Status("ProviderUnavailable", "provider-unavailable")
      BY <1>1, Zenon
    <2>3. current.status = "Current"
      OBVIOUS
    <2>4. ~(~stale /\ ~odd /\ ~split /\ o.kind # "unavailable") => EvidenceOf(L).status # "Current"
      BY <1>3, <2>2
    <2> HIDE DEF current
    <2> QED
      BY <2>1, <2>3, <2>4, Zenon
  <1>5. EvidenceOf(L).status = "Current" => EvidenceOf(L).val = o.val
    <2>1. ~stale /\ ~odd /\ ~split /\ o.kind # "unavailable" => EvidenceOf(L) = current
      BY <1>1, Zenon
    <2>2. current.val = o.val
      OBVIOUS
    <2> HIDE DEF stale, odd, split, current
    <2> QED
      BY <1>4, <2>1, <2>2, Zenon
  <1> QED
    BY <1>2, <1>4, <1>5

(* The statements about a slot are the applicable ones.                     *)
LEMMA AboutApplicable ==
    ASSUME NEW S, IsSnapshot(S), NEW t, NEW s, s \in DOMAIN t.binds
    PROVE  About(S, t, s) =
             {o \in {x \in S.obs : x.name = t.name /\ x.slot = s /\ x.age >= 0} : Exact(t, o)}
  BY DEF About, Exact

(* Evidence is current exactly when there are statements about the slot and  *)
(* the latest ones are.                                                     *)
LEMMA EvidenceFromAbout ==
    ASSUME NEW S, IsSnapshot(S), NEW t, NEW s
    PROVE  /\ About(S, t, s) # {} => ResolveEvidence(S, t, s) = EvidenceOf(LatestOnly(About(S, t, s)))
           /\ About(S, t, s) = {} => ResolveEvidence(S, t, s).status # "Current"
  <1>1. CASE s \notin DOMAIN t.binds
    <2>1. About(S, t, s) = {}
      BY <1>1 DEF About
    <2>2. ResolveEvidence(S, t, s) = Status("Unbound", "evidence-unbound")
      BY <1>1, Zenon DEF ResolveEvidence
    <2>3. \A a, b : Status(a, b).status = a
      BY DEF Status
    <2>4. ResolveEvidence(S, t, s).status = "Unbound"
      BY <2>2, <2>3, Zenon
    <2> QED
      BY <2>1, <2>4, Zenon
  <1>2. CASE s \in DOMAIN t.binds
    <2> DEFINE seen == {x \in S.obs : x.name = t.name /\ x.slot = s /\ x.age >= 0}
               app == {o \in seen : Exact(t, o)}
    <2>1. About(S, t, s) = app
      BY <1>2, AboutApplicable
    <2>2. ResolveEvidence(S, t, s) =
            CASE app # {} -> EvidenceOf(LatestOnly(app))
              [] app = {} /\ seen # {} -> Status("Inapplicable", Mismatch(t, seen))
              [] OTHER -> Status("Missing", "evidence-missing")
      BY <1>2, Zenon DEF ResolveEvidence
    <2>3. app = {} => \/ ResolveEvidence(S, t, s) = Status("Inapplicable", Mismatch(t, seen))
                      \/ ResolveEvidence(S, t, s) = Status("Missing", "evidence-missing")
      <3> HIDE DEF app, seen
      <3> QED
        BY <2>2
    <2>4. app # {} => ResolveEvidence(S, t, s) = EvidenceOf(LatestOnly(app))
      <3> HIDE DEF app, seen
      <3> QED
        BY <2>2
    <2>5. \A a, b : Status(a, b).status = a
      BY DEF Status
    <2> HIDE DEF app, seen
    <2> QED
      BY <2>1, <2>3, <2>4, <2>5
  <1> QED
    BY <1>1, <1>2

(* A current value in ok is one that is stated.                             *)
LEMMA EvidenceStated ==
    ASSUME NEW S, IsSnapshot(S), NEW t, NEW s
    PROVE  /\ \A ok : Stated(S, t, s, ok) <=>
                /\ ResolveEvidence(S, t, s).status = "Current"
                /\ ResolveEvidence(S, t, s).val \in ok
           /\ ResolveEvidence(S, t, s).status = "Current" => ResolveEvidence(S, t, s).val \in Admitted
  <1> DEFINE O == About(S, t, s)
             L == LatestOnly(O)
             ev == ResolveEvidence(S, t, s)
  <1>1. \A o \in O : o.age \in Nat /\ o.kind \in {"value", "unavailable"}
    BY DEF About, IsSnapshot, IsStatement
  <1>2. CASE O = {}
    <2>1. ev.status # "Current"
      BY <1>2, EvidenceFromAbout
    <2>2. \A ok : ~Stated(S, t, s, ok)
      BY <1>2 DEF Stated
    <2> QED
      BY <2>1, <2>2
  <1>3. CASE O # {}
    <2>1. ev = EvidenceOf(L)
      BY <1>3, EvidenceFromAbout
    <2> HIDE DEF ev
    <2>2. L # {} /\ L \subseteq O
      <3> HIDE DEF O
      <3> QED
        BY <1>1, <1>3, SomeLatest
    <2>3. /\ ev.status = "Current" <=>
                /\ \A x \in L : IsCurrent(x) /\ x.kind = "value" /\ x.val \in Admitted
                /\ \A x, y \in L : x.val = y.val
          /\ ev.status = "Current" => \A x \in L : ev.val = x.val
      <3>1. \A o \in L : o.kind \in {"value", "unavailable"}
        BY <1>1, <2>2
      <3> HIDE DEF L
      <3> QED
        BY <2>1, <2>2, <3>1, CurrentMeans
    <2>4. \A o \in O : o \in L <=> \A x \in O : x.age >= o.age
      <3> HIDE DEF O
      <3> QED
        BY <1>1 DEF LatestOnly
    <2>5. \A o \in L : \A x \in O : x \in L <=> x.age = o.age
      <3> HIDE DEF O
      <3> QED
        BY <1>1, <2>2 DEF LatestOnly
    <2>6. \A x : IsCurrent(x) <=> x.age <= MaxAge /\ x.age < x.until
      BY DEF IsCurrent
    <2> HIDE DEF L
    <2>7. ASSUME NEW ok
          PROVE  Stated(S, t, s, ok) <=>
                   \E o \in L : /\ o.kind = "value" /\ o.val \in ok \cap Admitted
                                /\ \A x \in L : x.kind = "value" /\ x.val = o.val /\ IsCurrent(x)
      <3>1. Stated(S, t, s, ok) <=>
              \E o \in O :
                /\ o.kind = "value" /\ o.val \in ok \cap Admitted
                /\ \A x \in O : x.age >= o.age
                /\ \A x \in O :
                      x.age = o.age => /\ x.kind = "value" /\ x.val = o.val
                                       /\ x.age <= MaxAge /\ x.age < x.until
        BY Zenon DEF Stated
      <3> HIDE DEF O
      <3> QED
        BY <2>2, <2>4, <2>5, <2>6, <3>1
    <2> HIDE DEF O
    <2> QED
      BY <2>2, <2>3, <2>7 DEF ev
  <1> QED
    BY <1>2, <1>3

\* The verdicts.
Verdicts == {"accepted", "unmet", "unproven"}

(* The fields of a verdict.                                                 *)
LEMMA VerdictFields ==
    ASSUME NEW v, NEW code, NEW r
    PROVE  Verdict(v, code, r).verdict = v /\ Verdict(v, code, r).subject = <<r.kind, r.ref>>
  BY DEF Verdict

(* What the verdict on a predicate means.                                   *)
LEMMA PredicateMeans ==
    ASSUME NEW S, IsSnapshot(S), NEW t, NEW p
    PROVE  /\ PredicateVerdict(S, t, p).verdict \in Verdicts
           /\ PredicateVerdict(S, t, p).verdict = "accepted" <=> Stated(S, t, p.ref, p.ok)
           /\ PredicateVerdict(S, t, p).verdict = "unmet" <=> Stated(S, t, p.ref, Admitted \ p.ok)
           /\ PredicateVerdict(S, t, p).verdict = "unproven" <=>
                ResolveEvidence(S, t, p.ref).status # "Current"
           /\ PredicateVerdict(S, t, p).subject = <<p.kind, p.ref>>
  <1> DEFINE ev == ResolveEvidence(S, t, p.ref)
             v == PredicateVerdict(S, t, p)
  <1>1. v = CASE ev.status # "Current" -> Verdict("unproven", ev.code, p)
              [] ev.status = "Current" /\ ev.val \in p.ok -> Verdict("accepted", "", p)
              [] OTHER -> Verdict("unmet", "predicate-unmet", p)
    BY Zenon DEF PredicateVerdict, VerdictOn
  <1>2. /\ \A ok : Stated(S, t, p.ref, ok) <=> ev.status = "Current" /\ ev.val \in ok
        /\ ev.status = "Current" => ev.val \in Admitted
    BY EvidenceStated
  <1> HIDE DEF ev, v
  <1>3. \/ ev.status # "Current" /\ v = Verdict("unproven", ev.code, p)
        \/ ev.status = "Current" /\ ev.val \in p.ok /\ v = Verdict("accepted", "", p)
        \/ ev.status = "Current" /\ ev.val \notin p.ok /\ v = Verdict("unmet", "predicate-unmet", p)
    BY <1>1
  <1>4. /\ \/ ev.status # "Current" /\ v.verdict = "unproven"
           \/ ev.status = "Current" /\ ev.val \in p.ok /\ v.verdict = "accepted"
           \/ ev.status = "Current" /\ ev.val \notin p.ok /\ v.verdict = "unmet"
        /\ v.subject = <<p.kind, p.ref>>
    <2>1. \A a, b : Verdict(a, b, p).verdict = a /\ Verdict(a, b, p).subject = <<p.kind, p.ref>>
      BY VerdictFields
    <2> QED
      BY <1>3, <2>1, Zenon
  <1>5. Stated(S, t, p.ref, p.ok) <=> ev.status = "Current" /\ ev.val \in p.ok
    BY <1>2, Zenon
  <1>6. Stated(S, t, p.ref, Admitted \ p.ok) <=> ev.status = "Current" /\ ev.val \notin p.ok
    BY <1>2
  <1> QED
    BY <1>4, <1>5, <1>6 DEF ev, v, Verdicts

(* What the state of an envelope means.                                     *)
LEMMA EnvelopeMeans ==
    ASSUME NEW S, IsSnapshot(S), NEW t, NEW e
    PROVE  LET st == EnvelopeResult(S, t, e).state
               ps == ContractOf(S, t).envs[e]
           IN /\ st \in {"SATISFIED", "UNSATISFIED", "UNKNOWN"}
              /\ st = "SATISFIED" <=> \A p \in ps : PredicateVerdict(S, t, p).verdict = "accepted"
              /\ st = "UNSATISFIED" <=> \E p \in ps : PredicateVerdict(S, t, p).verdict = "unmet"
              /\ EnvelopeResult(S, t, e).reasons =
                    {PredicateVerdict(S, t, p) :
                        p \in {x \in ps : PredicateVerdict(S, t, x).verdict # "accepted"}}
  <1> DEFINE st == EnvelopeResult(S, t, e).state
             ps == ContractOf(S, t).envs[e]
             V(p) == PredicateVerdict(S, t, p)
             vs == {V(p) : p \in ps}
  <1>1. \A p \in ps : V(p).verdict \in Verdicts
    BY PredicateMeans
  <1>2. EnvelopeResult(S, t, e) = Envelope(vs)
    BY Zenon DEF EnvelopeResult
  <1>3. \A ws : /\ Envelope(ws).state = CASE \E v \in ws : v.verdict = "unmet" -> "UNSATISFIED"
                                          [] \A v \in ws : v.verdict = "accepted" -> "SATISFIED"
                                          [] OTHER -> "UNKNOWN"
                /\ Envelope(ws).reasons = Reasons(ws)
    BY DEF Envelope
  <1>4. /\ st = CASE \E v \in vs : v.verdict = "unmet" -> "UNSATISFIED"
                  [] \A v \in vs : v.verdict = "accepted" -> "SATISFIED"
                  [] OTHER -> "UNKNOWN"
        /\ EnvelopeResult(S, t, e).reasons = Reasons(vs)
    BY <1>2, <1>3
  <1> HIDE DEF st, V, ps
  <1>5. /\ (\E v \in vs : v.verdict = "unmet") <=> \E p \in ps : V(p).verdict = "unmet"
        /\ (\A v \in vs : v.verdict = "accepted") <=> \A p \in ps : V(p).verdict = "accepted"
    OBVIOUS
  <1>6. Reasons(vs) = {V(p) : p \in {x \in ps : V(x).verdict # "accepted"}}
    BY DEF Reasons
  <1> DEFINE bad == \E p \in ps : V(p).verdict = "unmet"
             good == \A p \in ps : V(p).verdict = "accepted"
  <1>7. ~(bad /\ good)
    OBVIOUS
  <1>8. st = CASE bad -> "UNSATISFIED" [] good -> "SATISFIED" [] OTHER -> "UNKNOWN"
    BY <1>4, <1>5
  <1>9. /\ st \in {"SATISFIED", "UNSATISFIED", "UNKNOWN"}
        /\ (st = "SATISFIED" <=> good) /\ (st = "UNSATISFIED" <=> bad)
    <2> HIDE DEF bad, good
    <2> QED
      BY <1>7, <1>8
  <1> QED
    BY <1>4, <1>6, <1>9 DEF st, V, ps

(* What the verdict on a requirement means.                                 *)
LEMMA RequirementMeans ==
    ASSUME NEW S, IsSnapshot(S), NEW valid, NEW known, NEW n, NEW r,
           r.kind \in {"assertion", "envelope", "local", "dependency"}
    PROVE  LET t == TargetOf(S, n[1])
               v == RequirementVerdict(S, valid, known, n, r)
               local == known[<<n[1], r.ref>>].state
               remote == known[<<t.deps[r.ref].uid, r.cap>>].state
           IN /\ v.verdict \in Verdicts /\ v.subject = <<r.kind, r.ref>>
              /\ r.kind = "assertion" => v = PredicateVerdict(S, t, r)
              /\ r.kind = "envelope" =>
                    /\ v.verdict = "accepted" <=> EnvelopeResult(S, t, r.ref).state = "SATISFIED"
                    /\ v.verdict = "unmet" <=> EnvelopeResult(S, t, r.ref).state = "UNSATISFIED"
              /\ r.kind = "local" => /\ v.verdict = "accepted" <=> local = "AVAILABLE"
                                     /\ v.verdict = "unproven" <=> local = "UNKNOWN"
              /\ r.kind = "dependency" =>
                    /\ v.verdict = "accepted" <=> Resolves(S, valid, t, r) /\ remote = "AVAILABLE"
                    /\ v.verdict = "unproven" <=> ~Resolves(S, valid, t, r) \/ remote = "UNKNOWN"
  <1> DEFINE t == TargetOf(S, n[1])
             v == RequirementVerdict(S, valid, known, n, r)
             local == known[<<n[1], r.ref>>].state
             remote == known[<<t.deps[r.ref].uid, r.cap>>].state
  <1>1. ASSUME NEW state
        PROVE  /\ CapabilityVerdict(r, state).verdict \in Verdicts
               /\ CapabilityVerdict(r, state).subject = <<r.kind, r.ref>>
               /\ CapabilityVerdict(r, state).verdict = "accepted" <=> state = "AVAILABLE"
               /\ CapabilityVerdict(r, state).verdict = "unproven" <=> state = "UNKNOWN"
    <2>1. \/ state = "AVAILABLE" /\ \E c : CapabilityVerdict(r, state) = Verdict("accepted", c, r)
          \/ state = "UNKNOWN" /\ \E c : CapabilityVerdict(r, state) = Verdict("unproven", c, r)
          \/ state \notin {"AVAILABLE", "UNKNOWN"} /\ \E c : CapabilityVerdict(r, state) = Verdict("unmet", c, r)
      BY DEF CapabilityVerdict
    <2> QED
      BY <2>1, VerdictFields DEF Verdicts
  <1>2. CASE r.kind = "assertion"
    <2>1. v = PredicateVerdict(S, t, r)
      BY <1>2 DEF RequirementVerdict
    <2>2. PredicateVerdict(S, t, r).verdict \in Verdicts /\ PredicateVerdict(S, t, r).subject = <<r.kind, r.ref>>
      BY PredicateMeans
    <2> HIDE DEF v, t
    <2> QED
      BY <1>2, <2>1, <2>2 DEF v, t
  <1>3. CASE r.kind = "envelope"
    <2> DEFINE st == EnvelopeResult(S, t, r.ref).state
    <2>1. v = EnvelopeVerdict(st, r)
      BY <1>3 DEF RequirementVerdict
    <2>2. st \in {"SATISFIED", "UNSATISFIED", "UNKNOWN"}
      BY EnvelopeMeans
    <2> HIDE DEF st, v
    <2>3. \/ st = "SATISFIED" /\ v = Verdict("accepted", "", r)
          \/ st = "UNSATISFIED" /\ v = Verdict("unmet", "envelope-unsatisfied", r)
          \/ st = "UNKNOWN" /\ v = Verdict("unproven", "envelope-unknown", r)
      BY <2>1, <2>2 DEF EnvelopeVerdict
    <2>4. /\ v.verdict \in Verdicts /\ v.subject = <<r.kind, r.ref>>
          /\ v.verdict = "accepted" <=> st = "SATISFIED"
          /\ v.verdict = "unmet" <=> st = "UNSATISFIED"
      <3>1. \A a, b : Verdict(a, b, r).verdict = a /\ Verdict(a, b, r).subject = <<r.kind, r.ref>>
        BY VerdictFields
      <3>2. \/ st = "SATISFIED" /\ v.verdict = "accepted"
            \/ st = "UNSATISFIED" /\ v.verdict = "unmet"
            \/ st = "UNKNOWN" /\ v.verdict = "unproven"
        BY <2>3, <3>1, Zenon
      <3>3. v.subject = <<r.kind, r.ref>>
        BY <2>3, <3>1, Zenon
      <3> QED
        BY <3>2, <3>3 DEF Verdicts
    <2> QED
      BY <1>3, <2>4 DEF st, v
  <1>4. CASE r.kind = "local"
    <2>1. v = CapabilityVerdict(r, local)
      BY <1>4 DEF RequirementVerdict
    <2> HIDE DEF v, local
    <2>2. /\ v.verdict \in Verdicts /\ v.subject = <<r.kind, r.ref>>
          /\ v.verdict = "accepted" <=> local = "AVAILABLE"
          /\ v.verdict = "unproven" <=> local = "UNKNOWN"
      BY <1>1, <2>1
    <2> QED
      BY <1>4, <2>2 DEF v, local
  <1>5. CASE r.kind = "dependency"
    <2>1. v = IF Resolves(S, valid, t, r) THEN CapabilityVerdict(r, remote)
              ELSE Verdict("unproven", DependencyDefect(S, valid, t, r), r)
      BY <1>5 DEF RequirementVerdict
    <2> HIDE DEF v, remote
    <2>2. /\ v.verdict \in Verdicts /\ v.subject = <<r.kind, r.ref>>
          /\ v.verdict = "accepted" <=> Resolves(S, valid, t, r) /\ remote = "AVAILABLE"
          /\ v.verdict = "unproven" <=> ~Resolves(S, valid, t, r) \/ remote = "UNKNOWN"
      BY <1>1, <2>1, VerdictFields DEF Verdicts
    <2> QED
      BY <1>5, <2>2 DEF v, remote
  <1> QED
    BY <1>2, <1>3, <1>4, <1>5

(* What the state of a capability means.                                    *)
LEMMA StateMeans ==
    ASSUME NEW reqs, NEW verdict, \A r \in reqs : verdict[r].verdict \in Verdicts,
           \A r \in reqs : r.onUnmet \in {"DEGRADED", "UNAVAILABLE"}
    PROVE  LET s == StateOf(reqs, verdict)
           IN /\ s \in {"AVAILABLE", "UNKNOWN", "DEGRADED", "UNAVAILABLE"}
              /\ s = "AVAILABLE" <=> \A r \in reqs : verdict[r].verdict = "accepted"
              /\ (\E r \in reqs : verdict[r].verdict = "unproven") => s = "UNKNOWN"
              /\ s \in {"DEGRADED", "UNAVAILABLE"} =>
                    \A r \in reqs : \/ verdict[r].verdict = "accepted"
                                    \/ verdict[r].verdict = "unmet" /\ r.onUnmet = s
  <1> DEFINE s == StateOf(reqs, verdict)
             U == Unmet(reqs, verdict)
  <1>1. \A i : i \in U <=> \E r \in reqs : verdict[r].verdict = "unmet" /\ i = r.onUnmet
    BY Zenon DEF Unmet
  <1>2. U \subseteq {"DEGRADED", "UNAVAILABLE"}
    BY <1>1
  <1>3. IsFiniteSet(U)
    <2>1. IsFiniteSet({"DEGRADED"} \cup {"UNAVAILABLE"})
      BY FS_Singleton, FS_AddElement
    <2> QED
      BY <1>2, <2>1, FS_Subset
  <1>4. s = IF \E r \in reqs : verdict[r].verdict = "unproven" THEN "UNKNOWN"
            ELSE IF U = {} THEN "AVAILABLE"
            ELSE IF Cardinality(U) > 1 THEN "UNKNOWN"
            ELSE CHOOSE i \in U : TRUE
    BY Zenon DEF StateOf
  <1> HIDE DEF U, s
  <1>5. \/ s = "UNKNOWN" /\ ((\E r \in reqs : verdict[r].verdict = "unproven") \/ U # {})
        \/ s = "AVAILABLE" /\ U = {} /\ ~ \E r \in reqs : verdict[r].verdict = "unproven"
        \/ s \in U /\ (\A i \in U : i = s) /\ ~ \E r \in reqs : verdict[r].verdict = "unproven"
    <2>1. U # {} => (CHOOSE i \in U : TRUE) \in U
      BY Zenon
    <2>2. ~(Cardinality(U) > 1) => \A i, j \in U : i = j
      BY <1>3, OneOf
    <2>3. \A c : s = c /\ c \in U /\ ~(Cardinality(U) > 1) => s \in U /\ \A i \in U : i = s
      BY <2>2, Zenon
    <2> QED
      BY <1>4, <2>1, <2>3, Zenon
  <1> QED
    BY <1>1, <1>2, <1>5 DEF s, Verdicts

-----------------------------------------------------------------------------
(* The capabilities shown AVAILABLE are the proven ones.                    *)

\* The result of every capability, from the verdicts on its requirements.
Reqs(S, n) == ContractOf(S, TargetOf(S, n[1])).caps[n[2]]
VerdictsOf(S, valid, known, n) ==
    [r \in Reqs(S, n) |-> RequirementVerdict(S, valid, known, n, r)]

\* The capabilities a result shows AVAILABLE.
Available(S, valid, known) == {n \in Nodes(S, valid) : known[n].state = "AVAILABLE"}

(* A capability that is a node is offered by the one target with its UID.    *)
LEMMA OfferedBy ==
    ASSUME NEW S, IsSnapshot(S), NEW valid \in SUBSET Resolved(S), NEW d \in valid, NEW k,
           <<d.uid, k>> \in Nodes(S, valid)
    PROVE  k \in DOMAIN ContractOf(S, d).caps
  <1>1. PICK x \in valid : <<d.uid, k>> \in {<<x.uid, m>> : m \in DOMAIN ContractOf(S, x).caps}
    BY DEF Nodes
  <1>2. x.uid = d.uid /\ k \in DOMAIN ContractOf(S, x).caps
    BY <1>1
  <1>3. IsFiniteSet(S.targets) /\ x \in Resolved(S) /\ d \in Resolved(S)
    BY DEF IsSnapshot
  <1>4. x = d
    BY <1>2, <1>3, AloneUnderUID
  <1> QED
    BY <1>2, <1>4, Zenon

(* A requirement is accepted exactly when it is proven, given the           *)
(* capabilities shown AVAILABLE.                                            *)
LEMMA AcceptedProven ==
    ASSUME NEW S, IsSnapshot(S), NEW valid \in SUBSET Resolved(S), NEW known, NEW n \in Nodes(S, valid),
           NEW r \in Reqs(S, n)
    PROVE  /\ RequirementVerdict(S, valid, known, n, r).verdict \in Verdicts
           /\ r.onUnmet \in {"DEGRADED", "UNAVAILABLE"}
           /\ RequirementVerdict(S, valid, known, n, r).verdict = "accepted" <=>
                ProvenRequirement(S, valid, Available(S, valid, known), TargetOf(S, n[1]), r)
  <1> DEFINE t == TargetOf(S, n[1])
             c == ContractOf(S, t)
             P == Available(S, valid, known)
             v == RequirementVerdict(S, valid, known, n, r).verdict
             local == <<n[1], r.ref>>
             remote == <<t.deps[r.ref].uid, r.cap>>
  <1>1. /\ t.uid = n[1] /\ r.kind \in {"assertion", "envelope", "local", "dependency"}
        /\ r.onUnmet \in {"DEGRADED", "UNAVAILABLE"}
    BY NodeFacts DEF Reqs
  <1>2. /\ r.kind = "local" => local \in Nodes(S, valid)
        /\ r.kind = "dependency" /\ Resolves(S, valid, t, r) => remote \in Nodes(S, valid)
    BY NeedsAreEdges DEF Reqs
  <1>3. /\ v \in Verdicts
        /\ r.kind = "assertion" => RequirementVerdict(S, valid, known, n, r) = PredicateVerdict(S, t, r)
        /\ r.kind = "envelope" => (v = "accepted" <=> EnvelopeResult(S, t, r.ref).state = "SATISFIED")
        /\ r.kind = "local" => (v = "accepted" <=> known[local].state = "AVAILABLE")
        /\ r.kind = "dependency" =>
              (v = "accepted" <=> Resolves(S, valid, t, r) /\ known[remote].state = "AVAILABLE")
    BY <1>1, RequirementMeans
  <1> DEFINE proven == ProvenRequirement(S, valid, P, t, r)
  <1>4. CASE r.kind = "assertion"
    <2>1. proven <=> Stated(S, t, r.ref, r.ok)
      BY <1>4 DEF ProvenRequirement
    <2>2. PredicateVerdict(S, t, r).verdict = "accepted" <=> Stated(S, t, r.ref, r.ok)
      BY PredicateMeans
    <2> QED
      BY <1>1, <1>3, <1>4, <2>1, <2>2, Zenon
  <1>5. CASE r.kind = "envelope"
    <2>1. proven <=> \A p \in c.envs[r.ref] : Stated(S, t, p.ref, p.ok)
      BY <1>5 DEF ProvenRequirement
    <2>2. EnvelopeResult(S, t, r.ref).state = "SATISFIED" <=>
            \A p \in c.envs[r.ref] : PredicateVerdict(S, t, p).verdict = "accepted"
      BY EnvelopeMeans
    <2>3. \A p : PredicateVerdict(S, t, p).verdict = "accepted" <=> Stated(S, t, p.ref, p.ok)
      BY PredicateMeans
    <2> QED
      BY <1>1, <1>3, <1>5, <2>1, <2>2, <2>3, Zenon
  <1>6. CASE r.kind = "local"
    <2>1. proven <=> local \in P
      BY <1>1, <1>6 DEF ProvenRequirement
    <2>2. local \in P <=> known[local].state = "AVAILABLE"
      BY <1>2, <1>6 DEF Available
    <2> QED
      BY <1>1, <1>3, <1>6, <2>1, <2>2, Zenon
  <1>7. CASE r.kind = "dependency"
    <2> DEFINE bound == /\ r.ref \in DOMAIN t.deps
                        /\ \E d \in valid : /\ d.uid = t.deps[r.ref].uid
                                            /\ d.contract = t.deps[r.ref].contract
    <2>1. proven <=> bound /\ remote \in P
      BY <1>7 DEF ProvenRequirement
    <2>2. Resolves(S, valid, t, r) => bound
      BY Zenon DEF Resolves
    <2>3. bound /\ remote \in Nodes(S, valid) => Resolves(S, valid, t, r)
      <3> SUFFICES ASSUME bound, remote \in Nodes(S, valid) PROVE Resolves(S, valid, t, r)
        OBVIOUS
      <3>1. PICK d \in valid : d.uid = t.deps[r.ref].uid /\ d.contract = t.deps[r.ref].contract
        OBVIOUS
      <3>2. r.cap \in DOMAIN ContractOf(S, d).caps
        BY <3>1, OfferedBy
      <3> QED
        BY <3>1, <3>2 DEF Resolves
    <2>4. remote \in P <=> remote \in Nodes(S, valid) /\ known[remote].state = "AVAILABLE"
      BY DEF Available
    <2> QED
      BY <1>1, <1>2, <1>3, <1>7, <2>1, <2>2, <2>3, <2>4, Zenon
  <1> QED
    BY <1>1, <1>3, <1>4, <1>5, <1>6, <1>7

(* What a requirement proven by one set of capabilities and not by another  *)
(* needs is in the first only.                                              *)
LEMMA ProvenThroughEdges ==
    ASSUME NEW S, IsSnapshot(S), NEW valid \in SUBSET Resolved(S), NEW n \in Nodes(S, valid),
           NEW r \in Reqs(S, n), NEW P \in SUBSET Nodes(S, valid), NEW Q,
           ProvenRequirement(S, valid, P, TargetOf(S, n[1]), r),
           ~ProvenRequirement(S, valid, Q, TargetOf(S, n[1]), r)
    PROVE  EdgesOf(S, valid, n) \cap (P \ Q) # {}
  <1> DEFINE t == TargetOf(S, n[1])
             local == <<n[1], r.ref>>
             remote == <<t.deps[r.ref].uid, r.cap>>
  <1>1. t.uid = n[1] /\ r.kind \in {"assertion", "envelope", "local", "dependency"}
    BY NodeFacts DEF Reqs
  <1>2. /\ r.kind = "local" => local \in EdgesOf(S, valid, n)
        /\ r.kind = "dependency" /\ Resolves(S, valid, t, r) => remote \in EdgesOf(S, valid, n)
    BY NeedsAreEdges DEF Reqs
  <1>3. CASE r.kind = "local"
    <2>1. local \in P /\ local \notin Q
      BY <1>1, <1>3 DEF ProvenRequirement
    <2> QED
      BY <1>2, <1>3, <2>1
  <1>4. CASE r.kind = "dependency"
    <2>1. /\ r.ref \in DOMAIN t.deps /\ remote \in P /\ remote \notin Q
          /\ \E d \in valid : d.uid = t.deps[r.ref].uid /\ d.contract = t.deps[r.ref].contract
      BY <1>4 DEF ProvenRequirement
    <2>2. PICK d \in valid : d.uid = t.deps[r.ref].uid /\ d.contract = t.deps[r.ref].contract
      BY <2>1
    <2>3. r.cap \in DOMAIN ContractOf(S, d).caps
      BY <2>1, <2>2, OfferedBy
    <2>4. Resolves(S, valid, t, r)
      BY <2>1, <2>2, <2>3 DEF Resolves
    <2> QED
      BY <1>2, <1>4, <2>1, <2>4
  <1>5. CASE r.kind \in {"assertion", "envelope"}
    BY <1>5 DEF ProvenRequirement
  <1> QED
    BY <1>1, <1>3, <1>4, <1>5

(* The state and the reasons of a capability.                               *)
LEMMA ResultFields ==
    ASSUME NEW S, IsSnapshot(S), NEW valid \in SUBSET Resolved(S), Acyclic(S, valid),
           NEW n \in Nodes(S, valid)
    PROVE  LET known == Capabilities(S, valid)
           IN /\ known[n].state = StateOf(Reqs(S, n), VerdictsOf(S, valid, known, n))
              /\ known[n].reasons = ReasonsOf(Reqs(S, n), VerdictsOf(S, valid, known, n))
  <1> DEFINE known == Capabilities(S, valid)
  <1>1. known[n] = CapabilityOf(S, valid, known, n)
    BY ResultsSolve
  <1>2. CapabilityOf(S, valid, known, n) = Capability(Reqs(S, n), VerdictsOf(S, valid, known, n))
    BY Zenon DEF CapabilityOf, Reqs, VerdictsOf
  <1>3. \A reqs, vs : Capability(reqs, vs).state = StateOf(reqs, vs) /\ Capability(reqs, vs).reasons = ReasonsOf(reqs, vs)
    BY DEF Capability
  <1> QED
    BY <1>1, <1>2, <1>3, Zenon

(* A capability is shown AVAILABLE exactly when all its requirements are    *)
(* proven, and DEGRADED or UNAVAILABLE only when the others are unmet and   *)
(* declare that impact; one unproven requirement makes it UNKNOWN.          *)
LEMMA ShownState ==
    ASSUME NEW S, IsSnapshot(S), NEW valid \in SUBSET Resolved(S), Acyclic(S, valid),
           NEW n \in Nodes(S, valid)
    PROVE  LET known == Capabilities(S, valid)
               v(r) == RequirementVerdict(S, valid, known, n, r).verdict
               s == known[n].state
           IN /\ s \in {"AVAILABLE", "UNKNOWN", "DEGRADED", "UNAVAILABLE"}
              /\ s = "AVAILABLE" <=> \A r \in Reqs(S, n) : v(r) = "accepted"
              /\ (\E r \in Reqs(S, n) : v(r) = "unproven") => s = "UNKNOWN"
              /\ s \in {"DEGRADED", "UNAVAILABLE"} =>
                    \A r \in Reqs(S, n) : v(r) = "accepted" \/ (v(r) = "unmet" /\ r.onUnmet = s)
  <1> DEFINE known == Capabilities(S, valid)
             reqs == Reqs(S, n)
             vs == VerdictsOf(S, valid, known, n)
  <1>1. known[n].state = StateOf(reqs, vs)
    BY ResultFields
  <1>2. \A r \in reqs : vs[r] = RequirementVerdict(S, valid, known, n, r)
    BY DEF VerdictsOf
  <1>3. \A r \in reqs : vs[r].verdict \in Verdicts /\ r.onUnmet \in {"DEGRADED", "UNAVAILABLE"}
    BY <1>2, AcceptedProven
  <1> HIDE DEF vs, reqs, known
  <1>4. LET s == StateOf(reqs, vs)
        IN /\ s \in {"AVAILABLE", "UNKNOWN", "DEGRADED", "UNAVAILABLE"}
           /\ s = "AVAILABLE" <=> \A r \in reqs : vs[r].verdict = "accepted"
           /\ (\E r \in reqs : vs[r].verdict = "unproven") => s = "UNKNOWN"
           /\ s \in {"DEGRADED", "UNAVAILABLE"} =>
                 \A r \in reqs : \/ vs[r].verdict = "accepted"
                                 \/ vs[r].verdict = "unmet" /\ r.onUnmet = s
    BY <1>3, StateMeans
  <1> QED
    BY <1>1, <1>2, <1>4, Zenon DEF reqs, known

(* The capabilities shown AVAILABLE are in every set that has all that      *)
(* follows from it, and are such a set.                                     *)
LEMMA AvailableProven ==
    ASSUME NEW S, IsSnapshot(S), NEW valid \in SUBSET Resolved(S), Acyclic(S, valid)
    PROVE  Available(S, valid, Capabilities(S, valid)) = Proven(S, valid)
  <1> DEFINE known == Capabilities(S, valid)
             A == Available(S, valid, known)
             nodes == Nodes(S, valid)
             closed == {P \in SUBSET nodes : \A n \in nodes \ P : ~Follows(S, valid, P, n)}
  <1>1. Proven(S, valid) = {n \in nodes : \A P \in closed : n \in P}
    BY Zenon DEF Proven
  <1>2. A \in SUBSET nodes /\ \A n \in nodes : n \in A <=> known[n].state = "AVAILABLE"
    BY DEF Available
  <1>3. \A P : \A n : Follows(S, valid, P, n) <=>
                        \A r \in Reqs(S, n) : ProvenRequirement(S, valid, P, TargetOf(S, n[1]), r)
    BY Zenon DEF Follows, Reqs
  <1>4. ASSUME NEW n \in nodes PROVE n \in A <=> Follows(S, valid, A, n)
    <2>1. known[n].state = "AVAILABLE" <=>
            \A r \in Reqs(S, n) : RequirementVerdict(S, valid, known, n, r).verdict = "accepted"
      BY ShownState
    <2>2. \A r \in Reqs(S, n) : RequirementVerdict(S, valid, known, n, r).verdict = "accepted" <=>
             ProvenRequirement(S, valid, A, TargetOf(S, n[1]), r)
      BY AcceptedProven
    <2> HIDE DEF A, known, nodes
    <2> QED
      BY <1>2, <1>3, <2>1, <2>2, Zenon
  <1>5. A \in closed
    BY <1>2, <1>4, Zenon
  <1>6. ASSUME NEW P \in closed PROVE A \subseteq P
    <2> DEFINE X == A \ P
    <2>1. ASSUME NEW n \in X PROVE EdgesOf(S, valid, n) \cap X # {}
      <3>1. n \in nodes /\ n \in A /\ n \notin P
        BY <1>2, <2>1
      <3>2. Follows(S, valid, A, n) /\ ~Follows(S, valid, P, n)
        BY <1>4, <1>6, <3>1, Zenon
      <3>3. PICK r \in Reqs(S, n) : /\ ProvenRequirement(S, valid, A, TargetOf(S, n[1]), r)
                                    /\ ~ProvenRequirement(S, valid, P, TargetOf(S, n[1]), r)
        BY <1>3, <3>2, Zenon
      <3> HIDE DEF A
      <3> QED
        BY <1>2, <3>1, <3>3, ProvenThroughEdges
    <2>2. X \in SUBSET nodes
      BY <1>2
    <2> HIDE DEF X
    <2>3. X = {}
      BY <2>1, <2>2, Zenon DEF Acyclic
    <2> QED
      BY <2>3 DEF X
  <1> HIDE DEF A, closed, nodes
  <1> QED
    BY <1>1, <1>2, <1>5, <1>6 DEF A

-----------------------------------------------------------------------------
(* The specification.                                                       *)

\* What the steps keep: the assessment is the one of the snapshot, and the
\* snapshot is one.
EvaluationInv == result = Evaluate(snap) /\ IsSnapshot(snap)

(* Time leaves a snapshot a snapshot, and so does a statement.               *)
LEMMA SnapshotKept ==
    ASSUME NEW S, IsSnapshot(S)
    PROVE  /\ IsSnapshot(Aged(S))
           /\ \A o \in Statements : IsSnapshot([S EXCEPT !.obs = @ \cup {o}])
           /\ \A ended : IsSnapshot(After(S, ended))
  <1>1. ASSUME NEW O, \A o \in O : IsStatement(o) PROVE IsSnapshot([S EXCEPT !.obs = O])
    BY <1>1 DEF IsSnapshot
  <1>2. \A o \in S.obs : IsStatement(o)
    BY DEF IsSnapshot
  <1>3. ASSUME NEW o \in S.obs PROVE IsStatement([o EXCEPT !.age = @ + 1])
    BY <1>2 DEF IsStatement
  <1>4. IsSnapshot(Aged(S))
    BY <1>1, <1>3, Zenon DEF Aged
  <1>5. \A o \in Statements : IsSnapshot([S EXCEPT !.obs = @ \cup {o}])
    <2> TAKE o \in Statements
    <2>1. \A x \in S.obs \cup {o} : IsStatement(x)
      BY <1>2, InputsAssumption
    <2> QED
      BY <1>1, <2>1, Zenon
  <1>6. \A ended : IsSnapshot(After(S, ended))
    <2> TAKE ended
    <2>1. \A x \in {o \in S.obs : o.age < ended} : IsStatement(x)
      BY <1>2
    <2> QED
      BY <1>1, <2>1, Zenon DEF After
  <1> QED
    BY <1>4, <1>5, <1>6

(* The invariant holds from the start and is kept by every step.            *)
LEMMA EvaluationStep ==
    /\ Init => EvaluationInv
    /\ EvaluationInv /\ [Next]_vars => EvaluationInv'
  <1>1. Init => EvaluationInv
    BY InputsAssumption DEF Init, EvaluationInv
  <1>2. ASSUME EvaluationInv, NEW S, Reevaluate(S), IsSnapshot(S) PROVE EvaluationInv'
    BY <1>2, Zenon DEF Reevaluate, EvaluationInv
  <1>3. ASSUME EvaluationInv, [Next]_vars PROVE EvaluationInv'
    <2> USE <1>3
    <2>1. CASE UNCHANGED vars
      BY <2>1, Zenon DEF vars, EvaluationInv
    <2>2. CASE Tick
      <3>1. Reevaluate(Aged(snap)) 
        BY <2>2, Zenon DEF Tick
      <3>2. IsSnapshot(Aged(snap))
        BY SnapshotKept DEF EvaluationInv
      <3> QED
        BY <1>2, <3>1, <3>2
    <2>3. ASSUME NEW o \in Statements, Observe(o) PROVE EvaluationInv'
      <3>1. Reevaluate([snap EXCEPT !.obs = @ \cup {o}])
        BY <2>3, Zenon DEF Observe
      <3>2. IsSnapshot([snap EXCEPT !.obs = @ \cup {o}])
        BY SnapshotKept DEF EvaluationInv
      <3> QED
        BY <1>2, <3>1, <3>2
    <2> QED
      BY <2>1, <2>2, <2>3, Zenon DEF Next
  <1> QED
    BY <1>1, <1>3

(* The input of the summary shows what the assessment holds.                *)
LEMMA InputAgrees ==
    ASSUME EvaluationInv, NEW P, NEW t \in result.valid
    PROVE  Agrees(InputOf(t, P), result, t, P)
  <1> DEFINE in == InputOf(t, P)
             caps == [n \in DOMAIN ContractOf(snap, t).caps |-> result.caps[<<t.uid, n>>]]
  <1>1. in.ns = t.ns /\ in.name = t.name /\ in.uid = t.uid /\ in.profile = P /\ in.st.caps = caps
    BY DEF InputOf
  <1>2. t \in Valid(snap)
    BY AssessedNodes DEF EvaluationInv
  <1>3. \A c : <<t.uid, c>> \in DOMAIN result.caps <=> c \in DOMAIN ContractOf(snap, t).caps
    BY <1>2, AssessedCapabilities DEF EvaluationInv, IsSnapshot
  <1> HIDE DEF in
  <1> QED
    BY <1>1, <1>3 DEF Agrees, in

(* What is handed to an action provider without a person is exactly what    *)
(* the operator summary shows ready, in every reachable assessment.         *)
LEMMA PolicyHolds == EvaluationInv => PolicyAsShown
  <1> SUFFICES ASSUME EvaluationInv, NEW P \in Profiles, ProfileValid(P), NEW t \in result.valid
               PROVE  LET in == InputOf(t, P)
                          proposals == Derive(result, t, P)
                          executable == {r \in Declared(in) : r.exec # NoExecution}
                      IN /\ \A p \in proposals : HandedOverByPolicy(p) => ShownReady(in, p.for)
                         /\ \A r \in executable :
                               (/\ ShownReady(in, r.for) /\ r.exec.interrupt = {}
                                /\ ResponseStatus(in, r) = "Ready"
                                /\ \A x \in executable : x.for = r.for => x.exec = r.exec
                                /\ r.exec.provider \in DOMAIN Registrations /\ Durable
                                /\ r.owner = Registrations[r.exec.provider].owner
                                /\ r.action \in Registrations[r.exec.provider].actions
                                /\ t.ns \in Registrations[r.exec.provider].namespaces) =>
                               \E p \in proposals : p.for = r.for /\ HandedOverByPolicy(p)
    BY Zenon DEF PolicyAsShown
  <1> DEFINE in == InputOf(t, P)
             proposals == Derive(result, t, P)
             executable == {r \in Declared(in) : r.exec # NoExecution}
  <1>1. Agrees(in, result, t, P)
    BY InputAgrees
  <1>2. IsFiniteSet(P.responses)
    BY InputsAssumption
  <1>3. Triggered(result, t, P) = Declared(in)
    BY <1>1, SameDeclared
  <1>4. proposals = {ProposalOf(result, t, P, r) : r \in executable}
    BY <1>3, Zenon DEF Derive
  <1> HIDE DEF in, proposals
  <1>5. ASSUME NEW p \in proposals, HandedOverByPolicy(p) PROVE ShownReady(in, p.for)
    <2>1. PICK r \in executable : p = ProposalOf(result, t, P, r)
      BY <1>4, Zenon
    <2>2. p.for = r.for
      BY <2>1, ProposalFields
    <2>3. ShownReady(in, r.for)
      BY <1>1, <1>2, <1>3, <1>5, <2>1, HandedOverShown
    <2> QED
      BY <2>2, <2>3, Zenon
  <1>6. ASSUME NEW r \in executable,
               ShownReady(in, r.for) /\ r.exec.interrupt = {} /\ ResponseStatus(in, r) = "Ready",
               \A x \in executable : x.for = r.for => x.exec = r.exec,
               r.exec.provider \in DOMAIN Registrations /\ Durable,
               r.owner = Registrations[r.exec.provider].owner,
               r.action \in Registrations[r.exec.provider].actions,
               t.ns \in Registrations[r.exec.provider].namespaces
        PROVE  \E p \in proposals : p.for = r.for /\ HandedOverByPolicy(p)
    <2>1. \A x \in Declared(in) : x.exec # NoExecution /\ x.for = r.for => x.exec = r.exec
      BY <1>6, Zenon
    <2>2. HandedOverByPolicy(ProposalOf(result, t, P, r))
      BY <1>1, <1>2, <1>6, <2>1, ShownHandedOver
    <2>3. ProposalOf(result, t, P, r) \in proposals /\ ProposalOf(result, t, P, r).for = r.for
      BY <1>4, ProposalFields
    <2> QED
      BY <2>2, <2>3, Zenon
  <1> QED
    BY <1>5, <1>6, Zenon DEF in, proposals

(* For every set of snapshots, statements and profiles: nothing is handed to *)
(* an action provider without a person while the operator summary asks for   *)
(* one, and a response shown ready that qualifies is handed over.            *)
THEOREM PolicyIsShown == Spec => []PolicyAsShown
  <1>1. Init => EvaluationInv
    BY EvaluationStep
  <1>2. EvaluationInv /\ [Next]_vars => EvaluationInv'
    BY EvaluationStep
  <1>3. EvaluationInv => PolicyAsShown
    BY PolicyHolds
  <1> QED
    BY <1>1, <1>2, <1>3, PTL DEF Spec

(* A predicate is unmet, on its own or in an envelope, only by a value that *)
(* was stated and is not one it allows, and a requirement for a capability  *)
(* only by one that is assessed and neither AVAILABLE nor UNKNOWN.          *)
LEMMA UnmetStated ==
    ASSUME NEW S, IsSnapshot(S), NEW valid \in SUBSET Resolved(S), NEW known, NEW n \in Nodes(S, valid),
           NEW r \in Reqs(S, n)
    PROVE  LET t == TargetOf(S, n[1])
           IN RequirementVerdict(S, valid, known, n, r).verdict = "unmet" =>
                /\ r.kind = "assertion" => Stated(S, t, r.ref, Admitted \ r.ok)
                /\ r.kind = "envelope" =>
                      \E p \in ContractOf(S, t).envs[r.ref] : Stated(S, t, p.ref, Admitted \ p.ok)
                /\ r.kind = "local" =>
                      /\ <<n[1], r.ref>> \in Nodes(S, valid)
                      /\ known[<<n[1], r.ref>>].state \notin {"AVAILABLE", "UNKNOWN"}
                /\ r.kind = "dependency" =>
                      /\ r.ref \in DOMAIN t.deps /\ <<t.deps[r.ref].uid, r.cap>> \in Nodes(S, valid)
                      /\ known[<<t.deps[r.ref].uid, r.cap>>].state \notin {"AVAILABLE", "UNKNOWN"}
  <1> DEFINE t == TargetOf(S, n[1])
             v == RequirementVerdict(S, valid, known, n, r).verdict
  <1>1. r.kind \in {"assertion", "envelope", "local", "dependency"}
    BY NodeFacts DEF Reqs
  <1>2. /\ r.kind = "assertion" => RequirementVerdict(S, valid, known, n, r) = PredicateVerdict(S, t, r)
        /\ r.kind = "envelope" => (v = "unmet" <=> EnvelopeResult(S, t, r.ref).state = "UNSATISFIED")
    <2> DEFINE w == RequirementVerdict(S, valid, known, n, r)
               st == EnvelopeResult(S, t, r.ref).state
    <2>1. r.kind = "assertion" => w = PredicateVerdict(S, t, r)
      BY DEF RequirementVerdict
    <2>2. r.kind = "envelope" => w = EnvelopeVerdict(st, r)
      BY DEF RequirementVerdict
    <2>3. st \in {"SATISFIED", "UNSATISFIED", "UNKNOWN"}
      BY EnvelopeMeans
    <2>4. \A s \in {"SATISFIED", "UNSATISFIED", "UNKNOWN"} :
             EnvelopeVerdict(s, r).verdict = "unmet" <=> s = "UNSATISFIED"
      BY DEF EnvelopeVerdict, Verdict
    <2> HIDE DEF st, w
    <2> QED
      BY <2>1, <2>2, <2>3, <2>4 DEF st, w
  <1>3. \A p : PredicateVerdict(S, t, p).verdict = "unmet" <=> Stated(S, t, p.ref, Admitted \ p.ok)
    BY PredicateMeans
  <1>4. EnvelopeResult(S, t, r.ref).state = "UNSATISFIED" <=>
          \E p \in ContractOf(S, t).envs[r.ref] : PredicateVerdict(S, t, p).verdict = "unmet"
    BY EnvelopeMeans
  <1> DEFINE local == known[<<n[1], r.ref>>].state
             remote == known[<<t.deps[r.ref].uid, r.cap>>].state
  <1>5. /\ r.kind = "local" => (v = "accepted" <=> local = "AVAILABLE")
        /\ r.kind = "local" => (v = "unproven" <=> local = "UNKNOWN")
        /\ r.kind = "dependency" => (v = "accepted" <=> Resolves(S, valid, t, r) /\ remote = "AVAILABLE")
        /\ r.kind = "dependency" => (v = "unproven" <=> ~Resolves(S, valid, t, r) \/ remote = "UNKNOWN")
    BY <1>1, RequirementMeans
  <1>6. /\ r.kind = "local" => <<n[1], r.ref>> \in Nodes(S, valid)
        /\ r.kind = "dependency" /\ Resolves(S, valid, t, r) =>
              <<t.deps[r.ref].uid, r.cap>> \in Nodes(S, valid)
    BY NeedsAreEdges DEF Reqs
  <1>7. Resolves(S, valid, t, r) => r.ref \in DOMAIN t.deps
    BY DEF Resolves
  <1> HIDE DEF t, v, local, remote
  <1>8. v = "unmet" /\ r.kind = "local" =>
          /\ <<n[1], r.ref>> \in Nodes(S, valid) /\ local \notin {"AVAILABLE", "UNKNOWN"}
    BY <1>5, <1>6
  <1>9. v = "unmet" /\ r.kind = "dependency" =>
          /\ r.ref \in DOMAIN t.deps /\ <<t.deps[r.ref].uid, r.cap>> \in Nodes(S, valid)
          /\ remote \notin {"AVAILABLE", "UNKNOWN"}
    BY <1>5, <1>6, <1>7
  <1>10. v = "unmet" =>
          /\ r.kind = "assertion" => Stated(S, t, r.ref, Admitted \ r.ok)
          /\ r.kind = "envelope" =>
                \E p \in ContractOf(S, t).envs[r.ref] : Stated(S, t, p.ref, Admitted \ p.ok)
    BY <1>2, <1>3, <1>4, Zenon DEF v
  <1> QED
    BY <1>8, <1>9, <1>10, Zenon DEF t, v, local, remote

(* Every capability state is exact once the cycles are: AVAILABLE is what    *)
(* is proven, and an impact the declared one of what failed.                *)
LEMMA StatesHold == EvaluationInv => StatesExact
  <1> SUFFICES ASSUME EvaluationInv PROVE StatesExact
    OBVIOUS
  <1> DEFINE free == Valid(snap)
             known == Capabilities(snap, free)
             proven == Proven(snap, free)
  <1>1. IsSnapshot(snap) /\ result = Evaluate(snap)
    BY DEF EvaluationInv
  <1>2. OnNoCycle(snap) = free /\ Acyclic(snap, free)
    BY <1>1, ShownAcyclic
  <1>3. free \in SUBSET Resolved(snap)
    BY ValidResolved
  <1>4. result.caps = known
    BY <1>1, Zenon DEF Evaluate, Assess
  <1>5. DOMAIN known = Nodes(snap, free)
    BY <1>1, <1>2, <1>3, ResultsSolve
  <1>6. Available(snap, free, known) = proven
    BY <1>1, <1>2, <1>3, AvailableProven
  <1>7. AvailableExact
    <2>1. Available(snap, free, known) = {n \in DOMAIN known : known[n].state = "AVAILABLE"}
      BY <1>5, Zenon DEF Available
    <2> QED
      BY <1>2, <1>4, <1>6, <2>1, Zenon DEF AvailableExact
  <1>8. ImpactDeclared
    <2> DEFINE failing(m) == m \in Nodes(snap, free) /\ known[m].state \in {"DEGRADED", "UNAVAILABLE"}
    <2>1. \A m : Failing(m) <=> failing(m)
      BY <1>4, <1>5 DEF Failing
    <2> SUFFICES ASSUME NEW n \in Nodes(snap, free), known[n].state \in {"DEGRADED", "UNAVAILABLE"},
                        NEW r \in Reqs(snap, n)
                 PROVE  LET t == TargetOf(snap, n[1])
                            c == ContractOf(snap, t)
                        IN \/ ProvenRequirement(snap, free, proven, t, r)
                           \/ /\ r.onUnmet = known[n].state
                              /\ r.kind = "assertion" => Stated(snap, t, r.ref, Admitted \ r.ok)
                              /\ r.kind = "envelope" =>
                                    \E p \in c.envs[r.ref] : Stated(snap, t, p.ref, Admitted \ p.ok)
                              /\ r.kind = "local" => failing(<<t.uid, r.ref>>)
                              /\ r.kind = "dependency" =>
                                    r.ref \in DOMAIN t.deps /\ failing(<<t.deps[r.ref].uid, r.cap>>)
      <3> HIDE DEF failing
      <3> QED
        BY <1>2, <1>4, <1>5, <2>1, Zenon DEF ImpactDeclared, Reqs, failing
    <2> DEFINE t == TargetOf(snap, n[1])
               c == ContractOf(snap, t)
               v == RequirementVerdict(snap, free, known, n, r)
    <2>2. v.verdict = "accepted" \/ (v.verdict = "unmet" /\ r.onUnmet = known[n].state)
      BY <1>1, <1>2, <1>3, ShownState
    <2>3. v.verdict = "accepted" <=> ProvenRequirement(snap, free, proven, t, r)
      BY <1>1, <1>3, <1>6, AcceptedProven
    <2>4. v.verdict = "unmet" =>
            /\ r.kind = "assertion" => Stated(snap, t, r.ref, Admitted \ r.ok)
            /\ r.kind = "envelope" =>
                  \E p \in c.envs[r.ref] : Stated(snap, t, p.ref, Admitted \ p.ok)
            /\ r.kind = "local" => /\ <<n[1], r.ref>> \in Nodes(snap, free)
                                   /\ known[<<n[1], r.ref>>].state \notin {"AVAILABLE", "UNKNOWN"}
            /\ r.kind = "dependency" =>
                  /\ r.ref \in DOMAIN t.deps /\ <<t.deps[r.ref].uid, r.cap>> \in Nodes(snap, free)
                  /\ known[<<t.deps[r.ref].uid, r.cap>>].state \notin {"AVAILABLE", "UNKNOWN"}
      BY <1>1, <1>3, UnmetStated
    <2>5. \A m \in Nodes(snap, free) : known[m].state \in {"AVAILABLE", "UNKNOWN", "DEGRADED", "UNAVAILABLE"}
      BY <1>1, <1>2, <1>3, ShownState
    <2>6. \A m \in Nodes(snap, free) : known[m].state \notin {"AVAILABLE", "UNKNOWN"} => failing(m)
      BY <2>5
    <2>7. t.uid = n[1]
      BY <1>1, <1>3, NodeFacts
    <2> HIDE DEF v, t, c, free, known, proven, failing
    <2> QED
      BY <2>2, <2>3, <2>4, <2>6, <2>7, Zenon DEF t, c
  <1> QED
    BY <1>7, <1>8 DEF StatesExact

-----------------------------------------------------------------------------
(* What the investigator asks for.                                          *)

\* The evidence on a slot of a target decides nothing.
Undecided(S, t, s) == ResolveEvidence(S, t, s).status # "Current"

(* A predicate is unproven exactly when its slot is undecided.              *)
LEMMA UnprovenUndecided ==
    ASSUME NEW S, IsSnapshot(S), NEW t, NEW p
    PROVE  /\ PredicateVerdict(S, t, p).verdict = "unproven" <=> Undecided(S, t, p.ref)
           /\ PredicateVerdict(S, t, p).subject = <<p.kind, p.ref>>
  BY PredicateMeans DEF Undecided

(* A verdict names the requirement it is on.                                *)
LEMMA RequirementSubject ==
    ASSUME NEW S, IsSnapshot(S), NEW valid, NEW known, NEW n, NEW r,
           r.kind \in {"assertion", "envelope", "local", "dependency"}
    PROVE  RequirementVerdict(S, valid, known, n, r).subject = <<r.kind, r.ref>>
  <1> DEFINE t == TargetOf(S, n[1])
             v == RequirementVerdict(S, valid, known, n, r)
             st == EnvelopeResult(S, t, r.ref).state
  <1>1. /\ r.kind = "assertion" => v = PredicateVerdict(S, t, r)
        /\ r.kind = "envelope" => v = EnvelopeVerdict(st, r)
        /\ r.kind \in {"local", "dependency"} =>
              \/ \E state : v = CapabilityVerdict(r, state)
              \/ \E code : v = Verdict("unproven", code, r)
    BY DEF RequirementVerdict
  <1>2. PredicateVerdict(S, t, r).subject = <<r.kind, r.ref>>
    BY PredicateMeans
  <1>3. st \in {"SATISFIED", "UNSATISFIED", "UNKNOWN"}
    BY EnvelopeMeans
  <1>4. \A s \in {"SATISFIED", "UNSATISFIED", "UNKNOWN"} :
           EnvelopeVerdict(s, r).subject = <<r.kind, r.ref>>
    BY DEF EnvelopeVerdict, Verdict
  <1>5. \A w, code : Verdict(w, code, r).subject = <<r.kind, r.ref>>
    BY DEF Verdict
  <1>6. \A state : \E w, code : CapabilityVerdict(r, state) = Verdict(w, code, r)
    BY DEF CapabilityVerdict
  <1>7. \A state : CapabilityVerdict(r, state).subject = <<r.kind, r.ref>>
    BY <1>5, <1>6, Zenon
  <1> HIDE DEF v, st
  <1>8. CASE r.kind = "assertion"
    BY <1>1, <1>2, <1>8 DEF v
  <1>9. CASE r.kind = "envelope"
    BY <1>1, <1>3, <1>4, <1>9 DEF v
  <1>10. CASE r.kind \in {"local", "dependency"}
    BY <1>1, <1>5, <1>7, <1>10, Zenon DEF v
  <1> QED
    BY <1>8, <1>9, <1>10

(* When a status is Open.                                                    *)
LEMMA OpenStatus ==
    ASSUME NEW reasons, NEW subject
    PROVE  StatusFrom(reasons, subject) = "Open" <=>
             \E x \in reasons : x.subject = subject /\ x.verdict # "unmet"
  BY DEF StatusFrom

\* Verdicts on requirements, those on predicates read off the evidence.
PredicatesIn(S, t, ps, vs) ==
    \A q \in ps : /\ vs[q].subject = <<q.kind, q.ref>>
                  /\ q.kind = "assertion" => vs[q] = PredicateVerdict(S, t, q)

\* Some verdict on the slot of p is neither accepted nor unmet.
OpenAmong(ps, vs, p) ==
    \E q \in ps : /\ vs[q].verdict # "accepted" /\ vs[q].verdict # "unmet"
                  /\ vs[q].subject = <<"assertion", p.ref>>

(* Among verdicts of which those on a slot are those of predicates, one that *)
(* is not accepted and not unmet is about a slot that is undecided.         *)
LEMMA OpenPredicate ==
    ASSUME NEW S, IsSnapshot(S), NEW t, NEW ps, NEW vs, NEW p \in ps, p.kind = "assertion",
           PredicatesIn(S, t, ps, vs)
    PROVE  OpenAmong(ps, vs, p) <=> Undecided(S, t, p.ref)
  <1>0. \A q \in ps : /\ vs[q].subject = <<q.kind, q.ref>>
                      /\ q.kind = "assertion" => vs[q] = PredicateVerdict(S, t, q)
    BY Zenon DEF PredicatesIn
  <1>1. \A q : /\ PredicateVerdict(S, t, q).verdict = "unproven" <=> Undecided(S, t, q.ref)
               /\ PredicateVerdict(S, t, q).subject = <<q.kind, q.ref>>
               /\ PredicateVerdict(S, t, q).verdict \in Verdicts
    <2> TAKE q
    <2>1. /\ PredicateVerdict(S, t, q).verdict = "unproven" <=> Undecided(S, t, q.ref)
          /\ PredicateVerdict(S, t, q).subject = <<q.kind, q.ref>>
      BY UnprovenUndecided
    <2>2. PredicateVerdict(S, t, q).verdict \in Verdicts
      BY PredicateMeans
    <2> QED
      BY <2>1, <2>2, Zenon
  <1>2. ASSUME NEW q \in ps, vs[q].verdict # "accepted", vs[q].verdict # "unmet",
               vs[q].subject = <<"assertion", p.ref>>
        PROVE  Undecided(S, t, p.ref)
    <2>1. q.kind = "assertion" /\ q.ref = p.ref
      BY <1>0, <1>2
    <2>2. vs[q] = PredicateVerdict(S, t, q)
      BY <1>0, <2>1
    <2>3. PredicateVerdict(S, t, q).verdict = "unproven"
      BY <1>1, <1>2, <2>2 DEF Verdicts
    <2> QED
      BY <1>1, <2>1, <2>3, Zenon
  <1>3. ASSUME Undecided(S, t, p.ref)
        PROVE  vs[p].verdict = "unproven" /\ vs[p].subject = <<"assertion", p.ref>>
    BY <1>0, <1>1, <1>3, Zenon
  <1> QED
    BY <1>2, <1>3 DEF OpenAmong

(* A predicate of an envelope is an open candidate exactly when its slot is  *)
(* undecided.                                                               *)
LEMMA OpenInEnvelope ==
    ASSUME NEW S, IsSnapshot(S), NEW t, NEW e, NEW p \in ContractOf(S, t).envs[e],
           \A q \in ContractOf(S, t).envs[e] : q.kind = "assertion"
    PROVE  StatusFrom(EnvelopeResult(S, t, e).reasons, <<"assertion", p.ref>>) = "Open" <=>
             Undecided(S, t, p.ref)
  <1> DEFINE ps == ContractOf(S, t).envs[e]
             vs == [q \in ps |-> PredicateVerdict(S, t, q)]
             reasons == EnvelopeResult(S, t, e).reasons
  <1>1. reasons = {PredicateVerdict(S, t, q) :
                      q \in {x \in ps : PredicateVerdict(S, t, x).verdict # "accepted"}}
    BY EnvelopeMeans
  <1>2. \A q \in ps : vs[q] = PredicateVerdict(S, t, q) /\ vs[q].subject = <<q.kind, q.ref>>
    BY PredicateMeans
  <1>3. StatusFrom(reasons, <<"assertion", p.ref>>) = "Open" <=>
          \E x \in reasons : x.subject = <<"assertion", p.ref>> /\ x.verdict # "unmet"
    BY OpenStatus
  <1> HIDE DEF vs, ps, reasons
  <1>4. (\E x \in reasons : x.subject = <<"assertion", p.ref>> /\ x.verdict # "unmet") <=>
          \E q \in ps : /\ vs[q].verdict # "accepted" /\ vs[q].verdict # "unmet"
                        /\ vs[q].subject = <<"assertion", p.ref>>
    BY <1>1, <1>2
  <1>5. p \in ps /\ \A q \in ps : q.kind = "assertion"
    BY DEF ps
  <1>6. OpenAmong(ps, vs, p) <=> Undecided(S, t, p.ref)
    <2>1. PredicatesIn(S, t, ps, vs)
      BY <1>2, Zenon DEF PredicatesIn
    <2> QED
      BY <1>5, <2>1, OpenPredicate
  <1> QED
    BY <1>3, <1>4, <1>6, Zenon DEF reasons, OpenAmong

(* A predicate of a capability is an open candidate exactly when its slot is *)
(* undecided.                                                               *)
LEMMA OpenInCapability ==
    ASSUME NEW S, IsSnapshot(S), NEW valid \in SUBSET Resolved(S), Acyclic(S, valid),
           NEW n \in Nodes(S, valid), NEW p \in Reqs(S, n), p.kind = "assertion"
    PROVE  StatusFrom(Capabilities(S, valid)[n].reasons, <<"assertion", p.ref>>) = "Open" <=>
             Undecided(S, TargetOf(S, n[1]), p.ref)
  <1> DEFINE ps == Reqs(S, n)
             t == TargetOf(S, n[1])
             known == Capabilities(S, valid)
             vs == VerdictsOf(S, valid, known, n)
             reasons == known[n].reasons
  <1>1. reasons = ReasonsOf(ps, vs)
    BY ResultFields
  <1>2. \A q \in ps : vs[q] = RequirementVerdict(S, valid, known, n, q)
    BY DEF VerdictsOf
  <1>3. \A q \in ps : q.kind \in {"assertion", "envelope", "local", "dependency"}
    BY NodeFacts DEF Reqs
  <1>4. \A q \in ps : /\ vs[q].subject = <<q.kind, q.ref>>
                      /\ q.kind = "assertion" => vs[q] = PredicateVerdict(S, t, q)
    <2> TAKE q \in ps
    <2>1. RequirementVerdict(S, valid, known, n, q).subject = <<q.kind, q.ref>>
      BY <1>3, RequirementSubject
    <2>2. q.kind = "assertion" => RequirementVerdict(S, valid, known, n, q) = PredicateVerdict(S, t, q)
      BY DEF RequirementVerdict
    <2> QED
      BY <1>2, <2>1, <2>2, Zenon
  <1> HIDE DEF known, vs, ps, reasons, t
  <1>5. \A x : x \in reasons /\ x.subject = <<"assertion", p.ref>> <=>
           \E q \in ps : vs[q].verdict # "accepted" /\ x = vs[q] /\ x.subject = <<"assertion", p.ref>>
    <2> DEFINE conflict == [verdict |-> "unproven", code |-> "conflicting-impact", subject |-> <<"capability", "">>]
    <2>1. conflict.subject # <<"assertion", p.ref>>
      OBVIOUS
    <2>2. \A x : x \in reasons => x \in Reasons({vs[q] : q \in ps}) \/ x = conflict
      BY <1>1, Zenon DEF ReasonsOf
    <2>3. Reasons({vs[q] : q \in ps}) \subseteq reasons
      BY <1>1, Zenon DEF ReasonsOf
    <2>4. \A x : x \in Reasons({vs[q] : q \in ps}) <=> \E q \in ps : vs[q].verdict # "accepted" /\ x = vs[q]
      BY DEF Reasons
    <2> HIDE DEF conflict
    <2> QED
      BY <2>1, <2>2, <2>3, <2>4, Zenon
  <1>6. StatusFrom(reasons, <<"assertion", p.ref>>) = "Open" <=>
          \E x \in reasons : x.subject = <<"assertion", p.ref>> /\ x.verdict # "unmet"
    BY OpenStatus
  <1>7. (\E x \in reasons : x.subject = <<"assertion", p.ref>> /\ x.verdict # "unmet") <=>
          \E q \in ps : /\ vs[q].verdict # "accepted" /\ vs[q].verdict # "unmet"
                        /\ vs[q].subject = <<"assertion", p.ref>>
    <2> DEFINE sub == <<"assertion", p.ref>>
    <2>1. \A x : x \in reasons /\ x.subject = sub <=>
             \E q \in ps : vs[q].verdict # "accepted" /\ x = vs[q] /\ x.subject = sub
      BY <1>5
    <2> HIDE DEF sub
    <2>2. (\E x \in reasons : x.subject = sub /\ x.verdict # "unmet") <=>
            \E q \in ps : vs[q].verdict # "accepted" /\ vs[q].verdict # "unmet" /\ vs[q].subject = sub
      BY <2>1
    <2> QED
      BY <2>2, Zenon DEF sub
  <1>8. p \in ps
    BY DEF ps
  <1>9. OpenAmong(ps, vs, p) <=> Undecided(S, t, p.ref)
    <2>1. PredicatesIn(S, t, ps, vs)
      BY <1>4, Zenon DEF PredicatesIn
    <2> QED
      BY <1>8, <2>1, OpenPredicate
  <1> QED
    BY <1>6, <1>7, <1>9, Zenon DEF reasons, known, t, OpenAmong

\* A predicate of an envelope of t reads slot x and is an open candidate.
OpenThrough(S, t, e, x) ==
    \E p \in ContractOf(S, t).envs[e] :
        /\ x = p.ref
        /\ StatusFrom(EnvelopeResult(S, t, e).reasons, <<"assertion", p.ref>>) = "Open"

(* The open candidates of an envelope.                                      *)
LEMMA OpenEnvelopeCandidates ==
    ASSUME NEW S, NEW t, NEW cap, NEW e, NEW x
    PROVE  (\E k \in EnvelopeCandidates(S, t, cap, e) :
               k.kind = "assertion" /\ k.status = "Open" /\ x = k.ref) <=> OpenThrough(S, t, e, x)
  <1> DEFINE ps == ContractOf(S, t).envs[e]
             st(p) == StatusFrom(EnvelopeResult(S, t, e).reasons, <<"assertion", p.ref>>)
             K(p) == Candidate(cap, e, "assertion", p.ref, st(p))
  <1>2. EnvelopeCandidates(S, t, cap, e) = {K(p) : p \in ps}
    BY Zenon DEF EnvelopeCandidates
  <1>3. \A p : K(p).kind = "assertion" /\ K(p).ref = p.ref /\ K(p).status = st(p)
    BY DEF Candidate
  <1> HIDE DEF ps, st, K
  <1>4. (\E k \in EnvelopeCandidates(S, t, cap, e) :
             k.kind = "assertion" /\ k.status = "Open" /\ x = k.ref) <=>
          \E p \in ps : x = p.ref /\ st(p) = "Open"
    BY <1>2, <1>3
  <1> QED
    BY <1>4, Zenon DEF OpenThrough, ps, st

\* Requirement r of a capability with result res makes slot x an open one.
OpenBy(S, t, res, r, x) ==
    \/ /\ r.kind = "assertion" /\ x = r.ref
       /\ StatusFrom(res.reasons, <<"assertion", r.ref>>) = "Open"
    \/ r.kind = "envelope" /\ OpenThrough(S, t, r.ref, x)

(* The open candidates of a capability.                                     *)
LEMMA OpenRequirementCandidates ==
    ASSUME NEW S, NEW t, NEW cap, NEW res, NEW x
    PROVE  (\E k \in RequirementCandidates(S, t, cap, res) :
               k.kind = "assertion" /\ k.status = "Open" /\ x = k.ref) <=>
             \E r \in ContractOf(S, t).caps[cap] : OpenBy(S, t, res, r, x)
  <1> DEFINE reqs == ContractOf(S, t).caps[cap]
             own(r) == Candidate(cap, "", r.kind, r.ref, StatusFrom(res.reasons, <<r.kind, r.ref>>))
             through(r) == EnvelopeCandidates(S, t, cap, r.ref)
             open(k) == k.kind = "assertion" /\ k.status = "Open" /\ x = k.ref
  <1>1. \A k : k \in RequirementCandidates(S, t, cap, res) <=>
                 \E r \in reqs : k = own(r) \/ (r.kind = "envelope" /\ k \in through(r))
    <2> DEFINE of(r) == {own(r)} \cup (IF r.kind = "envelope" THEN through(r) ELSE {})
    <2>1. RequirementCandidates(S, t, cap, res) = UNION {of(r) : r \in reqs}
      BY Zenon DEF RequirementCandidates
    <2> HIDE DEF own, through, reqs
    <2>2. \A r, k : k \in of(r) <=> k = own(r) \/ (r.kind = "envelope" /\ k \in through(r))
      OBVIOUS
    <2> HIDE DEF of
    <2> QED
      BY <2>1, <2>2
  <1>2. \A r : /\ own(r).kind = r.kind /\ own(r).ref = r.ref
               /\ own(r).status = StatusFrom(res.reasons, <<r.kind, r.ref>>)
    BY DEF Candidate
  <1>3. \A r : open(own(r)) <=> /\ r.kind = "assertion" /\ x = r.ref
                                /\ StatusFrom(res.reasons, <<"assertion", r.ref>>) = "Open"
    BY <1>2, Zenon
  <1>4. \A r : (\E k \in through(r) : open(k)) <=> OpenThrough(S, t, r.ref, x)
    BY OpenEnvelopeCandidates
  <1> HIDE DEF reqs, own, through, open
  <1>5. (\E k \in RequirementCandidates(S, t, cap, res) : open(k)) <=>
          \E r \in reqs : open(own(r)) \/ (r.kind = "envelope" /\ \E k \in through(r) : open(k))
    BY <1>1, Zenon
  <1>6. \A r : OpenBy(S, t, res, r, x) <=>
                 open(own(r)) \/ (r.kind = "envelope" /\ \E k \in through(r) : open(k))
    BY <1>3, <1>4, Zenon DEF OpenBy
  <1> QED
    BY <1>5, <1>6, Zenon DEF open, reqs

(* The slots the investigator would ask for.                                *)
LEMMA OpenSlotsMeans ==
    ASSUME NEW S, NEW caps, NEW t, NEW x
    PROVE  x \in OpenSlots(S, caps, t) <=>
             \/ \E n \in DOMAIN ContractOf(S, t).caps :
                   /\ caps[<<t.uid, n>>].state # "AVAILABLE"
                   /\ \E r \in ContractOf(S, t).caps[n] : OpenBy(S, t, caps[<<t.uid, n>>], r, x)
             \/ /\ t.sel # "" /\ EnvelopeResult(S, t, t.sel).state # "SATISFIED"
                /\ OpenThrough(S, t, t.sel, x)
  <1> DEFINE open(k) == k.kind = "assertion" /\ k.status = "Open" /\ x = k.ref
             names == {m \in DOMAIN ContractOf(S, t).caps : caps[<<t.uid, m>>].state # "AVAILABLE"}
             from(n) == RequirementCandidates(S, t, n, caps[<<t.uid, n>>])
             unmet == t.sel # "" /\ EnvelopeResult(S, t, t.sel).state # "SATISFIED"
  <1>1. x \in OpenSlots(S, caps, t) <=> \E k \in DeriveCandidates(S, caps, t) : open(k)
    BY Zenon DEF OpenSlots
  <1>2. \A k : k \in DeriveCandidates(S, caps, t) <=>
                 (\E n \in names : k \in from(n)) \/ k \in SelectedCandidates(S, t)
    BY DEF DeriveCandidates
  <1>3. \A k : k \in SelectedCandidates(S, t) <=> unmet /\ k \in EnvelopeCandidates(S, t, "", t.sel)
    BY DEF SelectedCandidates
  <1>4. \A n : (\E k \in from(n) : open(k)) <=>
                 \E r \in ContractOf(S, t).caps[n] : OpenBy(S, t, caps[<<t.uid, n>>], r, x)
    BY OpenRequirementCandidates
  <1>5. (\E k \in EnvelopeCandidates(S, t, "", t.sel) : open(k)) <=> OpenThrough(S, t, t.sel, x)
    BY OpenEnvelopeCandidates
  <1>6. \A n : n \in names <=> n \in DOMAIN ContractOf(S, t).caps /\ caps[<<t.uid, n>>].state # "AVAILABLE"
    OBVIOUS
  <1> HIDE DEF open, from, names, unmet
  <1>7. x \in OpenSlots(S, caps, t) <=>
          \/ \E n \in names : \E r \in ContractOf(S, t).caps[n] : OpenBy(S, t, caps[<<t.uid, n>>], r, x)
          \/ unmet /\ OpenThrough(S, t, t.sel, x)
    BY <1>1, <1>2, <1>3, <1>4, <1>5, Zenon
  <1> QED
    BY <1>6, <1>7, Zenon DEF unmet

(* The slots something reads.                                               *)
LEMMA UsedSlotsMeans ==
    ASSUME NEW S, NEW t, NEW x
    PROVE  LET c == ContractOf(S, t)
           IN x \in UsedSlots(S, t) <=>
                \/ \E n \in DOMAIN c.caps : \E r \in c.caps[n] :
                      \/ r.kind = "assertion" /\ x = r.ref
                      \/ r.kind = "envelope" /\ \E p \in c.envs[r.ref] : x = p.ref
                \/ t.sel # "" /\ \E p \in c.envs[t.sel] : x = p.ref
  <1> DEFINE c == ContractOf(S, t)
             reqs == UNION {c.caps[n] : n \in DOMAIN c.caps}
             envs == {r.ref : r \in {y \in reqs : y.kind = "envelope"}} \cup ({t.sel} \ {""})
  <1>1. UsedSlots(S, t) = {r.ref : r \in {y \in reqs : y.kind = "assertion"}} \cup
                          {p.ref : p \in UNION {c.envs[e] : e \in envs}}
    BY Zenon DEF UsedSlots
  <1>2. \A r : r \in reqs <=> \E n \in DOMAIN c.caps : r \in c.caps[n]
    OBVIOUS
  <1> HIDE DEF reqs
  <1>3. \A e : e \in envs <=> (\E r \in reqs : r.kind = "envelope" /\ e = r.ref) \/ (e = t.sel /\ e # "")
    OBVIOUS
  <1> HIDE DEF envs, c
  <1>4. x \in UsedSlots(S, t) <=>
          \/ \E r \in reqs : r.kind = "assertion" /\ x = r.ref
          \/ \E e \in envs : \E p \in c.envs[e] : x = p.ref
    BY <1>1
  <1>5. (\E e \in envs : \E p \in c.envs[e] : x = p.ref) <=>
          \/ \E r \in reqs : r.kind = "envelope" /\ \E p \in c.envs[r.ref] : x = p.ref
          \/ t.sel # "" /\ \E p \in c.envs[t.sel] : x = p.ref
    <2> DEFINE reads(e) == \E p \in c.envs[e] : x = p.ref
    <2> HIDE DEF reads
    <2>1. (\E e \in envs : reads(e)) <=>
            (\E r \in reqs : r.kind = "envelope" /\ reads(r.ref)) \/ (t.sel # "" /\ reads(t.sel))
      <3>1. \A r \in reqs : r.kind = "envelope" => r.ref \in envs
        BY <1>3
      <3>2. t.sel # "" => t.sel \in envs
        BY <1>3
      <3>3. ASSUME NEW e \in envs, reads(e)
            PROVE  (\E r \in reqs : r.kind = "envelope" /\ reads(r.ref)) \/ (t.sel # "" /\ reads(t.sel))
        <4>1. (\E r \in reqs : r.kind = "envelope" /\ e = r.ref) \/ (e = t.sel /\ e # "")
          BY <1>3
        <4> QED
          BY <3>3, <4>1, Zenon
      <3> QED
        BY <3>1, <3>2, <3>3, Zenon
    <2> QED
      BY <2>1, Zenon DEF reads
  <1> QED
    BY <1>2, <1>4, <1>5, Zenon DEF c

(* Over acyclic capabilities the investigator asks for exactly the slots    *)
(* that are read and undecided.                                             *)
LEMMA OpenSlotsExact ==
    ASSUME NEW S, IsSnapshot(S), NEW valid \in SUBSET Resolved(S), Acyclic(S, valid), NEW t \in valid
    PROVE  OpenSlots(S, Capabilities(S, valid), t) = {s \in UsedSlots(S, t) : Undecided(S, t, s)}
  <1> DEFINE caps == Capabilities(S, valid)
             c == ContractOf(S, t)
             res(n) == caps[<<t.uid, n>>]
             asked(n, x) == \E r \in c.caps[n] : OpenBy(S, t, res(n), r, x)
             read(n, x) == \E r \in c.caps[n] :
                              \/ r.kind = "assertion" /\ x = r.ref
                              \/ r.kind = "envelope" /\ \E p \in c.envs[r.ref] : x = p.ref
             sel(x) == t.sel # "" /\ \E p \in c.envs[t.sel] : x = p.ref
             asksel(x) == /\ t.sel # "" /\ EnvelopeResult(S, t, t.sel).state # "SATISFIED"
                          /\ OpenThrough(S, t, t.sel, x)
  <1>1. IsFiniteSet(S.targets) /\ t \in Resolved(S)
    BY DEF IsSnapshot
  <1>2. TargetOf(S, t.uid) = t
    BY <1>1, FoundUnderUID
  <1>3. c \in S.contracts /\ ContractValid(c) /\ IsContract(c)
    BY <1>1, ResolvedContract DEF IsSnapshot
  <1>4. /\ \A e \in DOMAIN c.envs : \A p \in c.envs[e] : p.kind = "assertion"
        /\ \A n \in DOMAIN c.caps : \A r \in c.caps[n] : r.kind = "envelope" => r.ref \in DOMAIN c.envs
    <2>1. \A n \in DOMAIN c.caps : \A r \in c.caps[n] : ReferenceOK(c, r)
      BY <1>3, Zenon DEF ContractValid
    <2>2. \A r : r.kind = "envelope" /\ ReferenceOK(c, r) => r.ref \in DOMAIN c.envs
      BY DEF ReferenceOK
    <2>3. \A e \in DOMAIN c.envs : \A p \in c.envs[e] : p.kind = "assertion"
      BY <1>3, Zenon DEF IsContract
    <2> QED
      BY <2>1, <2>2, <2>3, Zenon
  <1>5. t.sel # "" => t.sel \in DOMAIN c.envs
    <2> SUFFICES ASSUME t.sel # "", t.sel \notin DOMAIN c.envs PROVE FALSE
      OBVIOUS
    <2>1. "unknown-envelope-selection" \in BindingDefects(S, t)
      BY DEF BindingDefects
    <2>2. Defects(S, t) = {}
      BY <1>1 DEF Resolved
    <2>3. BindingDefects(S, t) \subseteq Defects(S, t)
      BY <1>1, <2>2, <1>3 DEF Defects
    <2> QED
      BY <2>1, <2>2, <2>3
  <1>6. \A n \in DOMAIN c.caps : /\ <<t.uid, n>> \in Nodes(S, valid)
                                /\ Reqs(S, <<t.uid, n>>) = c.caps[n]
    <2> TAKE n \in DOMAIN c.caps
    <2>1. <<t.uid, n>> \in Nodes(S, valid)
      BY NodeOf
    <2> QED
      BY <1>2, <2>1 DEF Reqs
  <1>7. ASSUME NEW e \in DOMAIN c.envs, NEW x
        PROVE  /\ OpenThrough(S, t, e, x) <=> (\E p \in c.envs[e] : x = p.ref) /\ Undecided(S, t, x)
               /\ OpenThrough(S, t, e, x) => EnvelopeResult(S, t, e).state # "SATISFIED"
    <2>1. \A p \in c.envs[e] :
            StatusFrom(EnvelopeResult(S, t, e).reasons, <<"assertion", p.ref>>) = "Open" <=>
            Undecided(S, t, p.ref)
      BY <1>4, OpenInEnvelope
    <2>2. OpenThrough(S, t, e, x) <=> (\E p \in c.envs[e] : x = p.ref) /\ Undecided(S, t, x)
      BY <2>1, Zenon DEF OpenThrough
    <2>3. EnvelopeResult(S, t, e).state = "SATISFIED" <=>
            \A p \in c.envs[e] : PredicateVerdict(S, t, p).verdict = "accepted"
      BY EnvelopeMeans
    <2>4. \A p : PredicateVerdict(S, t, p).verdict = "accepted" => ~Undecided(S, t, p.ref)
      BY UnprovenUndecided
    <2> QED
      BY <2>2, <2>3, <2>4, Zenon
  <1>8. ASSUME NEW n \in DOMAIN c.caps, NEW x
        PROVE  /\ asked(n, x) <=> read(n, x) /\ Undecided(S, t, x)
               /\ asked(n, x) => res(n).state # "AVAILABLE"
    <2> DEFINE m == <<t.uid, n>>
               v(r) == RequirementVerdict(S, valid, caps, m, r).verdict
    <2>1. m \in Nodes(S, valid) /\ Reqs(S, m) = c.caps[n] /\ TargetOf(S, m[1]) = t
      BY <1>2, <1>6
    <2>2. \A r \in c.caps[n] : r.kind = "assertion" =>
            (StatusFrom(res(n).reasons, <<"assertion", r.ref>>) = "Open" <=> Undecided(S, t, r.ref))
      BY <2>1, OpenInCapability
    <2>3. \A r \in c.caps[n] : r.kind = "envelope" =>
            (OpenThrough(S, t, r.ref, x) <=> (\E p \in c.envs[r.ref] : x = p.ref) /\ Undecided(S, t, x))
      BY <1>4, <1>7, Zenon
    <2>4. asked(n, x) <=> read(n, x) /\ Undecided(S, t, x)
      BY <2>2, <2>3, Zenon DEF OpenBy
    <2>5. res(n).state = "AVAILABLE" <=> \A r \in c.caps[n] : v(r) = "accepted"
      BY <2>1, ShownState
    <2>6. ASSUME NEW r \in c.caps[n], OpenBy(S, t, res(n), r, x) PROVE v(r) # "accepted"
      <3>1. CASE r.kind = "assertion"
        <4>1. Undecided(S, t, r.ref)
          BY <2>2, <2>6, <3>1 DEF OpenBy
        <4>2. RequirementVerdict(S, valid, caps, m, r) = PredicateVerdict(S, t, r)
          BY <2>1, <3>1 DEF RequirementVerdict
        <4>3. PredicateVerdict(S, t, r).verdict = "unproven"
          BY <4>1, UnprovenUndecided
        <4> QED
          BY <4>2, <4>3
      <3>2. CASE r.kind = "envelope"
        <4> DEFINE st == EnvelopeResult(S, t, r.ref).state
        <4>1. OpenThrough(S, t, r.ref, x)
          BY <2>6, <3>2 DEF OpenBy
        <4>2. st # "SATISFIED"
          BY <1>4, <1>7, <3>2, <4>1, Zenon
        <4>3. RequirementVerdict(S, valid, caps, m, r) = EnvelopeVerdict(st, r)
          BY <2>1, <3>2 DEF RequirementVerdict
        <4>4. st \in {"SATISFIED", "UNSATISFIED", "UNKNOWN"}
          BY EnvelopeMeans
        <4>5. \A s \in {"UNSATISFIED", "UNKNOWN"} : EnvelopeVerdict(s, r).verdict # "accepted"
          BY DEF EnvelopeVerdict, Verdict
        <4> HIDE DEF st
        <4> QED
          BY <4>2, <4>3, <4>4, <4>5
      <3> QED
        BY <2>6, <3>1, <3>2, Zenon DEF OpenBy
    <2> QED
      BY <2>4, <2>5, <2>6, Zenon
  <1>9. \A x : x \in OpenSlots(S, caps, t) <=>
                 \/ \E n \in DOMAIN c.caps : res(n).state # "AVAILABLE" /\ asked(n, x)
                 \/ asksel(x)
    BY OpenSlotsMeans
  <1>10. \A x : x \in UsedSlots(S, t) <=> (\E n \in DOMAIN c.caps : read(n, x)) \/ sel(x)
    BY UsedSlotsMeans, Zenon
  <1>11. \A x : asksel(x) <=> sel(x) /\ Undecided(S, t, x)
    BY <1>5, <1>7, Zenon
  <1> HIDE DEF asked, read, sel, asksel, c, res, caps
  <1>12. \A x : x \in OpenSlots(S, caps, t) <=> x \in UsedSlots(S, t) /\ Undecided(S, t, x)
    BY <1>8, <1>9, <1>10, <1>11, Zenon
  <1> QED
    BY <1>12, Zenon DEF caps

(* The investigator is exact once the cycles are.                           *)
LEMMA OpenHolds == EvaluationInv => OpenExact
  <1> SUFFICES ASSUME EvaluationInv PROVE OpenExact
    OBVIOUS
  <1>1. IsSnapshot(snap) /\ result = Evaluate(snap)
    BY DEF EvaluationInv
  <1>2. result.valid = Valid(snap) /\ Acyclic(snap, Valid(snap))
    BY <1>1, ShownAcyclic
  <1>3. Valid(snap) \in SUBSET Resolved(snap)
    BY ValidResolved
  <1>4. result.caps = Capabilities(snap, Valid(snap))
    BY <1>1, Zenon DEF Evaluate, Assess
  <1>5. \A t \in Valid(snap) : OpenSlots(snap, Capabilities(snap, Valid(snap)), t) =
                               {s \in UsedSlots(snap, t) : Undecided(snap, t, s)}
    BY <1>1, <1>2, <1>3, OpenSlotsExact
  <1> QED
    BY <1>2, <1>4, <1>5, Zenon DEF OpenExact, Undecided

-----------------------------------------------------------------------------
(* What does not depend on the observations.                                *)

\* Two snapshots of the same contracts and targets.
SameDeclarations(S, R) == R.contracts = S.contracts /\ R.targets = S.targets

(* Steps leave the contracts and the targets alone.                         *)
LEMMA StepsKeepDeclarations ==
    ASSUME NEW S, IsSnapshot(S)
    PROVE  /\ SameDeclarations(S, Aged(S))
           /\ \A o : SameDeclarations(S, [S EXCEPT !.obs = @ \cup {o}])
           /\ \A ended : SameDeclarations(S, After(S, ended))
  <1>1. \A O : SameDeclarations(S, [S EXCEPT !.obs = O])
    BY DEF IsSnapshot, SameDeclarations
  <1> QED
    BY <1>1, Zenon DEF Aged, After

(* Targets, contracts and the graph of capabilities are the same.           *)
LEMMA SameGraph ==
    ASSUME NEW S, NEW R, SameDeclarations(S, R)
    PROVE  /\ \A uid : TargetOf(R, uid) = TargetOf(S, uid) /\ SameUID(R, uid) = SameUID(S, uid)
           /\ \A t : ContractOf(R, t) = ContractOf(S, t)
           /\ \A valid, t, r : Resolves(R, valid, t, r) <=> Resolves(S, valid, t, r)
           /\ \A valid : Nodes(R, valid) = Nodes(S, valid)
           /\ \A valid, n : EdgesOf(R, valid, n) = EdgesOf(S, valid, n)
  <1> USE DEF SameDeclarations
  <1>1. \A uid : TargetOf(R, uid) = TargetOf(S, uid) /\ SameUID(R, uid) = SameUID(S, uid)
    BY Zenon DEF TargetOf, SameUID
  <1>2. \A t : ContractsOf(R, t) = ContractsOf(S, t)
    BY Zenon DEF ContractsOf
  <1>3. \A t : ContractOf(R, t) = ContractOf(S, t)
    <2> TAKE t
    <2>1. ContractsOf(R, t) = ContractsOf(S, t)
      BY <1>2, Zenon
    <2> QED
      BY <2>1, Zenon DEF ContractOf
  <1>4. \A valid, t, r : Resolves(R, valid, t, r) <=> Resolves(S, valid, t, r)
    BY <1>3, Zenon DEF Resolves
  <1>5. ASSUME NEW valid PROVE Nodes(R, valid) = Nodes(S, valid)
    <2>1. \A n : n \in Nodes(R, valid) <=> \E t \in valid : \E k \in DOMAIN ContractOf(R, t).caps : n = <<t.uid, k>>
      BY DEF Nodes
    <2>2. \A n : n \in Nodes(S, valid) <=> \E t \in valid : \E k \in DOMAIN ContractOf(S, t).caps : n = <<t.uid, k>>
      BY DEF Nodes
    <2>3. \A n : n \in Nodes(R, valid) <=> n \in Nodes(S, valid)
      BY <1>3, <2>1, <2>2, Zenon
    <2> QED
      BY <2>3
  <1>6. ASSUME NEW valid, NEW n PROVE EdgesOf(R, valid, n) = EdgesOf(S, valid, n)
    <2> DEFINE t == TargetOf(S, n[1])
               reqs == ContractOf(S, t).caps[n[2]]
               needed(Q) == {x \in reqs : x.kind = "dependency" /\ Resolves(Q, valid, t, x)}
               edges(Q) == {<<n[1], r.ref>> : r \in {x \in reqs : x.kind = "local"}} \cup
                           {<<t.deps[r.ref].uid, r.cap>> : r \in needed(Q)}
    <2>1. TargetOf(R, n[1]) = t /\ ContractOf(R, t).caps[n[2]] = reqs
      BY <1>1, <1>3, Zenon
    <2>2. needed(R) = needed(S)
      BY <1>4, Zenon
    <2>3. EdgesOf(S, valid, n) = edges(S)
      BY Zenon DEF EdgesOf
    <2>4. EdgesOf(R, valid, n) = edges(R)
      BY <2>1, Zenon DEF EdgesOf
    <2> HIDE DEF needed
    <2> QED
      BY <2>2, <2>3, <2>4, Zenon
  <1> QED
    BY <1>1, <1>3, <1>4, <1>5, <1>6

(* So are the defects, the valid targets and the ones on a cycle.           *)
LEMMA SameValid ==
    ASSUME NEW S, NEW R, SameDeclarations(S, R)
    PROVE  Valid(R) = Valid(S) /\ OnNoCycle(R) = OnNoCycle(S) /\ Resolved(R) = Resolved(S)
  <1>1. \A uid : SameUID(R, uid) = SameUID(S, uid)
    BY SameGraph
  <1>2. \A t : ContractsOf(R, t) = ContractsOf(S, t) /\ ContractOf(R, t) = ContractOf(S, t)
    <2>1. \A t : ContractsOf(R, t) = ContractsOf(S, t)
      BY Zenon DEF ContractsOf, SameDeclarations
    <2>2. \A t : ContractOf(R, t) = ContractOf(S, t)
      BY SameGraph
    <2> QED
      BY <2>1, <2>2, Zenon
  <1>3. ASSUME NEW t PROVE Defects(R, t) = Defects(S, t)
    <2>1. /\ ContractsOf(R, t) = ContractsOf(S, t) /\ ContractOf(R, t) = ContractOf(S, t)
          /\ SameUID(R, t.uid) = SameUID(S, t.uid)
      BY <1>1, <1>2, Zenon
    <2>2. BindingDefects(R, t) = BindingDefects(S, t)
      BY <2>1, Zenon DEF BindingDefects
    <2> QED
      BY <2>1, <2>2, Zenon DEF Defects
  <1>4. \A t : Defects(R, t) = Defects(S, t)
    BY <1>3
  <1>5. Resolved(R) = Resolved(S)
    BY <1>4, Zenon DEF Resolved, SameDeclarations
  <1>6. \A valid : CapabilityGraph(R, valid) = CapabilityGraph(S, valid)
    <2> TAKE valid
    <2>1. Nodes(R, valid) = Nodes(S, valid) /\ \A n : EdgesOf(R, valid, n) = EdgesOf(S, valid, n)
      BY SameGraph
    <2> QED
      BY <2>1, Zenon DEF CapabilityGraph
  <1>7. Valid(R) = Valid(S)
    BY <1>5, <1>6, Zenon DEF Valid, CyclicTargets
  <1>8. OnNoCycle(R) = OnNoCycle(S)
    BY <1>5, <1>6, Zenon DEF OnNoCycle
  <1> QED
    BY <1>5, <1>7, <1>8

(* Every step is stuttering, a tick or a statement, and leaves the          *)
(* declarations alone.                                                      *)
LEMMA WhatSteps ==
    ASSUME EvaluationInv, [Next]_vars
    PROVE  /\ \/ snap' = snap /\ result' = result
              \/ snap' = Aged(snap) /\ result' = Evaluate(Aged(snap))
              \/ \E o \in Statements : /\ o \notin snap.obs /\ snap' = [snap EXCEPT !.obs = @ \cup {o}]
                                       /\ result' = Evaluate([snap EXCEPT !.obs = @ \cup {o}])
           /\ SameDeclarations(snap, snap')
  <1>1. \/ snap' = snap /\ result' = result
        \/ snap' = Aged(snap) /\ result' = Evaluate(Aged(snap))
        \/ \E o \in Statements : /\ o \notin snap.obs /\ snap' = [snap EXCEPT !.obs = @ \cup {o}]
                                 /\ result' = Evaluate([snap EXCEPT !.obs = @ \cup {o}])
    BY Zenon DEF vars, Next, Tick, Observe, Reevaluate
  <1>2. /\ SameDeclarations(snap, Aged(snap)) /\ SameDeclarations(snap, snap)
        /\ \A o : SameDeclarations(snap, [snap EXCEPT !.obs = @ \cup {o}])
    BY StepsKeepDeclarations DEF EvaluationInv, SameDeclarations
  <1> QED
    BY <1>1, <1>2, Zenon

-----------------------------------------------------------------------------
(* Evidence that fades.                                                     *)

\* What is stated in R is stated in S, on every slot of the targets of valid.
Fades(S, R, valid) ==
    \A t \in valid : \A s, ok : Stated(R, t, s, ok) => Stated(S, t, s, ok)

\* A verdict or a state of a snapshot is also the one of another, or open.
Weaker(v, w) == w = v \/ w = "unproven"

(* What the state of a capability is read off.                              *)
LEMMA StateFromVerdicts ==
    ASSUME NEW reqs, NEW vs, NEW ws, \A r \in reqs : vs[r].verdict = ws[r].verdict
    PROVE  StateOf(reqs, vs) = StateOf(reqs, ws)
  <1>1. {x \in reqs : vs[x].verdict = "unmet"} = {x \in reqs : ws[x].verdict = "unmet"}
    OBVIOUS
  <1>2. Unmet(reqs, vs) = Unmet(reqs, ws)
    BY <1>1, Zenon DEF Unmet
  <1>3. (\E r \in reqs : vs[r].verdict = "unproven") <=> \E r \in reqs : ws[r].verdict = "unproven"
    OBVIOUS
  <1> DEFINE U == Unmet(reqs, vs)
             open == \E r \in reqs : vs[r].verdict = "unproven"
             state == IF open THEN "UNKNOWN" ELSE IF U = {} THEN "AVAILABLE"
                      ELSE IF Cardinality(U) > 1 THEN "UNKNOWN" ELSE CHOOSE i \in U : TRUE
  <1>4. StateOf(reqs, vs) = state
    BY Zenon DEF StateOf
  <1>5. StateOf(reqs, ws) = IF \E r \in reqs : ws[r].verdict = "unproven" THEN "UNKNOWN"
                            ELSE IF Unmet(reqs, ws) = {} THEN "AVAILABLE"
                            ELSE IF Cardinality(Unmet(reqs, ws)) > 1 THEN "UNKNOWN"
                            ELSE CHOOSE i \in Unmet(reqs, ws) : TRUE
    BY Zenon DEF StateOf
  <1>6. StateOf(reqs, ws) = state
    <2>1. Unmet(reqs, ws) = U /\ ((\E r \in reqs : ws[r].verdict = "unproven") <=> open)
      BY <1>2, <1>3
    <2> HIDE DEF U, open
    <2> QED
      BY <1>5, <2>1
  <1> HIDE DEF state
  <1> QED
    BY <1>4, <1>6

(* A predicate or an envelope over fading evidence keeps its verdict or is   *)
(* unproven.                                                                *)
LEMMA FadingEvidence ==
    ASSUME NEW S, NEW R, IsSnapshot(S), IsSnapshot(R), SameDeclarations(S, R),
           NEW valid, Fades(S, R, valid), NEW t \in valid
    PROVE  /\ \A p : Weaker(PredicateVerdict(S, t, p).verdict, PredicateVerdict(R, t, p).verdict)
           /\ \A e : EnvelopeResult(R, t, e).state \in {EnvelopeResult(S, t, e).state, "UNKNOWN"}
  <1>1. \A s, ok : Stated(R, t, s, ok) => Stated(S, t, s, ok)
    BY Zenon DEF Fades
  <1>2. ASSUME NEW p PROVE Weaker(PredicateVerdict(S, t, p).verdict, PredicateVerdict(R, t, p).verdict)
    <2>1. /\ PredicateVerdict(R, t, p).verdict \in Verdicts
          /\ PredicateVerdict(R, t, p).verdict = "accepted" <=> Stated(R, t, p.ref, p.ok)
          /\ PredicateVerdict(R, t, p).verdict = "unmet" <=> Stated(R, t, p.ref, Admitted \ p.ok)
      BY PredicateMeans
    <2>2. /\ PredicateVerdict(S, t, p).verdict = "accepted" <=> Stated(S, t, p.ref, p.ok)
          /\ PredicateVerdict(S, t, p).verdict = "unmet" <=> Stated(S, t, p.ref, Admitted \ p.ok)
      BY PredicateMeans
    <2> DEFINE v == PredicateVerdict(S, t, p).verdict
               w == PredicateVerdict(R, t, p).verdict
    <2>3. (w = "accepted" => v = "accepted") /\ (w = "unmet" => v = "unmet")
      BY <1>1, <2>1, <2>2, Zenon
    <2>4. w \in Verdicts
      BY <2>1
    <2> HIDE DEF v, w
    <2> QED
      BY <2>3, <2>4 DEF v, w, Weaker, Verdicts
  <1>3. ASSUME NEW e PROVE EnvelopeResult(R, t, e).state \in {EnvelopeResult(S, t, e).state, "UNKNOWN"}
    <2> DEFINE ps == ContractOf(S, t).envs[e]
    <2>1. ContractOf(R, t).envs[e] = ps
      BY SameGraph
    <2>2. /\ EnvelopeResult(S, t, e).state = "SATISFIED" <=>
               \A p \in ps : PredicateVerdict(S, t, p).verdict = "accepted"
          /\ EnvelopeResult(S, t, e).state = "UNSATISFIED" <=>
               \E p \in ps : PredicateVerdict(S, t, p).verdict = "unmet"
      BY EnvelopeMeans
    <2>3. /\ EnvelopeResult(R, t, e).state \in {"SATISFIED", "UNSATISFIED", "UNKNOWN"}
          /\ EnvelopeResult(R, t, e).state = "SATISFIED" <=>
               \A p \in ps : PredicateVerdict(R, t, p).verdict = "accepted"
          /\ EnvelopeResult(R, t, e).state = "UNSATISFIED" <=>
               \E p \in ps : PredicateVerdict(R, t, p).verdict = "unmet"
      BY <2>1, EnvelopeMeans
    <2> DEFINE a == EnvelopeResult(S, t, e).state
               b == EnvelopeResult(R, t, e).state
               v(p) == PredicateVerdict(S, t, p).verdict
               w(p) == PredicateVerdict(R, t, p).verdict
    <2>4. \A p : (w(p) = "accepted" => v(p) = "accepted") /\ (w(p) = "unmet" => v(p) = "unmet")
      BY <1>2 DEF Weaker
    <2>5. (b = "SATISFIED" => a = "SATISFIED") /\ (b = "UNSATISFIED" => a = "UNSATISFIED")
      BY <2>2, <2>3, <2>4, Zenon
    <2>6. b \in {"SATISFIED", "UNSATISFIED", "UNKNOWN"}
      BY <2>3, Zenon
    <2> HIDE DEF a, b
    <2> QED
      BY <2>5, <2>6 DEF a, b
  <1> QED
    BY <1>2, <1>3

(* A requirement keeps its verdict or is unproven when the capabilities it   *)
(* needs keep their states or are UNKNOWN.                                  *)
LEMMA FadingRequirement ==
    ASSUME NEW S, NEW R, IsSnapshot(S), IsSnapshot(R), SameDeclarations(S, R),
           NEW valid \in SUBSET Resolved(S), Fades(S, R, valid),
           NEW n \in Nodes(S, valid), NEW r \in Reqs(S, n), NEW known, NEW faded,
           \A m \in EdgesOf(S, valid, n) : faded[m].state \in {known[m].state, "UNKNOWN"}
    PROVE  Weaker(RequirementVerdict(S, valid, known, n, r).verdict,
                  RequirementVerdict(R, valid, faded, n, r).verdict)
  <1> DEFINE t == TargetOf(S, n[1])
             v == RequirementVerdict(S, valid, known, n, r)
             w == RequirementVerdict(R, valid, faded, n, r)
             local == <<n[1], r.ref>>
             remote == <<t.deps[r.ref].uid, r.cap>>
  <1>1. t \in valid /\ r.kind \in {"assertion", "envelope", "local", "dependency"}
    BY NodeFacts DEF Reqs
  <1>2. TargetOf(R, n[1]) = t /\ (Resolves(R, valid, t, r) <=> Resolves(S, valid, t, r))
    BY SameGraph
  <1>3. /\ \A p : Weaker(PredicateVerdict(S, t, p).verdict, PredicateVerdict(R, t, p).verdict)
        /\ \A e : EnvelopeResult(R, t, e).state \in {EnvelopeResult(S, t, e).state, "UNKNOWN"}
    BY <1>1, FadingEvidence
  <1>4. /\ r.kind = "local" => local \in EdgesOf(S, valid, n)
        /\ r.kind = "dependency" /\ Resolves(S, valid, t, r) => remote \in EdgesOf(S, valid, n)
    BY NeedsAreEdges DEF Reqs
  <1>5. \A a, c : Verdict(a, c, r).verdict = a
    BY DEF Verdict
  <1>6. ASSUME NEW a, NEW b \in {a, "UNKNOWN"}
        PROVE  Weaker(CapabilityVerdict(r, a).verdict, CapabilityVerdict(r, b).verdict)
    <2>1. \E c : CapabilityVerdict(r, "UNKNOWN") = Verdict("unproven", c, r)
      BY DEF CapabilityVerdict
    <2>2. CapabilityVerdict(r, "UNKNOWN").verdict = "unproven"
      BY <1>5, <2>1, Zenon
    <2> QED
      BY <2>2 DEF Weaker
  <1>7. CASE r.kind = "assertion"
    <2>1. v = PredicateVerdict(S, t, r) /\ w = PredicateVerdict(R, t, r)
      BY <1>2, <1>7 DEF RequirementVerdict
    <2> QED
      BY <1>3, <2>1, Zenon
  <1>8. CASE r.kind = "envelope"
    <2> DEFINE a == EnvelopeResult(S, t, r.ref).state
               b == EnvelopeResult(R, t, r.ref).state
    <2>1. v = EnvelopeVerdict(a, r) /\ w = EnvelopeVerdict(b, r)
      BY <1>2, <1>8 DEF RequirementVerdict
    <2>2. b = a \/ b = "UNKNOWN"
      BY <1>3
    <2>3. EnvelopeVerdict("UNKNOWN", r).verdict = "unproven"
      BY DEF EnvelopeVerdict, Verdict
    <2> HIDE DEF a, b
    <2> QED
      BY <2>1, <2>2, <2>3, Zenon DEF Weaker
  <1>9. CASE r.kind = "local"
    <2>1. v = CapabilityVerdict(r, known[local].state) /\ w = CapabilityVerdict(r, faded[local].state)
      BY <1>9 DEF RequirementVerdict
    <2>2. faded[local].state \in {known[local].state, "UNKNOWN"}
      BY <1>4, <1>9, Zenon
    <2> HIDE DEF v, w, local
    <2> QED
      BY <1>6, <2>1, <2>2 DEF v, w
  <1>10. CASE r.kind = "dependency"
    <2>1. CASE Resolves(S, valid, t, r)
      <3>1. v = CapabilityVerdict(r, known[remote].state) /\ w = CapabilityVerdict(r, faded[remote].state)
        BY <1>2, <1>10, <2>1 DEF RequirementVerdict
      <3>2. faded[remote].state \in {known[remote].state, "UNKNOWN"}
        BY <1>4, <1>10, <2>1, Zenon
      <3> HIDE DEF v, w, remote
      <3> QED
        BY <1>6, <3>1, <3>2 DEF v, w
    <2>2. CASE ~Resolves(S, valid, t, r)
      <3>1. \E c : w = Verdict("unproven", c, r)
        BY <1>2, <1>10, <2>2 DEF RequirementVerdict
      <3> QED
        BY <1>5, <3>1, Zenon DEF Weaker
    <2> QED
      BY <2>1, <2>2
  <1> QED
    BY <1>1, <1>7, <1>8, <1>9, <1>10

(* Acyclic capabilities over fading evidence keep their states or become    *)
(* UNKNOWN.                                                                 *)
LEMMA FadingStates ==
    ASSUME NEW S, NEW R, IsSnapshot(S), IsSnapshot(R), SameDeclarations(S, R),
           NEW valid \in SUBSET Resolved(S), Acyclic(S, valid), Fades(S, R, valid),
           NEW n \in Nodes(S, valid)
    PROVE  Capabilities(R, valid)[n].state \in {Capabilities(S, valid)[n].state, "UNKNOWN"}
  <1> DEFINE known == Capabilities(S, valid)
             faded == Capabilities(R, valid)
             nodes == Nodes(S, valid)
             X == {m \in nodes : faded[m].state \notin {known[m].state, "UNKNOWN"}}
  <1>1. /\ Nodes(R, valid) = nodes /\ \A m : EdgesOf(R, valid, m) = EdgesOf(S, valid, m)
        /\ \A uid : TargetOf(R, uid) = TargetOf(S, uid)
        /\ \A t : ContractOf(R, t) = ContractOf(S, t)
    BY SameGraph
  <1>2. Acyclic(R, valid) /\ valid \in SUBSET Resolved(R)
    <2>1. Resolved(R) = Resolved(S)
      BY SameValid
    <2> QED
      BY <1>1, <2>1, Zenon DEF Acyclic
  <1>3. \A m : Reqs(R, m) = Reqs(S, m)
    BY <1>1, Zenon DEF Reqs
  <1>4. ASSUME NEW m \in X PROVE EdgesOf(S, valid, m) \cap X # {}
    <2> SUFFICES ASSUME EdgesOf(S, valid, m) \cap X = {} PROVE FALSE
      OBVIOUS
    <2> DEFINE reqs == Reqs(S, m)
               vs == VerdictsOf(S, valid, known, m)
               ws == VerdictsOf(R, valid, faded, m)
    <2>1. m \in nodes /\ faded[m].state \notin {known[m].state, "UNKNOWN"}
      BY <1>4
    <2>2. EdgesOf(S, valid, m) \subseteq nodes
      BY <2>1, EdgesInside
    <2>3. \A k \in EdgesOf(S, valid, m) : faded[k].state \in {known[k].state, "UNKNOWN"}
      BY <2>2
    <2>4. ASSUME NEW r \in reqs PROVE Weaker(vs[r].verdict, ws[r].verdict)
      <3>1. vs[r] = RequirementVerdict(S, valid, known, m, r) /\ ws[r] = RequirementVerdict(R, valid, faded, m, r)
        BY <1>3 DEF VerdictsOf
      <3> HIDE DEF known, faded
      <3>2. Weaker(RequirementVerdict(S, valid, known, m, r).verdict,
                   RequirementVerdict(R, valid, faded, m, r).verdict)
        BY <2>1, <2>3, FadingRequirement
      <3> QED
        BY <3>1, <3>2, Zenon
    <2>5. known[m].state = StateOf(reqs, vs)
      BY <2>1, ResultFields
    <2>6. faded[m].state = StateOf(reqs, ws)
      <3>1. m \in Nodes(R, valid)
        BY <1>1, <2>1, Zenon
      <3>2. faded[m].state = StateOf(Reqs(R, m), ws)
        BY <1>2, <3>1, ResultFields
      <3> QED
        BY <1>3, <3>2, Zenon
    <2>7. CASE \E r \in reqs : ws[r].verdict = "unproven"
      <3>1. \A rs, us : (\E r \in rs : us[r].verdict = "unproven") => StateOf(rs, us) = "UNKNOWN"
        BY Zenon DEF StateOf
      <3>2. StateOf(reqs, ws) = "UNKNOWN"
        BY <2>7, <3>1, Zenon
      <3> QED
        BY <2>1, <2>6, <3>2
    <2>8. CASE \A r \in reqs : ws[r].verdict # "unproven"
      <3>1. \A r \in reqs : vs[r].verdict = ws[r].verdict
        BY <2>4, <2>8, Zenon DEF Weaker
      <3> HIDE DEF reqs, vs, ws
      <3>2. StateOf(reqs, vs) = StateOf(reqs, ws)
        BY <3>1, StateFromVerdicts
      <3> QED
        BY <2>1, <2>5, <2>6, <3>2
    <2> QED
      BY <2>7, <2>8
  <1>5. X \in SUBSET nodes
    OBVIOUS
  <1>6. X = {}
    <2> HIDE DEF X
    <2> QED
      BY <1>4, <1>5, Zenon DEF Acyclic
  <1> QED
    BY <1>6

(* Statements only fade with time.                                          *)
LEMMA AgedFades ==
    ASSUME NEW S, IsSnapshot(S), NEW valid
    PROVE  Fades(S, Aged(S), valid)
  <1> DEFINE R == Aged(S)
             older(o) == [o EXCEPT !.age = @ + 1]
  <1> SUFFICES ASSUME NEW t \in valid, NEW s, NEW ok, Stated(R, t, s, ok) PROVE Stated(S, t, s, ok)
    BY Zenon DEF Fades
  <1>1. R.obs = {older(o) : o \in S.obs}
    BY DEF Aged, IsSnapshot
  <1>2. \A o \in S.obs : /\ IsStatement(o) /\ IsStatement(older(o))
                         /\ o.age \in Nat /\ o.until \in Int /\ older(o).age = o.age + 1
                         /\ older(o).name = o.name /\ older(o).slot = o.slot /\ older(o).uid = o.uid
                         /\ older(o).rid = o.rid /\ older(o).contract = o.contract
                         /\ older(o).provider = o.provider /\ older(o).kind = o.kind
                         /\ older(o).val = o.val /\ older(o).until = o.until
    <2>1. \A o \in S.obs : IsStatement(o)
      BY DEF IsSnapshot
    <2> QED
      BY <2>1 DEF IsStatement
  <1> HIDE DEF older, R
  <1>3. \A o \in S.obs : older(o) \in About(R, t, s) <=> o \in About(S, t, s)
    <2> TAKE o \in S.obs
    <2>1. older(o) \in R.obs
      BY <1>1
    <2>2. older(o).age >= 0 /\ o.age >= 0
      BY <1>2
    <2> QED
      BY <1>2, <2>1, <2>2 DEF About
  <1>4. PICK w \in About(R, t, s) :
           /\ w.kind = "value" /\ w.val \in ok \cap Admitted
           /\ \A x \in About(R, t, s) : x.age >= w.age
           /\ \A x \in About(R, t, s) :
                 x.age = w.age => /\ x.kind = "value" /\ x.val = w.val
                                  /\ x.age <= MaxAge /\ x.age < x.until
    BY Zenon DEF Stated
  <1>5. PICK o \in S.obs : w = older(o)
    BY <1>1 DEF About
  <1>6. o \in About(S, t, s) /\ o.kind = "value" /\ o.val \in ok \cap Admitted
    BY <1>2, <1>3, <1>4, <1>5
  <1>7. ASSUME NEW x \in About(S, t, s)
        PROVE  /\ x.age >= o.age
               /\ x.age = o.age => /\ x.kind = "value" /\ x.val = o.val
                                   /\ x.age <= MaxAge /\ x.age < x.until
    <2>1. x \in S.obs /\ older(x) \in About(R, t, s)
      BY <1>3 DEF About
    <2>2. /\ older(x).age >= w.age
          /\ older(x).age = w.age => /\ older(x).kind = "value" /\ older(x).val = w.val
                                     /\ older(x).age <= MaxAge /\ older(x).age < older(x).until
      BY <1>4, <2>1
    <2>3. /\ older(x).age = x.age + 1 /\ w.age = o.age + 1 /\ x.age \in Nat /\ o.age \in Nat /\ x.until \in Int
          /\ older(x).kind = x.kind /\ older(x).val = x.val /\ w.val = o.val /\ older(x).until = x.until
      BY <1>2, <1>5, <2>1
    <2>4. MaxAge \in Nat
      BY InputsAssumption
    <2> QED
      BY <2>2, <2>3, <2>4
  <1> QED
    BY <1>6, <1>7, Zenon DEF Stated

(* So they do when older ones are left out.                                 *)
LEMMA AfterFades ==
    ASSUME NEW S, IsSnapshot(S), NEW valid, NEW ended \in Nat
    PROVE  /\ Fades(S, After(S, ended), valid)
           /\ \A t, s : \A o \in About(After(S, ended), t, s) : o \in About(S, t, s) /\ o.age < ended
  <1> DEFINE R == After(S, ended)
  <1>1. R.obs = {o \in S.obs : o.age < ended}
    BY DEF After, IsSnapshot
  <1>2. \A o \in S.obs : o.age \in Nat
    BY DEF IsSnapshot, IsStatement
  <1> HIDE DEF R
  <1>3. \A t, s, o : o \in About(R, t, s) <=> o \in About(S, t, s) /\ o.age < ended
    BY <1>1 DEF About
  <1>4. ASSUME NEW t \in valid, NEW s, NEW ok, Stated(R, t, s, ok) PROVE Stated(S, t, s, ok)
    <2>1. PICK w \in About(R, t, s) :
             /\ w.kind = "value" /\ w.val \in ok \cap Admitted
             /\ \A x \in About(R, t, s) : x.age >= w.age
             /\ \A x \in About(R, t, s) :
                   x.age = w.age => /\ x.kind = "value" /\ x.val = w.val
                                    /\ x.age <= MaxAge /\ x.age < x.until
      BY <1>4, Zenon DEF Stated
    <2>2. w \in About(S, t, s) /\ w.age < ended /\ w.age \in Nat
      BY <1>2, <1>3 DEF About
    <2>3. \A x \in About(S, t, s) : x.age \in Nat
      BY <1>2 DEF About
    <2>4. \A x \in About(S, t, s) : x.age >= w.age /\ (x.age = w.age => x \in About(R, t, s))
      BY <1>3, <2>1, <2>2, <2>3
    <2> QED
      BY <2>1, <2>2, <2>4, Zenon DEF Stated
  <1> QED
    BY <1>3, <1>4, Zenon DEF Fades, R

(* A statement that is not news neither adds to what is stated nor takes    *)
(* from it.                                                                 *)
LEMMA OldNewsFades ==
    ASSUME NEW S, IsSnapshot(S), NEW o, IsStatement(o), OldNews(S, o), NEW valid \in SUBSET S.targets
    PROVE  LET R == [S EXCEPT !.obs = @ \cup {o}] IN Fades(S, R, valid) /\ Fades(R, S, valid)
  <1> DEFINE R == [S EXCEPT !.obs = @ \cup {o}]
  <1>1. R.obs = S.obs \cup {o}
    BY DEF IsSnapshot
  <1>2. \A x \in R.obs : x.age \in Nat
    BY <1>1 DEF IsSnapshot, IsStatement
  <1>3. \A t \in S.targets : o \in About(R, t, o.slot) => \E x \in About(S, t, o.slot) : x.age < o.age
    BY Zenon DEF OldNews
  <1> HIDE DEF R
  <1>4. ASSUME NEW t \in valid, NEW s
        PROVE  /\ About(S, t, s) \subseteq About(R, t, s)
               /\ \A y \in About(R, t, s) : /\ y.age \in Nat
                                            /\ y \in About(S, t, s) \/ \E x \in About(S, t, s) : x.age < y.age
    <2>1. \A y : y \in About(R, t, s) <=> y \in About(S, t, s) \/ (y = o /\ o \in About(R, t, s))
      BY <1>1 DEF About
    <2>2. \A y \in About(R, t, s) : y.age \in Nat /\ y.slot = s
      BY <1>2 DEF About
    <2>3. o \in About(R, t, s) => \E x \in About(S, t, s) : x.age < o.age
      BY <1>3, <2>2
    <2> QED
      BY <2>1, <2>2, <2>3
  <1>5. ASSUME NEW t \in valid, NEW s, NEW ok PROVE Stated(R, t, s, ok) <=> Stated(S, t, s, ok)
    <2> DEFINE A == About(S, t, s)
               B == About(R, t, s)
               last(C, w) == /\ w.kind = "value" /\ w.val \in ok \cap Admitted
                             /\ \A x \in C : x.age >= w.age
                             /\ \A x \in C : x.age = w.age => /\ x.kind = "value" /\ x.val = w.val
                                                              /\ x.age <= MaxAge /\ x.age < x.until
    <2>1. (Stated(R, t, s, ok) <=> \E w \in B : last(B, w)) /\ (Stated(S, t, s, ok) <=> \E w \in A : last(A, w))
      BY Zenon DEF Stated
    <2>2. A \subseteq B /\ \A y \in B : y.age \in Nat /\ (y \in A \/ \E x \in A : x.age < y.age)
      BY <1>4
    <2> HIDE DEF A, B
    <2>3. ASSUME NEW w \in B, last(B, w) PROVE w \in A /\ last(A, w)
      <3>1. w \in A
        <4> SUFFICES ASSUME NEW x \in A, x.age < w.age PROVE FALSE
          BY <2>2
        <4>1. x \in B /\ x.age \in Nat /\ w.age \in Nat /\ x.age >= w.age
          BY <2>2, <2>3
        <4> QED
          BY <4>1
      <3> QED
        BY <2>2, <2>3, <3>1
    <2>4. ASSUME NEW w \in A, last(A, w) PROVE w \in B /\ last(B, w)
      <3>1. w \in B /\ w.age \in Nat
        BY <2>2
      <3>2. ASSUME NEW x \in B PROVE x.age >= w.age /\ (x.age = w.age => x \in A)
        <4>1. CASE x \in A
          BY <2>4, <4>1
        <4>2. CASE \E y \in A : y.age < x.age
          <5>1. PICK y \in A : y.age < x.age
            BY <4>2
          <5>2. y.age >= w.age /\ y.age \in Nat /\ x.age \in Nat
            BY <2>2, <2>4, <5>1
          <5> QED
            BY <3>1, <5>1, <5>2
        <4> QED
          BY <2>2, <4>1, <4>2
      <3>3. /\ w.kind = "value" /\ w.val \in ok \cap Admitted
            /\ \A x \in A : x.age = w.age => /\ x.kind = "value" /\ x.val = w.val
                                             /\ x.age <= MaxAge /\ x.age < x.until
        BY <2>4
      <3> QED
        BY <3>1, <3>2, <3>3, Zenon
    <2> HIDE DEF last
    <2> QED
      BY <2>1, <2>3, <2>4, Zenon
  <1> QED
    BY <1>5, Zenon DEF Fades, R

(* Where the evidence fades, so do the states shown.                        *)
LEMMA ShownFades ==
    ASSUME EvaluationInv, NEW R, IsSnapshot(R), SameDeclarations(snap, R),
           NEW n \in DOMAIN result.caps
    PROVE  LET now == result.caps[n].state
               then == Evaluate(R).caps[n].state
           IN /\ n \in DOMAIN Evaluate(R).caps
              /\ Fades(snap, R, Valid(snap)) => then \in {now, "UNKNOWN"}
              /\ Fades(R, snap, Valid(snap)) => now \in {then, "UNKNOWN"}
  <1> DEFINE valid == Valid(snap)
  <1>1. IsSnapshot(snap) /\ result = Evaluate(snap)
    BY DEF EvaluationInv
  <1>2. Acyclic(snap, valid) /\ valid \in SUBSET Resolved(snap)
    BY <1>1, ShownAcyclic, ValidResolved
  <1>3. /\ Nodes(R, valid) = Nodes(snap, valid) /\ \A m : EdgesOf(R, valid, m) = EdgesOf(snap, valid, m)
        /\ Valid(R) = valid /\ Resolved(R) = Resolved(snap)
    BY SameGraph, SameValid
  <1>4. Acyclic(R, valid) /\ valid \in SUBSET Resolved(R)
    BY <1>2, <1>3, Zenon DEF Acyclic
  <1>5. result.caps = Capabilities(snap, valid) /\ Evaluate(R).caps = Capabilities(R, valid)
    BY <1>1, <1>3 DEF Evaluate, Assess
  <1>6. DOMAIN Capabilities(snap, valid) = Nodes(snap, valid) /\ DOMAIN Capabilities(R, valid) = Nodes(snap, valid)
    BY <1>1, <1>2, <1>3, <1>4, ResultsSolve
  <1>7. n \in Nodes(snap, valid) /\ n \in Nodes(R, valid)
    BY <1>3, <1>5, <1>6, Zenon
  <1> HIDE DEF valid
  <1>8. Fades(snap, R, valid) => Capabilities(R, valid)[n].state \in {Capabilities(snap, valid)[n].state, "UNKNOWN"}
    BY <1>1, <1>2, <1>7, FadingStates
  <1>9. SameDeclarations(R, snap)
    BY Zenon DEF SameDeclarations
  <1>10. Fades(R, snap, valid) => Capabilities(snap, valid)[n].state \in {Capabilities(R, valid)[n].state, "UNKNOWN"}
    BY <1>1, <1>4, <1>7, <1>9, FadingStates
  <1> QED
    BY <1>5, <1>6, <1>7, <1>8, <1>10, Zenon DEF valid

\* What a step may do to the state of a capability.
NewsMoves ==
    \A n \in DOMAIN result.caps :
        result'.caps[n].state # result.caps[n].state =>
        \/ snap' = Aged(snap) /\ result'.caps[n].state = "UNKNOWN"
        \/ \E o \in snap'.obs \ snap.obs : ~OldNews(snap, o)

(* A step that changes a capability is news, or time made it UNKNOWN.        *)
LEMMA NewsStep == EvaluationInv /\ [Next]_vars => NewsMoves
  <1> SUFFICES ASSUME EvaluationInv, [Next]_vars, NEW n \in DOMAIN result.caps,
                      result'.caps[n].state # result.caps[n].state
               PROVE  \/ snap' = Aged(snap) /\ result'.caps[n].state = "UNKNOWN"
                      \/ \E o \in snap'.obs \ snap.obs : ~OldNews(snap, o)
    BY Zenon DEF NewsMoves
  <1>1. IsSnapshot(snap) /\ SameDeclarations(snap, snap')
    BY WhatSteps DEF EvaluationInv
  <1>2. CASE snap' = snap /\ result' = result
    BY <1>2
  <1>3. CASE snap' = Aged(snap) /\ result' = Evaluate(Aged(snap))
    <2>1. IsSnapshot(Aged(snap)) /\ Fades(snap, Aged(snap), Valid(snap)) /\ SameDeclarations(snap, Aged(snap))
      BY <1>1, SnapshotKept, AgedFades, StepsKeepDeclarations
    <2>2. Evaluate(Aged(snap)).caps[n].state \in {result.caps[n].state, "UNKNOWN"}
      BY <2>1, ShownFades
    <2> QED
      BY <1>3, <2>2
  <1>4. ASSUME NEW o \in Statements, o \notin snap.obs, snap' = [snap EXCEPT !.obs = @ \cup {o}],
               result' = Evaluate([snap EXCEPT !.obs = @ \cup {o}])
        PROVE  \E x \in snap'.obs \ snap.obs : ~OldNews(snap, x)
    <2> DEFINE R == [snap EXCEPT !.obs = @ \cup {o}]
    <2>1. snap'.obs = snap.obs \cup {o}
      BY <1>1, <1>4 DEF IsSnapshot
    <2> SUFFICES ASSUME OldNews(snap, o) PROVE FALSE
      BY <1>4, <2>1
    <2>2. IsStatement(o) /\ Valid(snap) \in SUBSET snap.targets
      BY InputsAssumption, ValidResolved DEF Resolved
    <2>3. Fades(snap, R, Valid(snap)) /\ Fades(R, snap, Valid(snap))
      BY <1>1, <2>2, OldNewsFades
    <2>4. IsSnapshot(R) /\ SameDeclarations(snap, R)
      BY <1>1, SnapshotKept, StepsKeepDeclarations
    <2> HIDE DEF R
    <2>5. /\ Evaluate(R).caps[n].state \in {result.caps[n].state, "UNKNOWN"}
          /\ result.caps[n].state \in {Evaluate(R).caps[n].state, "UNKNOWN"}
      BY <2>3, <2>4, ShownFades
    <2>6. Evaluate(R).caps[n].state = result.caps[n].state
      BY <2>5
    <2> QED
      BY <1>4, <2>6 DEF R
  <1>5. \/ snap' = snap /\ result' = result
        \/ snap' = Aged(snap) /\ result' = Evaluate(Aged(snap))
        \/ \E o \in Statements : /\ o \notin snap.obs /\ snap' = [snap EXCEPT !.obs = @ \cup {o}]
                                 /\ result' = Evaluate([snap EXCEPT !.obs = @ \cup {o}])
    BY WhatSteps
  <1> QED
    BY <1>2, <1>3, <1>4, <1>5, Zenon

(* A capability changes only by news: time can only make it UNKNOWN, and a   *)
(* statement that is not about the exact current binding, or is older than   *)
(* one already known, changes nothing.                                       *)
THEOREM NewsOnlyMoves == Spec => OnlyNewsMoves
  <1>1. Init => EvaluationInv
    BY EvaluationStep
  <1>2. EvaluationInv /\ [Next]_vars => EvaluationInv'
    BY EvaluationStep
  <1>3. EvaluationInv /\ [Next]_vars =>
          [\A n \in DOMAIN result.caps :
              result'.caps[n].state # result.caps[n].state =>
              \/ snap' = Aged(snap) /\ result'.caps[n].state = "UNKNOWN"
              \/ \E o \in snap'.obs \ snap.obs : ~OldNews(snap, o)]_vars
    BY NewsStep, Zenon DEF NewsMoves
  <1> QED
    BY <1>1, <1>2, <1>3, PTL DEF Spec, OnlyNewsMoves

-----------------------------------------------------------------------------
(* Recovery.                                                                *)

(* What the recovery verdict on an execution says.                          *)
LEMMA RecoveryMeans ==
    ASSUME NEW e, NEW S, NEW post, e.ended \in Nat, e.window \in Nat,
           \A c \in e.expected : <<e.binding.uid, c>> \in DOMAIN post.caps
    PROVE  LET verdict == AssessRecovery(e, S, post)
               state(c) == post.caps[<<e.binding.uid, c>>].state
           IN /\ verdict = "Recovered" => \A c \in e.expected : state(c) = "AVAILABLE"
              /\ verdict = "Partial" => \E c \in e.expected : state(c) = "AVAILABLE"
              /\ verdict = "NotRecovered" =>
                    \E c \in e.expected : state(c) \in {"DEGRADED", "UNAVAILABLE"}
              /\ verdict \in {"Partial", "NotRecovered", "Unconfirmed"} => e.ended >= e.window
  <1> DEFINE uid == e.binding.uid
             verdict == AssessRecovery(e, S, post)
             state(c) == IF <<uid, c>> \in DOMAIN post.caps THEN post.caps[<<uid, c>>].state ELSE "UNKNOWN"
             recovered == {c \in e.expected : state(c) = "AVAILABLE"}
             gone == \/ SameUID(S, uid) = {} \/ BindingOf(TargetOf(S, uid)) # e.binding
                     \/ uid \notin {t.uid : t \in post.valid}
             failed == \E c \in e.expected : state(c) \in {"DEGRADED", "UNAVAILABLE"}
  <1>1. verdict = IF gone THEN "Inapplicable"
                  ELSE CASE recovered = e.expected -> "Recovered"
                         [] recovered # e.expected /\ e.ended < e.window -> "Pending"
                         [] OTHER -> IF recovered # {} THEN "Partial"
                                     ELSE IF failed THEN "NotRecovered" ELSE "Unconfirmed"
    BY Zenon DEF AssessRecovery
  <1>2. \A c \in e.expected : state(c) = post.caps[<<uid, c>>].state
    BY Zenon
  <1>3. /\ recovered = e.expected => \A c \in e.expected : state(c) = "AVAILABLE"
        /\ recovered # {} => \E c \in e.expected : state(c) = "AVAILABLE"
    <2> HIDE DEF state
    <2> QED
      OBVIOUS
  <1> DEFINE all == recovered = e.expected
             some == recovered # {}
             early == e.ended < e.window
  <1>4. verdict = IF gone THEN "Inapplicable"
                  ELSE CASE all -> "Recovered"
                         [] ~all /\ early -> "Pending"
                         [] OTHER -> IF some THEN "Partial"
                                     ELSE IF failed THEN "NotRecovered" ELSE "Unconfirmed"
    BY <1>1, Zenon
  <1>5. early \/ e.ended >= e.window
    OBVIOUS
  <1> HIDE DEF gone, failed, all, some, early, verdict
  <1>6. /\ verdict = "Recovered" => all
        /\ verdict = "Partial" => some /\ ~early
        /\ verdict = "NotRecovered" => failed /\ ~early
        /\ verdict = "Unconfirmed" => ~early
    BY <1>4
  <1>7. failed => \E c \in e.expected : post.caps[<<uid, c>>].state \in {"DEGRADED", "UNAVAILABLE"}
    BY <1>2, Zenon DEF failed
  <1>8. /\ all => \A c \in e.expected : post.caps[<<uid, c>>].state = "AVAILABLE"
        /\ some => \E c \in e.expected : post.caps[<<uid, c>>].state = "AVAILABLE"
    BY <1>2, <1>3, Zenon DEF all, some
  <1>9. verdict \in {"Partial", "NotRecovered", "Unconfirmed"} => e.ended >= e.window
    BY <1>5, <1>6
  <1> QED
    BY <1>6, <1>7, <1>8, <1>9, Zenon DEF verdict

(* A capability shown AVAILABLE on what was observed after an instant is    *)
(* proven by the statements made after it.                                  *)
LEMMA RestsOnLater ==
    ASSUME NEW S, IsSnapshot(S), NEW valid \in SUBSET Resolved(S), Acyclic(S, valid), NEW ended \in Nat,
           NEW n \in Nodes(S, valid),
           Capabilities(After(S, ended), valid)[n].state = "AVAILABLE"
    PROVE  n \in Proven(MadeSince(S, ended), valid)
  <1> DEFINE R == After(S, ended)
  <1>1. IsSnapshot(R) /\ SameDeclarations(S, R)
    BY SnapshotKept, StepsKeepDeclarations
  <1>2. /\ Nodes(R, valid) = Nodes(S, valid) /\ \A m : EdgesOf(R, valid, m) = EdgesOf(S, valid, m)
        /\ Resolved(R) = Resolved(S)
    BY <1>1, SameGraph, SameValid
  <1>3. Acyclic(R, valid) /\ valid \in SUBSET Resolved(R) /\ n \in Nodes(R, valid)
    BY <1>2, Zenon DEF Acyclic
  <1>4. R = MadeSince(S, ended)
    BY Zenon DEF After, MadeSince
  <1>5. Capabilities(R, valid)[n].state = "AVAILABLE"
    OBVIOUS
  <1> HIDE DEF R
  <1>6. Available(R, valid, Capabilities(R, valid)) = Proven(R, valid)
    BY <1>1, <1>3, AvailableProven
  <1>7. n \in Available(R, valid, Capabilities(R, valid))
    BY <1>3, <1>5 DEF Available
  <1> QED
    BY <1>4, <1>6, <1>7, Zenon

(* Recovery is earned once the cycles are exact.                            *)
LEMMA RecoveryHolds == EvaluationInv => RecoveryEarned
  <1> SUFFICES ASSUME EvaluationInv, NEW ended \in 1 .. Horizon, NEW t \in result.valid,
                      NEW E \in (SUBSET DOMAIN ContractOf(snap, t).caps) \ {{}}
               PROVE  LET post == Evaluate(After(snap, ended))
                          e == [binding |-> BindingOf(t), ended |-> ended, expected |-> E, window |-> RecoveryWindow]
                          verdict == AssessRecovery(e, snap, post)
                          now(c) == result.caps[<<t.uid, c>>].state
                          proven == Proven(MadeSince(snap, ended), OnNoCycle(snap))
                      IN /\ verdict = "Recovered" =>
                               \A c \in E : now(c) = "AVAILABLE" /\ <<t.uid, c>> \in proven
                         /\ verdict = "Partial" => \E c \in E : now(c) = "AVAILABLE"
                         /\ verdict = "NotRecovered" => \E c \in E : now(c) \in {"DEGRADED", "UNAVAILABLE"}
                         /\ verdict \in {"Partial", "NotRecovered", "Unconfirmed"} => ended >= RecoveryWindow
    BY Zenon DEF RecoveryEarned
  <1> DEFINE R == After(snap, ended)
             valid == Valid(snap)
             post == Evaluate(R)
             e == [binding |-> BindingOf(t), ended |-> ended, expected |-> E, window |-> RecoveryWindow]
             verdict == AssessRecovery(e, snap, post)
             now(c) == result.caps[<<t.uid, c>>].state
             then(c) == post.caps[<<t.uid, c>>].state
             proven == Proven(MadeSince(snap, ended), OnNoCycle(snap))
  <1>1. IsSnapshot(snap) /\ result = Evaluate(snap) /\ ended \in Nat /\ RecoveryWindow \in Nat
    BY InputsAssumption DEF EvaluationInv
  <1>2. /\ result.valid = valid /\ OnNoCycle(snap) = valid
        /\ Acyclic(snap, valid) /\ valid \in SUBSET Resolved(snap)
        /\ t \in valid
    BY <1>1, ShownAcyclic, ValidResolved
  <1>3. IsSnapshot(R) /\ SameDeclarations(snap, R) /\ Fades(snap, R, valid)
    BY <1>1, SnapshotKept, StepsKeepDeclarations, AfterFades
  <1>4. Valid(R) = valid
    BY <1>3, SameValid
  <1>5. post.caps = Capabilities(R, valid) /\ result.caps = Capabilities(snap, valid)
    BY <1>1, <1>4 DEF Evaluate, Assess
  <1>6. DOMAIN result.caps = Nodes(snap, valid)
    BY <1>1, <1>2, <1>5, ResultsSolve
  <1>7. ASSUME NEW c \in E PROVE /\ <<t.uid, c>> \in Nodes(snap, valid) /\ c \in DOMAIN ContractOf(snap, t).caps
                                 /\ <<t.uid, c>> \in DOMAIN post.caps
                                 /\ then(c) \in {now(c), "UNKNOWN"}
    <2>1. c \in DOMAIN ContractOf(snap, t).caps
      OBVIOUS
    <2>2. <<t.uid, c>> \in Nodes(snap, valid)
      BY <1>2, <2>1, NodeOf
    <2>3. <<t.uid, c>> \in DOMAIN result.caps
      BY <1>6, <2>2
    <2> HIDE DEF R
    <2> QED
      BY <1>3, <2>1, <2>2, <2>3, ShownFades
  <1>8. /\ e.ended = ended /\ e.window = RecoveryWindow /\ e.expected = E /\ e.binding.uid = t.uid
    BY DEF BindingOf
  <1> HIDE DEF e, post
  <1>9. /\ verdict = "Recovered" => \A c \in E : then(c) = "AVAILABLE"
        /\ verdict = "Partial" => \E c \in E : then(c) = "AVAILABLE"
        /\ verdict = "NotRecovered" => \E c \in E : then(c) \in {"DEGRADED", "UNAVAILABLE"}
        /\ verdict \in {"Partial", "NotRecovered", "Unconfirmed"} => ended >= RecoveryWindow
    <2>1. /\ e.ended \in Nat /\ e.window \in Nat
          /\ \A c \in e.expected : <<e.binding.uid, c>> \in DOMAIN post.caps
      BY <1>1, <1>7, <1>8
    <2>2. /\ verdict = "Recovered" => \A c \in e.expected : post.caps[<<e.binding.uid, c>>].state = "AVAILABLE"
          /\ verdict = "Partial" => \E c \in e.expected : post.caps[<<e.binding.uid, c>>].state = "AVAILABLE"
          /\ verdict = "NotRecovered" =>
                \E c \in e.expected : post.caps[<<e.binding.uid, c>>].state \in {"DEGRADED", "UNAVAILABLE"}
          /\ verdict \in {"Partial", "NotRecovered", "Unconfirmed"} => e.ended >= e.window
      BY <2>1, RecoveryMeans
    <2> QED
      BY <1>8, <2>2, Zenon
  <1>10. \A c \in E : /\ then(c) = "AVAILABLE" => now(c) = "AVAILABLE"
                      /\ then(c) \in {"DEGRADED", "UNAVAILABLE"} => now(c) \in {"DEGRADED", "UNAVAILABLE"}
    <2> TAKE c \in E
    <2>1. then(c) \in {now(c), "UNKNOWN"}
      BY <1>7
    <2> QED
      BY <2>1
  <1>11. ASSUME NEW c \in E, then(c) = "AVAILABLE" PROVE <<t.uid, c>> \in proven
    <2> DEFINE n == <<t.uid, c>>
    <2>1. n \in Nodes(snap, valid) /\ Capabilities(After(snap, ended), valid)[n].state = "AVAILABLE"
      BY <1>5, <1>7, <1>11
    <2> HIDE DEF n
    <2>2. n \in Proven(MadeSince(snap, ended), valid)
      BY <1>1, <1>2, <2>1, RestsOnLater
    <2> QED
      BY <1>2, <2>2, Zenon DEF n
  <1> HIDE DEF verdict, now, then, proven
  <1>12. /\ verdict = "Recovered" =>
               \A c \in E : now(c) = "AVAILABLE" /\ <<t.uid, c>> \in proven
         /\ verdict = "Partial" => \E c \in E : now(c) = "AVAILABLE"
         /\ verdict = "NotRecovered" => \E c \in E : now(c) \in {"DEGRADED", "UNAVAILABLE"}
         /\ verdict \in {"Partial", "NotRecovered", "Unconfirmed"} => ended >= RecoveryWindow
    BY <1>9, <1>10, <1>11, Zenon
  <1> QED
    BY <1>12, Zenon DEF verdict, now, proven, e, post

(* For every snapshot: recovered means AVAILABLE now, and proven by what was *)
(* stated after the execution ended alone; not recovered means shown         *)
(* failing; and nothing is given up before the declared wait is over.        *)
THEOREM RecoveryIsEarned == Spec => []RecoveryEarned
  <1>1. Init => EvaluationInv
    BY EvaluationStep
  <1>2. EvaluationInv /\ [Next]_vars => EvaluationInv'
    BY EvaluationStep
  <1>3. EvaluationInv => RecoveryEarned
    BY RecoveryHolds
  <1> QED
    BY <1>1, <1>2, <1>3, PTL DEF Spec

-----------------------------------------------------------------------------
(* What the searches carry.                                                 *)

(* Both searches are exact in every reachable assessment.                   *)
LEMMA CyclesHold == EvaluationInv => CyclesExact
  <1> SUFFICES ASSUME EvaluationInv PROVE CyclesExact
    OBVIOUS
  <1>1. result = Evaluate(snap) /\ IsSnapshot(snap)
    BY DEF EvaluationInv
  <1>2. result.valid = OnNoCycle(snap)
    BY <1>1, ShownAcyclic
  <1>3. \A c \in snap.contracts : FiniteGraph(LocalGraph(c))
    BY <1>1, GraphsAreFinite
  <1>4. \A c \in snap.contracts : HasLocalCycle(LocalGraph(c)) <=> OnCycle(LocalGraph(c)) # {}
    BY <1>3, LocalCycleExact
  <1> QED
    BY <1>2, <1>4 DEF CyclesExact

(* For every snapshot, of any number of targets and contracts: rejectCycles  *)
(* (Tarjan's components) rejects exactly the targets with a capability on a  *)
(* dependency cycle, and localCycle exactly the contracts whose capabilities *)
(* need themselves, in whatever order they visit.                            *)
THEOREM CyclesAreExact == Spec => []CyclesExact
  <1>1. Init => EvaluationInv
    BY EvaluationStep
  <1>2. EvaluationInv /\ [Next]_vars => EvaluationInv'
    BY EvaluationStep
  <1>3. EvaluationInv => CyclesExact
    BY CyclesHold
  <1> QED
    BY <1>1, <1>2, <1>3, PTL DEF Spec

(* For every snapshot: a capability is AVAILABLE exactly when everything it  *)
(* references rests on the latest, current and uncontradicted statement      *)
(* about the exact binding, and DEGRADED or UNAVAILABLE only by what was     *)
(* proven to fail.                                                           *)
THEOREM StatesAreExact == Spec => []StatesExact
  <1>1. Init => EvaluationInv
    BY EvaluationStep
  <1>2. EvaluationInv /\ [Next]_vars => EvaluationInv'
    BY EvaluationStep
  <1>3. EvaluationInv => StatesExact
    BY StatesHold
  <1> QED
    BY <1>1, <1>2, <1>3, PTL DEF Spec

(* For every snapshot the investigator asks      for exactly the slots that  *)
(* something reads and that have no current evidence.                        *)
THEOREM OpenIsExact == Spec => []OpenExact
  <1>1. Init => EvaluationInv
    BY EvaluationStep
  <1>2. EvaluationInv /\ [Next]_vars => EvaluationInv'
    BY EvaluationStep
  <1>3. EvaluationInv => OpenExact
    BY OpenHolds
  <1> QED
    BY <1>1, <1>2, <1>3, PTL DEF Spec
=============================================================================
