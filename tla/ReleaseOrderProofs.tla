------------------------ MODULE ReleaseOrderProofs ------------------------
(***************************************************************************)
(* What the operators of ReleaseOrder return, for every release: Keep      *)
(* keeps what it is asked to in order, and Order puts dependencies first.  *)
(***************************************************************************)
EXTENDS ReleaseOrder, Extrema, SequenceTheorems

-----------------------------------------------------------------------------
(* Keep.                                                                    *)

\* f is the function Keep computes, up to n.
Keeps(s, I, n, f) ==
    f = [i \in 0..n |-> IF i = 0 THEN <<>>
                        ELSE IF i \in I THEN Append(f[i - 1], s[i]) ELSE f[i - 1]]

(* The function Keep computes exists: it grows by one value at a time.      *)
LEMMA KeepExists ==
    ASSUME NEW s, NEW I, NEW n \in Nat
    PROVE  \E f : Keeps(s, I, n, f)
  <1> DEFINE T == {m \in 0..n : \E f : Keeps(s, I, m, f)}
  <1>1. 0 \in T
    <2> DEFINE f == [i \in 0..0 |-> <<>>]
    <2>1. f = [i \in 0..0 |-> IF i = 0 THEN <<>>
                              ELSE IF i \in I THEN Append(f[i - 1], s[i]) ELSE f[i - 1]]
      OBVIOUS
    <2>2. \E g : Keeps(s, I, 0, g)
      <3> HIDE DEF f
      <3> QED
        BY <2>1, Zenon DEF Keeps
    <2> QED
      BY <2>2
  <1>2. ASSUME NEW m \in 0..n - 1, m \in T PROVE m + 1 \in T
    <2>1. PICK f : Keeps(s, I, m, f)
      BY <1>2
    <2> DEFINE g == [i \in 0..m + 1 |-> IF i <= m THEN f[i]
                                        ELSE IF m + 1 \in I THEN Append(f[m], s[m + 1]) ELSE f[m]]
    <2>2. ASSUME NEW i \in 0..m + 1
          PROVE  g[i] = IF i = 0 THEN <<>>
                        ELSE IF i \in I THEN Append(g[i - 1], s[i]) ELSE g[i - 1]
      <3>1. CASE i <= m
        <4>1. i = 0 \/ (i - 1 \in 0..m + 1 /\ i - 1 <= m /\ g[i - 1] = f[i - 1])
          BY <3>1
        <4>2. g[i] = f[i] /\ i \in 0..m
          BY <3>1
        <4>3. f[i] = IF i = 0 THEN <<>>
                     ELSE IF i \in I THEN Append(f[i - 1], s[i]) ELSE f[i - 1]
          BY <2>1, <4>2, Zenon DEF Keeps
        <4> QED
          BY <4>1, <4>2, <4>3, Zenon
      <3>2. CASE ~(i <= m)
        <4>1. i = m + 1 /\ i # 0 /\ i - 1 = m
          BY <3>2
        <4>2. g[i] = IF m + 1 \in I THEN Append(f[m], s[m + 1]) ELSE f[m]
          BY <3>2
        <4>3. g[m] = f[m]
          OBVIOUS
        <4> HIDE DEF g
        <4> QED
          BY <4>1, <4>2, <4>3
      <3> QED
        BY <3>1, <3>2
    <2>3. g = [i \in 0..m + 1 |-> g[i]]
      OBVIOUS
    <2>4. \E h : Keeps(s, I, m + 1, h)
      <3> HIDE DEF g
      <3> QED
        BY <2>2, <2>3, Zenon DEF Keeps
    <2> QED
      BY <2>4
  <1>3. \A i \in 0..n : i \in T
    <2> HIDE DEF T
    <2> QED
      BY <1>1, <1>2, UpTo
  <1> QED
    BY <1>3

(* Keep is the last value of that function, which grows position by position. *)
LEMMA KeepDefined ==
    ASSUME NEW s, NEW I, Len(s) \in Nat
    PROVE  \E f : /\ Keep(s, I) = f[Len(s)] /\ f[0] = <<>>
                  /\ \A i \in 1..Len(s) : f[i] = IF i \in I THEN Append(f[i - 1], s[i]) ELSE f[i - 1]
  <1> DEFINE K == CHOOSE f : f = [i \in 0..Len(s) |->
                     IF i = 0 THEN <<>>
                     ELSE IF i \in I THEN Append(f[i - 1], s[i]) ELSE f[i - 1]]
  <1>1. \E f : f = [i \in 0..Len(s) |->
                     IF i = 0 THEN <<>>
                     ELSE IF i \in I THEN Append(f[i - 1], s[i]) ELSE f[i - 1]]
    <2>1. \E f : Keeps(s, I, Len(s), f)
      BY KeepExists
    <2> QED
      BY <2>1, Zenon DEF Keeps
  <1>2. Keep(s, I) = K[Len(s)]
    BY Zenon DEF Keep
  <1>3. K = [i \in 0..Len(s) |-> IF i = 0 THEN <<>>
                                 ELSE IF i \in I THEN Append(K[i - 1], s[i]) ELSE K[i - 1]]
    BY <1>1, Zenon
  <1> HIDE DEF K
  <1>4. \A i \in 0..Len(s) : K[i] = IF i = 0 THEN <<>>
                                    ELSE IF i \in I THEN Append(K[i - 1], s[i]) ELSE K[i - 1]
    BY <1>3, Zenon
  <1>5. K[0] = <<>>
    BY <1>4
  <1>6. \A i \in 1..Len(s) : K[i] = IF i \in I THEN Append(K[i - 1], s[i]) ELSE K[i - 1]
    <2> TAKE i \in 1..Len(s)
    <2>1. i \in 0..Len(s) /\ i # 0
      OBVIOUS
    <2> QED
      BY <2>1, <1>4, Zenon
  <1> QED
    BY <1>2, <1>5, <1>6, Zenon

\* t is what s has at the positions in P, in the order of s: m gives the
\* positions.
Places(s, P, t, m) ==
    /\ m \in [1..Len(t) -> P]
    /\ \A k \in 1..Len(t) : t[k] = s[m[k]]
    /\ \A j, k \in 1..Len(t) : j < k => m[j] < m[k]
    /\ \A i \in P : \E k \in 1..Len(t) : m[k] = i

(* Keep returns exactly the elements at the positions asked for, in order.  *)
LEMMA KeepPlaces ==
    ASSUME NEW S, NEW s \in Seq(S), NEW I
    PROVE  Keep(s, I) \in Seq(S) /\ \E m : Places(s, I \cap 1..Len(s), Keep(s, I), m)
  <1>1. PICK f : /\ Keep(s, I) = f[Len(s)] /\ f[0] = <<>>
                 /\ \A i \in 1..Len(s) : f[i] = IF i \in I THEN Append(f[i - 1], s[i]) ELSE f[i - 1]
    <2>1. Len(s) \in Nat
      OBVIOUS
    <2> QED
      BY <2>1, KeepDefined
  <1> DEFINE Good(i) == f[i] \in Seq(S) /\ \E m : Places(s, I \cap 1..i, f[i], m)
             T == {i \in 0..Len(s) : Good(i)}
  <1>2. 0 \in T
    <2>1. f[0] \in Seq(S) /\ Len(f[0]) = 0 /\ I \cap 1..0 = {}
      BY <1>1
    <2>2. Places(s, I \cap 1..0, f[0], [k \in 1..0 |-> 0])
      BY <2>1 DEF Places
    <2>3. Good(0)
      BY <2>1, <2>2, Zenon
    <2> QED
      BY <2>3
  <1>3. ASSUME NEW i \in 0..Len(s) - 1, i \in T PROVE i + 1 \in T
    <2>1. i + 1 \in 1..Len(s) /\ i + 1 - 1 = i /\ i \in Nat
      OBVIOUS
    <2>2. f[i + 1] = IF i + 1 \in I THEN Append(f[i], s[i + 1]) ELSE f[i]
      BY <1>1, <2>1
    <2>3. f[i] \in Seq(S)
      BY <1>3
    <2>4. PICK m : Places(s, I \cap 1..i, f[i], m)
      BY <1>3
    <2>5. CASE i + 1 \notin I
      <3>1. f[i + 1] = f[i] /\ I \cap 1..i + 1 = I \cap 1..i
        BY <2>1, <2>2, <2>5
      <3>2. Good(i + 1)
        BY <3>1, <2>3, <2>4, Zenon
      <3> QED
        BY <3>2, <2>1
    <2>6. CASE i + 1 \in I
      <3> DEFINE t == f[i]
                 L == Len(f[i])
                 g == [k \in 1..L + 1 |-> IF k = L + 1 THEN i + 1 ELSE m[k]]
      <3>1. /\ f[i + 1] = Append(t, s[i + 1]) /\ I \cap 1..i + 1 = (I \cap 1..i) \cup {i + 1}
            /\ s[i + 1] \in S /\ L \in Nat
        BY <2>1, <2>2, <2>3, <2>6
      <3>2. /\ f[i + 1] \in Seq(S) /\ Len(f[i + 1]) = L + 1 /\ f[i + 1][L + 1] = s[i + 1]
            /\ \A k \in 1..L : f[i + 1][k] = t[k]
        BY <3>1, <2>3
      <3>3. /\ m \in [1..L -> I \cap 1..i]
            /\ \A k \in 1..L : t[k] = s[m[k]]
            /\ \A j, k \in 1..L : j < k => m[j] < m[k]
            /\ \A x \in I \cap 1..i : \E k \in 1..L : m[k] = x
        BY <2>4 DEF Places
      <3> HIDE DEF t, L
      <3>4. g \in [1..L + 1 -> (I \cap 1..i) \cup {i + 1}]
        BY <3>1, <3>3
      <3>5. g[L + 1] = i + 1 /\ \A k \in 1..L : g[k] = m[k] /\ m[k] \in 1..i
        BY <3>1, <3>3
      <3> HIDE DEF g
      <3>6. \A k \in 1..L + 1 : f[i + 1][k] = s[g[k]]
        BY <3>1, <3>2, <3>3, <3>5
      <3>7. ASSUME NEW j \in 1..L + 1, NEW k \in 1..L + 1, j < k PROVE g[j] < g[k]
        <4>1. j \in 1..L /\ g[j] = m[j] /\ m[j] \in 1..i
          BY <3>1, <3>5, <3>7
        <4>2. CASE k = L + 1
          BY <4>1, <4>2, <3>5, <2>1
        <4>3. CASE k # L + 1
          <5>1. k \in 1..L
            BY <4>3, <3>1
          <5>2. m[j] < m[k] /\ g[k] = m[k]
            BY <5>1, <4>1, <3>3, <3>5, <3>7, Zenon
          <5> QED
            BY <5>2, <4>1, Zenon
        <4> QED
          BY <4>2, <4>3
      <3>8. ASSUME NEW x \in (I \cap 1..i) \cup {i + 1} PROVE \E k \in 1..L + 1 : g[k] = x
        <4>1. CASE x = i + 1
          BY <4>1, <3>1, <3>5
        <4>2. CASE x \in I \cap 1..i
          <5>1. PICK k \in 1..L : m[k] = x
            BY <4>2, <3>3, Zenon
          <5>2. k \in 1..L + 1 /\ g[k] = x
            BY <5>1, <3>1, <3>5
          <5> QED
            BY <5>2
        <4> QED
          BY <4>1, <4>2
      <3>9. Places(s, I \cap 1..i + 1, f[i + 1], g)
        BY <3>1, <3>2, <3>4, <3>6, <3>7, <3>8 DEF Places
      <3>10. Good(i + 1)
        BY <3>2, <3>9, Zenon
      <3> QED
        BY <3>10, <2>1
    <2> QED
      BY <2>5, <2>6
  <1>4. \A i \in 0..Len(s) : i \in T
    <2> HIDE DEF T
    <2> QED
      BY <1>2, <1>3, UpTo
  <1>5. Good(Len(s))
    <2>1. Len(s) \in 0..Len(s)
      OBVIOUS
    <2> QED
      BY <2>1, <1>4
  <1> QED
    BY <1>1, <1>5

(* Keeping the first n elements.                                            *)
LEMMA KeepPrefix ==
    ASSUME NEW S, NEW s \in Seq(S), NEW n \in 0..Len(s), NEW I, I \cap 1..Len(s) = 1..n
    PROVE  Keep(s, I) = SubSeq(s, 1, n)
  <1>1. PICK f : /\ Keep(s, I) = f[Len(s)] /\ f[0] = <<>>
                 /\ \A i \in 1..Len(s) : f[i] = IF i \in I THEN Append(f[i - 1], s[i]) ELSE f[i - 1]
    <2>1. Len(s) \in Nat
      OBVIOUS
    <2> QED
      BY <2>1, KeepDefined, Zenon
  <1> DEFINE T == {i \in 0..Len(s) : f[i] = SubSeq(s, 1, IF i <= n THEN i ELSE n)}
  <1>2. 0 \in T
    <2>1. SubSeq(s, 1, 0) = <<>>
      BY SubSeqEmpty
    <2>2. n \in Nat /\ 0 <= n /\ 0 \in 0..Len(s)
      OBVIOUS
    <2> QED
      BY <1>1, <2>1, <2>2
  <1>3. ASSUME NEW i \in 0..Len(s) - 1, i \in T PROVE i + 1 \in T
    <2>1. i + 1 \in 1..Len(s) /\ i + 1 - 1 = i /\ i \in Nat /\ n \in Nat
      OBVIOUS
    <2>2. f[i + 1] = IF i + 1 \in I THEN Append(f[i], s[i + 1]) ELSE f[i]
      BY <1>1, <2>1
    <2>3. CASE i + 1 <= n
      <3>1. i + 1 \in I /\ i <= n
        BY <2>1, <2>3
      <3>2. f[i] = SubSeq(s, 1, i)
        BY <1>3, <3>1
      <3>3. SubSeq(s, 1, i + 1) = SubSeq(s, 1, i) \o <<s[i + 1]>>
        BY <2>1, SubSeqRecursiveSecond
      <3>4. SubSeq(s, 1, i) \in Seq(S) /\ s[i + 1] \in S
        BY <2>1, SubSeqProperties
      <3>5. Append(SubSeq(s, 1, i), s[i + 1]) = SubSeq(s, 1, i) \o <<s[i + 1]>>
        BY <3>4, AppendIsConcat
      <3>6. f[i + 1] = SubSeq(s, 1, i + 1)
        BY <2>2, <3>1, <3>2, <3>3, <3>5
      <3> QED
        BY <2>1, <2>3, <3>6
    <2>4. CASE ~(i + 1 <= n)
      <3>1. i + 1 \notin I
        BY <2>1, <2>4
      <3>2. f[i + 1] = SubSeq(s, 1, IF i <= n THEN i ELSE n)
        BY <2>2, <3>1, <1>3
      <3>3. i <= n => i = n
        BY <2>1, <2>4
      <3> QED
        BY <2>1, <2>4, <3>2, <3>3
    <2> QED
      BY <2>3, <2>4
  <1>4. \A i \in 0..Len(s) : i \in T
    <2> HIDE DEF T
    <2> QED
      BY <1>2, <1>3, UpTo, SMTT(30)
  <1>5. f[Len(s)] = SubSeq(s, 1, n)
    BY <1>4
  <1> QED
    BY <1>1, <1>5

-----------------------------------------------------------------------------
(* Order.                                                                   *)

\* f is the function of states Order computes, up to n.
Afters(listed, requires, n, f) ==
    f = [k \in 0..n |-> IF k = 0 THEN OrderStart(listed, requires)
                        ELSE IF f[k - 1].queue = <<>> THEN f[k - 1]
                        ELSE OrderNext(listed, requires, f[k - 1])]

(* The function Order computes exists: it grows by one value at a time.     *)
LEMMA OrderExists ==
    ASSUME NEW listed, NEW requires, NEW n \in Nat
    PROVE  \E f : Afters(listed, requires, n, f)
  <1> DEFINE T == {m \in 0..n : \E f : Afters(listed, requires, m, f)}
             Step(st) == IF st.queue = <<>> THEN st ELSE OrderNext(listed, requires, st)
  <1>1. 0 \in T
    <2> DEFINE f == [k \in 0..0 |-> OrderStart(listed, requires)]
    <2>1. f = [k \in 0..0 |-> IF k = 0 THEN OrderStart(listed, requires)
                              ELSE IF f[k - 1].queue = <<>> THEN f[k - 1]
                              ELSE OrderNext(listed, requires, f[k - 1])]
      OBVIOUS
    <2>2. \E g : Afters(listed, requires, 0, g)
      <3> HIDE DEF f
      <3> QED
        BY <2>1, Zenon DEF Afters
    <2> QED
      BY <2>2
  <1>2. ASSUME NEW m \in 0..n - 1, m \in T PROVE m + 1 \in T
    <2>1. PICK f : Afters(listed, requires, m, f)
      BY <1>2
    <2> DEFINE g == [k \in 0..m + 1 |-> IF k <= m THEN f[k] ELSE Step(f[m])]
    <2>2. ASSUME NEW k \in 0..m + 1
          PROVE  g[k] = IF k = 0 THEN OrderStart(listed, requires)
                        ELSE IF g[k - 1].queue = <<>> THEN g[k - 1]
                        ELSE OrderNext(listed, requires, g[k - 1])
      <3>1. CASE k <= m
        <4>1. k = 0 \/ (k - 1 \in 0..m + 1 /\ k - 1 <= m /\ g[k - 1] = f[k - 1])
          BY <3>1
        <4>2. g[k] = f[k] /\ k \in 0..m
          BY <3>1
        <4>3. f[k] = IF k = 0 THEN OrderStart(listed, requires)
                     ELSE IF f[k - 1].queue = <<>> THEN f[k - 1]
                     ELSE OrderNext(listed, requires, f[k - 1])
          BY <2>1, <4>2, Zenon DEF Afters
        <4> HIDE DEF g
        <4> QED
          BY <4>1, <4>2, <4>3, Zenon
      <3>2. CASE ~(k <= m)
        <4>1. k = m + 1 /\ k # 0 /\ k - 1 = m
          BY <3>2
        <4> HIDE DEF Step
        <4>2. g[k] = Step(f[m])
          BY <3>2
        <4>3. g[m] = f[m]
          OBVIOUS
        <4> HIDE DEF g
        <4>4. Step(f[m]) = IF g[k - 1].queue = <<>> THEN g[k - 1]
                           ELSE OrderNext(listed, requires, g[k - 1])
          BY <4>1, <4>3, Zenon DEF Step
        <4> QED
          BY <4>1, <4>2, <4>4, Zenon
      <3> QED
        BY <3>1, <3>2
    <2>3. g = [k \in 0..m + 1 |-> g[k]]
      OBVIOUS
    <2>4. \E h : Afters(listed, requires, m + 1, h)
      <3> HIDE DEF g
      <3> QED
        BY <2>2, <2>3, Zenon DEF Afters
    <2> QED
      BY <2>4
  <1>3. \A i \in 0..n : i \in T
    <2> HIDE DEF T
    <2> QED
      BY <1>1, <1>2, UpTo
  <1> QED
    BY <1>3

(* Order is what the last of those states has ordered.                      *)
LEMMA OrderDefined ==
    ASSUME NEW listed, NEW requires, Len(listed) \in Nat
    PROVE  \E f : /\ Order(listed, requires) = f[Len(listed)].ordered
                  /\ f[0] = OrderStart(listed, requires)
                  /\ \A k \in 1..Len(listed) :
                        f[k] = IF f[k - 1].queue = <<>> THEN f[k - 1]
                               ELSE OrderNext(listed, requires, f[k - 1])
  <1> DEFINE K == CHOOSE f : f = [k \in 0..Len(listed) |->
                     IF k = 0 THEN OrderStart(listed, requires)
                     ELSE IF f[k - 1].queue = <<>> THEN f[k - 1]
                     ELSE OrderNext(listed, requires, f[k - 1])]
  <1>1. \E f : f = [k \in 0..Len(listed) |->
                     IF k = 0 THEN OrderStart(listed, requires)
                     ELSE IF f[k - 1].queue = <<>> THEN f[k - 1]
                     ELSE OrderNext(listed, requires, f[k - 1])]
    <2>1. \E f : Afters(listed, requires, Len(listed), f)
      BY OrderExists
    <2> QED
      BY <2>1, Zenon DEF Afters
  <1>2. Order(listed, requires) = K[Len(listed)].ordered
    BY Zenon DEF Order
  <1>3. K = [k \in 0..Len(listed) |-> IF k = 0 THEN OrderStart(listed, requires)
                     ELSE IF K[k - 1].queue = <<>> THEN K[k - 1]
                     ELSE OrderNext(listed, requires, K[k - 1])]
    BY <1>1, Zenon
  <1> HIDE DEF K
  <1>4. \A k \in 0..Len(listed) : K[k] = IF k = 0 THEN OrderStart(listed, requires)
                     ELSE IF K[k - 1].queue = <<>> THEN K[k - 1]
                     ELSE OrderNext(listed, requires, K[k - 1])
    BY <1>3, Zenon
  <1>5. K[0] = OrderStart(listed, requires)
    <2>1. 0 \in 0..Len(listed)
      OBVIOUS
    <2> QED
      BY <1>4, <2>1, Zenon
  <1>6. \A k \in 1..Len(listed) : K[k] = IF K[k - 1].queue = <<>> THEN K[k - 1]
                                         ELSE OrderNext(listed, requires, K[k - 1])
    <2> TAKE k \in 1..Len(listed)
    <2>1. k \in 0..Len(listed) /\ k # 0
      OBVIOUS
    <2> QED
      BY <2>1, <1>4, Zenon
  <1> QED
    BY <1>2, <1>5, <1>6, Zenon

\* The positions of s hold different elements.
Distinct(s) == \A i, j \in 1..Len(s) : s[i] = s[j] => i = j

(* The elements of a sequence are finitely many.                            *)
LEMMA ElementsFinite ==
    ASSUME NEW S, NEW s \in Seq(S)
    PROVE  IsFiniteSet(InRelease(s)) /\ InRelease(s) \subseteq S
  <1> DEFINE f == [i \in 1..Len(s) |-> s[i]]
  <1>1. IsFiniteSet(1..Len(s))
    <2>1. Len(s) \in Int /\ 1 \in Int
      OBVIOUS
    <2> QED
      BY <2>1, FS_Interval
  <1>2. f \in Surjection(1..Len(s), InRelease(s))
    BY DEF InRelease, Surjection
  <1>3. InRelease(s) \subseteq S
    BY DEF InRelease
  <1> HIDE DEF f
  <1> QED
    BY <1>1, <1>2, <1>3, FS_Surjection

(* What Keep keeps is listed, passes the test and occurs once.              *)
LEMMA KeepElements ==
    ASSUME NEW S, NEW s \in Seq(S), NEW I, Distinct(s)
    PROVE  /\ Keep(s, I) \in Seq(S)
           /\ InRelease(Keep(s, I)) = {s[i] : i \in I \cap 1..Len(s)}
           /\ Distinct(Keep(s, I))
  <1> DEFINE t == Keep(s, I)
  <1>1. t \in Seq(S)
    BY KeepPlaces
  <1>2. PICK m : Places(s, I \cap 1..Len(s), t, m)
    BY KeepPlaces
  <1> HIDE DEF t
  <1>3. Len(t) \in Nat /\ DOMAIN t = 1..Len(t)
    BY <1>1
  <1>4. InRelease(t) = {s[i] : i \in I \cap 1..Len(s)}
    BY <1>2, <1>3, SMTT(30) DEF InRelease, Places
  <1>5. Distinct(t)
    <2> SUFFICES ASSUME NEW i \in 1..Len(t), NEW j \in 1..Len(t), t[i] = t[j], i # j PROVE FALSE
      BY DEF Distinct
    <2>1. m[i] \in 1..Len(s) /\ m[j] \in 1..Len(s) /\ s[m[i]] = s[m[j]]
      BY <1>2 DEF Places
    <2>2. m[i] = m[j]
      BY <2>1, Zenon DEF Distinct
    <2>3. i < j \/ j < i
      BY <1>3
    <2>4. m[i] < m[j] \/ m[j] < m[i]
      BY <2>3, <1>2, Zenon DEF Places
    <2> QED
      BY <2>1, <2>2, <2>4
  <1> QED
    BY <1>1, <1>4, <1>5 DEF t

\* The dependencies of c within the release that are not in order yet.
Awaited(listed, requires, st, c) ==
    (requires[c] \cap InRelease(listed)) \ InRelease(st.ordered)

\* What every state of Kahn's algorithm satisfies.
Sorting(listed, requires, st) ==
    /\ st \in [degree : [InRelease(listed) -> Int], ordered : Seq(InRelease(listed)),
               queue : Seq(InRelease(listed))]
    /\ \A c \in InRelease(listed) :
          st.degree[c] = Cardinality(Awaited(listed, requires, st, c))
    /\ \A c \in InRelease(st.ordered) \cup InRelease(st.queue) :
          Awaited(listed, requires, st, c) = {}
    /\ \A c \in InRelease(listed) :
          st.degree[c] = 0 => c \in InRelease(st.ordered) \cup InRelease(st.queue)
    /\ InRelease(st.ordered) \cap InRelease(st.queue) = {}
    /\ Distinct(st.ordered) /\ Distinct(st.queue)
    /\ \A i, j \in 1..Len(st.ordered) : i <= j => st.ordered[j] \notin requires[st.ordered[i]]

(* Nothing in order, and in the queue what depends on nothing.              *)
LEMMA SortingStarts ==
    ASSUME NEW S, NEW listed \in Seq(S), NEW requires, Distinct(listed)
    PROVE  Sorting(listed, requires, OrderStart(listed, requires))
  <1> DEFINE R == InRelease(listed)
             d == [c \in R |-> Cardinality(requires[c] \cap R)]
             I == {i \in DOMAIN listed : d[listed[i]] = 0}
             q == Keep(listed, I)
             st == OrderStart(listed, requires)
  <1>1. st = [degree |-> d, ordered |-> <<>>, queue |-> q]
    BY DEF OrderStart
  <1>2. IsFiniteSet(R)
    BY ElementsFinite
  <1>3. listed \in Seq(R) /\ DOMAIN listed = 1..Len(listed)
    BY DEF InRelease
  <1>4. \A c \in R : IsFiniteSet(requires[c] \cap R) /\ Cardinality(requires[c] \cap R) \in Nat
    <2> TAKE c \in R
    <2>1. IsFiniteSet(requires[c] \cap R)
      <3> HIDE DEF R
      <3>1. requires[c] \cap R \subseteq R
        OBVIOUS
      <3> QED
        BY <3>1, <1>2, FS_Subset
    <2> QED
      BY <2>1, FS_CardinalityType
  <1>5. d \in [R -> Int]
    <2> HIDE DEF R
    <2>1. \A c \in R : Cardinality(requires[c] \cap R) \in Int
      BY <1>4
    <2> QED
      BY <2>1, Zenon
  <1>6. q \in Seq(R) /\ Distinct(q) /\ InRelease(q) = {listed[i] : i \in I \cap 1..Len(listed)}
    <2> HIDE DEF R, I
    <2> QED
      BY <1>3, KeepElements
  <1>7. InRelease(<<>>) = {}
    BY DEF InRelease
  <1>8. \A c \in R : Awaited(listed, requires, st, c) = requires[c] \cap R
    BY <1>1, <1>7 DEF Awaited
  <1>9. \A c \in InRelease(q) : c \in R /\ requires[c] \cap R = {}
    <2> TAKE c \in InRelease(q)
    <2>1. PICK i \in DOMAIN listed : c = listed[i] /\ d[listed[i]] = 0
      BY <1>6
    <2>2. c \in R
      BY <2>1 DEF InRelease
    <2>3. Cardinality(requires[c] \cap R) = 0
      BY <2>1, <2>2
    <2>4. requires[c] \cap R = {}
      <3> HIDE DEF R
      <3> QED
        BY <2>2, <2>3, <1>4, FS_EmptySet, Zenon
    <2> QED
      BY <2>2, <2>4
  <1>15. \A c \in R : d[c] = 0 => c \in InRelease(q)
    <2> TAKE c \in R
    <2>1. PICK i \in DOMAIN listed : c = listed[i]
      BY DEF InRelease
    <2> HIDE DEF d, R, q
    <2> QED
      BY <2>1, <1>3, <1>6
  <1> HIDE DEF R, d, q, st, I
  <1>10. st.degree = d /\ st.ordered = <<>> /\ st.queue = q
    BY <1>1
  <1>11. st \in [degree : [R -> Int], ordered : Seq(R), queue : Seq(R)]
    BY <1>1, <1>5, <1>6
  <1>12. \A c \in R : d[c] = Cardinality(requires[c] \cap R)
    BY DEF d
  <1>13. Len(<<>>) = 0 /\ 1..0 = {}
    OBVIOUS
  <1>16. Distinct(<<>>)
    BY DEF Distinct
  <1>14. Sorting(listed, requires, st)
    BY <1>6, <1>7, <1>8, <1>9, <1>10, <1>11, <1>12, <1>13, <1>15, <1>16, Zenon DEF Sorting, R
  <1> QED
    BY <1>14 DEF st

(* The elements after one more is appended.                                 *)
LEMMA ElementsAppend ==
    ASSUME NEW S, NEW s \in Seq(S), NEW x \in S
    PROVE  InRelease(Append(s, x)) = InRelease(s) \cup {x}
  <1>1. Len(s) \in Nat /\ DOMAIN s = 1..Len(s) /\ DOMAIN Append(s, x) = 1..Len(s) + 1
    OBVIOUS
  <1>2. \A i \in 1..Len(s) : Append(s, x)[i] = s[i]
    OBVIOUS
  <1>3. Append(s, x)[Len(s) + 1] = x
    OBVIOUS
  <1>4. \A i : i \in 1..Len(s) + 1 <=> i \in 1..Len(s) \/ i = Len(s) + 1
    BY <1>1
  <1> QED
    BY <1>1, <1>2, <1>3, <1>4, Zenon DEF InRelease

(* The elements of two sequences put together, and what keeps them distinct. *)
LEMMA ElementsConcat ==
    ASSUME NEW S, NEW s \in Seq(S), NEW t \in Seq(S)
    PROVE  /\ InRelease(s \o t) = InRelease(s) \cup InRelease(t)
           /\ Distinct(s) /\ Distinct(t) /\ InRelease(s) \cap InRelease(t) = {} => Distinct(s \o t)
  <1> DEFINE u == s \o t
             m == Len(s)
             n == Len(t)
  <1>1. m \in Nat /\ n \in Nat /\ DOMAIN s = 1..m /\ DOMAIN t = 1..n
    OBVIOUS
  <1>2. Len(u) = m + n /\ DOMAIN u = 1..m + n
    OBVIOUS
  <1>3. \A i \in 1..m : u[i] = s[i]
    OBVIOUS
  <1>4. \A i \in 1..n : u[m + i] = t[i]
    OBVIOUS
  <1> HIDE DEF u, m, n
  <1>5. \A i \in 1..m + n : i \in 1..m \/ (i - m \in 1..n /\ m + (i - m) = i)
    BY <1>1
  <1>6. \A i \in 1..n : m + i \in 1..m + n
    BY <1>1
  <1>7. \A i \in 1..m : i \in 1..m + n
    BY <1>1
  <1>8. \A i \in 1..m + n : \/ i \in 1..m /\ u[i] = s[i]
                            \/ i - m \in 1..n /\ u[i] = t[i - m]
    <2> TAKE i \in 1..m + n
    <2>1. CASE i \in 1..m
      BY <2>1, <1>3, Zenon
    <2>2. CASE i - m \in 1..n /\ m + (i - m) = i
      <3>1. u[m + (i - m)] = t[i - m]
        BY <2>2, <1>4, Zenon
      <3> QED
        BY <3>1, <2>2, Zenon
    <2> QED
      BY <1>5, <2>1, <2>2
  <1>11. \A i \in 1..m + n : IF i \in 1..m THEN u[i] \in InRelease(s) ELSE u[i] \in InRelease(t)
    <2> TAKE i \in 1..m + n
    <2>1. CASE i \in 1..m
      BY <2>1, <1>1, <1>3, Zenon DEF InRelease
    <2>2. CASE i \notin 1..m
      <3>1. i - m \in 1..n /\ u[i] = t[i - m]
        BY <2>2, <1>8, Zenon
      <3> QED
        BY <2>2, <3>1, <1>1, Zenon DEF InRelease
    <2> QED
      BY <2>1, <2>2
  <1>9. InRelease(u) = InRelease(s) \cup InRelease(t)
    <2>1. ASSUME NEW x \in InRelease(u) PROVE x \in InRelease(s) \cup InRelease(t)
      BY <1>1, <1>2, <1>8, Zenon DEF InRelease
    <2>2. ASSUME NEW x \in InRelease(s) PROVE x \in InRelease(u)
      BY <1>1, <1>2, <1>3, <1>7, Zenon DEF InRelease
    <2>3. ASSUME NEW x \in InRelease(t) PROVE x \in InRelease(u)
      BY <1>1, <1>2, <1>4, <1>6, Zenon DEF InRelease
    <2> QED
      BY <2>1, <2>2, <2>3
  <1>10. ASSUME Distinct(s), Distinct(t), InRelease(s) \cap InRelease(t) = {},
                NEW i \in 1..m + n, NEW j \in 1..m + n, u[i] = u[j]
         PROVE  i = j
    <2>1. CASE i \in 1..m /\ j \in 1..m
      BY <2>1, <1>3, <1>10, Zenon DEF Distinct, m
    <2>2. CASE i \in 1..m /\ j \notin 1..m
      <3>1. u[i] \in InRelease(s) /\ u[j] \in InRelease(t)
        BY <2>2, <1>11, Zenon
      <3> QED
        BY <3>1, <1>10
    <2>3. CASE i \notin 1..m /\ j \in 1..m
      <3>1. u[j] \in InRelease(s) /\ u[i] \in InRelease(t)
        BY <2>3, <1>11, Zenon
      <3> QED
        BY <3>1, <1>10
    <2>4. CASE i \notin 1..m /\ j \notin 1..m
      <3>1. i - m \in 1..n /\ j - m \in 1..n /\ t[i - m] = t[j - m]
        BY <2>4, <1>8, <1>10, Zenon
      <3>2. i - m = j - m
        BY <3>1, <1>10, Zenon DEF Distinct, n
      <3> QED
        BY <3>2, <1>1
    <2> QED
      BY <2>1, <2>2, <2>3, <2>4
  <1> QED
    BY <1>2, <1>9, <1>10 DEF Distinct, u

(* The head of a sequence without repetitions does not occur in its tail.   *)
LEMMA ElementsTail ==
    ASSUME NEW S, NEW s \in Seq(S), s # <<>>, Distinct(s)
    PROVE  /\ Head(s) \in InRelease(s) /\ Head(s) \in S /\ Tail(s) \in Seq(S)
           /\ InRelease(Tail(s)) = InRelease(s) \ {Head(s)}
           /\ Distinct(Tail(s))
  <1>1. /\ Len(s) \in Nat /\ Len(s) # 0 /\ DOMAIN s = 1..Len(s) /\ Head(s) = s[1]
        /\ Tail(s) \in Seq(S) /\ Len(Tail(s)) = Len(s) - 1 /\ DOMAIN Tail(s) = 1..Len(s) - 1
    OBVIOUS
  <1>2. \A i \in 1..Len(s) - 1 : Tail(s)[i] = s[i + 1]
    OBVIOUS
  <1>3. 1 \in 1..Len(s) /\ \A i \in 1..Len(s) - 1 : i + 1 \in 1..Len(s) /\ i + 1 # 1
    BY <1>1
  <1>4. \A i \in 1..Len(s) : i = 1 \/ (i - 1 \in 1..Len(s) - 1 /\ (i - 1) + 1 = i)
    BY <1>1
  <1>5. ASSUME NEW x \in InRelease(Tail(s)) PROVE x \in InRelease(s) /\ x # Head(s)
    <2>1. PICK i \in 1..Len(s) - 1 : x = s[i + 1]
      BY <1>1, <1>2, Zenon DEF InRelease
    <2> QED
      BY <2>1, <1>1, <1>3, Zenon DEF InRelease, Distinct
  <1>6. ASSUME NEW x \in InRelease(s), x # Head(s) PROVE x \in InRelease(Tail(s))
    <2>1. PICK i \in 1..Len(s) : x = s[i]
      BY <1>1, Zenon DEF InRelease
    <2>2. i - 1 \in 1..Len(s) - 1 /\ (i - 1) + 1 = i
      BY <2>1, <1>1, <1>4, <1>6, Zenon
    <2>3. Tail(s)[i - 1] = x
      BY <2>1, <2>2, <1>2, Zenon
    <2> QED
      BY <2>2, <2>3, <1>1, Zenon DEF InRelease
  <1>7. Distinct(Tail(s))
    <2> SUFFICES ASSUME NEW i \in 1..Len(Tail(s)), NEW j \in 1..Len(Tail(s)), Tail(s)[i] = Tail(s)[j]
                 PROVE  i = j
      BY DEF Distinct
    <2>1. i + 1 \in 1..Len(s) /\ j + 1 \in 1..Len(s) /\ s[i + 1] = s[j + 1]
      BY <1>1, <1>2, <1>3
    <2>2. i + 1 = j + 1
      BY <2>1, Zenon DEF Distinct
    <2> QED
      BY <2>2, <1>1
  <1>8. Head(s) \in InRelease(s) /\ Head(s) \in S
    BY <1>1, <1>3 DEF InRelease
  <1> QED
    BY <1>1, <1>5, <1>6, <1>7, <1>8

(* One round: the head of the queue goes in order, after everything it      *)
(* depends on, and what only waited for it joins the queue.                 *)
LEMMA SortingContinues ==
    ASSUME NEW S, NEW listed \in Seq(S), NEW requires, Distinct(listed),
           NEW st, Sorting(listed, requires, st), st.queue # <<>>
    PROVE  Sorting(listed, requires, OrderNext(listed, requires, st))
  <1> DEFINE R == InRelease(listed)
             done == Head(st.queue)
             W(c) == Awaited(listed, requires, st, c)
             d == [c \in R |-> IF done \in requires[c] THEN st.degree[c] - 1 ELSE st.degree[c]]
             I == {i \in DOMAIN listed : done \in requires[listed[i]] /\ d[listed[i]] = 0}
             k == Keep(listed, I)
             o == Append(st.ordered, done)
             q == Tail(st.queue) \o k
             nx == OrderNext(listed, requires, st)
             V(c) == Awaited(listed, requires, nx, c)
  <1>1. nx = [degree |-> d, ordered |-> o, queue |-> q]
    BY DEF OrderNext
  <1>2. IsFiniteSet(R)
    BY ElementsFinite
  <1>3. listed \in Seq(R) /\ DOMAIN listed = 1..Len(listed)
    BY DEF InRelease
  <1>4. /\ st.degree \in [R -> Int] /\ st.ordered \in Seq(R) /\ st.queue \in Seq(R)
        /\ \A c \in R : st.degree[c] = Cardinality(W(c))
        /\ \A c \in InRelease(st.ordered) \cup InRelease(st.queue) : W(c) = {}
        /\ \A c \in R : st.degree[c] = 0 => c \in InRelease(st.ordered) \cup InRelease(st.queue)
        /\ InRelease(st.ordered) \cap InRelease(st.queue) = {}
        /\ Distinct(st.ordered) /\ Distinct(st.queue)
        /\ \A i, j \in 1..Len(st.ordered) : i <= j => st.ordered[j] \notin requires[st.ordered[i]]
    BY DEF Sorting
  <1> HIDE DEF R, nx, W, V
  <1>5. /\ done \in InRelease(st.queue) /\ done \in R /\ Tail(st.queue) \in Seq(R)
        /\ InRelease(Tail(st.queue)) = InRelease(st.queue) \ {done}
        /\ Distinct(Tail(st.queue))
    BY <1>4, ElementsTail
  <1>6. k \in Seq(R) /\ Distinct(k) /\ InRelease(k) = {listed[i] : i \in I \cap 1..Len(listed)}
    <2> HIDE DEF I
    <2> QED
      BY <1>3, KeepElements
  <1>7. o \in Seq(R) /\ q \in Seq(R)
    <2> HIDE DEF done, k
    <2> QED
      BY <1>4, <1>5, <1>6
  <1>8. InRelease(o) = InRelease(st.ordered) \cup {done}
    <2> HIDE DEF done
    <2> QED
      BY <1>4, <1>5, ElementsAppend
  <1> HIDE DEF done
  <1>9. d \in [R -> Int]
    BY <1>4
  <1>10. \A c \in R : W(c) \subseteq R /\ IsFiniteSet(W(c)) /\ Cardinality(W(c)) \in Nat
    <2> TAKE c \in R
    <2>1. W(c) \subseteq R
      BY DEF W, Awaited, R
    <2>2. IsFiniteSet(W(c))
      BY <2>1, <1>2, FS_Subset
    <2> QED
      BY <2>1, <2>2, FS_CardinalityType
  <1>11. \A c \in R : V(c) = W(c) \ {done}
    <2>1. nx.ordered = o
      BY <1>1
    <2> HIDE DEF o
    <2> QED
      BY <2>1, <1>8 DEF V, W, Awaited
  <1>12. \A c \in R : done \in W(c) <=> done \in requires[c]
    BY <1>4, <1>5 DEF W, Awaited, R
  <1>13. \A c \in R : d[c] = Cardinality(V(c))
    <2> TAKE c \in R
    <2>1. CASE done \in requires[c]
      <3>1. Cardinality(W(c) \ {done}) = Cardinality(W(c)) - 1
        BY <2>1, <1>10, <1>12, FS_RemoveElement
      <3>2. d[c] = st.degree[c] - 1
        BY <2>1
      <3> HIDE DEF d
      <3> QED
        BY <3>1, <3>2, <1>4, <1>11
    <2>2. CASE done \notin requires[c]
      <3>1. W(c) \ {done} = W(c)
        BY <2>2, <1>12
      <3>2. d[c] = st.degree[c]
        BY <2>2
      <3> HIDE DEF d
      <3> QED
        BY <3>1, <3>2, <1>4, <1>11
    <2> QED
      BY <2>1, <2>2
  <1>14. \A c \in InRelease(k) : c \in R /\ done \in requires[c] /\ V(c) = {}
    <2> TAKE c \in InRelease(k)
    <2>1. PICK i \in DOMAIN listed : c = listed[i] /\ done \in requires[c] /\ d[c] = 0
      BY <1>6
    <2>2. c \in R
      BY <2>1 DEF InRelease, R
    <2>3. Cardinality(V(c)) = 0
      BY <2>1, <2>2, <1>13
    <2>4. IsFiniteSet(V(c))
      <3>1. V(c) \subseteq W(c)
        BY <2>2, <1>11
      <3> QED
        BY <3>1, <2>2, <1>10, FS_Subset
    <2>5. V(c) = {}
      BY <2>3, <2>4, FS_EmptySet, Zenon
    <2> QED
      BY <2>1, <2>2, <2>5
  <1>15. InRelease(st.ordered) \subseteq R /\ InRelease(st.queue) \subseteq R
    BY <1>4, ElementsFinite
  <1>24. \A c \in R : d[c] = 0 => IF done \in requires[c] THEN c \in InRelease(k) ELSE st.degree[c] = 0
    <2> TAKE c \in R
    <2>1. PICK i \in DOMAIN listed : c = listed[i]
      BY DEF InRelease, R
    <2>2. done \notin requires[c] => d[c] = st.degree[c]
      OBVIOUS
    <2> HIDE DEF d, k
    <2> QED
      BY <2>1, <2>2, <1>3, <1>6
  <1> HIDE DEF d, I, k, o, q
  <1>16. InRelease(Tail(st.queue)) \cap InRelease(k) = {} /\ InRelease(st.ordered) \cap InRelease(k) = {}
         /\ done \notin InRelease(k)
    BY <1>4, <1>5, <1>12, <1>14, <1>15
  <1>17. InRelease(q) = InRelease(Tail(st.queue)) \cup InRelease(k) /\ Distinct(q)
    <2>1. Tail(st.queue) \in Seq(R) /\ k \in Seq(R)
      BY <1>5, <1>6
    <2>2. /\ InRelease(Tail(st.queue) \o k) = InRelease(Tail(st.queue)) \cup InRelease(k)
          /\ Distinct(Tail(st.queue)) /\ Distinct(k)
               /\ InRelease(Tail(st.queue)) \cap InRelease(k) = {} => Distinct(Tail(st.queue) \o k)
      BY <2>1, ElementsConcat, Zenon
    <2> QED
      BY <2>2, <1>5, <1>6, <1>16, Zenon DEF q
  <1>18. nx.degree = d /\ nx.ordered = o /\ nx.queue = q
    BY <1>1
  <1>19. nx \in [degree : [R -> Int], ordered : Seq(R), queue : Seq(R)]
    BY <1>1, <1>7, <1>9
  <1>20. \A c \in InRelease(o) \cup InRelease(q) : V(c) = {}
    BY <1>4, <1>5, <1>8, <1>11, <1>14, <1>15, <1>17
  <1>21. InRelease(o) \cap InRelease(q) = {}
    BY <1>4, <1>5, <1>8, <1>16, <1>17
  <1>22. ASSUME NEW i \in 1..Len(o), NEW j \in 1..Len(o), i <= j
         PROVE  o[j] \notin requires[o[i]]
    <2> DEFINE L == Len(st.ordered)
    <2>1. /\ L \in Nat /\ Len(o) = L + 1 /\ o[L + 1] = done
          /\ \A x \in 1..L : o[x] = st.ordered[x]
      BY <1>4, <1>5 DEF o
    <2> HIDE DEF L
    <2>2. CASE j \in 1..L
      <3>1. i \in 1..L
        BY <2>1, <2>2, <1>22
      <3> QED
        BY <3>1, <2>1, <2>2, <1>4, <1>22, Zenon DEF L
    <2>3. CASE j \notin 1..L
      <3>1. j = L + 1 /\ o[j] = done
        BY <2>1, <2>3
      <3>2. o[i] \in InRelease(st.ordered) \cup {done}
        <4>1. i \in DOMAIN o
          BY <1>7
        <4> QED
          BY <4>1, <1>8 DEF InRelease
      <3>3. o[i] \in R /\ W(o[i]) = {}
        BY <3>2, <1>4, <1>5, <1>15
      <3> QED
        BY <3>1, <3>3, <1>12, Zenon
    <2> QED
      BY <2>2, <2>3
  <1>25. \A c \in R : d[c] = 0 => c \in InRelease(o) \cup InRelease(q)
    BY <1>4, <1>5, <1>8, <1>17, <1>24
  <1>26. Distinct(o)
    <2> SUFFICES ASSUME NEW i \in 1..Len(o), NEW j \in 1..Len(o), o[i] = o[j] PROVE i = j
      BY DEF Distinct
    <2> DEFINE L == Len(st.ordered)
    <2>1. /\ L \in Nat /\ Len(o) = L + 1 /\ o[L + 1] = done
          /\ \A x \in 1..L : o[x] = st.ordered[x] /\ o[x] \in InRelease(st.ordered)
      BY <1>4, <1>5, SMTT(30) DEF o, InRelease
    <2> HIDE DEF L
    <2>2. done \notin InRelease(st.ordered)
      BY <1>4, <1>5
    <2>3. CASE i \in 1..L /\ j \in 1..L
      BY <2>1, <2>3, <1>4, Zenon DEF Distinct, L
    <2>4. CASE i \notin 1..L \/ j \notin 1..L
      BY <2>1, <2>2, <2>4
    <2> QED
      BY <2>3, <2>4
  <1>23. Sorting(listed, requires, nx)
    BY <1>13, <1>17, <1>18, <1>19, <1>20, <1>21, <1>22, <1>25, <1>26, Zenon DEF Sorting, V, R
  <1> QED
    BY <1>23 DEF nx

(* Different elements are as many as their positions.                       *)
LEMMA ElementsCounted ==
    ASSUME NEW S, NEW s \in Seq(S), Distinct(s)
    PROVE  Cardinality(InRelease(s)) = Len(s)
  <1> DEFINE f == [i \in 1..Len(s) |-> s[i]]
  <1>1. Len(s) \in Nat /\ DOMAIN s = 1..Len(s)
    OBVIOUS
  <1>2. IsFiniteSet(1..Len(s)) /\ Cardinality(1..Len(s)) = Len(s)
    BY <1>1, FS_Interval, SMTT(30)
  <1>3. f \in Surjection(1..Len(s), InRelease(s))
    BY DEF InRelease, Surjection
  <1>4. \A i, j \in 1..Len(s) : f[i] = f[j] => i = j
    BY DEF Distinct
  <1>5. f \in Bijection(1..Len(s), InRelease(s))
    <2> HIDE DEF f
    <2> QED
      BY <1>3, <1>4, Zenon DEF Bijection, Injection, Surjection, IsInjective
  <1>6. ExistsBijection(1..Len(s), InRelease(s))
    <2> HIDE DEF f
    <2> QED
      BY <1>5, Zenon DEF ExistsBijection
  <1> QED
    BY <1>2, <1>6, FS_Bijection

(* Order ends with an empty queue: a component in it would be one more than *)
(* the release has.                                                         *)
LEMMA OrderEnds ==
    ASSUME NEW S, NEW listed \in Seq(S), NEW requires, Distinct(listed)
    PROVE  \E st : /\ Order(listed, requires) = st.ordered
                   /\ Sorting(listed, requires, st) /\ st.queue = <<>>
  <1>0. Len(listed) \in Nat /\ Len(listed) \in 0..Len(listed)
    OBVIOUS
  <1>1. PICK f : /\ Order(listed, requires) = f[Len(listed)].ordered
                 /\ f[0] = OrderStart(listed, requires)
                 /\ \A k \in 1..Len(listed) :
                       f[k] = IF f[k - 1].queue = <<>> THEN f[k - 1]
                              ELSE OrderNext(listed, requires, f[k - 1])
    BY <1>0, OrderDefined
  <1> DEFINE T == {k \in 0..Len(listed) : /\ Sorting(listed, requires, f[k])
                                          /\ f[k].queue # <<>> => Len(f[k].ordered) = k}
  <1>2. 0 \in T
    <2>1. Sorting(listed, requires, f[0])
      BY <1>1, SortingStarts
    <2>2. f[0].ordered = <<>>
      BY <1>1 DEF OrderStart
    <2> QED
      BY <2>1, <2>2, <1>0
  <1>3. ASSUME NEW k \in 0..Len(listed) - 1, k \in T PROVE k + 1 \in T
    <2>1. k + 1 \in 1..Len(listed) /\ k + 1 \in 0..Len(listed) /\ k + 1 - 1 = k
      OBVIOUS
    <2>2. f[k + 1] = IF f[k].queue = <<>> THEN f[k] ELSE OrderNext(listed, requires, f[k])
      BY <1>1, <2>1
    <2>3. Sorting(listed, requires, f[k]) /\ (f[k].queue # <<>> => Len(f[k].ordered) = k)
      BY <1>3
    <2>4. CASE f[k].queue = <<>>
      BY <2>1, <2>2, <2>3, <2>4
    <2>5. CASE f[k].queue # <<>>
      <3>1. Sorting(listed, requires, OrderNext(listed, requires, f[k]))
        BY <2>3, <2>5, SortingContinues
      <3>2. f[k].ordered \in Seq(InRelease(listed))
        BY <2>3 DEF Sorting
      <3>3. OrderNext(listed, requires, f[k]).ordered = Append(f[k].ordered, Head(f[k].queue))
        BY DEF OrderNext
      <3>4. Len(Append(f[k].ordered, Head(f[k].queue))) = Len(f[k].ordered) + 1
        BY <3>2
      <3>5. Len(f[k + 1].ordered) = k + 1
        BY <2>2, <2>3, <2>5, <3>3, <3>4
      <3> QED
        BY <2>1, <2>2, <2>5, <3>1, <3>5
    <2> QED
      BY <2>4, <2>5
  <1>4. \A k \in 0..Len(listed) : k \in T
    <2> HIDE DEF T
    <2> QED
      BY <1>0, <1>2, <1>3, UpTo
  <1> DEFINE st == f[Len(listed)]
             R == InRelease(listed)
  <1>5. Sorting(listed, requires, st) /\ (st.queue # <<>> => Len(st.ordered) = Len(listed))
    BY <1>0, <1>4
  <1>6. Order(listed, requires) = st.ordered
    BY <1>1
  <1> HIDE DEF st
  <1>7. ASSUME st.queue # <<>> PROVE FALSE
    <2>1. /\ st.ordered \in Seq(R) /\ st.queue \in Seq(R) /\ Distinct(st.ordered)
          /\ InRelease(st.ordered) \cap InRelease(st.queue) = {}
      BY <1>5 DEF Sorting
    <2>2. Cardinality(R) = Len(listed) /\ IsFiniteSet(R)
      BY ElementsCounted, ElementsFinite
    <2> HIDE DEF R
    <2>3. Cardinality(InRelease(st.ordered)) = Len(listed)
      BY <1>5, <1>7, <2>1, ElementsCounted
    <2>4. InRelease(st.ordered) \subseteq R /\ InRelease(st.queue) \subseteq R
      BY <2>1, ElementsFinite
    <2>5. InRelease(st.ordered) = R
      BY <2>2, <2>3, <2>4, FS_Subset
    <2>6. InRelease(st.queue) # {}
      <3> DEFINE q == st.queue
      <3>1. q \in Seq(R) /\ q # <<>>
        BY <1>7, <2>1
      <3> HIDE DEF q
      <3>2. 1 \in DOMAIN q
        BY <3>1
      <3>3. InRelease(q) # {}
        BY <3>2 DEF InRelease
      <3> QED
        BY <3>3 DEF q
    <2> QED
      BY <2>1, <2>4, <2>5, <2>6
  <1> QED
    BY <1>5, <1>6, <1>7

(* Order returns components of the release once, none before one it         *)
(* depends on: not even itself, so a component on a cycle is left out.      *)
THEOREM OrderSound ==
    ASSUME NEW S, NEW listed \in Seq(S), NEW requires, Distinct(listed)
    PROVE  /\ Order(listed, requires) \in Seq(InRelease(listed)) /\ Distinct(Order(listed, requires))
           /\ \A i, j \in 1..Len(Order(listed, requires)) :
                 i <= j => Order(listed, requires)[j] \notin requires[Order(listed, requires)[i]]
  <1>1. PICK st : Order(listed, requires) = st.ordered /\ Sorting(listed, requires, st)
    BY OrderEnds
  <1> QED
    BY <1>1 DEF Sorting

\* Some components of the release wait for each other: a nonempty set of them
\* each of which depends on one of the set.
HasCycle(listed, requires) ==
    \E C \in SUBSET InRelease(listed) : C # {} /\ \A c \in C : requires[c] \cap C # {}

(* Order leaves components out exactly if there is a dependency cycle in    *)
(* the release, the condition on which release.Order returns an error.      *)
THEOREM OrderCycles ==
    ASSUME NEW S, NEW listed \in Seq(S), NEW requires, Distinct(listed)
    PROVE  Len(Order(listed, requires)) = Len(listed) <=> ~HasCycle(listed, requires)
  <1> DEFINE R == InRelease(listed)
             Cycle(C) == C # {} /\ \A c \in C : requires[c] \cap C # {}
  <1>1. PICK st : /\ Order(listed, requires) = st.ordered
                  /\ Sorting(listed, requires, st) /\ st.queue = <<>>
    BY OrderEnds
  <1> DEFINE o == st.ordered
             W(c) == Awaited(listed, requires, st, c)
  <1>2. /\ o \in Seq(R) /\ Distinct(o) /\ st.degree \in [R -> Int]
        /\ \A c \in R : st.degree[c] = Cardinality(W(c))
        /\ \A c \in R : st.degree[c] = 0 => c \in InRelease(o) \cup InRelease(st.queue)
        /\ \A i, j \in 1..Len(o) : i <= j => o[j] \notin requires[o[i]]
    BY <1>1 DEF Sorting
  <1>3. Cardinality(R) = Len(listed) /\ IsFiniteSet(R)
    BY ElementsCounted, ElementsFinite
  <1> HIDE DEF R, W, o
  <1>4. Cardinality(InRelease(o)) = Len(o) /\ InRelease(o) \subseteq R
    BY <1>2, ElementsCounted, ElementsFinite
  <1>5. Len(o) = Len(listed) <=> InRelease(o) = R
    BY <1>3, <1>4, FS_Subset
  <1>6. ASSUME InRelease(o) # R PROVE \E C \in SUBSET R : Cycle(C)
    <2> DEFINE C == R \ InRelease(o)
    <2>1. C \in SUBSET R /\ C # {}
      BY <1>4, <1>6
    <2>2. ASSUME NEW c \in C PROVE requires[c] \cap C # {}
      <3>1. InRelease(st.queue) = {}
        BY <1>1 DEF InRelease
      <3>2. Cardinality(W(c)) # 0
        BY <1>2, <2>2, <3>1
      <3>3. W(c) # {}
        BY <3>2, FS_EmptySet
      <3>4. W(c) = (requires[c] \cap R) \ InRelease(o)
        BY DEF W, Awaited, R, o
      <3> QED
        BY <3>3, <3>4
    <2> HIDE DEF C
    <2> QED
      BY <2>1, <2>2
  <1>7. ASSUME InRelease(o) = R, NEW C \in SUBSET R, Cycle(C) PROVE FALSE
    <2> DEFINE P == {i \in 1..Len(o) : o[i] \in C}
    <2>1. Len(o) \in Nat /\ DOMAIN o = 1..Len(o) /\ P \in SUBSET Nat
      BY <1>2
    <2>2. \A c \in C : \E i \in P : o[i] = c
      BY <1>7, <2>1 DEF InRelease
    <2>3. P # {}
      BY <1>7, <2>2
    <2>4. PICK m \in P : \A n \in P : m <= n
      <3> HIDE DEF P
      <3> QED
        BY <2>1, <2>3, Least
    <2>5. PICK c \in C : c \in requires[o[m]]
      BY <1>7, <2>4
    <2>6. PICK n \in P : o[n] = c
      BY <2>2
    <2>7. m <= n /\ m \in 1..Len(o) /\ n \in 1..Len(o)
      BY <2>4, <2>6
    <2> QED
      BY <1>2, <2>5, <2>6, <2>7, Zenon
  <1>8. Len(Order(listed, requires)) = Len(o)
    BY <1>1 DEF o
  <1> QED
    BY <1>5, <1>6, <1>7, <1>8 DEF R, HasCycle
=============================================================================
