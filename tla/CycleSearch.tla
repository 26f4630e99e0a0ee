---------------------------- MODULE CycleSearch ----------------------------
(***************************************************************************)
(* The two graph searches of pkg/operations. A graph is a function from a  *)
(* node to the set of its successors; the folds visit nodes and successors *)
(* in a fixed but arbitrary order, where the code sorts them by name.      *)
(***************************************************************************)
EXTENDS Naturals, Sequences, SequencesExt, FiniteSets, FiniteSetsExt

(* A loop over S: op takes an element and the result so far.                *)
FoldOver(op, base, S) == FoldSet(LAMBDA x, acc : op[<<x, acc>>], base, S)

(***************************************************************************)
(* rejectCycles: Tarjan's strongly connected components. The search state: *)
(* index and low of the nodes seen, counted from 1 (a node with index 0    *)
(* has not been seen), the stack, and the components found so far that are *)
(* cycles. Nodes lie on the stack in the order in which they were seen.    *)
(***************************************************************************)
Seen(st, v) == st.index[v] # 0
SearchStates(G) ==
    {st \in [index : [DOMAIN G -> Nat], low : [DOMAIN G -> Nat], stack : Seq(DOMAIN G),
             next : Nat \ {0}, cyclic : SUBSET SUBSET DOMAIN G] :
        /\ \A v \in DOMAIN G : st.index[v] < st.next
        /\ \A i \in DOMAIN st.stack :
              /\ Seen(st, st.stack[i])
              /\ \A j \in 1 .. i - 1 : st.index[st.stack[j]] < st.index[st.stack[i]]}
NothingSeen(G) ==
    [index |-> [v \in DOMAIN G |-> 0], low |-> [v \in DOMAIN G |-> 0], stack |-> <<>>, next |-> 1,
     cyclic |-> {}]

Lower(st, v, n) == [st EXCEPT !.low[v] = Min({@, n})]

Enter(st, v) ==
    [st EXCEPT !.index[v] = st.next, !.low[v] = st.next, !.next = @ + 1, !.stack = Append(@, v)]

(* Mutant of IsCycle: one node with any edge counts as a cycle.             *)
AnyEdge(G, scc) == Cardinality(scc) > 1 \/ \E v \in scc : G[v] # {}
IsCycle(G, scc) == Cardinality(scc) > 1 \/ \E v \in scc : v \in G[v]

(* The component of root v is what lies on the stack from v up.              *)
PopComponent(G, st, v) ==
    LET i == CHOOSE j \in DOMAIN st.stack : st.stack[j] = v
        scc == {st.stack[j] : j \in i .. Len(st.stack)}
    IN [st EXCEPT !.stack = SubSeq(@, 1, i - 1),
                  !.cyclic = IF IsCycle(G, scc) THEN @ \cup {scc} ELSE @]

(* An edge from v to w, given what connect does for a node not seen.         *)
FollowEdge(connect, v, w, st) ==
    IF ~Seen(st, w) THEN LET sub == connect[<<st, w>>] IN Lower(sub, v, sub.low[w])
    ELSE IF Contains(st.stack, w) THEN Lower(st, v, st.index[w]) ELSE st

Leave(G, st, v) == IF st.low[v] # st.index[v] THEN st ELSE PopComponent(G, st, v)

(* From a search state and a node not seen yet to the state it leaves.       *)
Calls(G) == {c \in SearchStates(G) \X (DOMAIN G) : ~Seen(c[1], c[2])}
StrongConnect(G) ==
    LET connect[c \in Calls(G)] ==
            LET v == c[2]
                edge == [e \in G[v] \X SearchStates(G) |-> FollowEdge(connect, v, e[1], e[2])]
            IN Leave(G, FoldOver(edge, Enter(c[1], v), G[v]), v)
    IN connect

CyclicComponents(G) ==
    LET connect == StrongConnect(G)
        visit == [c \in (DOMAIN G) \X SearchStates(G) |->
                     IF Seen(c[2], c[1]) THEN c[2] ELSE connect[<<c[2], c[1]>>]]
    IN FoldOver(visit, NothingSeen(G), DOMAIN G).cyclic

(***************************************************************************)
(* localCycle: depth first search with the nodes on the path and the nodes *)
(* done. It answers whether a cycle was found, and which nodes are done.   *)
(***************************************************************************)
Answers(G) == [found : BOOLEAN, done : SUBSET DOMAIN G]

(* A requirement from the end of path to m, given what from does.            *)
FollowLocal(from, path, m, acc) ==
    IF acc.found \/ m \in acc.done THEN acc
    ELSE IF m \in path THEN [acc EXCEPT !.found = TRUE]
    ELSE from[<<m, path, acc.done>>]

(* From a node, the path to it and what is done to the answer.               *)
Visits(G) ==
    {c \in (DOMAIN G) \X (SUBSET DOMAIN G) \X (SUBSET DOMAIN G) : c[1] \notin c[2]}
CycleFrom(G) ==
    LET from[c \in Visits(G)] ==
            LET n == c[1]
                path == c[2] \cup {n}
                edge == [e \in G[n] \X Answers(G) |-> FollowLocal(from, path, e[1], e[2])]
                all == FoldOver(edge, [found |-> FALSE, done |-> c[3]], G[n])
            IN IF all.found THEN all ELSE [all EXCEPT !.done = @ \cup {n}]
    IN from

HasLocalCycle(G) ==
    LET from == CycleFrom(G)
        visit == [c \in (DOMAIN G) \X Answers(G) |-> FollowLocal(from, {}, c[1], c[2])]
    IN FoldOver(visit, [found |-> FALSE, done |-> {}], DOMAIN G).found

(***************************************************************************)
(* The reference: a node is on a cycle when its successors, and all that   *)
(* follows from them, cannot do without it.                                *)
(***************************************************************************)
Closed(G) == {X \in SUBSET DOMAIN G : \A v \in X : G[v] \subseteq X}
OnCycle(G) ==
    LET closed == Closed(G)
    IN {v \in DOMAIN G : \A X \in closed : G[v] \subseteq X => v \in X}
=============================================================================
