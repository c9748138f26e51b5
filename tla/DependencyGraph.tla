-------------------------- MODULE DependencyGraph --------------------------
(* The order lsp/global_index.go computes from its graph of resource        *)
(* dependencies.  A graph is its vertices V, the pairs D of Dependencies    *)
(* and the pairs T of Dependents.                                           *)
EXTENDS Naturals, Sequences, SequencesExt, FiniteSetsExt

CONSTANT UriOrder   \* every URI and name once, as slices.Sort orders them

(* A list without some of its elements, in the same order.                  *)
Without(list, gone) ==
    LET kept[i \in 0..Len(list)] ==
            IF i = 0 THEN <<>>
            ELSE IF list[i] \in gone THEN kept[i - 1] ELSE Append(kept[i - 1], list[i])
    IN  kept[Len(list)]

sortResourceURIs(S) == Without(UriOrder, ToSet(UriOrder) \ S)
Out(v, D) == {w \in ToSet(UriOrder) : <<v, w>> \in D}

-----------------------------------------------------------------------------
(* DependencyGraph.TopologicalSort: the counter of a vertex starts at its   *)
(* dependencies and falls by one for each vertex placed that lists it as a  *)
(* dependent; the first of the vertices at zero is placed next.             *)
Remaining(v, placed, D, T) ==
    Cardinality(Out(v, D)) - Cardinality({u \in placed : <<u, v>> \in T})

\* Mutant: a vertex one dependency short is ready.
Ready_OneShort(V, placed, D, T) ==
    {v \in V \ placed : Remaining(v, placed, D, T) <= 1}

Ready(V, placed, D, T) == {v \in V \ placed : Remaining(v, placed, D, T) = 0}

PlaceNext(list, V, D, T) ==
    LET ready == Ready(V, ToSet(list), D, T)
    IN  IF ready = {} THEN list ELSE Append(list, sortResourceURIs(ready)[1])

TopologicalSort(V, D, T) ==
    LET place[n \in 0..Cardinality(V)] ==
            IF n = 0 THEN <<>> ELSE PlaceNext(place[n - 1], V, D, T)
        ordered == place[Cardinality(V)]
    IN  ordered \o sortResourceURIs(V \ ToSet(ordered))

-----------------------------------------------------------------------------
(* DependencyGraph.detectCycles: depth first, from every vertex in order.   *)
(* The recursion of visit is kept as its calls: stack has their vertices,   *)
(* left the dependencies each has not looked at yet, after the vertices     *)
(* still to start from.  A dependency on the stack closes a cycle, from     *)
(* that vertex up the stack and back.                                       *)
CycleTo(w, stack) ==
    LET i == CHOOSE j \in DOMAIN stack : stack[j] = w
    IN  SubSeq(stack, i, Len(stack)) \o <<w>>

Follow(st, w, D) ==
    LET on == [st EXCEPT !.left = Append(Front(@), Tail(Last(@)))]
    IN  IF w \in ToSet(st.stack)
        THEN [on EXCEPT !.cycles = Append(@, CycleTo(w, st.stack))]
        ELSE IF w \in st.visited THEN on
        ELSE [on EXCEPT !.stack = Append(@, w),
                        !.left = Append(@, sortResourceURIs(Out(w, D)))]

Return(st) ==
    [stack |-> Front(st.stack), left |-> Front(st.left),
     visited |-> st.visited \cup {Last(st.stack)}, cycles |-> st.cycles]

visit(st, D) ==
    IF Last(st.left) # <<>> THEN Follow(st, Head(Last(st.left)), D)
    ELSE IF st.stack # <<>> THEN Return(st) ELSE st

\* Every vertex is started from, every edge followed, every call returns.
detectCycles(V, D) ==
    LET steps == 2 * Cardinality(V) + Cardinality(D)
        start == [stack |-> <<>>, left |-> <<sortResourceURIs(V)>>,
                  visited |-> {}, cycles |-> <<>>]
        after[n \in 0..steps] == IF n = 0 THEN start ELSE visit(after[n - 1], D)
    IN  after[steps].cycles

-----------------------------------------------------------------------------
(* The vertices that depend, directly or not, on a cycle.                   *)
Depending(V, D) == {v \in V : \E w \in V : <<v, w>> \in D}
Cyclic(V, D) ==
    UNION {S \in SUBSET Depending(V, D) : \A v \in S : \E w \in S : <<v, w>> \in D}

(* A list of every vertex, once, in which a vertex comes after everything   *)
(* it depends on, and one that waits on a cycle after all the others: a     *)
(* cycle costs nobody else its order.                                       *)
IsTopological(list, V, D) ==
    LET waiting == Cyclic(V, D)
    IN  /\ ToSet(list) = V
        /\ \A i, j \in DOMAIN list : list[i] = list[j] => i = j
        /\ \A i \in DOMAIN list : list[i] \notin waiting =>
              \A w \in V : <<list[i], w>> \in D => \E j \in 1..(i - 1) : list[j] = w
        /\ \A i, j \in DOMAIN list :
              list[i] \notin waiting /\ list[j] \in waiting => i < j

(* A cycle of the graph through different vertices, and the edge that       *)
(* closes it.                                                               *)
IsCycle(c, D) ==
    /\ Len(c) > 1 /\ c[1] = c[Len(c)]
    /\ \A j \in 1..(Len(c) - 1) : <<c[j], c[j + 1]>> \in D
    /\ \A j, k \in 1..(Len(c) - 1) : c[j] = c[k] => j = k
ClosingEdge(c) == <<c[Len(c) - 1], c[Len(c)]>>

(* What a search for cycles promises: it reports cycles only, and whoever   *)
(* takes out the edges that close them has a graph without any.             *)
AreTheCycles(cycles, V, D) ==
    /\ \A i \in DOMAIN cycles : IsCycle(cycles[i], D)
    /\ Cyclic(V, D \ {ClosingEdge(cycles[i]) : i \in DOMAIN cycles}) = {}
=============================================================================
