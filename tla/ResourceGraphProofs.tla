------------------------- MODULE ResourceGraphProofs -------------------------
(* The two secondary indexes of the resource graph stay exact, for any set   *)
(* of roots, names and manifest contents.                                    *)
EXTENDS ResourceGraph, WellFoundedInduction, TLAPS

IndexOK(g) ==
    /\ g \in Graph
    /\ \A n \in Names : g.byName[n] # NoRoot =>
          Registered(g, g.byName[n]) /\ NameOf[g.byName[n]] = n
    /\ \A n \in Names : g.byProvide[n] = {r \in Roots : n \in AliasesOf(g, r)}

(* removeNode keeps the indexes exact and unregisters the root.              *)
LEMMA RemoveNodeOK ==
    ASSUME NEW g, IndexOK(g), NEW r \in Roots
    PROVE  IndexOK(removeNode(g, r)) /\ ~Registered(removeNode(g, r), r)
<1>. DEFINE h == removeNode(g, r)
<1>1. h \in Graph
  BY GraphConstantsOK DEF IndexOK, removeNode, Graph, AliasesOf
<1>2. /\ h.byRoot = [g.byRoot EXCEPT ![r] = NoNode]
      /\ \A n \in Names : h.byName[n] =
            IF n = NameOf[r] /\ g.byName[n] = r THEN NoRoot ELSE g.byName[n]
      /\ \A n \in Names : h.byProvide[n] =
            IF n \in AliasesOf(g, r) THEN g.byProvide[n] \ {r} ELSE g.byProvide[n]
  BY DEF removeNode
<1>3. ~Registered(h, r) /\ \A q \in Roots \ {r} : h.byRoot[q] = g.byRoot[q]
  BY <1>2 DEF IndexOK, Graph, Registered
<1>. HIDE DEF h
<1>4. \A n \in Names : h.byName[n] # NoRoot =>
          Registered(h, h.byName[n]) /\ NameOf[h.byName[n]] = n
  BY <1>2, <1>3 DEF IndexOK, Registered, Graph
<1>5. /\ AliasesOf(h, r) = {}
      /\ \A q \in Roots \ {r} : AliasesOf(h, q) = AliasesOf(g, q)
  BY <1>3 DEF AliasesOf, Registered
<1>6. \A n \in Names : h.byProvide[n] = {q \in Roots : n \in AliasesOf(h, q)}
  <2>. TAKE n \in Names
  <2>1. g.byProvide[n] = {q \in Roots : n \in AliasesOf(g, q)}
    BY DEF IndexOK
  <2>2. h.byProvide[n] = IF n \in AliasesOf(g, r) THEN g.byProvide[n] \ {r}
                         ELSE g.byProvide[n]
    BY <1>2
  <2>. QED
    BY <1>5, <2>1, <2>2
<1>. QED
  BY <1>1, <1>3, <1>4, <1>6 DEF IndexOK, h

(* Inserting a node under an unregistered root keeps the indexes exact.      *)
LEMMA InsertNodeOK ==
    ASSUME NEW g, IndexOK(g), NEW r \in Roots, ~Registered(g, r), NEW node \in Node
    PROVE  IndexOK(insertNode(g, r, node))
<1>. DEFINE h == insertNode(g, r, node)
<1>1. h \in Graph
  BY GraphConstantsOK DEF IndexOK, insertNode, Graph, Node
<1>2. /\ h.byRoot = [g.byRoot EXCEPT ![r] = node]
      /\ h.byName = [g.byName EXCEPT ![NameOf[r]] = r]
      /\ \A n \in Names : h.byProvide[n] =
            IF n \in Provides[node.body] THEN g.byProvide[n] \cup {r} ELSE g.byProvide[n]
  BY DEF insertNode
<1>3. /\ h.byRoot[r] = node
      /\ \A q \in Roots \ {r} : h.byRoot[q] = g.byRoot[q]
  BY <1>2 DEF IndexOK, Graph
<1>. HIDE DEF h
<1>4. node # NoNode /\ NameOf[r] \in Names
  BY NoNodeIsNone, GraphConstantsOK
<1>5. \A n \in Names : h.byName[n] # NoRoot =>
          Registered(h, h.byName[n]) /\ NameOf[h.byName[n]] = n
  BY <1>2, <1>3, <1>4 DEF IndexOK, Registered, Graph
<1>6. /\ AliasesOf(h, r) = Provides[node.body]
      /\ AliasesOf(g, r) = {}
      /\ \A q \in Roots \ {r} : AliasesOf(h, q) = AliasesOf(g, q)
  BY <1>3, <1>4 DEF AliasesOf, Registered
<1>7. \A n \in Names : h.byProvide[n] = {q \in Roots : n \in AliasesOf(h, q)}
  <2>. TAKE n \in Names
  <2>1. g.byProvide[n] = {q \in Roots : n \in AliasesOf(g, q)}
    BY DEF IndexOK
  <2>2. h.byProvide[n] = IF n \in Provides[node.body] THEN g.byProvide[n] \cup {r}
                         ELSE g.byProvide[n]
    BY <1>2
  <2>. QED
    BY <1>6, <2>1, <2>2
<1>. QED
  BY <1>1, <1>5, <1>7 DEF IndexOK, h

(* Register keeps the indexes exact, whether it refuses, replaces or adds.   *)
LEMMA RegisterOK ==
    ASSUME NEW g, IndexOK(g), NEW r \in Roots, NEW node \in Node
    PROVE  IndexOK(Register(g, r, node))
<1>1. CASE Registered(g, r)
  <2>1. IndexOK(removeNode(g, r)) /\ ~Registered(removeNode(g, r), r)
    BY RemoveNodeOK
  <2>2. IndexOK(insertNode(removeNode(g, r), r, node))
    BY <2>1, InsertNodeOK
  <2>. QED
    BY <1>1, <2>2 DEF Register
<1>2. CASE ~Registered(g, r)
  <2>1. IndexOK(insertNode(g, r, node))
    BY <1>2, InsertNodeOK
  <2>. QED
    BY <1>2, <2>1 DEF Register
<1>. QED
  BY <1>1, <1>2

(* The root removeFiveMResource picks is registered, if there is one.        *)
LEMMA TargetIsRegistered ==
    ASSUME NEW g, NEW r \in Roots, Target(g, r) # NoRoot
    PROVE  Target(g, r) \in Roots /\ Registered(g, Target(g, r))
<1>. DEFINE above == {q \in Above[r] : Registered(g, q)}
<1>1. above # {} /\ above \subseteq Above[r] /\ Above[r] \subseteq Roots
  BY GraphConstantsOK DEF Target
<1>2. \E q \in above : \A p \in above : Length[p] <= Length[q]
  BY <1>1, GraphConstantsOK
<1>3. Target(g, r) = CHOOSE q \in above : \A p \in above : Length[p] <= Length[q]
  BY <1>1 DEF Target, Longest
<1>4. Target(g, r) \in above
  BY <1>2, <1>3
<1>. QED
  BY <1>1, <1>4

(* removeFiveMResource keeps the indexes exact.                              *)
LEMMA RemoveResourceOK ==
    ASSUME NEW g, IndexOK(g), NEW r \in Roots
    PROVE  IndexOK(removeFiveMResource(g, r))
<1>1. CASE Target(g, r) = NoRoot
  BY <1>1 DEF removeFiveMResource
<1>2. CASE Target(g, r) # NoRoot
  <2>1. PICK t \in Roots : t = Target(g, r)
    BY <1>2, TargetIsRegistered
  <2>2. PICK h : h = removeNode(g, t)
    OBVIOUS
  <2>3. IndexOK(h)
    BY <2>2, RemoveNodeOK
  <2>4. removeFiveMResource(g, r) = [h EXCEPT !.byName[NameOf[t]] = NoRoot]
    BY <1>2, <2>1, <2>2 DEF removeFiveMResource
  <2>5. PICK k : k = [h EXCEPT !.byName[NameOf[t]] = NoRoot]
    OBVIOUS
  <2>6. /\ k \in Graph
        /\ k.byRoot = h.byRoot
        /\ k.byProvide = h.byProvide
        /\ \A n \in Names : k.byName[n] = IF n = NameOf[t] THEN NoRoot ELSE h.byName[n]
    <3>1. h \in Graph
      BY <2>3 DEF IndexOK
    <3>2. PICK names : names = [h.byName EXCEPT ![NameOf[t]] = NoRoot]
      OBVIOUS
    <3>3. k = [h EXCEPT !.byName = names]
      BY <2>5, <3>2
    <3>4. /\ names \in [Names -> Roots \cup {NoRoot}]
          /\ \A n \in Names : names[n] = IF n = NameOf[t] THEN NoRoot ELSE h.byName[n]
      BY <3>1, <3>2 DEF Graph
    <3>. QED
      BY <3>1, <3>3, <3>4 DEF Graph
  <2>7. IndexOK(k)
    BY <2>3, <2>6 DEF IndexOK, Registered, AliasesOf
  <2>. QED
    BY <2>4, <2>5, <2>7
<1>. QED
  BY <1>1, <1>2

(* The indexes of the empty graph are exact.                                 *)
LEMMA EmptyGraphOK == IndexOK(EmptyGraph)
  BY DEF IndexOK, EmptyGraph, Graph, AliasesOf, Registered

(* After any sequence of registrations, replacements, removals and re-index  *)
(* clears, ByName and ByProvide agree with the registered nodes.             *)
THEOREM GraphIndexesExact == Spec => [](TypeOK /\ NamesLeadToNodes /\ AliasesExact)
<1>1. Init => IndexOK(graph)
  BY EmptyGraphOK DEF Init
<1>2. IndexOK(graph) /\ [Next]_graph => IndexOK(graph)'
  <2>. SUFFICES ASSUME IndexOK(graph), [Next]_graph PROVE IndexOK(graph')
    BY DEF IndexOK, Graph, Registered, AliasesOf, Node
  <2>1. CASE \E r \in Roots, node \in Node : registerFiveMManifestResource(r, node)
    BY <2>1, RegisterOK DEF registerFiveMManifestResource
  <2>2. CASE \E r \in Roots : ManifestDeleted(r)
    BY <2>2, RemoveResourceOK DEF ManifestDeleted
  <2>3. CASE Clear
    BY <2>3, EmptyGraphOK DEF Clear
  <2>4. CASE UNCHANGED graph
    BY <2>4
  <2>. QED
    BY <2>1, <2>2, <2>3, <2>4 DEF Next
<1>3. IndexOK(graph) => TypeOK /\ NamesLeadToNodes /\ AliasesExact
  BY DEF IndexOK, TypeOK, NamesLeadToNodes, AliasesExact
<1>. QED
  BY <1>1, <1>2, <1>3, PTL DEF Spec

(* Among the finitely or infinitely many providers of an alias one is first  *)
(* in the order of Rank.                                                     *)
LEMMA FirstByRank ==
    ASSUME NEW S \in SUBSET Roots, S # {}
    PROVE  \E r \in S : \A q \in S : Rank[r] <= Rank[q]
<1>. DEFINE T == {Rank[r] : r \in S}
            R == OpToRel(<, Nat)
<1>1. T \subseteq Nat /\ T # {}
  BY GraphConstantsOK
<1>2. IsWellFoundedOn(R, Nat)
  BY NatLessThanWellFounded
<1>3. \A x, y \in Nat : y < x => <<y, x>> \in R
  BY DEF OpToRel
<1>. HIDE DEF T, R
<1>4. PICK x \in T : \A y \in T : ~(<<y, x>> \in R)
  BY <1>1, <1>2, WFMin
<1>5. \A y \in T : x <= y
  <2>. SUFFICES ASSUME NEW y \in T, y < x PROVE FALSE
    <3>1. x \in Nat /\ \A y \in T : y \in Nat
      BY <1>1, <1>4
    <3>. QED
      BY <3>1
  <2>1. <<y, x>> \in R
    BY <1>1, <1>3
  <2>. QED
    BY <1>4, <2>1
<1>. QED
  BY <1>5 DEF T

(* Resolve answers with a registered resource of that name or alias, and     *)
(* never fails on an alias somebody provides.                                *)
THEOREM ResolveCorrect == Spec => []ResolveSound
<1>1. TypeOK /\ NamesLeadToNodes /\ AliasesExact => ResolveSound
  <2>. SUFFICES ASSUME TypeOK, NamesLeadToNodes, AliasesExact, NEW n \in Names
                PROVE  LET r == Resolve(graph, n)
                       IN  /\ r # NoRoot => Registered(graph, r)
                                   /\ (NameOf[r] = n \/ n \in AliasesOf(graph, r))
                           /\ (\E q \in Roots : n \in AliasesOf(graph, q)) => r # NoRoot
    BY DEF ResolveSound
  <2>1. CASE graph.byName[n] # NoRoot
    BY <2>1 DEF Resolve, NamesLeadToNodes
  <2>2. CASE graph.byName[n] = NoRoot /\ graph.byProvide[n] = {}
    <3>1. \A q \in Roots : n \notin AliasesOf(graph, q)
      BY <2>2 DEF AliasesExact
    <3>. QED
      BY <2>2, <3>1 DEF Resolve
  <2>3. CASE graph.byName[n] = NoRoot /\ graph.byProvide[n] # {}
    <3>. DEFINE S == graph.byProvide[n]
    <3>1. S = {r \in Roots : n \in AliasesOf(graph, r)}
      BY DEF AliasesExact
    <3>2. \E r \in S : \A q \in S : Rank[r] <= Rank[q]
      BY <2>3, <3>1, FirstByRank
    <3>3. Resolve(graph, n) = CHOOSE r \in S : \A q \in S : Rank[r] <= Rank[q]
      BY <2>3 DEF Resolve
    <3>4. Resolve(graph, n) \in S
      BY <3>2, <3>3
    <3>5. Registered(graph, Resolve(graph, n))
      BY <3>1, <3>4 DEF AliasesOf
    <3>. QED
      BY <3>1, <3>4, <3>5, GraphConstantsOK
  <2>. QED
    BY <2>1, <2>2, <2>3
<1>. QED
  BY <1>1, GraphIndexesExact, PTL
=============================================================================
