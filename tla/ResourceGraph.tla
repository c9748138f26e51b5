---------------------------- MODULE ResourceGraph ----------------------------
(***************************************************************************)
(* FiveMResourceGraph (lsp/fivem.go): the registry of FiveM resources, one *)
(* node per resource root with two secondary indexes, ByName and           *)
(* ByProvide, which must follow every registration, replacement and        *)
(* removal of a node.                                                      *)
(*                                                                         *)
(* A resource is named after the last element of its root, so two roots    *)
(* may have one name.  Roots may nest.  At most one node per root exists,  *)
(* so the root stands for the node in the indexes.  ByProvide holds sorted *)
(* slices: with a total order on the roots a set says the same.            *)
(***************************************************************************)
EXTENDS Naturals

CONSTANTS
    Roots,      \* resource root URIs
    Names,      \* resource names and aliases, normalized
    NameOf,     \* the name of a root
    Length,     \* the length of a root URI
    Above,      \* the roots whose URI is a root's own or an ancestor's
    Rank,       \* the order compareFiveMResourceGraphNodes puts on roots
    Bodies,     \* the contents a manifest can have
    Provides,   \* the aliases a content provides
    NoNode,     \* absence of a node
    NoRoot      \* absence of a root

ASSUME GraphConstantsOK ==
    /\ NameOf \in [Roots -> Names]
    /\ Length \in [Roots -> Nat]
    /\ Above \in [Roots -> SUBSET Roots]
    /\ \A r \in Roots : r \in Above[r]
    \* the roots above a URI are its prefixes, and one of them is the longest
    /\ \A r \in Roots : \A S \in (SUBSET Above[r]) \ {{}} :
          \E q \in S : \A p \in S : Length[p] <= Length[q]
    /\ Rank \in [Roots -> Nat]
    /\ \A r, q \in Roots : Rank[r] = Rank[q] => r = q
    /\ Provides \in [Bodies -> SUBSET Names]
    /\ NoRoot \notin Roots

VARIABLE graph      \* Server.FiveMResourceGraph

(* FiveMManifestSourceKind.Precedence: __resource.lua 1, fxmanifest.lua 2.  *)
Kinds == {1, 2}
Node == [kind: Kinds, body: Bodies]

ASSUME NoNodeIsNone == NoNode \notin Node

Graph == [byRoot: [Roots -> Node \cup {NoNode}],
          byName: [Names -> Roots \cup {NoRoot}],
          byProvide: [Names -> SUBSET Roots]]

(* NewFiveMResourceGraph, and what Clear leaves.                            *)
EmptyGraph == [byRoot |-> [r \in Roots |-> NoNode],
               byName |-> [n \in Names |-> NoRoot],
               byProvide |-> [n \in Names |-> {}]]

Registered(g, r) == g.byRoot[r] # NoNode
AliasesOf(g, r) == IF Registered(g, r) THEN Provides[g.byRoot[r].body] ELSE {}

-----------------------------------------------------------------------------
\* Mutant: the aliases of the removed node stay behind.
removeNode_KeepsAliases(g, r) ==
    [byRoot    |-> [g.byRoot EXCEPT ![r] = NoNode],
     byName    |-> [n \in Names |->
                      IF n = NameOf[r] /\ g.byName[n] = r THEN NoRoot
                      ELSE g.byName[n]],
     byProvide |-> g.byProvide]

removeNode(g, r) ==
    [byRoot    |-> [g.byRoot EXCEPT ![r] = NoNode],
     byName    |-> [n \in Names |->
                      IF n = NameOf[r] /\ g.byName[n] = r THEN NoRoot
                      ELSE g.byName[n]],
     byProvide |-> [n \in Names |->
                      IF n \in AliasesOf(g, r) THEN g.byProvide[n] \ {r}
                      ELSE g.byProvide[n]]]

insertNode(g, r, node) ==
    [byRoot    |-> [g.byRoot EXCEPT ![r] = node],
     byName    |-> [g.byName EXCEPT ![NameOf[r]] = r],
     byProvide |-> [n \in Names |->
                      IF n \in Provides[node.body] THEN g.byProvide[n] \cup {r}
                      ELSE g.byProvide[n]]]

\* Mutants: a replaced node is not removed first; the first or the newest
\* manifest wins.
Register_FirstWins(g, r, node) ==
    IF Registered(g, r) /\ g.byRoot[r].kind >= node.kind
    THEN g ELSE insertNode(IF Registered(g, r) THEN removeNode(g, r) ELSE g, r, node)
Register_KeepsOld(g, r, node) ==
    IF Registered(g, r) /\ g.byRoot[r].kind > node.kind
    THEN g ELSE insertNode(g, r, node)
Register_NewestWins(g, r, node) ==
    insertNode(IF Registered(g, r) THEN removeNode(g, r) ELSE g, r, node)

(* Register: a manifest of lower precedence does not replace a higher one.  *)
Register(g, r, node) ==
    IF Registered(g, r) /\ g.byRoot[r].kind > node.kind
    THEN g
    ELSE insertNode(IF Registered(g, r) THEN removeNode(g, r) ELSE g, r, node)

Longest(roots) == CHOOSE q \in roots : \A p \in roots : Length[p] <= Length[q]

(* removeFiveMResource, for a manifest deleted in directory r: the longest  *)
(* registered root above the URI is dropped, then its name is, whichever    *)
(* node holds it.                                                           *)
Target(g, r) ==
    LET above == {q \in Above[r] : Registered(g, q)}
    IN  IF above = {} THEN NoRoot
        ELSE Longest(above)

removeFiveMResource(g, r) ==
    LET target == Target(g, r)
    IN  IF target = NoRoot THEN g
        ELSE [removeNode(g, target) EXCEPT !.byName[NameOf[target]] = NoRoot]

Resolve(g, alias) ==
    IF g.byName[alias] # NoRoot THEN g.byName[alias]
    ELSE IF g.byProvide[alias] = {} THEN NoRoot
    ELSE CHOOSE r \in g.byProvide[alias] :
             \A q \in g.byProvide[alias] : Rank[r] <= Rank[q]

-----------------------------------------------------------------------------
Init == graph = EmptyGraph

registerFiveMManifestResource(r, node) == graph' = Register(graph, r, node)

ManifestDeleted(r) == graph' = removeFiveMResource(graph, r)

(* refreshWorkspace starts by clearing the graph.                           *)
Clear == graph' = EmptyGraph

Next ==
    \/ \E r \in Roots, node \in Node : registerFiveMManifestResource(r, node)
    \/ \E r \in Roots : ManifestDeleted(r)
    \/ Clear

Spec == Init /\ [][Next]_graph

-----------------------------------------------------------------------------
(* The three maps of FiveMResourceGraph hold what their types say.          *)
TypeOK == graph \in Graph

(* Every entry of ByName leads to a registered resource that bears the      *)
(* name, after any sequence of registrations, replacements and removals.    *)
NamesLeadToNodes ==
    \A n \in Names : graph.byName[n] # NoRoot =>
        Registered(graph, graph.byName[n]) /\ NameOf[graph.byName[n]] = n

(* ByProvide lists exactly the registered resources that provide an alias:  *)
(* removeNode and Register leave none behind and lose none.                 *)
AliasesExact ==
    \A n \in Names :
        graph.byProvide[n] = {r \in Roots : n \in AliasesOf(graph, r)}

(* What Resolve answers is a registered resource of that name or alias, and *)
(* an alias somebody provides always resolves.                              *)
ResolveSound ==
    \A n \in Names :
        LET r == Resolve(graph, n)
        IN  /\ r # NoRoot => Registered(graph, r)
                             /\ (NameOf[r] = n \/ n \in AliasesOf(graph, r))
            /\ (\E q \in Roots : n \in AliasesOf(graph, q)) => r # NoRoot
=============================================================================
