-------------------------- MODULE FiveMStoreProofs --------------------------
(* The FiveM store implements the resource graph, and outside re-indexing    *)
(* its hand-written invalidation of cached profiles is complete, for any     *)
(* roots, manifests, scripts and contents.                                   *)
EXTENDS FiveMStore, ResourceGraphProofs

(* What a manifest document registers is a node.                             *)
LEMMA ParsedNode ==
    ASSUME NEW m \in Manifests, NEW d \in [body: FileBodies, held: BOOLEAN]
    PROVE  /\ parseFiveMManifest(m, d) \in Node
           /\ RootOf[m] \in Roots
  BY StoreConstantsOK DEF parseFiveMManifest, Node, FileBodies

(* Registering a manifest changes no other root's node.                      *)
LEMMA RegisterTouches ==
    ASSUME NEW g \in Graph, NEW r \in Roots, NEW node \in Node
    PROVE  /\ Register(g, r, node) \in Graph
           /\ \A q \in Roots \ {r} : Register(g, r, node).byRoot[q] = g.byRoot[q]
<1>1. ASSUME NEW h \in Graph
      PROVE  /\ insertNode(h, r, node) \in Graph
             /\ \A q \in Roots \ {r} : insertNode(h, r, node).byRoot[q] = h.byRoot[q]
  BY GraphConstantsOK DEF insertNode, Graph, Node
<1>2. /\ removeNode(g, r) \in Graph
      /\ \A q \in Roots \ {r} : removeNode(g, r).byRoot[q] = g.byRoot[q]
  BY GraphConstantsOK DEF removeNode, Graph, AliasesOf
<1>. QED
  BY <1>1, <1>2 DEF Register

(* Removing a resource changes no node but its target's.                     *)
LEMMA RemoveTouches ==
    ASSUME NEW g \in Graph, NEW r \in Roots
    PROVE  /\ removeFiveMResource(g, r) \in Graph
           /\ \A q \in Roots \ {Target(g, r)} :
                 removeFiveMResource(g, r).byRoot[q] = g.byRoot[q]
<1>1. CASE Target(g, r) = NoRoot
  BY <1>1 DEF removeFiveMResource
<1>2. CASE Target(g, r) # NoRoot
  <2>1. PICK t \in Roots : t = Target(g, r)
    BY <1>2, TargetIsRegistered
  <2>2. PICK h : h = removeNode(g, t)
    OBVIOUS
  <2>3. h \in Graph /\ \A q \in Roots \ {t} : h.byRoot[q] = g.byRoot[q]
    BY <2>2, GraphConstantsOK DEF removeNode, Graph, AliasesOf
  <2>4. removeFiveMResource(g, r) = [h EXCEPT !.byName[NameOf[t]] = NoRoot]
    BY <1>2, <2>1, <2>2 DEF removeFiveMResource
  <2>5. PICK k : k = [h EXCEPT !.byName[NameOf[t]] = NoRoot]
    OBVIOUS
  <2>6. k \in Graph /\ k.byRoot = h.byRoot
    BY <2>3, <2>5, GraphConstantsOK DEF Graph
  <2>. QED
    BY <2>1, <2>3, <2>4, <2>5, <2>6
<1>. QED
  BY <1>1, <1>2

(* A script's profile depends on the nodes of the roots above it only.       *)
LEMMA ProfileDependsOnRoots ==
    ASSUME NEW g, NEW h, NEW s \in Scripts,
           \A r \in ScriptRoots[s] : g.byRoot[r] = h.byRoot[r]
    PROVE  ProfileIn(g, s) = ProfileIn(h, s)
<1>. DEFINE R == {r \in ScriptRoots[s] : Registered(g, r)}
<1>1. R = {r \in ScriptRoots[s] : Registered(h, r)}
  BY DEF Registered
<1>2. findFiveMResource(g, s) = findFiveMResource(h, s)
  BY <1>1 DEF findFiveMResource
<1>3. CASE R = {}
  BY <1>1, <1>2, <1>3 DEF findFiveMResource, ProfileIn
<1>4. CASE R # {}
  <2>1. \E r \in R : \A q \in R : Length[q] <= Length[r]
    <3>1. R \in SUBSET ScriptRoots[s]
      OBVIOUS
    <3>. HIDE DEF R
    <3>. QED
      BY <1>4, <3>1, StoreConstantsOK
  <2>2. findFiveMResource(g, s) = CHOOSE r \in R : \A q \in R : Length[q] <= Length[r]
    BY <1>4 DEF findFiveMResource, Longest
  <2>3. findFiveMResource(g, s) \in R
    BY <2>1, <2>2
  <2>. QED
    BY <1>2, <2>3 DEF ProfileIn
<1>. QED
  BY <1>3, <1>4

(* A computed profile is one.                                                *)
LEMMA ProfileInType ==
    ASSUME NEW g \in Graph, NEW s \in Scripts
    PROVE  ProfileIn(g, s) \in Profile
<1>. DEFINE R == {r \in ScriptRoots[s] : Registered(g, r)}
<1>3. CASE R = {}
  BY <1>3 DEF findFiveMResource, ProfileIn, Profile, Envs
<1>4. CASE R # {}
  <2>1. \E r \in R : \A q \in R : Length[q] <= Length[r]
    <3>1. R \in SUBSET ScriptRoots[s]
      OBVIOUS
    <3>. HIDE DEF R
    <3>. QED
      BY <1>4, <3>1, StoreConstantsOK
  <2>2. findFiveMResource(g, s) = CHOOSE r \in R : \A q \in R : Length[q] <= Length[r]
    BY <1>4 DEF findFiveMResource, Longest
  <2>3. findFiveMResource(g, s) \in R /\ R \subseteq Roots
    BY <2>1, <2>2, StoreConstantsOK
  <2>4. g.byRoot[findFiveMResource(g, s)].body \in Bodies
    BY <2>3 DEF Graph, Node, Registered
  <2>. QED
    BY <2>3, <2>4, StoreConstantsOK, GraphConstantsOK DEF ProfileIn, Profile
<1>. QED
  BY <1>3, <1>4
-----------------------------------------------------------------------------
(* A re-index leaves no script outside the history set until it is done.     *)
ReindexIsEarly == phase # "idle" => early = Scripts

(* What a re-index has left to do is there to be read.                       *)
TodoReadable ==
    \A m \in todo \cap Manifests :
        /\ phase = "results" => disk[m] # NoBody
        /\ phase = "register" => HasMDoc(m)

ProfileInv == StoreTypeOK /\ CachedProfileCurrent /\ ReindexIsEarly /\ TodoReadable

(* The first index starts with no profile cached.                            *)
LEMMA InitProfiles == StoreInit => ProfileInv
<1>. SUFFICES ASSUME StoreInit PROVE ProfileInv
  OBVIOUS
<1>1. graph \in Graph
  BY EmptyGraphOK DEF StoreInit, Init, IndexOK
<1>2. mdocs \in [Manifests -> MDoc]
  BY DEF StoreInit, NoMDoc, MDoc
<1>3. StoreTypeOK
  BY <1>1, <1>2 DEF StoreInit, StoreTypeOK, TypeOK
<1>. QED
  BY <1>3, StoreConstantsOK
     DEF StoreInit, ProfileInv, CachedProfileCurrent, ReindexIsEarly, TodoReadable

(* Parsing a manifest: the graph changes at its root only, and the profiles  *)
(* that root could change are dropped.                                       *)
LEMMA FinalizeManifest ==
    ASSUME ProfileInv, NEW m \in Manifests, NEW text \in FileBodies,
           finalizeManifest(m, text)
    PROVE  /\ graph' \in Graph
           /\ mdocs' \in [Manifests -> MDoc]
           /\ profile' \in [Scripts -> Profile \cup {NotCached}]
           /\ scanned' \subseteq Scripts
           /\ \A s \in Scripts \ early :
                 profile'[s] # NotCached => profile'[s] = ProfileIn(graph', s)
<1>. DEFINE r == RootOf[m]
            node == parseFiveMManifest(m, mdocs'[m])
<1>1. /\ mdocs' = [mdocs EXCEPT ![m] = [body |-> text, held |-> TRUE]]
      /\ graph' = Register(graph, r, node)
      /\ \/ graph'.byRoot[r] = graph.byRoot[r] /\ UNCHANGED <<profile, scanned>>
         \/ /\ profile' = Invalidated(Prefixed[r])
            /\ scanned' \subseteq scanned
  BY DEF finalizeManifest
<1>2. /\ mdocs' \in [Manifests -> MDoc]
      /\ mdocs'[m] \in [body: FileBodies, held: BOOLEAN]
  BY <1>1 DEF ProfileInv, StoreTypeOK, MDoc
<1>3. node \in Node /\ r \in Roots
  BY <1>2, ParsedNode
<1>4. /\ graph' \in Graph
      /\ \A q \in Roots \ {r} : graph'.byRoot[q] = graph.byRoot[q]
  <2>1. graph \in Graph
    BY DEF ProfileInv, StoreTypeOK, TypeOK
  <2>. HIDE DEF r, node
  <2>. QED
    BY <1>1, <1>3, <2>1, RegisterTouches
<1>. HIDE DEF r, node
<1>5. ASSUME NEW s \in Scripts,
             graph'.byRoot[r] = graph.byRoot[r] \/ r \notin ScriptRoots[s]
      PROVE  ProfileIn(graph', s) = ProfileIn(graph, s)
  <2>1. \A q \in ScriptRoots[s] : graph'.byRoot[q] = graph.byRoot[q]
    BY <1>4, <1>5, StoreConstantsOK
  <2>. QED
    BY <2>1, ProfileDependsOnRoots
<1>6. CASE graph'.byRoot[r] = graph.byRoot[r] /\ UNCHANGED <<profile, scanned>>
  BY <1>2, <1>4, <1>5, <1>6
     DEF ProfileInv, StoreTypeOK, CachedProfileCurrent
<1>7. CASE profile' = Invalidated(Prefixed[r]) /\ scanned' \subseteq scanned
  <2>1. profile' \in [Scripts -> Profile \cup {NotCached}]
    BY <1>7 DEF Invalidated, ProfileInv, StoreTypeOK
  <2>2. ASSUME NEW s \in Scripts \ early, profile'[s] # NotCached
        PROVE  profile'[s] = ProfileIn(graph', s)
    <3>1. s \notin Prefixed[r] /\ profile'[s] = profile[s]
      BY <1>7, <2>2 DEF Invalidated
    <3>2. r \notin ScriptRoots[s]
      BY <3>1, StoreConstantsOK
    <3>. QED
      BY <1>5, <2>2, <3>1, <3>2 DEF ProfileInv, CachedProfileCurrent
  <2>. QED
    BY <1>2, <1>4, <1>7, <2>1, <2>2 DEF ProfileInv, StoreTypeOK
<1>. QED
  BY <1>1, <1>6, <1>7

(* Parsing a script: its profile is dropped or computed from the graph.      *)
LEMMA FinalizeScript ==
    ASSUME ProfileInv, NEW s \in Scripts, NEW defines \in BOOLEAN,
           finalizeScript(s, defines)
    PROVE  /\ sdocs' \subseteq Scripts
           /\ scanned' \subseteq Scripts
           /\ profile' \in [Scripts -> Profile \cup {NotCached}]
           /\ profile'[s] # NotCached => profile'[s] = ProfileIn(graph, s)
           /\ \A q \in Scripts \ {s} : profile'[q] = profile[q]
<1>1. ProfileIn(graph, s) \in Profile
  BY ProfileInType DEF ProfileInv, StoreTypeOK, TypeOK
<1>. QED
  BY <1>1 DEF finalizeScript, ProfileInv, StoreTypeOK

(* A manifest update, parsed or skipped as unchanged, outside re-indexing.   *)
LEMMA UpdateManifest ==
    ASSUME ProfileInv, NEW m \in Manifests, NEW text \in FileBodies,
           updateManifest(m, text) \/ UNCHANGED <<mdocs, graph, profile, scanned>>,
           UNCHANGED <<sdocs, phase, todo, early>>, phase = "idle",
           disk' \in [Manifests -> FileBodies \cup {NoBody}],
           files' \subseteq Scripts, news' \subseteq Manifests,
           open' \subseteq Manifests
    PROVE  ProfileInv'
<1>1. CASE UNCHANGED <<mdocs, graph, profile, scanned>>
  <2>1. StoreTypeOK'
    BY <1>1 DEF ProfileInv, StoreTypeOK, TypeOK
  <2>2. CachedProfileCurrent' /\ ReindexIsEarly' /\ TodoReadable'
    BY <1>1 DEF ProfileInv, CachedProfileCurrent, ReindexIsEarly, TodoReadable
  <2>. QED
    BY <2>1, <2>2 DEF ProfileInv
<1>2. CASE finalizeManifest(m, text)
  <2>1. /\ graph' \in Graph
        /\ mdocs' \in [Manifests -> MDoc]
        /\ profile' \in [Scripts -> Profile \cup {NotCached}]
        /\ scanned' \subseteq Scripts
        /\ \A s \in Scripts \ early :
              profile'[s] # NotCached => profile'[s] = ProfileIn(graph', s)
    BY <1>2, FinalizeManifest
  <2>2. StoreTypeOK'
    BY <2>1 DEF ProfileInv, StoreTypeOK, TypeOK
  <2>3. CachedProfileCurrent' /\ ReindexIsEarly' /\ TodoReadable'
    BY <2>1 DEF ProfileInv, CachedProfileCurrent, ReindexIsEarly, TodoReadable
  <2>. QED
    BY <2>2, <2>3 DEF ProfileInv
<1>. QED
  BY <1>1, <1>2 DEF updateManifest

(* Removing a resource drops the profiles under its root, the only ones the  *)
(* removal can change.                                                       *)
LEMMA DeleteManifest ==
    ASSUME ProfileInv, NEW m \in Manifests, WatchedManifestDeleted(m)
    PROVE  ProfileInv'
<1>. DEFINE t == Target(graph, RootOf[m])
<1>1. RootOf[m] \in Roots /\ graph \in Graph
  BY StoreConstantsOK DEF ProfileInv, StoreTypeOK, TypeOK
<1>2. /\ graph' \in Graph
      /\ \A q \in Roots \ {t} : graph'.byRoot[q] = graph.byRoot[q]
  BY <1>1, RemoveTouches DEF WatchedManifestDeleted
<1>. HIDE DEF t
<1>3. profile' = Invalidated({s \in Scripts : t \in ScriptRoots[s]})
  BY DEF WatchedManifestDeleted, t
<1>4. StoreTypeOK'
  <2>1. mdocs' \in [Manifests -> MDoc]
    BY DEF WatchedManifestDeleted, ProfileInv, StoreTypeOK, NoMDoc, MDoc
  <2>2. profile' \in [Scripts -> Profile \cup {NotCached}]
    BY <1>3 DEF Invalidated, ProfileInv, StoreTypeOK
  <2>. QED
    BY <1>2, <2>1, <2>2
       DEF WatchedManifestDeleted, ProfileInv, StoreTypeOK, TypeOK, reindex
<1>5. CachedProfileCurrent'
  <2>. SUFFICES ASSUME NEW s \in Scripts \ early, profile'[s] # NotCached
                PROVE  profile'[s] = ProfileIn(graph', s)
    BY DEF CachedProfileCurrent, WatchedManifestDeleted
  <2>1. t \notin ScriptRoots[s] /\ profile'[s] = profile[s]
    BY <1>3 DEF Invalidated
  <2>2. \A q \in ScriptRoots[s] : graph'.byRoot[q] = graph.byRoot[q]
    BY <1>2, <2>1, StoreConstantsOK
  <2>3. ProfileIn(graph', s) = ProfileIn(graph, s)
    BY <2>2, ProfileDependsOnRoots
  <2>. QED
    BY <2>1, <2>3 DEF ProfileInv, CachedProfileCurrent
<1>6. ReindexIsEarly' /\ TodoReadable'
  BY DEF WatchedManifestDeleted, ReindexIsEarly, TodoReadable, ProfileInv, reindex
<1>. QED
  BY <1>4, <1>5, <1>6 DEF ProfileInv

(* A step that leaves graph, profiles and history alone keeps the invariant. *)
LEMMA QuietStep ==
    ASSUME ProfileInv, UNCHANGED <<graph, profile, early, phase>>, StoreTypeOK',
           phase = "idle"
    PROVE  ProfileInv'
  BY DEF ProfileInv, CachedProfileCurrent, ReindexIsEarly, TodoReadable

(* The other handlers: profiles are dropped, or computed from the graph.     *)
LEMMA ScriptSteps ==
    ASSUME ProfileInv, NEW s \in Scripts, NEW defines \in BOOLEAN,
           \/ UpdateScript(s, defines)
           \/ WatchedScriptDeleted(s)
           \/ ReadProfile(s)
           \/ LoseScript(s)
    PROVE  ProfileInv'
<1>0. /\ graph \in Graph
      /\ profile \in [Scripts -> Profile \cup {NotCached}]
      /\ ProfileIn(graph, s) \in Profile
  BY ProfileInType DEF ProfileInv, StoreTypeOK, TypeOK
<1>1. CASE UpdateScript(s, defines)
  <2>1. /\ sdocs' \subseteq Scripts
        /\ scanned' \subseteq Scripts
        /\ profile' \in [Scripts -> Profile \cup {NotCached}]
        /\ profile'[s] # NotCached => profile'[s] = ProfileIn(graph, s)
        /\ \A q \in Scripts \ {s} : profile'[q] = profile[q]
    BY <1>1, FinalizeScript DEF UpdateScript
  <2>2. StoreTypeOK'
    BY <1>1, <2>1 DEF UpdateScript, ProfileInv, StoreTypeOK, TypeOK, reindex
  <2>3. CachedProfileCurrent'
    BY <1>1, <2>1 DEF UpdateScript, ProfileInv, CachedProfileCurrent
  <2>4. ReindexIsEarly' /\ TodoReadable'
    BY <1>1 DEF UpdateScript, ReindexIsEarly, TodoReadable, reindex
  <2>. QED
    BY <2>2, <2>3, <2>4 DEF ProfileInv
<1>2. CASE WatchedScriptDeleted(s)
  <2>1. PICK S : profile' = Invalidated(S)
    BY <1>2 DEF WatchedScriptDeleted
  <2>2. profile' \in [Scripts -> Profile \cup {NotCached}]
    BY <1>0, <2>1 DEF Invalidated
  <2>3. scanned' \subseteq Scripts /\ sdocs' \subseteq Scripts
    BY <1>2 DEF WatchedScriptDeleted, ProfileInv, StoreTypeOK
  <2>4. StoreTypeOK'
    BY <1>2, <2>2, <2>3
       DEF WatchedScriptDeleted, ProfileInv, StoreTypeOK, TypeOK, reindex, world
  <2>5. CachedProfileCurrent' /\ ReindexIsEarly' /\ TodoReadable'
    BY <1>2, <2>1 DEF WatchedScriptDeleted, Invalidated, ProfileInv,
                      CachedProfileCurrent, ReindexIsEarly, TodoReadable, reindex
  <2>. QED
    BY <2>4, <2>5 DEF ProfileInv
<1>3. CASE ReadProfile(s)
  <2>1. StoreTypeOK'
    BY <1>0, <1>3 DEF ReadProfile, ProfileInv, StoreTypeOK, TypeOK, reindex, world
  <2>2. CachedProfileCurrent' /\ ReindexIsEarly' /\ TodoReadable'
    BY <1>0, <1>3 DEF ReadProfile, ProfileInv, CachedProfileCurrent,
                      ReindexIsEarly, TodoReadable, reindex
  <2>. QED
    BY <2>1, <2>2 DEF ProfileInv
<1>4. CASE LoseScript(s)
  <2>1. StoreTypeOK'
    BY <1>4 DEF LoseScript, ProfileInv, StoreTypeOK, TypeOK, reindex, store
  <2>. QED
    BY <1>4, <2>1, QuietStep DEF LoseScript, store, reindex
<1>. QED
  BY <1>1, <1>2, <1>3, <1>4

(* Closing a document, and writing a manifest behind the server's back.      *)
LEMMA CloseSteps ==
    ASSUME ProfileInv,
           \/ \E m \in Manifests : CloseManifest(m)
           \/ CloseScript
           \/ \E m \in Manifests, text \in FileBodies \cup {NoBody} :
                 WriteManifest(m, text)
    PROVE  ProfileInv'
<1>1. ASSUME NEW m \in Manifests, CloseManifest(m) PROVE ProfileInv'
  <2>1. Evicted(open') \in [Manifests -> MDoc]
    BY DEF Evicted, MDoc, ProfileInv, StoreTypeOK
  <2>2. mdocs' \in [Manifests -> MDoc]
    BY <1>1, <2>1 DEF CloseManifest, NoMDoc, MDoc
  <2>3. StoreTypeOK'
    BY <1>1, <2>2 DEF CloseManifest, ProfileInv, StoreTypeOK, TypeOK, reindex, world
  <2>. QED
    BY <1>1, <2>3, QuietStep DEF CloseManifest, reindex
<1>2. CASE CloseScript
  <2>1. mdocs' \in [Manifests -> MDoc]
    BY <1>2 DEF CloseScript, Evicted, MDoc, ProfileInv, StoreTypeOK
  <2>2. StoreTypeOK'
    BY <1>2, <2>1 DEF CloseScript, ProfileInv, StoreTypeOK, TypeOK, reindex, world
  <2>. QED
    BY <1>2, <2>2, QuietStep DEF CloseScript, reindex
<1>3. ASSUME NEW m \in Manifests, NEW text \in FileBodies \cup {NoBody},
             WriteManifest(m, text)
      PROVE  ProfileInv'
  <2>1. StoreTypeOK'
    BY <1>3 DEF WriteManifest, ProfileInv, StoreTypeOK, TypeOK, reindex, store
  <2>. QED
    BY <1>3, <2>1, QuietStep DEF WriteManifest, reindex, store
<1>. QED
  BY <1>1, <1>2, <1>3

(* Re-indexing: no profile counts as current until it is over.               *)
LEMMA ReindexSteps ==
    ASSUME ProfileInv,
           \/ StartReindex
           \/ \E m \in Manifests : ManifestResult(m) \/ Reregister(m)
           \/ \E s \in Scripts, defines \in BOOLEAN : ScriptResult(s, defines)
           \/ ClearLost
           \/ EndReindex
    PROVE  ProfileInv'
<1>0. graph \in Graph /\ todo \subseteq Manifests \cup Scripts
  BY DEF ProfileInv, StoreTypeOK, TypeOK
<1>1. CASE StartReindex
  <2>1. EmptyGraph \in Graph
    BY EmptyGraphOK DEF IndexOK
  <2>2. todo' \subseteq Manifests \cup Scripts
    BY <1>1 DEF StartReindex, ProfileInv, StoreTypeOK
  <2>3. StoreTypeOK'
    BY <1>1, <2>1, <2>2
       DEF StartReindex, ProfileInv, StoreTypeOK, TypeOK, store, world
  <2>4. CachedProfileCurrent' /\ ReindexIsEarly'
    BY <1>1 DEF StartReindex, CachedProfileCurrent, ReindexIsEarly
  <2>5. TodoReadable'
    BY <1>1, StoreConstantsOK
       DEF StartReindex, TodoReadable, ProfileInv, StoreTypeOK, world
  <2>. QED
    BY <2>3, <2>4, <2>5 DEF ProfileInv
<1>2. ASSUME phase # "idle", early' = early, StoreTypeOK', TodoReadable'
      PROVE  ProfileInv'
  BY <1>2 DEF ProfileInv, ReindexIsEarly, CachedProfileCurrent
<1>3. ASSUME NEW m \in Manifests, ManifestResult(m) PROVE ProfileInv'
  <2>1. disk[m] \in FileBodies
    BY <1>3 DEF ManifestResult, ProfileInv, StoreTypeOK, TodoReadable
  <2>2. /\ graph' \in Graph
        /\ mdocs' \in [Manifests -> MDoc]
        /\ profile' \in [Scripts -> Profile \cup {NotCached}]
        /\ scanned' \subseteq Scripts
    BY <1>3, <2>1, FinalizeManifest DEF ManifestResult
  <2>3. StoreTypeOK'
    BY <1>3, <2>2 DEF ManifestResult, ProfileInv, StoreTypeOK, TypeOK, world
  <2>4. TodoReadable'
    BY <1>3 DEF ManifestResult, ProfileInv, TodoReadable, world
  <2>. QED
    BY <1>2, <1>3, <2>3, <2>4 DEF ManifestResult
<1>4. ASSUME NEW m \in Manifests, Reregister(m) PROVE ProfileInv'
  <2>1. parseFiveMManifest(m, mdocs[m]) \in Node /\ RootOf[m] \in Roots
    <3>1. mdocs[m] \in [body: FileBodies, held: BOOLEAN]
      BY <1>4 DEF Reregister, ProfileInv, StoreTypeOK, TodoReadable, HasMDoc, MDoc
    <3>. QED
      BY <3>1, ParsedNode
  <2>2. graph' \in Graph
    BY <1>0, <1>4, <2>1, RegisterTouches DEF Reregister
  <2>3. StoreTypeOK'
    BY <1>4, <2>2 DEF Reregister, ProfileInv, StoreTypeOK, TypeOK, world, store
  <2>4. TodoReadable'
    BY <1>4 DEF Reregister, ProfileInv, TodoReadable, HasMDoc, store
  <2>. QED
    BY <1>2, <1>4, <2>3, <2>4 DEF Reregister
<1>5. ASSUME NEW s \in Scripts, NEW defines \in BOOLEAN, ScriptResult(s, defines)
      PROVE  ProfileInv'
  <2>1. /\ sdocs' \subseteq Scripts
        /\ scanned' \subseteq Scripts
        /\ profile' \in [Scripts -> Profile \cup {NotCached}]
    BY <1>5, FinalizeScript DEF ScriptResult
  <2>2. StoreTypeOK'
    BY <1>5, <2>1 DEF ScriptResult, ProfileInv, StoreTypeOK, TypeOK, world
  <2>3. TodoReadable'
    BY <1>5 DEF ScriptResult, ProfileInv, TodoReadable, world
  <2>. QED
    BY <1>2, <1>5, <2>2, <2>3 DEF ScriptResult
<1>6. CASE ClearLost
  <2>1. \A s \in Scripts : ProfileIn(graph, s) \in Profile
    BY <1>0, ProfileInType
  <2>2. mdocs' \in [Manifests -> MDoc]
    BY <1>6 DEF ClearLost, ProfileInv, StoreTypeOK, NoMDoc, MDoc
  <2>3. profile' \in [Scripts -> Profile \cup {NotCached}]
    BY <1>6, <2>1 DEF ClearLost, ProfileInv, StoreTypeOK
  <2>4. /\ sdocs' \subseteq Scripts
        /\ scanned' \subseteq Scripts
        /\ todo' \subseteq Manifests
        /\ phase' = "register"
        /\ UNCHANGED <<graph, disk, files, news, open, early>>
    BY <1>6 DEF ClearLost, ProfileInv, StoreTypeOK, world
  <2>5. StoreTypeOK'
    BY <2>2, <2>3, <2>4 DEF ProfileInv, StoreTypeOK, TypeOK
  <2>6. TodoReadable'
    BY <1>6 DEF ClearLost, TodoReadable, HasMDoc
  <2>. QED
    BY <1>2, <1>6, <2>4, <2>5, <2>6 DEF ClearLost
<1>7. CASE EndReindex
  <2>1. StoreTypeOK' /\ TodoReadable'
    BY <1>7 DEF EndReindex, ProfileInv, StoreTypeOK, TypeOK, TodoReadable, world, store
  <2>. QED
    BY <1>2, <1>7, <2>1 DEF EndReindex
<1>. QED
  BY <1>1, <1>3, <1>4, <1>5, <1>6, <1>7

(* ProfileInv is inductive.                                                  *)
LEMMA StepProfiles == ProfileInv /\ [StoreNext]_storeVars => ProfileInv'
<1>. SUFFICES ASSUME ProfileInv, [StoreNext]_storeVars PROVE ProfileInv'
  OBVIOUS
<1>1. ASSUME NEW m \in Manifests, NEW text \in FileBodies, EditManifest(m, text)
      PROVE  ProfileInv'
  BY <1>1, UpdateManifest
     DEF EditManifest, ProfileInv, StoreTypeOK, reindex, world
<1>2. ASSUME NEW m \in Manifests, WatchedManifestChanged(m) PROVE ProfileInv'
  <2>1. disk[m] \in FileBodies
    BY <1>2 DEF WatchedManifestChanged, ProfileInv, StoreTypeOK
  <2>. QED
    BY <1>2, <2>1, UpdateManifest
       DEF WatchedManifestChanged, ProfileInv, StoreTypeOK, reindex
<1>3. CASE UNCHANGED storeVars
  <2>1. StoreTypeOK'
    BY <1>3 DEF storeVars, ProfileInv, StoreTypeOK, TypeOK
  <2>2. CachedProfileCurrent' /\ ReindexIsEarly' /\ TodoReadable'
    BY <1>3 DEF storeVars, ProfileInv, CachedProfileCurrent, ReindexIsEarly,
                TodoReadable, HasMDoc
  <2>. QED
    BY <2>1, <2>2 DEF ProfileInv
<1>4. ASSUME NEW m \in Manifests, WatchedManifestDeleted(m) PROVE ProfileInv'
  BY <1>4, DeleteManifest
<1>5. CASE StoreNext
  BY <1>1, <1>2, <1>4, <1>5, CloseSteps, ScriptSteps, ReindexSteps DEF StoreNext
<1>. QED
  BY <1>3, <1>5

(* Every profile cached since the last re-index is the one the graph gives:  *)
(* no edit, replacement or removal of a manifest leaves a stale one behind.  *)
THEOREM ProfilesCorrect == StoreSpec => [](StoreTypeOK /\ CachedProfileCurrent)
<1>1. ProfileInv => StoreTypeOK /\ CachedProfileCurrent
  BY DEF ProfileInv
<1>. QED
  BY <1>1, InitProfiles, StepProfiles, PTL DEF StoreSpec

-----------------------------------------------------------------------------
(* Every step of the store is a step of the resource graph or leaves it be.  *)
LEMMA StoreStepIsGraphStep == ProfileInv /\ [StoreNext]_storeVars => [Next]_graph
<1>. SUFFICES ASSUME ProfileInv, [StoreNext]_storeVars PROVE [Next]_graph
  OBVIOUS
<1>1. ASSUME NEW m \in Manifests, NEW text \in FileBodies, finalizeManifest(m, text)
      PROVE  Next
  <2>1. mdocs'[m] \in [body: FileBodies, held: BOOLEAN]
    BY <1>1 DEF finalizeManifest, ProfileInv, StoreTypeOK, MDoc
  <2>2. parseFiveMManifest(m, mdocs'[m]) \in Node /\ RootOf[m] \in Roots
    BY <2>1, ParsedNode
  <2>3. graph' = Register(graph, RootOf[m], parseFiveMManifest(m, mdocs'[m]))
    BY <1>1 DEF finalizeManifest
  <2>. QED
    BY <2>2, <2>3 DEF Next, registerFiveMManifestResource
<1>2. ASSUME NEW m \in Manifests, NEW text \in FileBodies, updateManifest(m, text)
      PROVE  [Next]_graph
  BY <1>1, <1>2 DEF updateManifest
<1>3. ASSUME NEW m \in Manifests, Reregister(m) PROVE Next
  <2>1. mdocs[m] \in [body: FileBodies, held: BOOLEAN]
    BY <1>3 DEF Reregister, ProfileInv, StoreTypeOK, TodoReadable, HasMDoc, MDoc
  <2>. QED
    BY <1>3, <2>1, ParsedNode DEF Reregister, Next, registerFiveMManifestResource
<1>4. ASSUME NEW m \in Manifests, WatchedManifestDeleted(m) PROVE Next
  BY <1>4, StoreConstantsOK DEF WatchedManifestDeleted, Next, ManifestDeleted
<1>5. CASE StartReindex
  BY <1>5 DEF StartReindex, Next, Clear
<1>6. ASSUME NEW m \in Manifests, WatchedManifestChanged(m) PROVE [Next]_graph
  BY <1>2, <1>6 DEF WatchedManifestChanged, ProfileInv, StoreTypeOK
<1>7. ASSUME NEW m \in Manifests, ManifestResult(m) PROVE Next
  BY <1>1, <1>7 DEF ManifestResult, ProfileInv, StoreTypeOK, TodoReadable
<1>8. ASSUME NEW m \in Manifests, NEW text \in FileBodies, EditManifest(m, text)
      PROVE  [Next]_graph
  BY <1>2, <1>8 DEF EditManifest
<1>9. CASE UNCHANGED storeVars
  BY <1>9 DEF storeVars
<1>10. ASSUME NEW m \in Manifests, CloseManifest(m) PROVE graph' = graph
  BY <1>10 DEF CloseManifest
<1>11. ASSUME NEW s \in Scripts, NEW defines \in BOOLEAN,
              UpdateScript(s, defines) \/ ScriptResult(s, defines)
       PROVE  graph' = graph
  BY <1>11 DEF UpdateScript, ScriptResult
<1>12. ASSUME NEW s \in Scripts, WatchedScriptDeleted(s) \/ ReadProfile(s) \/ LoseScript(s)
       PROVE  graph' = graph
  BY <1>12 DEF WatchedScriptDeleted, ReadProfile, LoseScript
<1>13. CASE CloseScript \/ ClearLost \/ EndReindex
  BY <1>13 DEF CloseScript, ClearLost, EndReindex
<1>14. ASSUME NEW m \in Manifests, NEW text \in FileBodies \cup {NoBody},
              WriteManifest(m, text)
       PROVE  graph' = graph
  BY <1>14 DEF WriteManifest
<1>15. CASE StoreNext
  BY <1>3, <1>4, <1>5, <1>6, <1>7, <1>8, <1>10, <1>11, <1>12, <1>13, <1>14, <1>15
     DEF StoreNext
<1>. QED
  BY <1>9, <1>15

(* The store implements the resource graph.                                  *)
THEOREM StoreImplementsGraph == StoreSpec => ImplementsGraph
<1>1. StoreInit => Init
  BY DEF StoreInit
<1>. QED
  BY <1>1, InitProfiles, StepProfiles, StoreStepIsGraphStep, PTL
     DEF StoreSpec, ImplementsGraph, Spec

(* So the names and aliases of the graph stay exact through every sequence   *)
(* of edits, watcher events, evictions and re-indexes.                       *)
THEOREM StoreKeepsIndexes == StoreSpec => [](NamesLeadToNodes /\ AliasesExact)
  BY StoreImplementsGraph, GraphIndexesExact, PTL DEF ImplementsGraph
-----------------------------------------------------------------------------
(* While a manifest is the one registered for its root, the root's content   *)
(* is the document's: also in the middle of a re-index.                      *)
Active(node, kind, doc) ==
    doc.body # NoBody /\ node # NoNode /\ node.kind = kind
    => /\ node.body \in {doc.body, Blank}
       /\ doc.held => node.body = doc.body

ActiveCurrent(g, docs) ==
    \A m \in Manifests : Active(g.byRoot[RootOf[m]], KindOf[m], docs[m])

(* While results come in, a registered root has the manifest it came from,   *)
(* and that manifest is on the disk: ClearLost leaves it.  While documents   *)
(* are registered again, it is still indexed.                                *)
Backed(g, docs) ==
    \A r \in Roots : Registered(g, r) =>
        \E m \in Manifests : /\ RootOf[m] = r
                             /\ KindOf[m] = g.byRoot[r].kind
                             /\ docs[m].body # NoBody
                             /\ phase = "results" => disk[m] # NoBody

(* Every indexed manifest that is not left to be registered again has its    *)
(* root registered, by itself or by one of higher precedence.                *)
Covered(g, docs, left) ==
    \A m \in Manifests \ left : docs[m].body # NoBody =>
        /\ Registered(g, RootOf[m])
        /\ KindOf[m] <= g.byRoot[RootOf[m]].kind

ManifestInv ==
    /\ ProfileInv
    /\ ActiveCurrent(graph, mdocs)
    /\ phase # "idle" => Backed(graph, mdocs)
    /\ phase = "register" => Covered(graph, mdocs, todo)

(* Registering puts the node in place, or leaves one of higher precedence.   *)
LEMMA RegisteredNode ==
    ASSUME NEW g \in Graph, NEW r \in Roots, NEW node \in Node
    PROVE  Register(g, r, node).byRoot[r] =
             IF Registered(g, r) /\ g.byRoot[r].kind > node.kind
             THEN g.byRoot[r] ELSE node
<1>1. removeNode(g, r) \in Graph
  BY GraphConstantsOK DEF removeNode, Graph, AliasesOf
<1>2. ASSUME NEW h \in Graph PROVE insertNode(h, r, node).byRoot[r] = node
  BY <1>2, GraphConstantsOK DEF insertNode, Graph
<1>. QED
  BY <1>1, <1>2 DEF Register

(* Registering an indexed manifest, new or again, keeps the three relations  *)
(* between the graph and the documents, and covers the manifest.             *)
LEMMA RegisterFollowed ==
    ASSUME NEW g \in Graph, NEW docs \in [Manifests -> MDoc], NEW m \in Manifests,
           docs[m].body # NoBody, NEW h,
           h = Register(g, RootOf[m], parseFiveMManifest(m, docs[m])),
           \A n \in Manifests \ {m} : Active(g.byRoot[RootOf[n]], KindOf[n], docs[n])
    PROVE  /\ ActiveCurrent(h, docs)
           /\ Backed(g, docs) /\ (phase = "results" => disk[m] # NoBody)
              => Backed(h, docs)
           /\ \A left : Covered(g, docs, left) => Covered(h, docs, left \ {m})
<1>. DEFINE r == RootOf[m]
            node == parseFiveMManifest(m, docs[m])
<1>1. docs[m] \in [body: FileBodies, held: BOOLEAN]
  BY DEF MDoc
<1>2. node \in Node /\ r \in Roots
  BY <1>1, ParsedNode
<1>3. /\ node.kind = KindOf[m]
      /\ node.body \in {docs[m].body, Blank}
      /\ docs[m].held => node.body = docs[m].body
  BY DEF parseFiveMManifest
<1>4. node # NoNode
  BY <1>2, NoNodeIsNone
<1>5. \A n \in Manifests : RootOf[n] \in Roots /\ KindOf[n] \in Nat
  BY StoreConstantsOK DEF Kinds
<1>. HIDE DEF r, node
<1>6. /\ \A q \in Roots \ {r} : h.byRoot[q] = g.byRoot[q]
      /\ h.byRoot[r] = IF Registered(g, r) /\ g.byRoot[r].kind > node.kind
                       THEN g.byRoot[r] ELSE node
  <2>1. h = Register(g, r, node)
    BY DEF r, node
  <2>. QED
    BY <1>2, <2>1, RegisterTouches, RegisteredNode
<1>7. ActiveCurrent(h, docs)
  <2>1. SUFFICES ASSUME NEW n \in Manifests
                 PROVE  Active(h.byRoot[RootOf[n]], KindOf[n], docs[n])
    BY DEF ActiveCurrent
  <2>2. CASE n = m
    BY <1>3, <1>5, <1>6, <2>2 DEF Active, r
  <2>3. CASE n # m
    <3>1. Active(g.byRoot[RootOf[n]], KindOf[n], docs[n])
      BY <2>3
    <3>2. CASE h.byRoot[RootOf[n]] = g.byRoot[RootOf[n]]
      BY <3>1, <3>2
    <3>3. CASE h.byRoot[RootOf[n]] # g.byRoot[RootOf[n]]
      <4>1. RootOf[n] = RootOf[m] /\ h.byRoot[RootOf[n]] = node
        BY <1>5, <1>6, <3>3 DEF r
      <4>2. KindOf[n] # KindOf[m]
        BY <2>3, <4>1, StoreConstantsOK
      <4>. QED
        BY <1>3, <4>1, <4>2 DEF Active
    <3>. QED
      BY <3>2, <3>3
  <2>. QED
    BY <2>2, <2>3
<1>8. ASSUME Backed(g, docs), phase = "results" => disk[m] # NoBody
      PROVE  Backed(h, docs)
  <2>1. SUFFICES ASSUME NEW q \in Roots, Registered(h, q)
                 PROVE  \E n \in Manifests : /\ RootOf[n] = q
                                             /\ KindOf[n] = h.byRoot[q].kind
                                             /\ docs[n].body # NoBody
                                             /\ phase = "results" => disk[n] # NoBody
    BY DEF Backed
  <2>2. CASE h.byRoot[q] = g.byRoot[q]
    BY <1>8, <2>1, <2>2 DEF Backed, Registered
  <2>3. CASE q = r /\ h.byRoot[q] = node
    BY <1>3, <1>8, <2>3 DEF r
  <2>. QED
    BY <1>6, <2>2, <2>3
<1>9. ASSUME NEW left, Covered(g, docs, left)
      PROVE  Covered(h, docs, left \ {m})
  <2>1. SUFFICES ASSUME NEW n \in Manifests, n \notin left \/ n = m,
                        docs[n].body # NoBody
                 PROVE  /\ Registered(h, RootOf[n])
                        /\ KindOf[n] <= h.byRoot[RootOf[n]].kind
    BY DEF Covered
  <2>2. h.byRoot[r] # NoNode /\ KindOf[m] <= h.byRoot[r].kind
    <3>1. g.byRoot[r] \in Node \cup {NoNode}
      BY <1>2 DEF Graph
    <3>. QED
      BY <1>3, <1>4, <1>5, <1>6, <3>1 DEF Registered, Node, Kinds
  <2>3. CASE n = m
    BY <2>2, <2>3 DEF Registered, r
  <2>4. CASE n # m
    <3>1. /\ Registered(g, RootOf[n])
          /\ KindOf[n] <= g.byRoot[RootOf[n]].kind
      BY <1>9, <2>1, <2>4 DEF Covered
    <3>2. CASE h.byRoot[RootOf[n]] = g.byRoot[RootOf[n]]
      BY <3>1, <3>2 DEF Registered
    <3>3. CASE h.byRoot[RootOf[n]] # g.byRoot[RootOf[n]]
      <4>1. /\ RootOf[n] = r
            /\ h.byRoot[r] = node
            /\ ~(Registered(g, r) /\ g.byRoot[r].kind > node.kind)
        BY <1>5, <1>6, <3>3
      <4>2. g.byRoot[r].kind <= KindOf[m]
        <5>1. g.byRoot[r] \in Node
          BY <1>2, <3>1, <4>1 DEF Graph, Registered
        <5>. QED
          BY <1>3, <1>5, <3>1, <4>1, <5>1 DEF Node, Kinds
      <4>3. g.byRoot[r].kind \in Nat
        BY <1>2, <3>1, <4>1 DEF Graph, Registered, Node, Kinds
      <4>. QED
        BY <1>3, <1>4, <1>5, <3>1, <4>1, <4>2, <4>3 DEF Registered
    <3>. QED
      BY <3>2, <3>3
  <2>. QED
    BY <2>3, <2>4
<1>. QED
  BY <1>7, <1>8, <1>9

(* Parsing a manifest keeps the relations.                                   *)
LEMMA FinalizeFollowed ==
    ASSUME ManifestInv, NEW m \in Manifests, NEW text \in FileBodies,
           finalizeManifest(m, text), UNCHANGED <<disk, phase>>,
           phase = "results" => disk[m] # NoBody
    PROVE  /\ ActiveCurrent(graph, mdocs)'
           /\ phase # "idle" => Backed(graph, mdocs)'
<1>1. graph \in Graph /\ mdocs \in [Manifests -> MDoc]
  BY DEF ManifestInv, ProfileInv, StoreTypeOK, TypeOK
<1>2. /\ mdocs' = [mdocs EXCEPT ![m] = [body |-> text, held |-> TRUE]]
      /\ graph' = Register(graph, RootOf[m], parseFiveMManifest(m, mdocs'[m]))
  BY DEF finalizeManifest
<1>3. PICK docs : docs = mdocs'
  OBVIOUS
<1>4. PICK h : h = graph'
  OBVIOUS
<1>5. text # NoBody
  BY StoreConstantsOK DEF FileBodies
<1>6. /\ docs \in [Manifests -> MDoc]
      /\ docs[m].body = text
      /\ \A n \in Manifests \ {m} : docs[n] = mdocs[n]
  BY <1>1, <1>2, <1>3 DEF MDoc
<1>7. \A n \in Manifests \ {m} : Active(graph.byRoot[RootOf[n]], KindOf[n], docs[n])
  BY <1>6 DEF ManifestInv, ActiveCurrent
<1>8. Backed(graph, mdocs) => Backed(graph, docs)
  BY <1>5, <1>6 DEF Backed
<1>9. /\ ActiveCurrent(h, docs)
      /\ Backed(graph, docs) /\ (phase = "results" => disk[m] # NoBody)
         => Backed(h, docs)
  <2>1. h = Register(graph, RootOf[m], parseFiveMManifest(m, docs[m]))
    BY <1>2, <1>3, <1>4
  <2>. QED
    BY <1>1, <1>5, <1>6, <1>7, <2>1, RegisterFollowed
<1>10. ActiveCurrent(graph, mdocs)'
  BY <1>3, <1>4, <1>9 DEF ActiveCurrent
<1>11. ASSUME phase # "idle" PROVE Backed(graph, mdocs)'
  <2>1. Backed(h, docs)
    BY <1>8, <1>9, <1>11 DEF ManifestInv
  <2>. QED
    BY <1>3, <1>4, <2>1 DEF Backed, Registered
<1>. QED
  BY <1>10, <1>11

(* Outside re-indexing only the first relation has to be kept: a manifest is *)
(* parsed or forgotten, or its source or its node is dropped.                *)
LEMMA IdleFollowed ==
    ASSUME ManifestInv, phase = "idle", phase' = "idle",
           \/ \E m \in Manifests, text \in FileBodies :
                 updateManifest(m, text) /\ disk' = disk
           \/ /\ \A r \in Roots : graph'.byRoot[r] \in {graph.byRoot[r], NoNode}
              /\ \A m \in Manifests :
                    \/ mdocs'[m].body = NoBody
                    \/ /\ mdocs'[m].body = mdocs[m].body
                       /\ mdocs'[m].held => mdocs[m].held
    PROVE  ActiveCurrent(graph, mdocs)'
<1>1. ActiveCurrent(graph, mdocs)
  BY DEF ManifestInv
<1>2. ASSUME NEW m \in Manifests, NEW text \in FileBodies,
             updateManifest(m, text), disk' = disk
      PROVE  ActiveCurrent(graph, mdocs)'
  BY <1>1, <1>2, FinalizeFollowed DEF updateManifest, ActiveCurrent
<1>3. ASSUME \A r \in Roots : graph'.byRoot[r] \in {graph.byRoot[r], NoNode},
             \A m \in Manifests :
                    \/ mdocs'[m].body = NoBody
                    \/ /\ mdocs'[m].body = mdocs[m].body
                       /\ mdocs'[m].held => mdocs[m].held
      PROVE  ActiveCurrent(graph, mdocs)'
  <2>1. \A m \in Manifests : RootOf[m] \in Roots
    BY StoreConstantsOK
  <2>. QED
    BY <1>1, <1>3, <2>1 DEF ActiveCurrent, Active
<1>. QED
  BY <1>2, <1>3

(* Removing a resource leaves every node as it is or drops it.               *)
LEMMA RemoveDrops ==
    ASSUME NEW g \in Graph, NEW r \in Roots, NEW q \in Roots
    PROVE  removeFiveMResource(g, r).byRoot[q] \in {g.byRoot[q], NoNode}
<1>1. CASE Target(g, r) = NoRoot
  BY <1>1 DEF removeFiveMResource
<1>2. CASE Target(g, r) # NoRoot
  <2>1. PICK t : t = Target(g, r)
    OBVIOUS
  <2>2. PICK h : h = removeNode(g, t)
    OBVIOUS
  <2>3. h.byRoot[q] \in {g.byRoot[q], NoNode} /\ DOMAIN h = {"byRoot", "byName", "byProvide"}
    BY <2>2 DEF removeNode, Graph
  <2>4. removeFiveMResource(g, r) = [h EXCEPT !.byName[NameOf[t]] = NoRoot]
    BY <1>2, <2>1, <2>2 DEF removeFiveMResource
  <2>5. removeFiveMResource(g, r).byRoot = h.byRoot
    BY <2>2, <2>4 DEF removeNode
  <2>. QED
    BY <2>3, <2>5
<1>. QED
  BY <1>1, <1>2

(* The steps of a re-index: the empty graph is backed by nothing, results    *)
(* and documents back what they register, and a document that is cleared was *)
(* not on the disk, so no registered root came from it in this re-index.     *)
LEMMA ReindexFollowed ==
    ASSUME ManifestInv, ProfileInv',
           \/ StartReindex
           \/ \E m \in Manifests : ManifestResult(m) \/ Reregister(m)
           \/ \E s \in Scripts, defines \in BOOLEAN : ScriptResult(s, defines)
           \/ ClearLost
           \/ EndReindex
    PROVE  ManifestInv'
<1>0. /\ graph \in Graph
      /\ mdocs \in [Manifests -> MDoc]
      /\ \A m \in Manifests : RootOf[m] \in Roots
  BY StoreConstantsOK DEF ManifestInv, ProfileInv, StoreTypeOK, TypeOK
<1>1. CASE StartReindex
  <2>1. graph' = EmptyGraph /\ phase' = "results" /\ mdocs' = mdocs
    BY <1>1 DEF StartReindex, store
  <2>2. \A r \in Roots : graph'.byRoot[r] = NoNode
    BY <2>1 DEF EmptyGraph
  <2>3. ActiveCurrent(graph, mdocs)' /\ Backed(graph, mdocs)'
    BY <1>0, <2>2 DEF ActiveCurrent, Active, Backed, Registered
  <2>. QED
    BY <2>1, <2>3 DEF ManifestInv
<1>2. ASSUME NEW m \in Manifests, ManifestResult(m) PROVE ManifestInv'
  <2>1. /\ finalizeManifest(m, disk[m])
        /\ UNCHANGED <<disk, phase>>
        /\ phase = "results"
    BY <1>2 DEF ManifestResult, world
  <2>2. disk[m] \in FileBodies
    BY <1>2 DEF ManifestResult, ManifestInv, ProfileInv, StoreTypeOK, TodoReadable
  <2>3. disk[m] # NoBody
    BY <2>2, StoreConstantsOK DEF FileBodies
  <2>4. ActiveCurrent(graph, mdocs)' /\ (phase # "idle" => Backed(graph, mdocs)')
    BY <2>1, <2>2, <2>3, FinalizeFollowed
  <2>. QED
    BY <2>1, <2>4 DEF ManifestInv
<1>3. ASSUME NEW m \in Manifests, Reregister(m) PROVE ManifestInv'
  <2>1. /\ phase = "register"
        /\ graph' = Register(graph, RootOf[m], parseFiveMManifest(m, mdocs[m]))
        /\ todo' = todo \ {m}
        /\ UNCHANGED <<phase, mdocs, disk>>
    BY <1>3 DEF Reregister, world, store
  <2>2. mdocs[m].body # NoBody
    BY <1>3, <2>1 DEF Reregister, ManifestInv, ProfileInv, TodoReadable, HasMDoc
  <2>3. PICK h : h = graph'
    OBVIOUS
  <2>4. \A n \in Manifests \ {m} : Active(graph.byRoot[RootOf[n]], KindOf[n], mdocs[n])
    BY DEF ManifestInv, ActiveCurrent
  <2>5. /\ ActiveCurrent(h, mdocs)
        /\ Backed(graph, mdocs) /\ (phase = "results" => disk[m] # NoBody)
           => Backed(h, mdocs)
        /\ \A left : Covered(graph, mdocs, left) => Covered(h, mdocs, left \ {m})
    <3>1. h = Register(graph, RootOf[m], parseFiveMManifest(m, mdocs[m]))
      BY <2>1, <2>3
    <3>. QED
      BY <1>0, <2>2, <2>4, <3>1, RegisterFollowed
  <2>6. Backed(h, mdocs) /\ Covered(h, mdocs, todo \ {m})
    BY <2>1, <2>5 DEF ManifestInv
  <2>7. ActiveCurrent(graph, mdocs)'
    BY <2>1, <2>3, <2>5 DEF ActiveCurrent
  <2>8. Backed(graph, mdocs)'
    BY <2>1, <2>3, <2>6 DEF Backed, Registered
  <2>9. Covered(graph, mdocs, todo)'
    BY <2>1, <2>3, <2>6 DEF Covered, Registered
  <2>. QED
    BY <2>1, <2>7, <2>8, <2>9 DEF ManifestInv
<1>4. ASSUME NEW s \in Scripts, NEW defines \in BOOLEAN, ScriptResult(s, defines)
      PROVE  ManifestInv'
  <2>1. UNCHANGED <<graph, mdocs, phase, disk>> /\ phase = "results"
    BY <1>4 DEF ScriptResult, world
  <2>. QED
    BY <2>1 DEF ManifestInv, ActiveCurrent, Active, Backed, Registered
<1>5. CASE ClearLost
  <2>1. /\ phase = "results"
        /\ phase' = "register"
        /\ UNCHANGED <<graph, disk>>
        /\ \A m \in Manifests : mdocs'[m] \in {mdocs[m], NoMDoc}
        /\ \A m \in Manifests : disk[m] # NoBody => mdocs'[m] = mdocs[m]
        /\ \A m \in Manifests : mdocs'[m].body # NoBody => m \in todo'
    BY <1>5 DEF ClearLost, world
  <2>2. ActiveCurrent(graph, mdocs)'
    BY <2>1 DEF ManifestInv, ActiveCurrent, Active, NoMDoc
  <2>3. Backed(graph, mdocs)'
    BY <2>1 DEF ManifestInv, Backed, Registered
  <2>4. Covered(graph, mdocs, todo)'
    BY <2>1 DEF Covered
  <2>. QED
    BY <2>2, <2>3, <2>4 DEF ManifestInv
<1>6. CASE EndReindex
  BY <1>6 DEF EndReindex, ManifestInv, ActiveCurrent, Active, store
<1>. QED
  BY <1>1, <1>2, <1>3, <1>4, <1>5, <1>6

(* Over the empty store of the first index nothing is registered.            *)
LEMMA InitManifests == StoreInit => ManifestInv
<1>. SUFFICES ASSUME StoreInit PROVE ManifestInv
  OBVIOUS
<1>1. /\ \A r \in Roots : graph.byRoot[r] = NoNode
      /\ \A m \in Manifests : RootOf[m] \in Roots
  BY StoreConstantsOK DEF StoreInit, Init, EmptyGraph
<1>2. ActiveCurrent(graph, mdocs) /\ Backed(graph, mdocs)
  BY <1>1 DEF ActiveCurrent, Active, Backed, Registered
<1>. QED
  BY <1>2, InitProfiles DEF ManifestInv, StoreInit

(* ManifestInv is inductive.                                                 *)
LEMMA StepManifests == ManifestInv /\ [StoreNext]_storeVars => ManifestInv'
<1>. SUFFICES ASSUME ManifestInv, [StoreNext]_storeVars PROVE ManifestInv'
  OBVIOUS
<1>0. /\ ProfileInv'
      /\ graph \in Graph
      /\ \A m \in Manifests : RootOf[m] \in Roots /\ NoMDoc.body = NoBody
  BY StepProfiles, StoreConstantsOK DEF ManifestInv, ProfileInv, StoreTypeOK, TypeOK, NoMDoc
<1>1. ASSUME phase = "idle", phase' = "idle", ActiveCurrent(graph, mdocs)'
      PROVE  ManifestInv'
  BY <1>0, <1>1 DEF ManifestInv
<1>2. ASSUME phase = "idle", phase' = "idle", UNCHANGED <<graph, mdocs>>
      PROVE  ManifestInv'
  BY <1>1, <1>2, IdleFollowed
<1>3. ASSUME NEW m \in Manifests, NEW text \in FileBodies, EditManifest(m, text)
      PROVE  ManifestInv'
  BY <1>1, <1>3, IdleFollowed DEF EditManifest, world, reindex
<1>4. ASSUME NEW m \in Manifests, WatchedManifestChanged(m) PROVE ManifestInv'
  <2>1. disk[m] \in FileBodies
    BY <1>4 DEF WatchedManifestChanged, ManifestInv, ProfileInv, StoreTypeOK
  <2>. QED
    BY <1>1, <1>2, <1>4, <2>1, IdleFollowed DEF WatchedManifestChanged, reindex
<1>5. ASSUME NEW m \in Manifests, WatchedManifestDeleted(m) PROVE ManifestInv'
  <2>1. /\ graph' = removeFiveMResource(graph, RootOf[m])
        /\ mdocs' = [mdocs EXCEPT ![m] = NoMDoc]
        /\ phase = "idle" /\ phase' = "idle"
    BY <1>5 DEF WatchedManifestDeleted, reindex
  <2>2. \A r \in Roots : graph'.byRoot[r] \in {graph.byRoot[r], NoNode}
    BY <1>0, <2>1, RemoveDrops
  <2>3. \A n \in Manifests : mdocs'[n] = mdocs[n] \/ mdocs'[n] = NoMDoc
    BY <2>1 DEF ManifestInv, ProfileInv, StoreTypeOK
  <2>. QED
    BY <1>0, <1>1, <2>1, <2>2, <2>3, IdleFollowed
<1>6. ASSUME NEW m \in Manifests, CloseManifest(m) PROVE ManifestInv'
  <2>1. /\ phase = "idle" /\ phase' = "idle" /\ graph' = graph
        /\ \A n \in Manifests : mdocs'[n] \in {Evicted(open')[n], NoMDoc}
    BY <1>6 DEF CloseManifest, reindex, Evicted
  <2>2. \A n \in Manifests : Evicted(open')[n].body = mdocs[n].body
                             /\ (Evicted(open')[n].held => mdocs[n].held)
    BY DEF Evicted, ManifestInv, ProfileInv, StoreTypeOK, MDoc
  <2>. QED
    BY <1>0, <1>1, <2>1, <2>2, IdleFollowed
<1>7. CASE CloseScript
  <2>1. /\ phase = "idle" /\ phase' = "idle" /\ graph' = graph
        /\ mdocs' = Evicted(open)
    BY <1>7 DEF CloseScript, reindex
  <2>2. \A n \in Manifests : Evicted(open)[n].body = mdocs[n].body
                             /\ (Evicted(open)[n].held => mdocs[n].held)
    BY DEF Evicted, ManifestInv, ProfileInv, StoreTypeOK, MDoc
  <2>. QED
    BY <1>1, <2>1, <2>2, IdleFollowed
<1>8. ASSUME NEW s \in Scripts, NEW defines \in BOOLEAN, UpdateScript(s, defines)
      PROVE  ManifestInv'
  BY <1>2, <1>8 DEF UpdateScript, reindex
<1>9. ASSUME NEW s \in Scripts,
             WatchedScriptDeleted(s) \/ ReadProfile(s) \/ LoseScript(s)
      PROVE  ManifestInv'
  BY <1>2, <1>9 DEF WatchedScriptDeleted, ReadProfile, LoseScript, reindex, store
<1>10. ASSUME NEW m \in Manifests, NEW text \in FileBodies \cup {NoBody},
              WriteManifest(m, text)
       PROVE  ManifestInv'
  BY <1>2, <1>10 DEF WriteManifest, reindex, store
<1>11. CASE UNCHANGED storeVars
  BY <1>0, <1>11 DEF storeVars, ManifestInv, ActiveCurrent, Active, Backed, Covered,
                     Registered
<1>12. CASE StoreNext
  BY <1>0, <1>3, <1>4, <1>5, <1>6, <1>7, <1>8, <1>9, <1>10, <1>12, ReindexFollowed
     DEF StoreNext
<1>. QED
  BY <1>11, <1>12

(* What the graph serves for a root is its manifest's document, whatever     *)
(* sequence of edits, watcher events, evictions and re-indexes led there.    *)
THEOREM ManifestsCorrect == StoreSpec => []ActiveManifestCurrent
<1>1. ManifestInv => ActiveManifestCurrent
  BY DEF ManifestInv, ActiveCurrent, Active, ActiveManifestCurrent, HasMDoc
<1>. QED
  BY <1>1, InitManifests, StepManifests, PTL DEF StoreSpec

(* Whatever order results come in and documents are registered again, the    *)
(* graph a re-index leaves has the roots of the indexed manifests and their  *)
(* highest precedence.                                                       *)
THEOREM ReindexCorrect == StoreSpec => ReindexRestoresGraph
<1>1. ASSUME ManifestInv, EndReindex, NEW r \in Roots
      PROVE  LET kinds == {KindOf[m] : m \in {n \in Manifests :
                                RootOf[n] = r /\ HasMDoc(n)}}
             IN  IF kinds = {} THEN ~Registered(graph, r)
                 ELSE /\ Registered(graph, r)
                      /\ graph.byRoot[r].kind \in kinds
                      /\ \A k \in kinds : k <= graph.byRoot[r].kind
  <2>. DEFINE kinds == {KindOf[m] : m \in {n \in Manifests :
                                RootOf[n] = r /\ HasMDoc(n)}}
  <2>1. Backed(graph, mdocs) /\ Covered(graph, mdocs, {})
    BY <1>1 DEF ManifestInv, EndReindex
  <2>2. ASSUME Registered(graph, r) PROVE graph.byRoot[r].kind \in kinds
    BY <2>1, <2>2 DEF Backed, HasMDoc
  <2>3. ASSUME NEW k \in kinds
        PROVE  Registered(graph, r) /\ k <= graph.byRoot[r].kind
    BY <2>1, <2>3 DEF Covered, HasMDoc
  <2>. HIDE DEF kinds
  <2>4. IF kinds = {} THEN ~Registered(graph, r)
        ELSE /\ Registered(graph, r)
             /\ graph.byRoot[r].kind \in kinds
             /\ \A k \in kinds : k <= graph.byRoot[r].kind
    BY <2>2, <2>3
  <2>. QED
    BY <2>4 DEF kinds
<1>2. ManifestInv /\ [StoreNext]_storeVars =>
         [EndReindex =>
            \A r \in Roots :
              LET kinds == {KindOf[m] : m \in {n \in Manifests :
                                RootOf[n] = r /\ HasMDoc(n)}}
              IN  IF kinds = {} THEN ~Registered(graph, r)
                  ELSE /\ Registered(graph, r)
                       /\ graph.byRoot[r].kind \in kinds
                       /\ \A k \in kinds : k <= graph.byRoot[r].kind]_storeVars
  BY <1>1
<1>. QED
  BY <1>2, InitManifests, StepManifests, PTL DEF StoreSpec, ReindexRestoresGraph
=============================================================================
