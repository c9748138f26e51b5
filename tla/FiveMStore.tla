------------------------------ MODULE FiveMStore ------------------------------
(***************************************************************************)
(* The FiveM side of the document store (lsp/workspace.go, lsp/fivem.go):  *)
(* manifest documents feed the resource graph, and script documents hold   *)
(* two things derived from it, the cached execution profile and the        *)
(* scanned events, which are invalidated by hand.                          *)
(*                                                                         *)
(* A notification is one step.  A re-index is several, because the order   *)
(* in which parsed files come back from the workers and the order of       *)
(* Go's map iteration decide what it leaves behind; no notification is     *)
(* handled and the files stand still meanwhile (IndexPool lets them move). *)
(*                                                                         *)
(* A text is what its manifest declares, Blank what is read from one whose *)
(* source was evicted.  The watcher reports a written manifest later.      *)
(***************************************************************************)
EXTENDS ResourceGraph

CONSTANTS
    Manifests,      \* manifest URIs
    RootOf,         \* the directory of a manifest
    KindOf,         \* fxmanifest.lua 2, __resource.lua 1
    Scripts,        \* URIs of other Lua files
    ScriptRoots,    \* the roots whose URI + "/" starts a script's URI
    Prefixed,       \* the scripts whose URI has a root's URI as string prefix
    EnvOf,          \* the environment a manifest content gives a script
    Blank,          \* the content of a manifest without source
    NoBody,         \* absence of a manifest
    NotCached       \* absence of a profile

FileBodies == Bodies \ {Blank}
Envs == {"unknown", "client", "server", "shared"}
Profile == [root: Roots \cup {NoRoot}, env: Envs]

ASSUME StoreConstantsOK ==
    /\ RootOf \in [Manifests -> Roots]
    /\ KindOf \in [Manifests -> Kinds]
    \* a manifest's URI is its directory and the file name of its kind
    /\ \A m, n \in Manifests :
          RootOf[m] = RootOf[n] /\ KindOf[m] = KindOf[n] => m = n
    /\ ScriptRoots \in [Scripts -> SUBSET Roots]
    /\ \A s \in Scripts : \A S \in (SUBSET ScriptRoots[s]) \ {{}} :
          \E q \in S : \A p \in S : Length[p] <= Length[q]
    /\ Prefixed \in [Roots -> SUBSET Scripts]
    /\ \A s \in Scripts : \A r \in ScriptRoots[s] : s \in Prefixed[r]
    /\ Manifests \cap Scripts = {}
    /\ EnvOf \in [Bodies -> [Scripts -> Envs]]
    /\ Blank \in Bodies
    /\ NoBody \notin Bodies
    /\ NotCached \notin Profile

VARIABLES
    disk,       \* the manifests on the disk
    files,      \* the scripts on the disk
    news,       \* manifests whose last change the watcher has yet to report
    mdocs,      \* manifest documents: the parsed content, and whether
                \* Tree.Source still holds it
    open,       \* manifests in Server.OpenFiles
    sdocs,      \* script documents
    profile,    \* Document.FiveMProfile, NotCached unless FiveMProfileCached
    scanned,    \* scripts whose FiveMEvents are those of their text
    phase,      \* where refreshWorkspace stands, "idle" outside it
    todo,       \* the files it has left in this phase
    early       \* history: scripts whose profile was computed before or during
                \* the latest re-index

store == <<mdocs, open, sdocs, profile, scanned>>
reindex == <<phase, todo>>
world == <<disk, files, news>>
storeVars == <<graph, disk, files, news, mdocs, open, sdocs, profile, scanned,
               phase, todo, early>>

MDoc == [body: FileBodies \cup {NoBody}, held: BOOLEAN]
NoMDoc == [body |-> NoBody, held |-> FALSE]
HasMDoc(m) == mdocs[m].body # NoBody

-----------------------------------------------------------------------------
(* findFiveMResource: the longest registered root above the script.         *)
findFiveMResource(g, s) ==
    LET roots == {r \in ScriptRoots[s] : Registered(g, r)}
    IN  IF roots = {} THEN NoRoot
        ELSE Longest(roots)

(* getDocumentFiveMProfile for a document whose profile is not cached.      *)
ProfileIn(g, s) ==
    LET r == findFiveMResource(g, s)
    IN  [root |-> r,
         env |-> IF r = NoRoot THEN "unknown" ELSE EnvOf[g.byRoot[r].body][s]]

(* parseFiveMManifest: every entry is cut out of the source, so there are   *)
(* none without it.                                                         *)
parseFiveMManifest(m, d) ==
    [kind |-> KindOf[m], body |-> IF d.held THEN d.body ELSE Blank]

Invalidated(S) == [s \in Scripts |-> IF s \in S THEN NotCached ELSE profile[s]]

\* Mutant: only a first registration invalidates, or empties the events.
finalizeManifest_NewOnly(m, text) ==
    LET r == RootOf[m]
    IN  /\ mdocs' = [mdocs EXCEPT ![m] = [body |-> text, held |-> TRUE]]
        /\ graph' = Register(graph, r, parseFiveMManifest(m, mdocs'[m]))
        /\ profile' = IF Registered(graph, r) THEN profile
                      ELSE Invalidated(Prefixed[r])
        /\ scanned' = scanned

\* Mutant: the node is replaced in place, past Register.
finalizeManifest_InPlace(m, text) ==
    LET r == RootOf[m]
    IN  /\ mdocs' = [mdocs EXCEPT ![m] = [body |-> text, held |-> TRUE]]
        /\ graph' = [graph EXCEPT !.byRoot[r] = parseFiveMManifest(m, mdocs'[m])]
        /\ profile' = Invalidated(Prefixed[r])
        /\ scanned' = scanned \ Prefixed[r]

(* The manifest part of finalizeDocumentUpdate.                             *)
finalizeManifest(m, text) ==
    LET r == RootOf[m]
        was == graph.byRoot[r]
    IN  /\ mdocs' = [mdocs EXCEPT ![m] = [body |-> text, held |-> TRUE]]
        /\ graph' = Register(graph, r, parseFiveMManifest(m, mdocs'[m]))
        /\ IF graph'.byRoot[r] = was
           THEN UNCHANGED <<profile, scanned>>
           ELSE /\ profile' = Invalidated(Prefixed[r])
                /\ scanned' = IF was = NoNode THEN scanned
                              ELSE scanned \ Prefixed[r]

(* The script part: a script that defines a global has its profile computed *)
(* on the way, by setGlobalSymbol's globalIndexContext.                     *)
finalizeScript(s, defines) ==
    /\ sdocs' = sdocs \cup {s}
    /\ scanned' = scanned \cup {s}
    /\ profile' = [profile EXCEPT
          ![s] = IF defines THEN ProfileIn(graph, s) ELSE NotCached]

updateManifest(m, text) ==
    IF mdocs[m].held /\ mdocs[m].body = text
    THEN UNCHANGED <<mdocs, graph, profile, scanned>>
    ELSE finalizeManifest(m, text)

-----------------------------------------------------------------------------
(* didOpen and didChange of a manifest; the editor opens files that exist.  *)
EditManifest(m, text) ==
    /\ phase = "idle"
    /\ m \in open \/ disk[m] # NoBody
    /\ open' = open \cup {m}
    /\ updateManifest(m, text)
    /\ UNCHANGED <<world, sdocs, reindex, early>>

Evicted(op) == [m \in Manifests |->
                  IF m \in op THEN mdocs[m] ELSE [mdocs[m] EXCEPT !.held = FALSE]]

(* handleDidClose: a manifest missing on the disk is forgotten.             *)
CloseManifest(m) ==
    /\ phase = "idle"
    /\ m \in open
    /\ open' = open \ {m}
    /\ mdocs' = IF disk[m] = NoBody THEN [Evicted(open') EXCEPT ![m] = NoMDoc]
                ELSE Evicted(open')
    /\ UNCHANGED <<graph, world, sdocs, profile, scanned, reindex, early>>

CloseScript ==
    /\ phase = "idle"
    /\ mdocs' = Evicted(open)
    /\ UNCHANGED <<graph, world, open, sdocs, profile, scanned, reindex, early>>

WatchedManifestChanged(m) ==
    /\ phase = "idle"
    /\ m \in news
    /\ news' = news \ {m}
    /\ disk[m] # NoBody
    /\ IF m \in open THEN UNCHANGED <<mdocs, graph, profile, scanned>>
       ELSE updateManifest(m, disk[m])
    /\ UNCHANGED <<disk, files, open, sdocs, reindex, early>>

(* removeFiveMResource drops the profiles under the removed root.           *)
WatchedManifestDeleted(m) ==
    /\ phase = "idle"
    /\ m \in news
    /\ news' = news \ {m}
    /\ disk[m] = NoBody
    /\ graph' = removeFiveMResource(graph, RootOf[m])
    /\ profile' = LET target == Target(graph, RootOf[m])
                  IN  Invalidated({s \in Scripts : target \in ScriptRoots[s]})
    /\ mdocs' = [mdocs EXCEPT ![m] = NoMDoc]
    /\ UNCHANGED <<disk, files, open, sdocs, scanned, reindex, early>>

(* A script is edited, or written and reported.                             *)
UpdateScript(s, defines) ==
    /\ phase = "idle"
    /\ finalizeScript(s, defines)
    /\ files' = files \cup {s}
    /\ early' = early \ {s}
    /\ UNCHANGED <<graph, disk, news, mdocs, open, reindex>>

(* The first root above the script that Go's map iteration meets has its    *)
(* documents invalidated.                                                   *)
WatchedScriptDeleted(s) ==
    LET roots == {r \in ScriptRoots[s] : Registered(graph, r)}
    IN  /\ phase = "idle"
        /\ s \notin files
        /\ sdocs' = sdocs \ {s}
        /\ \E r \in IF roots = {} THEN {NoRoot} ELSE roots :
              LET under == {q \in Scripts : r \in ScriptRoots[q]}
              IN  /\ profile' = Invalidated(under \cup {s})
                  /\ scanned' = scanned \ (under \cup {s})
        /\ UNCHANGED <<graph, world, mdocs, open, reindex, early>>

(* getDocumentFiveMProfile, from any request or from the diagnostics at the *)
(* end of a notification; which documents those read depends on settings.   *)
ReadProfile(s) ==
    /\ phase = "idle"
    /\ s \in sdocs
    /\ profile[s] = NotCached
    /\ profile' = [profile EXCEPT ![s] = ProfileIn(graph, s)]
    /\ early' = early \ {s}
    /\ UNCHANGED <<graph, world, mdocs, open, sdocs, scanned, reindex>>

-----------------------------------------------------------------------------
(* refreshWorkspace.  Files not known yet are parsed; of the known ones,    *)
(* those whose modification time is new and whose bytes differ from the     *)
(* source in memory.                                                        *)
StartReindex ==
    /\ phase = "idle"
    /\ phase' = "results"
    /\ graph' = EmptyGraph
    /\ LET found == {m \in Manifests \ open : disk[m] # NoBody}
           same == {m \in found : mdocs[m].held /\ mdocs[m].body = disk[m]}
           new == {m \in found : ~HasMDoc(m)} \cup (files \ sdocs)
       IN  \E S \in SUBSET ((found \ same) \cup files) :
              new \subseteq S /\ todo' = S
    /\ early' = Scripts
    /\ UNCHANGED <<world, store>>

ManifestResult(m) ==
    /\ phase = "results"
    /\ m \in todo
    /\ todo' = todo \ {m}
    /\ finalizeManifest(m, disk[m])
    /\ UNCHANGED <<world, open, sdocs, phase, early>>

ScriptResult(s, defines) ==
    /\ phase = "results"
    /\ s \in todo
    /\ todo' = todo \ {s}
    /\ finalizeScript(s, defines)
    /\ UNCHANGED <<graph, world, mdocs, open, phase, early>>

(* Documents the walk did not find are cleared; each clear computes the     *)
(* profiles of documents it meets, from the graph as it is at that moment.  *)
ClearLost ==
    LET lostM == {m \in Manifests \ open : HasMDoc(m) /\ disk[m] = NoBody}
        lostS == sdocs \ files
    IN  /\ phase = "results"
        /\ todo = {}
        /\ phase' = "register"
        /\ mdocs' = [m \in Manifests |-> IF m \in lostM THEN NoMDoc ELSE mdocs[m]]
        /\ sdocs' = sdocs \cap files
        /\ scanned' = scanned \ lostS
        /\ \E read \in SUBSET sdocs' :
              /\ lostM \cup lostS = {} => read = {}
              /\ profile' = [s \in Scripts |->
                    IF s \in lostS THEN NotCached
                    ELSE IF s \in read /\ profile[s] = NotCached
                    THEN ProfileIn(graph, s) ELSE profile[s]]
        /\ todo' = {m \in Manifests : mdocs'[m].body # NoBody}
        /\ UNCHANGED <<graph, world, open, early>>

Reregister(m) ==
    /\ phase = "register"
    /\ m \in todo
    /\ todo' = todo \ {m}
    /\ graph' = Register(graph, RootOf[m], parseFiveMManifest(m, mdocs[m]))
    /\ UNCHANGED <<world, store, phase, early>>

EndReindex ==
    /\ phase = "register"
    /\ todo = {}
    /\ phase' = "idle"
    /\ UNCHANGED <<graph, world, store, todo, early>>

-----------------------------------------------------------------------------
(* The file system, changed without the server being told.                  *)
WriteManifest(m, text) ==
    /\ phase = "idle"
    /\ text # disk[m]
    /\ disk' = [disk EXCEPT ![m] = text]
    /\ news' = news \cup {m}
    /\ UNCHANGED <<graph, files, store, reindex, early>>

LoseScript(s) ==
    /\ phase = "idle"
    /\ s \in files
    /\ files' = files \ {s}
    /\ UNCHANGED <<graph, disk, news, store, reindex, early>>

(* handleInitialized: the first index is under way, over an empty store.    *)
StoreInit ==
    /\ Init
    /\ disk \in [Manifests -> FileBodies \cup {NoBody}]
    /\ files = Scripts
    /\ news = {}
    /\ mdocs = [m \in Manifests |-> NoMDoc]
    /\ open = {}
    /\ sdocs = {}
    /\ profile = [s \in Scripts |-> NotCached]
    /\ scanned = {}
    /\ phase = "results"
    /\ todo = files \cup {m \in Manifests : disk[m] # NoBody}
    /\ early = Scripts

StoreNext ==
    \/ \E m \in Manifests, text \in FileBodies : EditManifest(m, text)
    \/ \E m \in Manifests : \/ CloseManifest(m)
                            \/ WatchedManifestChanged(m)
                            \/ WatchedManifestDeleted(m)
                            \/ ManifestResult(m)
                            \/ Reregister(m)
    \/ \E s \in Scripts, defines \in BOOLEAN :
          UpdateScript(s, defines) \/ ScriptResult(s, defines)
    \/ \E s \in Scripts : WatchedScriptDeleted(s) \/ ReadProfile(s) \/ LoseScript(s)
    \/ CloseScript
    \/ StartReindex
    \/ ClearLost
    \/ EndReindex
    \/ \E m \in Manifests, text \in FileBodies \cup {NoBody} : WriteManifest(m, text)

StoreSpec == StoreInit /\ [][StoreNext]_storeVars

-----------------------------------------------------------------------------
(* The FiveM fields of documents and server hold what their types say.      *)
StoreTypeOK ==
    /\ TypeOK
    /\ disk \in [Manifests -> FileBodies \cup {NoBody}]
    /\ files \subseteq Scripts
    /\ news \subseteq Manifests
    /\ mdocs \in [Manifests -> MDoc]
    /\ open \subseteq Manifests
    /\ sdocs \subseteq Scripts
    /\ profile \in [Scripts -> Profile \cup {NotCached}]
    /\ scanned \subseteq Scripts
    /\ phase \in {"idle", "results", "register"}
    /\ todo \subseteq Manifests \cup Scripts
    /\ early \subseteq Scripts

(* Invalidation by hand is complete outside re-indexing: a profile cached   *)
(* since the last re-index is the one the graph gives now, whatever         *)
(* manifests were edited, replaced or removed after it was computed.        *)
CachedProfileCurrent ==
    \A s \in Scripts \ early :
        profile[s] # NotCached => profile[s] = ProfileIn(graph, s)

(* The registered content of a root is that of the manifest it came from:   *)
(* while that document has its source, no older content is served.          *)
ActiveManifestCurrent ==
    phase = "idle" =>
        \A m \in Manifests :
            LET node == graph.byRoot[RootOf[m]]
            IN  /\ HasMDoc(m) /\ node # NoNode /\ node.kind = KindOf[m]
                => node.body \in {mdocs[m].body, Blank}
                   /\ (mdocs[m].held => node.body = mdocs[m].body)

(* Whatever order parsed files and documents come in, a re-index ends with  *)
(* exactly the roots of the indexed manifests registered, each from its     *)
(* manifest of highest precedence.                                          *)
ReindexRestoresGraph ==
    [][EndReindex =>
          \A r \in Roots :
              LET kinds == {KindOf[m] : m \in {n \in Manifests :
                                RootOf[n] = r /\ HasMDoc(n)}}
              IN  IF kinds = {} THEN ~Registered(graph, r)
                  ELSE /\ Registered(graph, r)
                       /\ graph.byRoot[r].kind \in kinds
                       /\ \A k \in kinds : k <= graph.byRoot[r].kind]_storeVars

(* The store changes the graph only by the graph's own operations: it       *)
(* implements ResourceGraph, so the indexes stay exact in it as well.       *)
ImplementsGraph == Spec

-----------------------------------------------------------------------------
(* A statement of the repository that the code does not keep.               *)

(* README.md:92 "Event registrations and triggers are indexed globally":    *)
(* every script document has its events, whatever manifests changed since   *)
(* it was parsed (finalizeDocumentUpdate empties them).                     *)
EventsIndexed == phase = "idle" => sdocs \subseteq scanned
=============================================================================
