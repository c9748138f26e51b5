------------------------------ MODULE McpServer ------------------------------
(***************************************************************************)
(* The MCP server (cmd/lugo-mcp/main.go, lsp/mcp.go): tool calls that run  *)
(* concurrently over one embedded language server, the locks that keep     *)
(* them apart, and the revision lugo_workspace_status compares the disk    *)
(* with.                                                                   *)
(*                                                                         *)
(* workspaceMu is a Go RWMutex: a writer that has announced itself keeps   *)
(* new readers out while it waits for those inside.  mcpMu serialises the  *)
(* requests to the language server.  A revision is a hash of every source, *)
(* here the sources themselves.  A call whose arguments are refused        *)
(* returns before it touches any state and is left out.                    *)
(***************************************************************************)
EXTENDS Naturals, Sequences, SequencesExt, FiniteSets

CONSTANTS
    Calls,      \* goroutines that serve tool calls
    Main,       \* the one that runs main before the others exist
    Files,      \* Lua files of the workspace, in the order of filepath.Walk
    Texts,      \* [ToSet(Files) -> sets of contents]
    Unlisted,   \* files the index never takes: ignored, or .LUA and the like
    Oversized,  \* contents longer than MaxFileSize
    FirstDisks, \* what the workspace may contain at the start
    ToolsOf,    \* bound: [Calls -> the tools a goroutine is started for]
    MaxWrites,  \* bound: writes to the disk
    None        \* no text, no call

FileSet == ToSet(Files)
AnyText == {None} \cup UNION {Texts[f] : f \in FileSet}
Sources == {s \in [FileSet -> AnyText] :
               \A f \in FileSet : s[f] \in Texts[f] \cup {None}}
Nothing == [f \in FileSet |-> None]
Tools == {"reindex", "status", "summary", "diagnostics", "context", "request",
          "events"}
Places == {"idle", "announce", "drain", "rlock", "mcp", "walk", "refresh", "list",
           "hash", "read", "serve", "diagnose", "peek"}

ASSUME McpConstantsOK ==
    /\ Main \in Calls
    /\ None \notin Calls
    /\ Files \in Seq(ToSet(Files)) /\ IsInjective(Files)
    /\ \A f \in ToSet(Files) : None \notin Texts[f]
    /\ Unlisted \subseteq ToSet(Files)
    /\ FirstDisks \subseteq Sources
    /\ ToolsOf \in [Calls -> SUBSET Tools]
    /\ MaxWrites \in Nat

VARIABLES
    disk,       \* the workspace's files
    writes,     \* how often they were written
    index,      \* Documents: the text each file is indexed from
    pinned,     \* OpenFiles
    active,     \* activeURIs; after a refresh, history
    revision,   \* server.freshness.Revision
    up,         \* "starting", "serving", or "failed": run returned an error
    pc,         \* where each call is
    tool,       \* what it runs
    todo,       \* the files it has still to read
    snap,       \* what it has hashed of them
    writer,     \* the call that has announced itself on, or holds, workspaceMu
    readers,    \* the calls that hold workspaceMu for reading
    leaked,     \* a reader's hold was never given back
    mcp,        \* the call that holds mcpMu
    moved,      \* history: calls since whose re-index the disk has changed
    vouched     \* history: files re-indexed and recorded undisturbed

callVars == <<pc, tool, todo, snap>>
lockVars == <<writer, readers, leaked, mcp>>
storeVars == <<index, pinned, active, revision, up, vouched>>
vars == <<disk, writes, index, pinned, active, revision, up, pc, tool, todo, snap,
          writer, readers, leaked, mcp, moved, vouched>>

Present == {f \in FileSet : disk[f] # None}

(* indexWorkspace: the files a re-index keeps or reads.  An open one is     *)
(* not asked for its size.                                                  *)
Listed == {f \in Present \ Unlisted : f \in pinned \/ disk[f] \notin Oversized}

Goto(c, l) == pc' = [pc EXCEPT ![c] = l]

(* The end of a call: with an answer, an error, or a panic that the wrapper *)
(* of its tool turns into one.                                              *)
Return(c) ==
    /\ Goto(c, "idle")
    /\ tool' = [tool EXCEPT ![c] = "none"]
    /\ todo' = [todo EXCEPT ![c] = {}]
    /\ snap' = [snap EXCEPT ![c] = Nothing]

(* A failure ends the process while main is still starting.                 *)
Fail(c) ==
    /\ Return(c)
    /\ up' = IF up = "starting" THEN "failed" ELSE up

-----------------------------------------------------------------------------
(* NewMCPWorkspace indexes and newServer records the revision before the    *)
(* transport runs: main is a re-index with nobody to lock out.              *)
Init ==
    /\ disk \in FirstDisks /\ writes = 0
    /\ index = Nothing /\ pinned = {} /\ active = {} /\ revision = Nothing
    /\ up = "starting"
    /\ pc = [c \in Calls |-> IF c = Main THEN "walk" ELSE "idle"]
    /\ tool = [c \in Calls |-> IF c = Main THEN "reindex" ELSE "none"]
    /\ todo = [c \in Calls |-> {}]
    /\ snap = [c \in Calls |-> Nothing]
    /\ writer = Main /\ readers = {} /\ leaked = FALSE /\ mcp = Main
    /\ moved = {} /\ vouched = {}

(* registerTools: what a tool locks first.                                  *)
FirstStep(t) ==
    IF t = "reindex" THEN "announce"
    ELSE IF t \in {"status", "summary", "diagnostics"} THEN "rlock"
    ELSE IF t = "events" THEN "peek"
    ELSE "mcp"

StartTool(c, t) ==
    /\ up = "serving"
    /\ pc[c] = "idle"
    /\ tool' = [tool EXCEPT ![c] = t]
    /\ Goto(c, FirstStep(t))
    /\ UNCHANGED <<disk, writes, storeVars, todo, snap, lockVars, moved>>

-----------------------------------------------------------------------------
(* The locks.                                                               *)
announce(c) ==
    /\ pc[c] = "announce"
    /\ writer = None
    /\ writer' = c
    /\ Goto(c, "drain")
    /\ UNCHANGED <<disk, writes, storeVars, tool, todo, snap, readers, leaked,
                   mcp, moved>>

workspaceMuLock(c) ==
    /\ pc[c] = "drain"
    /\ readers = {} /\ ~leaked
    /\ Goto(c, "mcp")
    /\ UNCHANGED <<disk, writes, storeVars, tool, todo, snap, lockVars, moved>>

\* Mutant: a reader does not wait for the writer inside.
workspaceMuRLock_Unguarded(c) ==
    /\ pc[c] = "rlock"
    /\ readers' = readers \cup {c}
    /\ Goto(c, IF tool[c] = "diagnostics" THEN "mcp" ELSE "read")
    /\ UNCHANGED <<disk, writes, storeVars, tool, todo, snap, writer, leaked, mcp,
                   moved>>

workspaceMuRLock(c) ==
    /\ pc[c] = "rlock"
    /\ writer = None
    /\ readers' = readers \cup {c}
    /\ Goto(c, IF tool[c] = "diagnostics" THEN "mcp" ELSE "read")
    /\ UNCHANGED <<disk, writes, storeVars, tool, todo, snap, writer, leaked, mcp,
                   moved>>

mcpMuLock(c) ==
    /\ pc[c] = "mcp"
    /\ mcp = None
    /\ mcp' = c
    /\ Goto(c, IF tool[c] = "reindex" THEN "walk"
               ELSE IF tool[c] = "diagnostics" THEN "diagnose"
               ELSE "serve")
    /\ UNCHANGED <<disk, writes, storeVars, tool, todo, snap, writer, readers,
                   leaked, moved>>

-----------------------------------------------------------------------------
(* lugo/reindex.  refreshWorkspace lists the files and keeps those that are *)
(* open or unmodified.                                                      *)
refreshList(c) ==
    /\ pc[c] = "walk"
    /\ Goto(c, "refresh")
    /\ active' = {f \in Listed : f \in pinned \/ index[f] = disk[f]}
    /\ todo' = [todo EXCEPT ![c] = Listed \ active']
    /\ moved' = moved \ {c}
    /\ vouched' = {}
    /\ UNCHANGED <<disk, writes, index, pinned, revision, up, tool, snap, lockVars>>

\* Mutant: a file whose worker panicked counts as active.
refreshFile_PanicIsActive(c, f) ==
    /\ pc[c] = "refresh"
    /\ f \in todo[c]
    /\ todo' = [todo EXCEPT ![c] = @ \ {f}]
    /\ active' = active \cup {f}
    /\ \/ index' = [index EXCEPT ![f] = IF disk[f] = None THEN @ ELSE disk[f]]
       \/ /\ disk[f] \notin {None, index[f]}
          /\ index' = [index EXCEPT ![f] = IF @ = None THEN None ELSE disk[f]]
    /\ vouched' = vouched \ {f}
    /\ UNCHANGED <<disk, writes, pinned, revision, up, pc, tool, snap, lockVars,
                   moved>>

(* The others are read and parsed in any order.  One that has disappeared   *)
(* keeps its document.  One whose worker panics gives no result, and its    *)
(* document, if there is one, has lost its tree to the new text.            *)
refreshFile(c, f) ==
    /\ pc[c] = "refresh"
    /\ f \in todo[c]
    /\ todo' = [todo EXCEPT ![c] = @ \ {f}]
    /\ \/ /\ index' = [index EXCEPT ![f] = IF disk[f] = None THEN @ ELSE disk[f]]
          /\ active' = active \cup {f}
       \/ /\ disk[f] \notin {None, index[f]}
          /\ index' = [index EXCEPT ![f] = IF @ = None THEN None ELSE disk[f]]
          /\ active' = active
    /\ vouched' = vouched \ {f}
    /\ UNCHANGED <<disk, writes, pinned, revision, up, pc, tool, snap, lockVars,
                   moved>>

(* Documents that are neither active nor open are forgotten.                *)
refreshDone(c) ==
    /\ pc[c] = "refresh"
    /\ todo[c] = {}
    /\ index' = [f \in FileSet |-> IF f \in active \cup pinned THEN index[f] ELSE None]
    /\ mcp' = None
    /\ writer' = None
    /\ Goto(c, "list")
    /\ UNCHANGED <<disk, writes, pinned, active, revision, up, vouched, tool, todo,
                   snap, readers, leaked, moved>>

(* A panic on the main goroutine of the refresh: the request answers with   *)
(* an error, and both locks are released.                                   *)
refreshPanics(c) ==
    /\ pc[c] = "refresh"
    /\ mcp' = None
    /\ writer' = None
    /\ Fail(c)
    /\ UNCHANGED <<disk, writes, index, pinned, active, revision, vouched, readers,
                   leaked, moved>>

-----------------------------------------------------------------------------
(* workspaceSourceHash: the directory is listed, whatever the index takes   *)
(* of it, then file after file read; one that is gone by then is an error.  *)
(* No lock is held.                                                         *)
hashList(c) ==
    /\ pc[c] = "list"
    /\ Goto(c, "hash")
    /\ todo' = [todo EXCEPT ![c] = Present]
    /\ UNCHANGED <<disk, writes, storeVars, tool, snap, lockVars, moved>>

hashFile(c) ==
    /\ pc[c] = "hash"
    /\ \E f \in todo[c] :
          /\ \A i, j \in DOMAIN Files : Files[i] = f /\ Files[j] \in todo[c] => i <= j
          /\ IF disk[f] = None
             THEN Fail(c)
             ELSE /\ snap' = [snap EXCEPT ![c][f] = disk[f]]
                  /\ todo' = [todo EXCEPT ![c] = @ \ {f}]
                  /\ UNCHANGED <<pc, tool, up>>
    /\ UNCHANGED <<disk, writes, index, pinned, active, revision, vouched, lockVars,
                   moved>>

(* captureFreshness, the end of a re-index and of newServer.                *)
captureFreshness(c) ==
    /\ pc[c] = "hash"
    /\ tool[c] = "reindex"
    /\ todo[c] = {}
    /\ revision' = snap[c]
    /\ vouched' = {f \in FileSet \ pinned :
                     c \notin moved /\ (f \in active \/ disk[f] = None)}
    /\ moved' = moved \ {c}
    /\ up' = "serving"
    /\ Return(c)
    /\ UNCHANGED <<disk, writes, index, pinned, active, lockVars>>

\* Mutant: the status establishes the revision it is compared with.
currentFreshness_Establishes(c) ==
    /\ pc[c] = "hash"
    /\ tool[c] = "status"
    /\ todo[c] = {}
    /\ revision' = snap[c]
    /\ Return(c)
    /\ UNCHANGED <<disk, writes, index, pinned, active, up, vouched, lockVars, moved>>

(* currentFreshness: the status is fresh iff snap[c] = revision.            *)
currentFreshness(c) ==
    /\ pc[c] = "hash"
    /\ tool[c] = "status"
    /\ todo[c] = {}
    /\ Return(c)
    /\ UNCHANGED <<disk, writes, storeVars, lockVars, moved>>

-----------------------------------------------------------------------------
(* server.summary: the maps are read under the reader's lock.               *)
summary(c) ==
    /\ pc[c] = "read"
    /\ readers' = readers \ {c}
    /\ IF tool[c] = "status"
       THEN Goto(c, "list") /\ UNCHANGED <<tool, todo, snap>>
       ELSE Return(c)
    /\ UNCHANGED <<disk, writes, storeVars, writer, leaked, mcp, moved>>

(* fivemEvents and fivemExports read the resource graph under no lock.      *)
fivemEvents(c) ==
    /\ pc[c] = "peek"
    /\ Return(c)
    /\ UNCHANGED <<disk, writes, storeVars, lockVars, moved>>

\* Mutant: the early return for a file that is not indexed keeps mcpMu.
MCPDiagnostics_KeepsLock(c, f) ==
    /\ pc[c] = "diagnose"
    /\ pinned' = IF index[f] = None THEN pinned ELSE pinned \cup {f}
    /\ mcp' = IF index[f] = None THEN mcp ELSE None
    /\ readers' = readers \ {c}
    /\ Return(c)
    /\ UNCHANGED <<disk, writes, index, active, revision, up, vouched, writer,
                   leaked, moved>>

(* MCPDiagnostics opens the file it diagnoses, and nothing closes it.       *)
MCPDiagnostics(c, f) ==
    /\ pc[c] = "diagnose"
    /\ pinned' = IF index[f] = None THEN pinned ELSE pinned \cup {f}
    /\ mcp' = None
    /\ readers' = readers \ {c}
    /\ Return(c)
    /\ UNCHANGED <<disk, writes, index, active, revision, up, vouched, writer,
                   leaked, moved>>

(* A panic under it: mcpMu is released by its defer, the reader's lock of   *)
(* the tool by nobody.                                                      *)
diagnosticsPanics(c, f) ==
    /\ pc[c] = "diagnose"
    /\ index[f] # None
    /\ pinned' = pinned \cup {f}
    /\ mcp' = None
    /\ readers' = readers \ {c}
    /\ leaked' = TRUE
    /\ Return(c)
    /\ UNCHANGED <<disk, writes, index, active, revision, up, vouched, writer, moved>>

\* Mutant: without the defer, a panic leaves mcpMu locked.
MCPRequestContext_NoDefer(c) ==
    /\ pc[c] = "serve"
    /\ mcp' \in {None, c}
    /\ Return(c)
    /\ UNCHANGED <<disk, writes, storeVars, writer, readers, leaked, moved>>

(* MCPRequestContext and MCPFiveMContracts: one request with mcpMu, an      *)
(* error or a recovered panic included.  lugo_symbol_context makes three,   *)
(* unless one of them fails, and lets go of mcpMu in between.               *)
MCPRequestContext(c) ==
    /\ pc[c] = "serve"
    /\ mcp' = None
    /\ \/ Return(c)
       \/ /\ tool[c] \in {"context", "context2"}
          /\ tool' = [tool EXCEPT ![c] =
                        IF @ = "context" THEN "context2" ELSE "request"]
          /\ Goto(c, "mcp")
          /\ UNCHANGED <<todo, snap>>
    /\ UNCHANGED <<disk, writes, storeVars, writer, readers, leaked, moved>>

-----------------------------------------------------------------------------
(* Another program writes, creates or deletes a file.                       *)
WriteFile(f, x) ==
    /\ writes < MaxWrites
    /\ x # disk[f]
    /\ disk' = [disk EXCEPT ![f] = x]
    /\ writes' = writes + 1
    /\ moved' = {c \in Calls : /\ tool[c] = "reindex"
                              /\ pc[c] \in {"refresh", "list", "hash"}}
    /\ UNCHANGED <<storeVars, callVars, lockVars>>

Locks(c) ==
    announce(c) \/ workspaceMuLock(c) \/ workspaceMuRLock(c) \/ mcpMuLock(c)

Runs(c) ==
    \/ refreshList(c)
    \/ \E f \in FileSet : refreshFile(c, f)
    \/ refreshDone(c)
    \/ hashList(c)
    \/ hashFile(c)
    \/ captureFreshness(c)
    \/ currentFreshness(c)
    \/ summary(c)
    \/ fivemEvents(c)
    \/ \E f \in FileSet : MCPDiagnostics(c, f)
    \/ MCPRequestContext(c)

Panics(c) == refreshPanics(c) \/ \E f \in FileSet : diagnosticsPanics(c, f)

Next ==
    \/ \E c \in Calls : \/ \E t \in ToolsOf[c] : StartTool(c, t)
                        \/ Locks(c)
                        \/ Runs(c)
                        \/ Panics(c)
    \/ \E f \in FileSet : \E x \in Texts[f] \cup {None} : WriteFile(f, x)

(* A goroutine that can run does; Go's mutexes hand over to those that have *)
(* waited, so a lock that is free again and again is obtained.              *)
Spec ==
    /\ Init /\ [][Next]_vars
    /\ \A c \in Calls : WF_vars(Runs(c)) /\ SF_vars(Locks(c))

-----------------------------------------------------------------------------
(* Types, and who is where: a call is between the lock and the unlock of a  *)
(* mutex exactly when the mutex says so, also after errors and panics.      *)
McpTypeOK ==
    /\ disk \in Sources /\ index \in Sources /\ revision \in Sources
    /\ pinned \subseteq FileSet /\ vouched \subseteq FileSet
    /\ active \subseteq FileSet
    /\ writes \in 0..MaxWrites /\ moved \subseteq Calls
    /\ up \in {"starting", "serving", "failed"} /\ leaked \in BOOLEAN
    /\ pc \in [Calls -> Places]
    /\ tool \in [Calls -> Tools \cup {"context2", "none"}]
    /\ todo \in [Calls -> SUBSET FileSet] /\ snap \in [Calls -> Sources]
    /\ \A c \in Calls :
          /\ mcp = c <=> pc[c] \in {"walk", "refresh", "serve", "diagnose"}
          /\ writer = c <=> \/ pc[c] \in {"drain", "walk", "refresh"}
                            \/ pc[c] = "mcp" /\ tool[c] = "reindex"
          /\ c \in readers <=> \/ pc[c] \in {"read", "diagnose"}
                               \/ pc[c] = "mcp" /\ tool[c] = "diagnostics"

(* While a re-index replaces the index nobody reads it: not the summary,    *)
(* which holds workspaceMu alone, nor a request, which holds mcpMu alone,   *)
(* nor diagnostics, which hold both.  (fivemEvents and fivemExports hold    *)
(* none and are not covered.)                                               *)
ReadsAreWhole ==
    \A c, d \in Calls : pc[c] \in {"walk", "refresh"} =>
        c = d \/ pc[d] \notin {"walk", "refresh", "read", "serve", "diagnose"}

(* Of the files that are in the index, and of those that are gone, the      *)
(* revision a status calls indexed is that of what is indexed, however      *)
(* re-indexes, status calls and diagnostics overlap, if no file was written *)
(* between the re-index and the record and the file was not open            *)
(* (newServer, captureFreshness).  The revision also covers files the index *)
(* leaves out: ignored, too large, with another case of .lua, or met by a   *)
(* worker that panicked (workspaceSourceHash).                              *)
RevisionIsIndexed == \A f \in vouched : index[f] = revision[f]

(* Every call returns: no order of locks makes calls wait for each other,   *)
(* and no stream of readers starves a re-index.  Excepted is a server whose *)
(* reader's lock leaked in a panic of diagnostics.                          *)
CallsReturn ==
    \A c \in Calls : pc[c] # "idle" ~> pc[c] = "idle" \/ leaked
=============================================================================
