------------------------------ MODULE Workspace ------------------------------
(***************************************************************************)
(* The document store of the language server: what lsp/workspace.go keeps  *)
(* in Server.Documents, OpenFiles and documentVersions, against the two    *)
(* places a Lua file really lives, the disk and the editor's buffer.       *)
(*                                                                         *)
(* Messages are dispatched on the one reader goroutine (Server.Start), so  *)
(* a notification is one step.  What interleaves is outside the server:    *)
(* the user edits, other programs write the disk, and the editor's file    *)
(* watcher reports those writes later (pending), coalesced per file.       *)
(*                                                                         *)
(* A text stands for its own syntax tree: ast is the text the tree was     *)
(* parsed from, src the bytes Tree.Source still holds.  fresh says that    *)
(* Document.ModTime equals the file's present modification time; a write   *)
(* to the disk always gives a new one.                                     *)
(***************************************************************************)
EXTENDS Naturals

CONSTANTS
    Files,          \* URIs of ordinary Lua files (manifests: FiveMStore)
    LibFiles,       \* those under a library path
    Texts,          \* the contents a file or a buffer can have
    Empty,          \* the text of no bytes
    Huge,           \* a text longer than MaxFileSize
    Slicing,        \* the texts some diagnostic slices without a bound check
    Nil,            \* no text: a nil slice, a missing file, a closed buffer
    Sourceless,     \* the diagnostics of a tree whose source was freed
    MaxVersion,     \* bound: highest document version an editor sends
    FolderChoices,  \* the sets of files the workspace folders may cover
    IgnoreChoices   \* the sets of files the ignore globs may match

ASSUME ConstantsOK ==
    /\ LibFiles \subseteq Files
    /\ {Empty, Huge} \subseteq Texts
    /\ Empty # Huge
    /\ Slicing \subseteq Texts \ {Empty, Huge}
    /\ Nil \notin Texts
    /\ Sourceless \notin Texts \cup {Nil}
    /\ MaxVersion \in Nat
    /\ FolderChoices \subseteq SUBSET Files
    /\ IgnoreChoices \subseteq SUBSET Files

VARIABLES
    docs,       \* Server.Documents
    open,       \* Server.OpenFiles
    versions,   \* Server.documentVersions, 0 where there is no entry
    shown,      \* diagnostics the client displays: the text they were computed
                \* from, Huge for the file-too-large one, Nil for none
    exited,     \* a panic outside the embedded MCP server has ended the process
    folders,    \* files under WorkspaceFolders
    ignored,    \* files matched by IgnoreGlobs
    disk,       \* the file system
    buffer,     \* the editor's text of a document, Nil when closed there
    sent,       \* version of the editor's last notification on the document
    pending,    \* the watcher event not delivered yet
    diverged    \* history: files closed while the index differed from the disk

server == <<docs, open, versions, shown, exited, folders, ignored>>
client == <<buffer, sent>>
vars == <<docs, open, versions, shown, exited, folders, ignored, disk, buffer,
          sent, pending, diverged>>

Indexable == Texts \ {Huge}
Document == [src: Indexable \cup {Nil}, ast: Indexable \cup {Nil},
             fresh: BOOLEAN, ws: BOOLEAN]
NoDoc == [src |-> Nil, ast |-> Nil, fresh |-> FALSE, ws |-> FALSE]
HasDoc(d) == d.ast # Nil
Displayed == Texts \cup {Nil, Sourceless}

-----------------------------------------------------------------------------
(* Server.checkIsWorkspace: with no workspace folder every file is in.      *)
checkIsWorkspace(f, fo) == f \notin LibFiles /\ (fo = {} \/ f \in fo)

\* Mutant: an evicted source passes for any text.
BytesEqual_NilIsAny(src, text) == src = text \/ src = Nil

(* bytes.Equal(tree.Source, source): a nil slice equals an empty one.       *)
BytesEqual(src, text) == src = text \/ (src = Nil /\ text = Empty)

(* finalizeDocumentUpdate after a parse; IsWorkspace is set on creation.    *)
finalizeDocumentUpdate(f, d, text, fo) ==
    [src |-> text, ast |-> text, fresh |-> d.fresh,
     ws |-> IF HasDoc(d) THEN d.ws ELSE checkIsWorkspace(f, fo)]

(* doc.ModTime = stat.ModTime()                                             *)
withModTime(d) == [d EXCEPT !.fresh = TRUE]

updateDocument(f, d, text) ==
    IF text = Huge \/ (HasDoc(d) /\ BytesEqual(d.src, text))
    THEN d
    ELSE finalizeDocumentUpdate(f, d, text, folders)

\* Mutant: libraries are closed documents like others.
evictClosedDocumentCaches_Libraries(ds, op) ==
    [f \in Files |-> IF HasDoc(ds[f]) /\ f \notin op
                     THEN [ds[f] EXCEPT !.src = Nil]
                     ELSE ds[f]]

evictClosedDocumentCaches(ds, op) ==
    [f \in Files |-> IF HasDoc(ds[f]) /\ f \notin LibFiles /\ f \notin op
                     THEN [ds[f] EXCEPT !.src = Nil]
                     ELSE ds[f]]

-----------------------------------------------------------------------------
(* publishDiagnostics reads the tree and, through Document.Source, its text. *)
(* Of a tree whose source is gone the checked diagnostics disappear and the  *)
(* columns collapse; an unchecked slice of the missing bytes panics.         *)
diagnosed(d) == IF d.src = d.ast \/ d.ast = Empty THEN d.ast ELSE Sourceless

Panics(d) == d.src = Nil /\ d.ast \in Slicing

(* The diagnostics of one document; handleMessageContext exits on a panic.   *)
publishDiagnostics(f, d) ==
    /\ exited' = Panics(d)
    /\ shown' = IF Panics(d) THEN shown ELSE [shown EXCEPT ![f] = diagnosed(d)]

(* Those of every workspace or open document, in the order of a map: a panic *)
(* comes when any of the others have been published.                         *)
publishWorkspaceDiagnostics(ds, op, sh) ==
    LET published == {f \in Files : HasDoc(ds[f]) /\ (ds[f].ws \/ f \in op)}
        panicking == {f \in published : Panics(ds[f])}
    IN  /\ exited' = (panicking # {})
        /\ \E done \in SUBSET (published \ panicking) :
              /\ panicking = {} => done = published
              /\ shown' = [f \in Files |-> IF f \in done THEN diagnosed(ds[f])
                                          ELSE sh[f]]

-----------------------------------------------------------------------------
(* refreshWorkspace, as one step: IndexPool opens it up.  The walk finds a  *)
(* file on the disk under a folder or library path that no glob ignores.    *)
Walked(f, fo, ig) == disk[f] # Nil /\ f \notin ig /\ f \in fo \cup LibFiles

IndexJobResult(f, d, fo) ==
    withModTime(IF d.src = disk[f] THEN d
                ELSE finalizeDocumentUpdate(f, d, disk[f], fo))

\* Mutants: no size check, open files read from the disk.
refreshedDoc_NoSizeCheck(f, d, op, fo, ig) ==
    CASE f \in op -> d
      [] f \notin op /\ Walked(f, fo, ig) ->
            IF HasDoc(d) /\ d.fresh THEN d ELSE IndexJobResult(f, d, fo)
      [] OTHER -> NoDoc
refreshedDoc_ReadsOpen(f, d, op, fo, ig) ==
    CASE Walked(f, fo, ig) /\ disk[f] # Huge ->
            IF HasDoc(d) /\ d.fresh THEN d ELSE IndexJobResult(f, d, fo)
      [] OTHER -> IF f \in op THEN d ELSE NoDoc

refreshedDoc(f, d, op, fo, ig) ==
    CASE f \in op -> d
      [] f \notin op /\ Walked(f, fo, ig) /\ disk[f] # Huge ->
            IF HasDoc(d) /\ d.fresh THEN d ELSE IndexJobResult(f, d, fo)
      [] OTHER -> NoDoc

refreshWorkspace(fo, ig) ==
    LET new == [f \in Files |-> refreshedDoc(f, docs[f], open, fo, ig)]
        swept == [f \in Files |-> IF HasDoc(docs[f]) /\ ~HasDoc(new[f])
                                 THEN Nil ELSE shown[f]]
    IN  /\ ~exited
        /\ docs' = new
        /\ publishWorkspaceDiagnostics(new, open, swept)
        /\ diverged' = {f \in diverged : new[f].ast = docs[f].ast}
        /\ UNCHANGED <<open, versions, disk, buffer, sent, pending>>

(* The state handleInitialized leaves: one index run over an empty store.   *)
Init ==
    /\ open = {}
    /\ versions = [f \in Files |-> 0]
    /\ folders \in FolderChoices
    /\ ignored \in IgnoreChoices
    /\ disk \in [Files -> Texts \cup {Nil}]
    /\ docs = [f \in Files |-> refreshedDoc(f, NoDoc, {}, folders, ignored)]
    /\ shown = [f \in Files |-> IF docs[f].ws THEN docs[f].ast ELSE Nil]
    /\ exited = FALSE
    /\ buffer = [f \in Files |-> Nil]
    /\ sent = [f \in Files |-> 0]
    /\ pending = [f \in Files |-> "none"]
    /\ diverged = {}

-----------------------------------------------------------------------------
\* Mutants: the diagnostics, or the document itself, survive.
clearDocument_KeepsShown(f, ds) ==
    docs' = [ds EXCEPT ![f] = NoDoc] /\ UNCHANGED <<shown, exited>>
clearDocument_KeepsDocument(f, ds) ==
    docs' = ds /\ shown' = [shown EXCEPT ![f] = Nil] /\ UNCHANGED exited

clearDocument(f, ds) ==
    /\ docs' = [ds EXCEPT ![f] = NoDoc]
    /\ shown' = [shown EXCEPT ![f] = Nil]
    /\ UNCHANGED exited

(* The shared tail of didOpen and didChange once the version is accepted.   *)
applyText(f, text) ==
    IF text = Huge
    THEN /\ shown' = [shown EXCEPT ![f] = Huge]
         /\ UNCHANGED <<docs, exited>>
    ELSE LET d == updateDocument(f, docs[f], text)
         IN  docs' = [docs EXCEPT ![f] = d] /\ publishDiagnostics(f, d)

\* Mutant: off by one, the next version is taken for an old one.
StaleVersion_OffByOne(f, v) == versions[f] # 0 /\ v <= versions[f] + 1

StaleVersion(f, v) == versions[f] # 0 /\ v <= versions[f]

(* handleDidOpen.  The editor numbers the versions of a document afresh     *)
(* every time it opens it.                                                  *)
handleDidOpen(f, text, v) ==
    /\ ~exited
    /\ buffer[f] = Nil
    /\ buffer' = [buffer EXCEPT ![f] = text]
    /\ sent' = [sent EXCEPT ![f] = v]
    /\ IF f \in ignored \/ StaleVersion(f, v)
       THEN UNCHANGED server
       ELSE /\ versions' = [versions EXCEPT ![f] = v]
            /\ open' = open \cup {f}
            /\ applyText(f, text)
            /\ UNCHANGED <<folders, ignored>>
    /\ UNCHANGED <<disk, pending, diverged>>

handleDidChange(f, text) ==
    /\ ~exited
    /\ buffer[f] # Nil
    /\ sent[f] < MaxVersion
    /\ buffer' = [buffer EXCEPT ![f] = text]
    /\ sent' = [sent EXCEPT ![f] = sent[f] + 1]
    /\ \/ /\ f \in ignored
          /\ IF HasDoc(docs[f]) THEN clearDocument(f, docs)
             ELSE UNCHANGED <<docs, shown, exited>>
          /\ UNCHANGED versions
       \/ /\ f \notin ignored
          /\ StaleVersion(f, sent[f] + 1)
          /\ UNCHANGED <<docs, shown, exited, versions>>
       \/ /\ f \notin ignored
          /\ ~StaleVersion(f, sent[f] + 1)
          /\ versions' = [versions EXCEPT ![f] = sent[f] + 1]
          /\ applyText(f, text)
    /\ UNCHANGED <<open, folders, ignored, disk, pending, diverged>>

handleDidClose(f) ==
    /\ ~exited
    /\ buffer[f] # Nil
    /\ buffer' = [buffer EXCEPT ![f] = Nil]
    /\ open' = open \ {f}
    /\ LET kept == evictClosedDocumentCaches(docs, open')
       IN  IF disk[f] = Nil THEN clearDocument(f, kept)
           ELSE docs' = kept /\ UNCHANGED <<shown, exited>>
    /\ diverged' = IF docs'[f].ast # disk[f] THEN diverged \cup {f}
                   ELSE diverged \ {f}
    /\ UNCHANGED <<versions, folders, ignored, disk, sent, pending>>

(* handleDidChangeWatchedFiles, one change of the batch.                    *)
WatchedChanged(f) ==
    /\ ~exited
    /\ pending[f] = "changed"
    /\ pending' = [pending EXCEPT ![f] = "none"]
    /\ IF f \in ignored \/ f \in open
       THEN UNCHANGED <<docs, shown, exited, versions, diverged>>
       ELSE /\ versions' = [versions EXCEPT ![f] = 0]
            /\ IF disk[f] \in {Nil, Huge}
               THEN UNCHANGED <<docs, shown, exited, diverged>>
               ELSE LET d == withModTime(updateDocument(f, docs[f], disk[f]))
                    IN  /\ docs' = [docs EXCEPT ![f] = d]
                        /\ IF d.ws THEN publishDiagnostics(f, d)
                           ELSE UNCHANGED <<shown, exited>>
                        /\ diverged' = IF d.ast = disk[f]
                                       THEN diverged \ {f} ELSE diverged
    /\ UNCHANGED <<open, folders, ignored, disk, buffer, sent>>

WatchedDeleted(f) ==
    /\ ~exited
    /\ pending[f] = "deleted"
    /\ pending' = [pending EXCEPT ![f] = "none"]
    /\ IF f \in ignored
       THEN UNCHANGED <<docs, shown, exited, versions>>
       ELSE /\ versions' = [versions EXCEPT ![f] = 0]
            /\ clearDocument(f, docs)
    /\ UNCHANGED <<open, folders, ignored, disk, buffer, sent, diverged>>

handleReindex == refreshWorkspace(folders, ignored) /\ UNCHANGED <<folders, ignored>>

(* applyInitializationOptions asks for a re-index when the globs changed.   *)
handleDidChangeConfiguration(ig) ==
    /\ ig # ignored
    /\ ignored' = ig
    /\ refreshWorkspace(folders, ig)
    /\ UNCHANGED folders

(* Its other branch: most settings only republish.  A manifest, edited or    *)
(* read again, republishes every document too (finalizeDocumentUpdate).      *)
handleDidChangeConfigurationRepublish ==
    /\ ~exited
    /\ publishWorkspaceDiagnostics(docs, open, shown)
    /\ UNCHANGED <<docs, open, versions, folders, ignored, disk, client,
                   pending, diverged>>

handleDidChangeWorkspaceFolders(fo) ==
    /\ fo # folders
    /\ folders' = fo
    /\ refreshWorkspace(fo, ignored)
    /\ UNCHANGED ignored

Reindexing ==
    \/ handleReindex
    \/ \E ig \in IgnoreChoices : handleDidChangeConfiguration(ig)
    \/ \E fo \in FolderChoices : handleDidChangeWorkspaceFolders(fo)

-----------------------------------------------------------------------------
(* The environment.  A write stales the modification time a document holds. *)
Write(f, text) ==
    /\ ~exited
    /\ disk' = [disk EXCEPT ![f] = text]
    /\ docs' = [docs EXCEPT ![f].fresh = FALSE]
    /\ pending' = [pending EXCEPT
          ![f] = IF text = Nil THEN "deleted" ELSE "changed"]
    /\ UNCHANGED <<open, versions, shown, exited, folders, ignored, client,
                   diverged>>

SaveBuffer(f) == buffer[f] # Nil /\ Write(f, buffer[f])

WriteFile(f, text) == text # disk[f] /\ Write(f, text)

(* handleMessageContext ends the process by os.Exit; the next one starts    *)
(* from Init.                                                               *)
Exited == exited /\ UNCHANGED vars

(* One life of the server process, and what goes on around it.              *)
Next ==
    \/ \E f \in Files, text \in Texts :
          \/ \E v \in 1..MaxVersion : handleDidOpen(f, text, v)
          \/ handleDidChange(f, text)
    \/ \E f \in Files : handleDidClose(f)
    \/ \E f \in Files : WatchedChanged(f) \/ WatchedDeleted(f)
    \/ Reindexing
    \/ handleDidChangeConfigurationRepublish
    \/ \E f \in Files : SaveBuffer(f)
    \/ \E f \in Files, text \in Texts \cup {Nil} : WriteFile(f, text)
    \/ Exited

(* The watcher delivers what it has seen, as long as there is a server;     *)
(* nobody owes edits or writes.                                             *)
Fairness == \A f \in Files : WF_vars(WatchedChanged(f) \/ WatchedDeleted(f))

Spec == Init /\ [][Next]_vars /\ Fairness

-----------------------------------------------------------------------------
(* The store's maps hold what their types say; in particular no path puts   *)
(* an oversized text into a document (MaxFileSize).                         *)
TypeOK ==
    /\ docs \in [Files -> Document]
    /\ open \subseteq Files
    /\ versions \in [Files -> 0..MaxVersion]
    /\ shown \in [Files -> Displayed]
    /\ exited \in BOOLEAN
    /\ folders \in FolderChoices
    /\ ignored \in IgnoreChoices
    /\ disk \in [Files -> Texts \cup {Nil}]
    /\ buffer \in [Files -> Texts \cup {Nil}]
    /\ sent \in [Files -> 0..MaxVersion]
    /\ pending \in [Files -> {"none", "changed", "deleted"}]
    /\ diverged \subseteq Files

(* A document the server has open is indexed from the editor's buffer, not  *)
(* from the disk or from an older notification, whatever was saved, written *)
(* or re-indexed meanwhile.  The exceptions are the code's own: an          *)
(* oversized buffer is not indexed, and the empty buffer compares equal to  *)
(* a source evicted while the document was closed (updateDocument).         *)
OpenTextIndexed ==
    \A f \in open :
        HasDoc(docs[f]) /\ buffer[f] # Huge =>
            \/ docs[f].ast = buffer[f]
            \/ buffer[f] = Empty /\ docs[f].src = Nil

(* Diagnostics on display belong to the indexed text: every handler that    *)
(* changes a workspace or open document republishes it, and clearDocument   *)
(* takes the diagnostics of a forgotten document down.  Two kinds outlive   *)
(* that: file-too-large, and what a republish makes of a document whose     *)
(* source eviction has freed - until that source is back, and never of a    *)
(* document the editor shows, unless its buffer is empty or oversized.  A   *)
(* panic may leave the last round of publishing unfinished.                 *)
ShownMatchesIndex ==
    ~exited => \A f \in Files :
        /\ HasDoc(docs[f]) /\ (docs[f].ws \/ f \in open) =>
              \/ shown[f] \in {docs[f].ast, Huge}
              \/ shown[f] = Sourceless /\ docs[f].src = Nil
        /\ HasDoc(docs[f]) /\ f \in open /\ buffer[f] \notin {Empty, Huge} =>
              docs[f].src # Nil
        /\ ~HasDoc(docs[f]) => shown[f] \in {Nil, Huge}

(* A file closed in the editor, within the workspace and with no watcher    *)
(* event under way, is indexed from its present bytes, unless its buffer    *)
(* was closed unsaved (diverged), it is oversized or it is empty.           *)
ClosedFileInSync ==
    \A f \in Files :
        /\ buffer[f] = Nil
        /\ pending[f] = "none"
        /\ f \notin diverged
        /\ f \notin ignored
        /\ f \in folders \cup LibFiles
        /\ disk[f] \notin {Huge, Empty}
        => docs[f].ast = disk[f]

(* A modification time is recorded only together with the bytes it belongs  *)
(* to: a closed document re-indexing would skip as unmodified was parsed    *)
(* from the disk, unless it carries an editor's unsaved text.               *)
SkippedOnlyIfCurrent ==
    \A f \in Files :
        docs[f].fresh /\ buffer[f] = Nil /\ f \notin diverged
                      /\ disk[f] # Empty
            => docs[f].ast = disk[f]

(* The text of a document that stays open changes only to the editor's      *)
(* buffer: neither the watcher nor a re-index overwrites unsaved edits.     *)
OpenTextOnlyFromEditor ==
    [][\A f \in open \cap open' :
          docs'[f].ast \in {docs[f].ast, buffer'[f], Nil}]_vars

(* Closing a document frees the sources of the closed ones alone: a         *)
(* document that stays open keeps the source it has, and a library document *)
(* always has the source of its tree, although the editor may have opened   *)
(* and closed it (evictClosedDocumentCaches).                               *)
SourcesKept ==
    [][/\ \A f \in open \cap open' :
             docs[f].src # Nil /\ HasDoc(docs'[f]) => docs'[f].src # Nil
       /\ \A f \in LibFiles :
             HasDoc(docs'[f]) => docs'[f].src = docs'[f].ast]_vars

(* A file deleted on the disk is eventually forgotten, unless it comes      *)
(* back, is opened in the editor, is hidden by an ignore glob or the server *)
(* ends.                                                                    *)
DeletedFileForgotten ==
    \A f \in Files :
        (disk[f] = Nil) ~> \/ ~HasDoc(docs[f])
                           \/ disk[f] # Nil
                           \/ buffer[f] # Nil
                           \/ f \in ignored
                           \/ exited

-----------------------------------------------------------------------------
(* What the invariants above need to be inductive (see WorkspaceProofs).    *)

SourceIsParsed == \A f \in Files : docs[f].src \in {Nil, docs[f].ast}

(* An open document's stored version never runs ahead of the editor, so its *)
(* next edit cannot be taken for an old one.                                *)
OpenIsCurrent ==
    \A f \in open : buffer[f] # Nil /\ versions[f] <= sent[f]

EventsMatchDisk ==
    \A f \in Files : /\ pending[f] = "changed" => disk[f] # Nil
                     /\ pending[f] = "deleted" => disk[f] = Nil

StoreInv ==
    /\ TypeOK
    /\ SourceIsParsed
    /\ OpenIsCurrent
    /\ EventsMatchDisk
    /\ OpenTextIndexed
    /\ ShownMatchesIndex
    /\ SkippedOnlyIfCurrent
    /\ ClosedFileInSync

=============================================================================
