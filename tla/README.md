# A verification of Lugo in TLA+

Lugo is a Lua language server with support for FiveM resources, written in Go,
with an MCP server for agents and a VS Code extension. This directory models the
parts of it that keep state over time and the analyses of Lua programs that edits
rest on, checks them with TLC on small instances and proves the main results of
the stateful parts with TLAPS for every value of the constants.

Paths below are relative to the repository; `lsp/workspace.go:674` is line 674
of that file.

## 1. The system

### Parts, their state and operations

| Part | State | Operations |
|---|---|---|
| Document store (`lsp/workspace.go`, `lsp/server.go`, `lsp/document.go`) | `Documents`, `OpenFiles`, `documentVersions`, ignore globs, workspace folders, diagnostics shown by the client | didOpen, didChange, didClose, watched files, re-index, configuration, folders, eviction of closed sources |
| Indexing pipeline (`refreshWorkspace`, `indexWorkspace`) | pending jobs, two channels, workers, `activeURIs` | walk, feed, read, parse, collect, sweep |
| FiveM resource graph (`lsp/fivem.go`) | `ByRoot`, `ByName`, `ByProvide` | Register, removeNode, removeFiveMResource, Resolve, Clear |
| FiveM data of documents (`lsp/fivem.go`, `lsp/workspace.go`) | cached execution profile, scanned events, manifest documents | finalizeDocumentUpdate, getDocumentFiveMProfile, manifest removal, re-registration |
| Global symbol index (`lsp/global_index.go`, `lsp/symbols.go`) | symbols by hash and resource, source memory with an LRU clock, dependency graph | setGlobalSymbol, removeDocumentGlobals, PruneResource, SetSource, eviction, RegisterFiveMResource |
| Telemetry (`lsp/telemetry.go`) | opt-out and closed flags, client, in-memory journal, journal file | Record, opt-out, Close, reload |
| Message dispatch (`lsp/server.go`, `lsp/rpc.go`) | place in the stream, cancelled and outgoing identifiers, settings, folders | read a frame, dispatch, cancel, settings, folders, commands, shutdown |
| MCP server (`cmd/lugo-mcp/main.go`, `lsp/mcp.go`) | freshness snapshot, files marked open, three mutexes | tool calls, re-index, edit validation |
| Parser, syntax tree, scope resolver (`parser/parser.go`, `ast/ast.go`, `semantic/resolver.go`) | tokens, list stack, depths, node array; scope, self and field tables of one walk | parse with recovery, declare, resolve, link fields |
| Two-phase resolver (`lsp/resolver.go`) | scopes with their declarations, bindings | declare, look up by place, bind globals and fields |
| Analyses of a program (`lsp/eval.go`, `lsp/symbols.go`, `lsp/features.go`, `lsp/diagnostics.go`) | none beyond the resolved document | fold constants, find what a name denotes, list its uses, report dead, unused, redundant and unguarded code |
| Edits (`lsp/refactor.go`) | none beyond the resolved document | rename, quick fixes, safe fixes, refactorings |
| Inference, formatting, FiveM analyses and contracts | per document or none | functions from a text or tree |
| Warm-up, prefetch, eviction policy, tree comparison | reached by tests only | start, stop, choose a victim |
| VS Code extension (`vscode/extension.js`) | client process, its own journal | start, restart, settings |

### How they interact

One goroutine reads messages and runs each handler to its end (`Server.Start`),
so handlers do not interleave with each other. Around that goroutine everything
does: the user edits a buffer, other programs write the disk, the editor's file
watcher reports those writes later, and the re-index starts a feeder, one worker
per CPU and a closer. Handlers write `Documents`; `finalizeDocumentUpdate` feeds
manifests into the resource graph and invalidates by hand what other documents
derived from it. Closing any document evicts the sources of all closed ones, and
several later steps compare against or parse from that source. The MCP server is
the exception to sequential handlers: its tool calls run concurrently and share
one embedded language server behind locks. Language servers and MCP servers
of one user are separate processes that share one trace journal. An edit the
server offers is computed from the tree of one version and applied by the editor,
which sends the result back as a change.

### What is hard here

* Two truths per file: the buffer of an open file, the disk of a closed one, with
  reports that arrive late and a version counter that outlives a close.
* Skipping by modification time: a time recorded with the wrong bytes hides a
  file for good.
* Manual invalidation of profiles and events whenever the graph changes, in a
  re-index whose order is that of goroutines and of Go's map iteration.
* One symbol kept in three structures that must lose it together, and a memory
  account adjusted in four places.
* Concurrent tool calls under two locks, with panics that are recovered, and a
  freshness that is computed at another moment than the index.
* Workers that parse in place into trees the server holds, and that may panic.
* A stream of frames where one refused frame decides how the next are read, and
  cancellations that arrive before, during or long after what they cancel.
* What a name denotes is decided in several places (the resolver, the look-up by
  place, each symbol request), and every edit rests on those decisions: a wrong
  one changes what the user's program does without an error anywhere.
* Diagnostics that other code acts on: what is reported dead is removed by a fix.
* Files rewritten by truncation, processes that are killed meanwhile, and an
  opt-out that must hold against all of them.

`PROJECT.json` lists the hazards at their lines and the properties aimed at them.

## 2. The modules

| Module | Models | State ↔ code |
|---|---|---|
| `Workspace` | document store | `docs` `Documents` (`src` is `Tree.Source`, `ast` the text the tree was parsed from, `fresh` whether `ModTime` is the file's present one), `open` `OpenFiles`, `versions` `documentVersions`, `shown` published diagnostics, `exited` whether a panic has ended the process; `disk`, `buffer`, `sent`, `pending` are file system, editor and watcher |
| `ResourceGraph` | FiveM resource graph | `graph` with `byRoot`, `byName`, `byProvide` |
| `FiveMStore` | manifests, profiles and events; extends `ResourceGraph` and implements it | `mdocs`, `sdocs` documents, `profile` `FiveMProfile`/`FiveMProfileCached`, `scanned` `FiveMEvents`, `phase` and `todo` the position in `refreshWorkspace` |
| `Reindex` | what `refreshWorkspace` promises, as one step with a beginning and an end | `index` the indexed text of each file, `may` what the end may leave |
| `IndexPool` | `refreshWorkspace` with its goroutines; implements `Reindex` | `pending`, `jobs`, `results` the job list and channels, `worker` each worker, `active` `activeURIs`, `phase` the main goroutine; `old`, `may` what the refinement remembers |
| `Telemetry` | opt-out, journal, several processes | `tel` flags and client, `entries` and `handle` the journal, `file` what is at the journal path |
| `GlobalIndex` | symbol index, aliases, source memory, edges of resources | `symbols` all symbol tables, `hash` `HashIndex`, `sources` and `alias` `TableAliasSources` and `TableAliases`, `lru`, `bytes`, `usage` the memory account, `deps`, `dependents`, `vertices` the graph, `cached` each resource's copy of its edges |
| `DependencyGraph` | `TopologicalSort` and `detectCycles`; what a topological order of a graph with cycles is, and what reporting the cycles means | operators on a graph: `Dependencies` and `Dependents` as two sets of pairs, `PlaceNext` one round of the loop, `visit` one step of the search, whose recursion is kept as the stack of its calls (`stack`, `left`) |
| `Dispatcher` | `Server.Start`, `handleMessageContext`, framing, life cycle, settings, folders | `sent`, `read`, `torn` the stream, `canceledRequests`, `WorkspaceFolders`, `RootURI`, `outgoingRequestID` under their names, `written` all that was answered, `settings` the configuration in force, `parsed` and `shown` those the documents were parsed and published with |
| `McpServer` | MCP tool calls, locks, freshness | `pc`, `tool` where a call is, `writer`, `readers`, `mcp` the locks, `index` `Documents`, `active` `activeURIs`, `pinned` `OpenFiles`, `revision` `freshness` |
| `LuaParser` | `parser.Parser`, `ast.Tree.AddNode` | operators on the parser's state: place in the tokens, `nodes`, `listStack`, depths, errors |
| `LuaResolver` | `semantic.Resolver`; extends `LuaParser` | operators on the resolver's state, with its tables under their names |
| `LuaDocument` | a document parsed and resolved at every edit; extends `LuaResolver` | `names` the resolver and its tree, `before` and `after` the text around the cursor; the reference definitions of grammar and scopes |
| `LuaScopes` | `Phase1` of the two-phase resolver; extends `LuaResolver` | operators on the resolver's state, `scopes` its scope tree |
| `LuaMeaning` | what a Lua program does, from Lua's manual: the reference | a machine that runs a tree and leaves a trace of calls and assignments the outside sees |
| `LuaValues` | `lsp/eval.go` | `EvaluateExpression`, `FindEvaluableParent` on a resolved document |
| `LuaSymbols` | definitions, references, highlights, linked edits, rename, locals at a place | operators on a resolved document |
| `LuaDiagnostics` | the diagnostics of a program | sets of diagnostics with code, stretch and node |
| `LuaFixes` | quick fixes, safe fixes, refactorings | edits: a stretch of tokens and what replaces it |
| `LuaEdits` | an author types, asks for an edit and applies it; extends `LuaDocument`, `LuaScopes` and `LuaFixes` | `names` the resolved document, `command` the request and its edits |

Each state machine has an `MC…` module with the constants of its instances and a
`.cfg`; the `…Proofs` modules hold the proofs.
Operators whose comment begins with "Mutant" are plausible bugs; each run's
properties are shown to notice one.

A handler is one action, including what it calls at the end: `handleDidClose`
evicts sources and, when the file is gone, clears the document in one step.
What the code does in several steps that others can see is several actions:
the goroutines in `IndexPool`, `disableAndPurge` and `Close` in `Telemetry`,
and in `FiveMStore` the results and re-registrations of one re-index, because
their order is free, and in `McpServer` every lock, every file read and every
unlock.

**Abstractions.** A text stands for its own tree, and a manifest content for what
it declares. `Workspace` distinguishes ordinary texts, the empty one and an
oversized one, since the code does (`bytes.Equal` of a nil and an empty slice,
`MaxFileSize`), and texts of which some diagnostic slices the source without a
bound check (`Slicing`); of a tree whose source was freed the diagnostics are one
value, `Sourceless`. A write to the disk always gives a new modification time. The
watcher coalesces the events of a file into the last one. `ResourceGraph` keeps
`ByProvide` as a set; the code sorts that slice by a total order, which `Rank`
stands for. In `Telemetry` a line is its process, its size, whether it begins with
a brace and whether it is terminated. In `GlobalIndex` a text is its definitions,
its class aliases and its size; `lastAccess` times are kept as the order they
induce, `resourceIdentities` is derived, `ScriptScopes`, which nothing reads, is
left out, and so are `AddSymbol` and `LookupByScope`, which only tests reach. In
`McpServer` a hash is what it is of, a call refused for its arguments is left out,
and the files the hash covers but the index never takes are those of `Unlisted`
(ignored, or `.LUA`) and those with a text of `Oversized`. In `LuaParser` a token
is one byte followed by a blank, an identifier is one of a few names, and the
extra list is kept in the node it belongs to; comments, messages and attributes
are left out. In `LuaResolver` a name is its own hash and a receiver its path of
names. In `Dispatcher` a query is any request of a feature: it answers or panics;
a configuration has three parts, by what the code does with them: walk and index,
publish, parse. In `LuaMeaning` numbers are rationals, a string is a sequence of
literals, a global the program does not set is external or absent, and functions
handed to the outside are called after the program; two programs mean the same
when they leave the same trace in both worlds (what comes from outside is true, or
false). In `LuaSymbols` the document is alone in its workspace. In
`LuaDiagnostics` two names stand for all those a call is taken for pure by:
`type`, which is of Lua's library and only reads, and `getNext`, which a program
has from outside and whose calls the outside sees. In `LuaFixes` statements stand
on lines of their own.

**How the modules fit.** `Workspace` takes a re-index as one step and `IndexPool`
opens it. `Reindex` stands between them: it lets a refresh take time and says of
each file which texts its end may leave, one when nothing happens meanwhile, which
is the result of `Workspace`'s step, more with every write or panic. `IndexPool`
implements it (`ImplementsReindex`, `INSTANCE Reindex WITH` a mapping in which the
index shows its old texts until the refresh ends) for the files the walk meets
once; two jobs of a file under two roots share one tree and keep no such promise.
`FiveMStore` keeps files still during a re-index and lets its orders vary. It uses
`ResourceGraph`'s operators on the same variable, so the refinement mapping is the
identity and `ImplementsGraph` is `ResourceGraph`'s specification. `GlobalIndex`
takes the profile that decides a document's resource and side from `FiveMStore`,
as a step that may change it at any time. `McpServer` uses the re-index of
`IndexPool` reduced to when each file is read. `Dispatcher` delivers the messages
whose handlers are the actions of `Workspace`; it abstracts each to its answer.
The Lua modules are one chain: a tree from `LuaParser`, bound by `LuaResolver`,
read by `LuaValues`, `LuaSymbols` and `LuaDiagnostics`, edited by `LuaFixes`, and
`LuaEdits` parses the edited text again and runs both programs.

## 3. The runs

| Run | Expect | Instance | Shows |
|---|---|---|---|
| `Workspace` | pass | a file and a library; two ordinary texts, empty, oversized; versions to 3; the folder and the glob come and go | the index follows buffer and disk, diagnostics follow the index as long as its sources are there, no source is freed that is still read |
| `FiveMStore` | pass | a resource with both manifests, a script, and inside it a resource of the same name; an alias that is also a name | profiles, active manifest, name and alias indexes, re-index in any order, refinement of the graph |
| `FiveMStoreEvents` | violation | same | changing a manifest empties events that nothing scans again |
| `IndexPool` | pass | two workers, channels of one, a file under one root and one under two, one write | the refresh implements `Reindex`, times match bytes, the refresh ends |
| `Telemetry` | pass | two processes, journal of 4 bytes, events of 2 and 5 | bounded journal; what an opted-out process recorded is gone for good |
| `GlobalIndex` | pass | two scripts, one library, three texts, 3 bytes of memory; three roots, two of one name, one dependency missing | no symbol of a text that is gone, exact account, edges, order and cycles |
| `McpServer` | pass | two calls; a file that changes, one that may get too large and one ignored; one write, worker panics | readers kept out, the revision covers what is indexed, every call returns |
| `Dispatcher` | pass | five editors of four or five messages, two identifiers, four configurations, two folders | one answer each, cancellations hit what they name, settings and folders take effect, requests are answered |
| `LuaDocument` | pass | five kinds of text, up to four phrases each; nesting limits 7 and 4, three errors kept | trees spell their source, operators group, names bind as in Lua |
| `LuaEdits` | pass | ten kinds of program, two or three phrases each, runs of six calls and rounds | resolvers agree, constants, dead code and guards are right, renames, fixes and refactorings keep meaning |
| `LuaEditsComparisons` | violation | one expression with `==` | comparisons of constants are folded to true |
| `LuaEditsSafeFixes` | violation | a redundant value that calls, an unused local with a call that looks pure | safe fixes delete calls |

**Bounds and why they suffice.** The handlers of `Workspace` touch one file each,
except for eviction and re-indexing, which treat files independently; one file
meets every case, the library is there for eviction, and the constraint `Apart`
lets it move only while the other file is plain; the proofs cover any number. One
of the two ordinary texts is one that panics without its source. Version 3 leaves
room for an open, an edit, a close and an open with a lower, equal and higher
version. In `FiveMStore` two manifests of one root are what precedence is about,
two contents let a content change while the root stays, and a second root of the
same name inside the first is both ways roots interfere; `Apart` keeps the second
manifest of the first root away while the second root exists. In `IndexPool`
channels of capacity one make every wait happen; in the code they hold 2048, and
workspaces exceed that. Three jobs over two workers let one worker panic while the
other goes on, or both. `MaxTime` allows one write per behaviour, placed anywhere:
the questions concern a single file read at one time and looked at at another. In
`Telemetry` 4 bytes hold two events, and an event of 5 is cut to fit and drops the
others; symmetry in the processes is used, and no liveness is checked there. In
`GlobalIndex` the three texts share a name, a key and a node in every way the code
tells apart, 3 bytes hold one or two of their sources, and the documents can be of
one resource or not; `Apart` keeps histories in which manifests are registered to
one indexed document, since tables and graph meet in the removal of a document
only. In `McpServer` two calls are what an overlap is made of: the
first is one of the tools that look at all the files, `lugo_reindex` and
`lugo_workspace_status` (`ToolsOf`), the second any of the seven. One write, before,
between or after any steps, changes, creates or deletes a file, the second file
can be created at an ordinary size or start too large, and the worker of any file
it reads may panic; the proofs cover any number of all.

In `Dispatcher` an editor sends four or five messages, at most two of them unread
(`MaxUnread`): a request, its cancellation, the identifier used again and a fourth
message around them, a refused frame and what follows it, two changes of settings
or folders before and after initialisation. Each editor sends the kinds of
message that touch the same part of the server's state.

In the Lua runs a phrase is a few tokens inserted at a cursor together with what
closes it, so that most texts are whole programs. In `LuaDocument` four operators
in a row meet every order of six levels, of both associativities and of the unary
operators, three constructs nest or follow each other in every way, and the limits
are low enough to be met inside a list. In `LuaEdits` each draft has the phrases
of one question (scopes, members, constants, flow, guards, locals, hidden names,
calls by names that look pure, branches, shapes of assignments); two or three of
them put one construct inside, before or after another, which is what the analyses
look at: the parent, the siblings and the uses of a node. No program of them needs
more than six calls and rounds (`Fuel`) to be told from another; a run that
exhausts it is not compared.

**Fairness.** `Workspace` assumes that the watcher delivers what it has seen and
nothing of users or disk. `IndexPool` assumes that every goroutine able to
proceed does, which the Go scheduler provides, and nothing of panics and writes.
`McpServer` assumes the same (weak fairness), and that a lock which is free again
and again is obtained (strong fairness): Go's mutexes hand over to a waiter that
has waited a millisecond, and an RWMutex lets the waiting readers in before the
next writer. New calls are never assumed to arrive or to stop arriving.
`Dispatcher` assumes that the reading goroutine goes on, since it waits for nothing
but the stream, and nothing of the editor.
The other modules state none.

### Properties

*Workspace.* `OpenTextIndexed`: an open document is indexed from the buffer.
`ShownMatchesIndex`: diagnostics on display belong to the indexed text; or they
are what is left of them without the source, while it is gone, and never for a
document the editor shows, unless its buffer is empty or oversized.
`ClosedFileInSync`: a closed file without an event under way is indexed from the
disk. `OpenTextOnlyFromEditor`: watcher and re-index never overwrite an open text.
`SourcesKept`: closing a document frees no source of an open or a library
document. `DeletedFileForgotten`: a deleted file is eventually forgotten. `TypeOK`
includes that nothing oversized is indexed. The exceptions written into these
properties (an oversized buffer, an empty text against an evicted source, a buffer
closed unsaved, a process a panic has ended) are behaviours of the code, discussed
in section 5.

*FiveMStore.* `CachedProfileCurrent`: a profile cached since the last re-index is
the one the graph gives. `ActiveManifestCurrent`: a registered content is not
older than its manifest document. `AliasesExact`: names lead to registered nodes
and aliases are those the nodes declare. `ResolveSound`: `Resolve` answers with a
registered resource of that name or alias, and finds one if there is one.
`ReindexRestoresGraph`: in any order of results and documents a re-index ends with
the right roots and precedences. `ImplementsGraph`.

*IndexPool.* `ImplementsReindex`: a worker's panic leaves no half-parsed document,
because the job without a result makes the sweep drop it, and an undisturbed
refresh leaves exactly the disk. `SkipIsSafe`: the time recorded was taken before
the bytes were read, so a write in between is seen next time. `RefreshEnds`.

*Telemetry.* `JournalBounded`. `OptOutHolds`: what an opted-out process recorded is
gone, also when another process has the lines in memory, and the opt-out is final.

*GlobalIndex.* `IndexCurrent`: no table and no key list holds a definition of a
text that is gone, whichever resource or side it was indexed under, and none is
listed twice; a definition is found unless another document has overwritten its
name; a class alias points to a table a document declares. `AccountExact`: the
memory account is the sum of what is held, within its limit. `DependenciesFirst`:
the incremental refresh leaves every resource with the edges of the graph, and the
topological order is right, also around a cycle; what is reported as circular are
cycles, and taking out the edges that close them leaves none (a depth-first search
reports one cycle per edge back, not all cycles of the graph).

*McpServer.* `McpTypeOK` includes that a call is inside a lock exactly when the
lock says so. `ReadsAreWhole`: nobody reads the index while a re-index replaces
it, `lugo_fivem_events` and `lugo_fivem_exports` excepted. `RevisionIsIndexed`:
of the files that are in the index and of those that are gone, the recorded
revision is that of what is indexed, for files not marked open and a re-index no
write has met; of other files the revision says nothing about the index (section
5). `CallsReturn`: no deadlock and no starvation,
unless a panic of diagnostics has leaked its lock.

*Dispatcher.* `OneAnswer`: an answer carries the identifier of what it answers and
nothing is answered twice. `CancelledSince`: a request is refused as cancelled
exactly when a cancellation was read since the last request of that identifier.
`EditorFollowed`: folders are the editor's, the root the first of them, and what is
shown was walked and published with the settings in force, which leaves out what a
document keeps from the time it was parsed. `RequestsAnswered`: every request is
answered or refused unless the process ends, with the exceptions of section 5.

*LuaDocument.* `TreeSpellsSource`: on any text the parser ends, balanced, with
every node inside the source; on an accepted one the tree's nodes nest and every
word is one leaf. `OperatorsGroup`: operands are grouped by the order of Lua's
manual, stated apart from the parser's table. `NamesBind`: links, globals, fields
and the duplicate and shadowing warnings against scopes defined as stretches of
source, not by a walk.

*LuaEdits.* `NamesAgree`: the walk of `semantic/resolver.go`, the two-phase
resolver and the locals found by place bind each read to the same variable.
`ConstantsFold`: a folded constant is the value in every run, and the part of a
chain that the hover evaluates is worth what it shows. `DeadStaysDead`: what is
reported unreachable never runs and what is reported unused is never read.
`GuardsHold`: the use of an undefined global that is excused as guarded is reached
in no run where the global is absent. `SymbolsAgree`: highlights, references and
linked edits are one set, the same from each of its places. `RenameKeepsMeaning`,
`FixKeepsMeaning`, `RefactorKeepsMeaning`: the edited program parses and leaves the
same trace; where the code is known to fail, the exception is a named operator
(`Loses`, `Captures`, `Divided`, `IsBound`, `SplitApart`, `Preserving`).

## 4. The proofs

TLAPS proves, for every set of files, texts, roots, manifests, scripts, workers,
processes, keys, messages and folders, and for every limit:

* `WorkspaceProofs`: `StoreCorrect` (the inductive invariant), and from it
  `TypeCorrect`, `OpenTextCorrect`, `ShownCorrect`, `ClosedFileCorrect`,
  `OpenTextProtected`, `LibrarySourceCorrect` (library documents keep their
  source) and `SourcesProtected` (no step takes the source of a document that
  stays open or belongs to a library); the safety half of `DeletedFileForgotten`,
  `DeletionReportedHolds`.
* `ResourceGraphProofs`: `GraphIndexesExact` and `ResolveCorrect`.
* `FiveMStoreProofs`: `ProfilesCorrect`, `ManifestsCorrect`, `ReindexCorrect` (the
  action property `ReindexRestoresGraph`), the refinement `StoreImplementsGraph`
  and, from it and `GraphIndexesExact`, `StoreKeepsIndexes`.
* `IndexPoolProofs`: `SkipIsSafeHolds`, the refinement `PoolImplementsReindex`, and
  two halves of `RefreshEnds`: `RefreshNeverStuckHolds` and `RefreshShrinksHolds`.
* `TelemetryProofs`: `JournalBoundedHolds` and `OptOutComplete`.
* `GlobalIndexProofs`: `IndexCurrentHolds`, `AccountExactHolds` and
  `DependenciesFirstHolds` (with its parts `EdgesCachedHolds` and
  `DependenciesOrderedHolds`), from `IndexInvHolds`.
* `McpServerProofs`: `McpTypeCorrect`, `ReadersExcluded` and `RevisionCorrect`,
  and two halves of `CallsReturn`: `CallsCanGoHolds` and `CallsShortenHolds`.
* `DispatcherProofs`: `InvHolds`, and from it `OneAnswerHolds`,
  `CancelledSinceHolds` and `EditorFollowedHolds`; the safety half of
  `RequestsAnswered`, `AnsweredOnceReadHolds`.

**Workspace.** None of the properties is inductive alone. `StoreInv` adds
`SkippedOnlyIfCurrent` (what a re-index would skip is current), `SourceIsParsed`
(a source in memory is what the tree was parsed from, so equality of bytes means
equality of trees), `OpenIsCurrent` (the version stored for an open document never
exceeds the editor's, so its next edit is not refused as old) and
`EventsMatchDisk` (a pending event tells whether the file exists).
`ShownMatchesIndex` is carried with them as it is: what is published of a document
is `diagnosed` of it, whether one is published or, up to a panic, some of all
(`PublishOne`, `PublishAll`), and a source that is freed afterwards leaves it
standing. There is one lemma per handler. `DeletionReported` says that a deleted
file which is indexed, not open and not ignored has its event pending: when one
was delivered and changed nothing, because the file was ignored, it takes a
re-index to stop ignoring it, and when the document was opened and closed since,
the close has looked at the disk.

**ResourceGraph.** The invariant is `TypeOK`, `NamesLeadToNodes` and
`AliasesExact`; `removeNode` and `insertNode` preserve it by themselves, and the
other operations are compositions of them. It needs of the constants that among
the roots above a URI one is the longest, and that `Rank` is a total order.

**FiveMStore.** `ProfileInv` adds to `CachedProfileCurrent` that a re-index in
progress leaves no profile to rely on (`ReindexIsEarly`) and that files to be
parsed exist (`TodoReadable`). The argument: a profile depends only on the nodes
of the roots above the script; registration changes one root, and invalidation
covers every script under it, since the string prefix the code tests is weaker
than the directory prefix it looks up. `ManifestInv` adds two relations that hold
during a re-index only. `Backed`: a registered root has the manifest it came from
among the indexed ones and, while results come in, on the disk, so that clearing
the lost ones unregisters nobody whose manifest is left. `Covered`: a manifest
that need not be registered again is registered, or one of higher precedence is.
When none is left to register, `Covered` and `Backed` together are
`ReindexRestoresGraph`, whatever the order was.

**IndexPool.** `PoolInv` is `PhaseInv` (which goroutines run in which phase and how
they stop) and, for each file that the walk meets once, `FileInv`. The file has at
most one job and the job is in one place: the walk, `pendingJobs`, the jobs
channel, a worker or the results channel. `FileInv` says for each place what the
document, the disk and the promise (`may`) have to do with the job: a queued one
finds its document untouched, one that has been read carries a promised text and,
if the file has not been written since, the disk's, one that has been parsed in
place has torn the tree it will put in order, and a file without a job is either
marked active with a promised document or may be dropped. Each action moves one
job from one place to the next. In the refinement the start is `Begin`, the sweep
is `Finish`, a write, or a listed file found gone when the walk looks at it, is
`Write`, a panic is `Panic`, and every other step of the goroutines stutters.
For the end of a refresh, `RefreshNeverStuck` says that some goroutine has a step
whose guard holds: with room in the results channel a worker that has something
goes on, without it the result loop does, and when every worker has stopped the
closer does. `RefreshShrinks` says that each step lowers `Ahead`, a weighted sum of
the entries to walk, the jobs, what each worker has still to do, the results and
the channels that are open; only a write leaves it as it is. A write is possible
`MaxTime` times in the model, but the measure does not rest on that.

**Telemetry.** `JournalBounded` is not inductive since a process may die between a
line and its newline, and a reload terminates what it finds: `TelemetryInv` keeps a
byte for the newline of the last line, the only one that may want it. For the
opt-out it adds `NoneLeft`: once the purge of a process is through, none of its
lines is in the file, nor in the memory of a process that still writes at the
path; a process whose handle lost the path can bring nothing back.

**GlobalIndex.** `IndexInv` keeps with every key list its order: workspace
definitions before those of libraries, except for entries two symbols stand for,
which setting the same node again moves to the end. Without that exception the
order is no invariant, and without the order the loop that looks for a place may
pass the entry it replaces. A third symbol for a node would have a third name, and
a key has two (`TwoNames`: a field and a method), so that no list names a node
twice. The account (`AccountOK`) is the sum over the list of sources, shown for
each of replacing, appending, evicting the oldest and removing one. A resource's
edges are current since whoever's edges a registration changes is among those it
refreshes. For `DependenciesOrdered`, `IndexInv` adds that dependencies are between
vertices (`GraphClosed`), and `SortIsTopological` holds of any such graph: the
vertices placed keep what they depend on before them, because the counter of a
vertex is at zero exactly when everything it depends on is placed
(`ReadyMeans`); rounds end with every vertex placed or none ready; and what is
left then are exactly the vertices that wait on a cycle (`LeftIsCyclic`).
For `CyclesReported`, `SearchOK` describes the search of `detectCycles` between two
steps, with the vertices `R` it has started from and the edges `F` it has followed:
the stack is a path (`WalkOK`); an edge followed leads to a vertex visited, up the
stack, or closed a cycle (`Settled`); and the edges that closed none have no way
round among the vertices visited (`NoWayRound`), because a vertex is visited last
of all it leads to. Every step starts from a vertex, follows an edge or visits a
vertex it has not before (`OneMore`), so that after twice the vertices and once the
edges the search has finished (`AllBehind`).

**McpServer.** `LockInv` adds to the type invariant which tools can be where and
that a re-index past its wait meets no reader. `RevisionInv` adds `Undisturbed`:
as long as no write has met a re-index, what it has read is indexed and on the
disk, and what it has hashed too, even when another re-index runs meanwhile,
which can only confirm it. A file whose worker panics meanwhile is no longer vouched
for, and `Overtaken` says that what is vouched for is active, open or out of the
index, so that the sweep at the end takes none of it.
`CallsCanGo` follows the order of the locks: who holds mcpMu runs, who holds
workspaceMu for reading waits for mcpMu at most, and who has announced itself waits
for those two. It is false once a reader's hold has leaked, which is one of the
statements of section 5. `CallsShorten` gives each call a number, `Left`, that falls
with each of its steps and that no other call changes: a place in the code for each
lock, and a step for each file to refresh and to hash.

**Dispatcher.** `Inv` has a part for each thing the server keeps: where it stands
in the stream (`StreamInv`), what it wrote (`OutputInv`: answers are to frames
read, one each, and its own requests are numbered upwards), which cancellations
are pending (`PendingInv`: those read after the last request of their identifier),
the folders (`FoldersInv`: a history of the editor's folders, a set for each
frame, of which the server's are the one of the last frame it took) and the
settings (`SettingsInv`; publishing leaves no configuration but that in force, up
to its parsing part, by the lemma `Published`). `AnswerInv` adds that a torn
stream has a cause among the frames read (`TornFollows`) and that what was read
and can be answered is (`AnsweredOnceRead`): each handler writes an answer, or its
request is none of those, and nothing takes a message out of what was written.

**Induction.** Values of recursive functions (`Bytes`, `BytesOf`, `Without`,
`setGlobalSymbols`, `TopologicalSort`, `detectCycles`) are reached by the lemmas
`SetInduction` and `AppendInduction`, which take a set instead of a predicate and
rest on the well-foundedness of the natural numbers: the set of the lengths, or
sequences, for which a fact holds is all of them. A function that satisfies the
recursive equation is built first, and shown to be the one the definition chooses.

Only model-checked: liveness (`DeletedFileForgotten`, `RefreshEnds`,
`CallsReturn`, `RequestsAnswered`), since fairness speaks of `ENABLED`, which is
beyond this prover. What is left of `DeletedFileForgotten` to TLC is that a
pending event is delivered; of `RefreshEnds`, that a goroutine which can go on
does; of `CallsReturn`, that also a call which waits for a lock has its turn; of
`RequestsAnswered`, that the frames are read. Only model-checked, too, is
everything of the Lua modules (`TreeSpellsSource`, `OperatorsGroup`, `NamesBind`
and `NamesAgree` among it): their parser and resolvers are operators that call
themselves over syntax trees, in whose presence tlapm has no SMT solver, and what
they compute is an induction over programs. The safety and action properties of
all other modules that runs check are theorems.

The named assumptions (`ConstantsOK`, `GraphConstantsOK`, `NoNodeIsNone`,
`StoreConstantsOK`, `PoolConstantsOK`, `TelemetryConstantsOK`, `IndexConstantsOK`,
`McpConstantsOK`, `DispatcherAssumption`, `ParserAssumption`, `DraftsAssumption`,
`FuelAssumption`, `FreshAssumption`) are evaluated by TLC on every run of a module
that declares or extends them. What the proofs need beyond types: the directories
above a URI have a longest (`GraphConstantsOK`, `StoreConstantsOK`); the kind and
the root of a manifest are its URI; a refresh has a worker and finitely many
(`PoolConstantsOK`; the code starts one per CPU); the walk of the MCP server lists
finitely many files (`McpConstantsOK`); names of resources are no URIs,
`TwoNames`, and `UriOrder` lists every URI once (`IndexConstantsOK`); the folders
an editor starts with are distinct (`DispatcherAssumption`).

## 5. Where code and statements differ

Three runs expect a violation; `PROJECT.json` quotes the statements.

* `FiveMStoreEvents`: a changed manifest truncates the events of its scripts, which
  nothing scans again (`lsp/workspace.go:1397`).
* `LuaEditsComparisons`: `applyOp` gives every comparison of constants the kind true,
  so `1 == 2` folds to true and the code after `if 1 > 2 then return end` is
  reported unreachable (`lsp/eval.go:452`).
* `LuaEditsSafeFixes`: redundant values and arguments are removed with the calls
  they make (`lsp/refactor.go:1978`), and the value of an unused local is removed
  with a call of any function, the author's included, whose name starts with
  `get`, `is`, `has`, `can`, `type` and the like in any case, or of a field of one
  so named (`lsp/diagnostics.go:2174`): `local d = getNext()` loses its call.
  `FixKeepsMeaning` excepts both (`Loses`).

Seen in the models and written into the properties as exceptions:

* `documentVersions` outlives a close, so a reopened document may be refused as
  stale and stay without a source (`lsp/workspace.go:74`).
* A re-index clears the graph but not the profiles computed from it
  (`lsp/workspace.go:369`), and re-registers manifests from a source that eviction
  may have set to nil, that is without their directives (`lsp/workspace.go:533`).
* A buffer closed unsaved leaves its text indexed, and a re-index skips the file,
  since its time did not change (`lsp/workspace.go:674`): `diverged`.
* A closed file that is emptied keeps its old text: the evicted, nil source
  compares equal to no bytes (`lsp/workspace.go:756`).
* Republishing reads the source of documents that eviction has left without one: a
  re-index that skips the unchanged file (`lsp/workspace.go:549`, `:674`), a changed
  setting, a changed manifest, and an empty text for an evicted document, which
  compares equal. Diagnostics behind a bound check vanish from the editor until the
  source is back (`lsp/diagnostics.go:705`, `:769`, `:829`); those without
  (`:953`, `:1037`, `:1147`) panic, which ends the process (`lsp/server.go:594`).
* A changed limit of parse errors only republishes (`lsp/server.go:378`): the errors
  shown are those stored when the document was parsed (`lsp/diagnostics.go:501`),
  with the limit of that time (`lsp/workspace.go:406`, `:440`, `:771`). A re-index
  does not change that for an unmodified file either, nor whether a document counts
  as library or workspace, which is decided when it is created (`:807`).
* `removeFiveMResource` deletes the name of the removed resource whichever
  resource holds it (`lsp/fivem.go:2055`).
* Deleting `__resource.lua` removes the resource `fxmanifest.lua` declares
  (`lsp/workspace.go:248`).
* A manifest edited after its deletion was reported and then closed leaves its
  resource registered (`lsp/workspace.go:157`).
* A file under two roots is parsed by two workers into one tree
  (`lsp/workspace.go:440`), and a file that grows between stat and read is
  indexed past the size limit (`lsp/workspace.go:667`).
* When every worker panics with more jobs left than the channel holds, the feeder
  stays blocked for good; the refresh itself ends.
* A definition that another document overwrote is not put back when that one
  goes, until its own document is indexed again (`lsp/symbols.go:684`).
* The dependency graph never loses the edges of a resource that was deleted, and
  a document's old scope stays until it is indexed again under its new profile.
* `MCPDiagnostics` marks a file open and never closes it, so that later re-indexes
  skip it while the revision moves on (`lsp/mcp.go:182`).
* The MCP revision covers files the index leaves out: the walk of the index keeps
  `.lua` files that are not ignored and within `MaxFileSize` (`lsp/workspace.go:625`,
  `:648`, `:668`) and loses those whose worker panicked (`:400`, `:516`), and the
  refresh is a success all the same; the hash takes every file whose extension is
  `.lua` in any case (`cmd/lugo-mcp/main.go:1043`).
* The MCP revision is hashed after indexing: a write in between makes a stale
  index look fresh, and of two re-indexes the older hash may be stored last
  (`cmd/lugo-mcp/main.go:687`, `:1034`).
* A panic in diagnostics is recovered with workspaceMu still held for reading;
  the next re-index then waits for ever (`cmd/lugo-mcp/main.go:652`).
* `lugo_fivem_events` and `lugo_fivem_exports` read the graph without a lock.
* A refused frame whose body ends inside a line takes the length of every frame
  after it (`lsp/rpc.go:79`); parameters that cannot be decoded and unknown commands
  get no answer; a cancellation that comes too late is kept and hits the next
  request with that identifier (`lsp/server.go:720`).
* The editor's reply to a request of the server is answered with an error, as a
  message without a method (`lsp/server.go:310`).
* The two-phase resolver does not let the condition of a `repeat` see the locals of
  its body, and lets the name of a function see its parameters.
* A global that bounds a numeric `for` is taken for its own declaration
  (`lsp/symbols.go:1353`); a field of a local is taken for the field of the global
  spelled alike; a field defined both in a constructor and by an assignment has its
  uses linked to one of the two, so that a rename misses the others.
* Removing an unused parameter or local function that is assigned later turns the
  assignment into one of a global; removing `x = x` of a global or field drops the
  assignment the outside sees.
* A name chosen for a local (`_a`, `a_ignored`) may capture an undefined global the
  program reads: `isNameSafe` knows the defined ones only.
* Splitting `a, b = b, a`, removing parentheses before a suffix and turning the name
  of a function into an index change the program or break it.
* A loop left by `break`, or a `goto`, defeats the guard of a global:
  `while not a do break end a()` is excused; unreachable code after a `goto`
  includes its label.
* A local named `self` around a method hides the method's own `self`: the scope
  stack is searched first (`semantic/resolver.go:312`).

Seen in the models and stated by no run:

* Recovery skips a token before it looks for a statement. After a line that is a
  lone name, that token is the start of the next line: `a` followed by
  `local b = 1` is read as an assignment to a global `b`, although the comment at
  `parser/parser.go:216` wants valid lines below kept.
* The nesting error "only once" (`parser/parser.go:909`) is reported for every
  expression at the limit: the depth is never above 201.
* `break` inside a function inside a loop is accepted: `parseFunctionBody` keeps
  `loopDepth`.
* An empty block stands at the token after it, outside its `elseif` or `else`.
* "Prefix variable with 'local'" breaks `function foo()` and lists of names;
  converting to `ipairs` introduces a `v` that may capture; converting a method's
  signature changes its parameters; inverting `<` differs for NaN.
* Edits computed on request are resolved later by a node number of the tree as it
  was, without a look at the version (`lsp/refactor.go:770`).
* Bit operations truncate fractions, `>>` is arithmetic, and a float with an integral
  value prints as an integer.
* `isOppositeCondition` takes two calls of the same text for opposite branches, and
  a dead store's index expressions are not looked at for side effects.
* Changed settings switch `SuggestFunctionParams` on again (`lsp/server.go:424`).
* `MCPRequestContext` takes the first message with identifier 1 for its answer.

## 6. Not modelled

* Type inference, annotations and signatures: the types are descriptions (unions are
  cut off, unknown is any), and nothing in the repository says what one promises,
  so there is no reference to check against and no state that depends on them.
* Formatting: layout only.
* FiveM pattern analyses and contracts: each matches calls by name in one pass over
  a file, keeps nothing, and promises the list of names it was given.
* Completion, hover texts, signature help, semantic tokens, hints, call hierarchy,
  module and export look-up: queries that change nothing; what a name denotes,
  which they start from, is modelled.
* `warmup.go`, `prefetch.go`, `eviction.go`, `treediff.go`, `semantic_data.go` and
  the second phase of `lsp/resolver.go`: constructed by tests only.
* The lexer's characters, line and column positions, text encodings.
* CI mode, debug export, build tools, generated declarations, the extension.

In the modelled parts: `didRenameFiles`, symbolic links, the embedded library's
jobs (read from the binary, without a time), redaction, the PostHog client,
interleaved writes of two processes to one journal, a `LUGO_TRACE_MAX_BYTES` that
changes from one process to the next, progress reports, annotations and pragmas in
diagnostics, complexity measures, and refactorings of `table.insert` and `ipairs`
loops. `PROJECT.json` has the reason for every part.

## 7. Plan

Done: `Workspace`, `ResourceGraph`, `FiveMStore`, `IndexPool`, `Telemetry`,
`GlobalIndex`, `McpServer` and `Dispatcher` with runs, and every safety and action
property of theirs as a theorem; the Lua modules with runs. What would come next:

1. Positions: lexer, lines and columns with the editor's encoding, and edits in one
   line, where removals join tokens.
2. `LuaSymbols` over two documents: definitions that hide each other, exports and
   modules, and a rename across files.
3. Proofs about the parser and the resolver, which would need both written as steps
   of a machine with a stack, as `detectCycles` is in `DependencyGraph`.
