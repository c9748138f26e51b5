----------------------------- MODULE GlobalIndex -----------------------------
(***************************************************************************)
(* The symbol index of the language server (lsp/global_index.go and the    *)
(* half of lsp/symbols.go that writes it): symbol tables per resource and  *)
(* scope, the lists of definitions per key (HashIndex), the class aliases, *)
(* the account of the sources kept in memory, and the dependency graph     *)
(* with the edges every resource scope caches of it.                       *)
(*                                                                         *)
(* Two names may share a key (M.f and M:f), one node may be indexed under  *)
(* two names, and several documents write one resource's tables.           *)
(* lastAccess is kept as an order: lru lists the documents whose source is *)
(* held, the least recently used first.  ScriptScopes, which registering a *)
(* resource fills and nothing reads, is left out.                          *)
(***************************************************************************)
EXTENDS DependencyGraph

CONSTANTS
    Docs,           \* document URIs
    LibDocs,        \* those of libraries
    Roots,          \* root URIs of FiveM resources
    Names,          \* manifest names of resources, present or not
    NameOf,         \* [Roots -> Names], the last part of the root's path
    Sides,          \* client, server, shared
    Texts,          \* what a document can contain: definitions, alias, size
    Keys,           \* GlobalKey values
    Types,          \* class names with a table alias
    Homes,          \* [Docs -> sets of contexts the profile can give]
    ManifestDeps,   \* the sets of names a manifest can depend on
    MaxMemory,      \* GlobalIndex.MaxMemory
    Nil             \* not indexed

Def == [name: STRING, key: Keys, node: Nat]

\* A key is a receiver and a field, so a node is indexed under it by two names
\* at most: receiver.field and receiver:field.
TwoNames(defs) ==
    \A i, j, k \in DOMAIN defs :
        /\ defs[i].key = defs[j].key /\ defs[j].key = defs[k].key
        /\ defs[i].node = defs[j].node /\ defs[j].node = defs[k].node
        => defs[i].name \in {defs[j].name, defs[k].name} \/ defs[j].name = defs[k].name

ASSUME IndexConstantsOK ==
    /\ LibDocs \subseteq Docs
    /\ Docs \cap Roots = {} /\ (Docs \cup Roots) \cap Names = {}
    /\ NameOf \in [Roots -> Names]
    /\ "shared" \in Sides
    /\ Keys # {} /\ Names # {}
    /\ \A t \in Texts : /\ t.defs \in Seq(Def)
                        /\ t.size \in Nat \ {0}
                        /\ t.paths \in [Types -> Nat]
                        /\ TwoNames(t.defs)
    /\ \A d \in Docs : Homes[d] \subseteq [res: {d} \cup Roots, side: Sides]
    /\ ManifestDeps \subseteq SUBSET Names
    /\ UriOrder \in Seq(Docs \cup Roots \cup Names)
    /\ ToSet(UriOrder) = Docs \cup Roots \cup Names
    /\ IsInjective(UriOrder)
    /\ MaxMemory \in Nat
    /\ Nil \notin Texts

VARIABLES
    text,       \* Server.Documents: the text indexed, Nil for no document
    home,       \* globalIndexContext of each document, as its profile now is
    symbols,    \* every SymbolTable: entries with the slot they are in
    hash,       \* HashIndex
    sources,    \* TableAliasSources: [Types -> [Docs -> path, 0 for none]]
    alias,      \* TableAliases: [Types -> path, 0 for none]
    lru,        \* documents whose scope has SourceBytes > 0, by lastAccess
    bytes,      \* ResourceScope.SourceBytes
    usage,      \* memoryUsage
    scopes,     \* keys of GlobalIndex.Resources
    named,      \* roots whose scope has taken its manifest name as Identity
    deps,       \* DepGraph.Dependencies, as pairs
    dependents, \* DepGraph.Dependents, as pairs
    vertices,   \* the graph's vertices
    cached,     \* Dependencies and Dependents of the resource scopes
    displaced   \* history: slots of a document another one has overwritten

tableVars == <<symbols, hash, displaced>>
aliasVars == <<sources, alias>>
memoryVars == <<lru, bytes, usage>>
graphVars == <<named, deps, dependents, vertices, cached>>
vars == <<text, home, symbols, hash, sources, alias, lru, bytes, usage, scopes,
          named, deps, dependents, vertices, cached, displaced>>

SymbolSet == [res: Docs \cup Roots, side: Sides, name: STRING, doc: Docs,
              key: Keys, node: Nat]
Slot(e) == <<e.res, e.side, e.name>>
Same(e, f) == e.doc = f.doc /\ e.node = f.node
Listed(e) == [doc |-> e.doc, node |-> e.node]

-----------------------------------------------------------------------------
(* Server.globalSymbolPriority: workspace definitions before library ones.  *)
globalSymbolPriority(d) == IF d \in LibDocs THEN 2 ELSE 0

FirstOf(places) == IF places = {} THEN 0 ELSE Min(places)

(* removeEntryFromHashLocked: the first entry of the same document and node.*)
removeEntryFromHash(h, e) ==
    LET i == FirstOf({j \in DOMAIN h[e.key] : Same(h[e.key][j], e)})
    IN  IF i = 0 THEN h ELSE [h EXCEPT ![e.key] = RemoveAt(@, i)]

(* Where setGlobalIndexSymbol's loop stops: at the entry of the same node,  *)
(* which moves to the end, or before the first of a lower priority.         *)
StopsAt(x, e) ==
    Same(x, e) \/ globalSymbolPriority(x.doc) > globalSymbolPriority(e.doc)
InsertByPriority(list, e) ==
    LET stop == FirstOf({i \in DOMAIN list : StopsAt(list[i], e)})
    IN  IF stop = 0 THEN Append(list, Listed(e))
        ELSE IF Same(list[stop], e) THEN Append(RemoveAt(list, stop), Listed(e))
        ELSE InsertAt(list, stop, Listed(e))

\* Mutant: the definition overwritten stays in its list.
setGlobalIndexSymbol_KeepsOld(st, e) ==
    LET old == {s \in st.symbols : Slot(s) = Slot(e)}
    IN  [symbols |-> (st.symbols \ old) \cup {e},
         hash |-> [st.hash EXCEPT ![e.key] = InsertByPriority(@, e)],
         displaced |-> st.displaced \cup {<<Slot(s), s.doc>> : s \in
                           {o \in old : o.doc # e.doc}}]

setGlobalIndexSymbol(st, e) ==
    LET old == {s \in st.symbols : Slot(s) = Slot(e)}
        h == IF old = {} THEN st.hash
             ELSE removeEntryFromHash(st.hash, CHOOSE s \in old : TRUE)
    IN  [symbols |-> (st.symbols \ old) \cup {e},
         hash |-> [h EXCEPT ![e.key] = InsertByPriority(@, e)],
         displaced |-> st.displaced \cup {<<Slot(s), s.doc>> : s \in
                           {o \in old : o.doc # e.doc}}]

(* setGlobalSymbol for every definition of the text, in the order           *)
(* finalizeDocumentUpdate meets them.                                       *)
EntryOf(d, h, def) ==
    [res |-> h.res, side |-> h.side, doc |-> d, name |-> def.name,
     key |-> def.key, node |-> def.node]
setGlobalSymbols(st, d, h, defs) ==
    LET after[i \in 0..Len(defs)] ==
            IF i = 0 THEN st
            ELSE setGlobalIndexSymbol(after[i - 1], EntryOf(d, h, defs[i]))
    IN  after[Len(defs)]

removeGlobalIndexDocumentSymbols(d) ==
    [symbols |-> {e \in symbols : e.doc # d},
     hash |-> [k \in Keys |-> Without(hash[k], {x \in ToSet(hash[k]) : x.doc = d})],
     displaced |-> {p \in displaced : p[2] # d}]

-----------------------------------------------------------------------------
(* removeTableAliasesForDocument gives every class some path that is left:  *)
(* the choice is Go's map iteration.                                        *)
LeftSources(d) == [t \in Types |-> [sources[t] EXCEPT ![d] = 0]]
PathsOf(src, t) == {src[t][d] : d \in Docs} \ {0}
Paths == {0} \cup UNION {PathsOf(sources, t) : t \in Types}

AliasAfterRemoval(src, a) ==
    \A t \in Types : IF PathsOf(src, t) = {} THEN a[t] = 0
                     ELSE a[t] \in PathsOf(src, t)

(* setTableAlias for the classes the text declares.                         *)
setTableAliases(d, t, src, a) ==
    /\ sources' = [y \in Types |->
          IF t.paths[y] = 0 THEN src[y] ELSE [src[y] EXCEPT ![d] = t.paths[y]]]
    /\ alias' = [y \in Types |-> IF t.paths[y] = 0 THEN a[y] ELSE t.paths[y]]

-----------------------------------------------------------------------------
(* The bytes a sequence of documents accounts for.                          *)
BytesOf(list, b) ==
    LET upTo[i \in 0..Len(list)] == IF i = 0 THEN 0 ELSE upTo[i - 1] + b[list[i]]
    IN  upTo[Len(list)]

(* evictLRULocked: how many of the least recently used sources go.          *)
Victims(list, b) ==
    Min({n \in 0..Len(list) :
            n = Len(list) \/ BytesOf(SubSeq(list, n + 1, Len(list)), b) <= MaxMemory})

\* Mutant: the replaced source stays on the account.
SetSource_KeepsOldBytes(d, size) ==
    LET list == Append(Without(lru, {d}), d)
        b == [bytes EXCEPT ![d] = size]
        n == Victims(list, b)
        gone == ToSet(SubSeq(list, 1, n))
    IN  /\ lru' = SubSeq(list, n + 1, Len(list))
        /\ bytes' = [x \in Docs |-> IF x \in gone THEN 0 ELSE b[x]]
        /\ usage' = usage + size - BytesOf(SubSeq(list, 1, n), b)

SetSource(d, size) ==
    LET list == Append(Without(lru, {d}), d)
        b == [bytes EXCEPT ![d] = size]
        n == Victims(list, b)
        gone == ToSet(SubSeq(list, 1, n))
    IN  /\ lru' = SubSeq(list, n + 1, Len(list))
        /\ bytes' = [x \in Docs |-> IF x \in gone THEN 0 ELSE b[x]]
        /\ usage' = usage - bytes[d] + size - BytesOf(SubSeq(list, 1, n), b)

EvictSource(d) ==
    /\ lru' = Without(lru, {d})
    /\ bytes' = [bytes EXCEPT ![d] = 0]
    /\ usage' = usage - bytes[d]

-----------------------------------------------------------------------------
(* The graph: the name a scope goes by, and the edges it copies.            *)
resourceIdentity(r, nm) == IF r \in nm THEN NameOf[r] ELSE r
DependencyList(v, ds) == {w \in Names : <<v, w>> \in ds}
DependentList(v, ds) == {w \in Names : <<v, w>> \in ds}

refreshResourceEdges(nm, ids, ds, ts) ==
    [r \in Roots |->
        IF r \in scopes' /\ resourceIdentity(r, nm) \in ids
        THEN [deps |-> DependencyList(resourceIdentity(r, nm), ds),
              dependents |-> DependentList(resourceIdentity(r, nm), ts)]
        ELSE cached[r]]

(* ensureResourceLocked: the scope, and a vertex for its URI.               *)
ensureResources(us) ==
    /\ scopes' = scopes \cup us
    /\ vertices' = vertices \cup us

(* The vertices whose edges RegisterFiveMResource refreshes.                *)
Affected(r, ds) ==
    {resourceIdentity(r, named), NameOf[r]} \cup DependencyList(NameOf[r], deps)
        \cup ds

(* DependencyGraph.SetDependencies; a resource never depends on itself.     *)
SetDependencies(v, ds) ==
    LET new == ds \ {v}
    IN  /\ deps' = {p \in deps : p[1] # v} \cup {<<v, w>> : w \in new}
        /\ dependents' = {p \in dependents : p[2] # v} \cup {<<w, v>> : w \in new}

RegisterFiveMResource(r, ds) ==
    /\ scopes' = scopes \cup {r}
    /\ vertices' = vertices \cup {r, NameOf[r]} \cup ds
    /\ named' = named \cup {r}
    /\ SetDependencies(NameOf[r], ds)
    /\ cached' = refreshResourceEdges(named', Affected(r, ds), deps', dependents')
    /\ UNCHANGED <<text, home, tableVars, aliasVars, memoryVars>>

-----------------------------------------------------------------------------
Init ==
    /\ text = [d \in Docs |-> Nil]
    /\ home \in [Docs -> UNION {Homes[d] : d \in Docs}]
    /\ \A d \in Docs : home[d] \in Homes[d]
    /\ symbols = {} /\ displaced = {}
    /\ hash = [k \in Keys |-> <<>>]
    /\ sources = [t \in Types |-> [d \in Docs |-> 0]]
    /\ alias = [t \in Types |-> 0]
    /\ lru = <<>> /\ usage = 0
    /\ bytes = [d \in Docs |-> 0]
    /\ scopes = {} /\ named = {}
    /\ deps = {} /\ dependents = {} /\ vertices = {}
    /\ cached = [r \in Roots |-> [deps |-> {}, dependents |-> {}]]

(* finalizeDocumentUpdate: what the document had is taken out, its source   *)
(* accounted, and its definitions and aliases put in.                       *)
finalizeDocumentUpdate(d, t) ==
    LET known == text[d] # Nil
        empty == IF known THEN removeGlobalIndexDocumentSymbols(d)
                 ELSE [symbols |-> symbols, hash |-> hash, displaced |-> displaced]
        full == setGlobalSymbols(empty, d, home[d], t.defs)
        src == IF known THEN LeftSources(d) ELSE sources
    IN  /\ t # text[d]
        /\ text' = [text EXCEPT ![d] = t]
        /\ ensureResources({d} \cup IF t.defs = <<>> THEN {} ELSE {home[d].res})
        /\ SetSource(d, t.size)
        /\ symbols' = full.symbols
        /\ hash' = full.hash
        /\ displaced' = full.displaced
        /\ \E a \in [Types -> Paths] :
              /\ IF known THEN AliasAfterRemoval(src, a) ELSE a = alias
              /\ setTableAliases(d, t, src, a)
        /\ UNCHANGED <<home, named, deps, dependents, cached>>

(* isGlobalIndexResourceReferencedByDocument                                *)
SharedHome(d) == \E o \in Docs \ {d} : text[o] # Nil /\ home[o].res = home[d].res

(* PruneResource, for a document no definition is left of.  A document's    *)
(* URI is nobody's manifest name, so it has no edges.                       *)
PruneResource(d) ==
    LET free == ~\E e \in symbols' : e.res = d
    IN  /\ EvictSource(d)
        /\ scopes' = IF free THEN scopes \ {d} ELSE scopes
        /\ vertices' = IF free THEN vertices \ {d} ELSE vertices
        /\ cached' = IF free
                     THEN refreshResourceEdges(named, vertices \cup Names \cup Roots,
                                               deps, dependents)
                     ELSE cached
        /\ UNCHANGED <<named, deps, dependents>>

clearDocument(d) ==
    /\ text[d] # Nil
    /\ LET st == removeGlobalIndexDocumentSymbols(d)
       IN  /\ symbols' = st.symbols
           /\ hash' = st.hash
           /\ displaced' = st.displaced
    /\ sources' = LeftSources(d)
    /\ alias' \in [Types -> Paths]
    /\ AliasAfterRemoval(sources', alias')
    /\ IF SharedHome(d)
       THEN EvictSource(d) /\ UNCHANGED <<scopes, graphVars>>
       ELSE PruneResource(d)
    /\ text' = [text EXCEPT ![d] = Nil]
    /\ UNCHANGED home

(* A manifest came, went or changed (FiveMStore): the profile of a document *)
(* gives it another context, and nothing indexes it again.                  *)
Reprofile(d, h) ==
    /\ h # home[d]
    /\ home' = [home EXCEPT ![d] = h]
    /\ UNCHANGED <<text, tableVars, aliasVars, memoryVars, scopes, graphVars>>

Next ==
    \/ \E d \in Docs, t \in Texts : finalizeDocumentUpdate(d, t)
    \/ \E d \in Docs : clearDocument(d)
    \/ \E d \in Docs : \E h \in Homes[d] : Reprofile(d, h)
    \/ \E r \in Roots, ds \in ManifestDeps : RegisterFiveMResource(r, ds)

Spec == Init /\ [][Next]_vars

-----------------------------------------------------------------------------
(* The index's maps hold what their types say, and a slot of a symbol table *)
(* holds one entry.                                                         *)
IndexTypeOK ==
    /\ text \in [Docs -> Texts \cup {Nil}]
    /\ home \in [Docs -> UNION {Homes[d] : d \in Docs}]
    /\ \A d \in Docs : home[d] \in Homes[d]
    /\ symbols \subseteq SymbolSet
    /\ \A e, f \in symbols : Slot(e) = Slot(f) => e = f
    /\ hash \in [Keys -> Seq([doc: Docs, node: Nat])]
    /\ sources \in [Types -> [Docs -> Nat]] /\ alias \in [Types -> Nat]
    /\ lru \in Seq(Docs) /\ bytes \in [Docs -> Nat] /\ usage \in Nat
    /\ scopes \subseteq Docs \cup Roots /\ named \subseteq Roots \cap scopes
    /\ deps \subseteq Names \X Names /\ dependents \subseteq Names \X Names
    /\ vertices \subseteq Docs \cup Roots \cup Names
    /\ cached \in [Roots -> [deps: SUBSET Names, dependents: SUBSET Names]]

(* Nothing of a text that is gone can be found: every table entry is a      *)
(* definition its document has now, in whatever resource or scope it was    *)
(* indexed when its profile was another (removeDocumentGlobals), and        *)
(* HashIndex lists no definition the tables have lost, and none twice,      *)
(* whichever documents overwrote each other's names (SymbolsByHash).        *)
EntriesCurrent ==
    /\ \A e \in symbols :
          /\ text[e.doc] # Nil
          /\ [name |-> e.name, key |-> e.key, node |-> e.node]
                \in ToSet(text[e.doc].defs)
    /\ \A k \in Keys : \A i \in DOMAIN hash[k] :
          /\ \E e \in symbols : e.key = k /\ Same(e, hash[k][i])
          /\ \A j \in DOMAIN hash[k] : Same(hash[k][i], hash[k][j]) => i = j

(* A definition of a document is found in some table as long as no other    *)
(* document has overwritten its slot (setGlobalIndexSymbol keeps one entry  *)
(* per name, and gives the name back to nobody when its writer goes).       *)
SoleDefinitionFound ==
    \A d \in Docs : text[d] # Nil =>
        \A i \in DOMAIN text[d].defs :
            LET n == text[d].defs[i].name
            IN  \/ \E e \in symbols : e.doc = d /\ e.name = n
                \/ \E p \in displaced : p[2] = d /\ p[1][3] = n

(* The memory account is the sum of the sources held, never below zero (it  *)
(* is unsigned) and within MaxMemory after every call (SetSource,           *)
(* EvictSource, evictLRULocked).                                            *)
AccountExact ==
    /\ IndexTypeOK
    /\ usage = BytesOf(lru, bytes)
    /\ usage <= MaxMemory
    /\ \A d \in Docs : bytes[d] > 0 <=> \E i \in DOMAIN lru : lru[i] = d
    /\ \A i, j \in DOMAIN lru : lru[i] = lru[j] => i = j

(* A class alias points to a table some document declares for it, and is    *)
(* gone with the last of them.                                              *)
AliasBacked ==
    \A t \in Types :
        /\ alias[t] # 0 <=> PathsOf(sources, t) # {}
        /\ alias[t] # 0 => alias[t] \in PathsOf(sources, t)
        /\ \A d \in Docs : sources[t][d] =
              IF text[d] = Nil THEN 0 ELSE text[d].paths[t]

(* What the index answers is what the documents say now, after any history  *)
(* of edits, removals and changes of profile: EntriesCurrent, nothing stale *)
(* is found; SoleDefinitionFound, nothing present is lost; AliasBacked, the *)
(* aliases of classes follow their declarations.                            *)
IndexCurrent == EntriesCurrent /\ SoleDefinitionFound /\ AliasBacked

(* The incremental refresh of RegisterFiveMResource leaves every resource   *)
(* scope with exactly the edges of the graph, in whatever order resources   *)
(* that depend on each other are registered and registered again.           *)
EdgesCached ==
    /\ \A v, w \in Names : <<v, w>> \in deps <=> <<w, v>> \in dependents
    /\ \A r \in named :
          cached[r] = [deps |-> DependencyList(NameOf[r], deps),
                       dependents |-> DependentList(NameOf[r], dependents)]

(* The order in which TopologicalSort gives the resources is one their      *)
(* dependencies allow, whatever was registered, replaced and forgotten      *)
(* before, with cycles and with dependencies nobody has registered.         *)
DependenciesOrdered ==
    IsTopological(TopologicalSort(vertices, deps, dependents), vertices, deps)

(* detectCycles, the source of the circular-dependency warning, reports     *)
(* cycles of the graph and misses none that shares no edge with them.       *)
CyclesReported == AreTheCycles(detectCycles(vertices, deps), vertices, deps)

(* Resources come after everything they depend on, as far as cycles allow,  *)
(* the cycles are those of the graph, and both work on the edges that the   *)
(* scopes of the resources show.                                            *)
DependenciesFirst == EdgesCached /\ DependenciesOrdered /\ CyclesReported
=============================================================================
