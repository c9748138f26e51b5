----------------------------- MODULE LuaSymbols ----------------------------
(* What the name at a place of a document means to the requests that ask    *)
(* for it: the symbol's definition, its references, the edits of a rename   *)
(* and of linked editing, highlights (lsp/symbols.go, lsp/features.go,      *)
(* lsp/refactor.go) and the locals offered at an offset (lsp/document.go).  *)
(* The document r is alone in the workspace, so the symbol index holds its  *)
(* own globals and fields.  Keys are paths of names instead of hashes of    *)
(* their text.  Modules, exports of other resources, annotations and the    *)
(* fields that only type inference finds are left out.                      *)
EXTENDS LuaValues

Ancestors(r, id) ==
    LET RECURSIVE Up(_)
        Up(i) == IF i = 0 THEN <<>> ELSE <<i>> \o Up(Parent(r, i))
    IN  Up(Parent(r, id))

\* At the top of the file, under nothing but if and do.
RECURSIVE isRootLevel(_, _)
isRootLevel(r, id) ==
    LET up == Parent(r, id)
        owner == Parent(r, up)
    IN  CASE up = 0 -> FALSE
          [] Kind(r, up) = "Block" ->
               \/ owner = r.tree.root
               \/ Kind(r, owner) \in {"If", "ElseIf", "Else", "Do"} /\ isRootLevel(r, owner)
          [] OTHER -> isRootLevel(r, up)

isLoopVariable(r, def) ==
    LET up == Parent(r, def)
    IN  /\ def # 0
        /\ \/ Kind(r, up) = "ForNum" /\ NodeOf(r, up).left = def
           \/ Kind(r, up) = "NameList" /\ Kind(r, Parent(r, up)) = "ForIn"

\* The list is the left side of an assignment of one of the kinds.
LeftListOf(r, list, kinds) ==
    LET stmt == Parent(r, list)
    IN  Kind(r, list) = "ExprList" /\ Kind(r, stmt) \in kinds /\ NodeOf(r, stmt).left = list

isLHSOfAssignment(r, id) == LeftListOf(r, Parent(r, id), {"Assign", "LocalAssign"})

isWriteAccess(r, id) ==
    LET up == Parent(r, id)
    IN  CASE Kind(r, up) = "NameList" -> Kind(r, Parent(r, up)) \in {"LocalAssign", "ForIn"}
          [] Kind(r, up) = "ExprList" -> LeftListOf(r, up, {"Assign"})
          [] Kind(r, up) \in {"ForNum", "LocalFunction", "FunctionStmt", "RecordField"} ->
               NodeOf(r, up).left = id
          [] Kind(r, up) = "MethodName" -> NodeOf(r, up).right = id
          [] Kind(r, up) = "MemberExpr" ->
               NodeOf(r, up).right = id /\ LeftListOf(r, Parent(r, up), {"Assign"})
          [] OTHER -> FALSE

-----------------------------------------------------------------------------
(* The locals at an offset, the innermost first.                            *)
StatementLocals(r, stmt, offset) ==
    LET n == NodeOf(r, stmt)
    IN  CASE n.kind = "LocalAssign" /\ offset >= n.end -> Reverse(NodeOf(r, n.left).extra)
          [] n.kind = "LocalFunction" -> <<n.left>>
          [] OTHER -> <<>>

\* A name with its declaration; a method's node declares self.
Yield(r, ids) == [i \in DOMAIN ids |-> [name |-> source(r.tree, ids[i]), id |-> ids[i]]]

ScopeLocals(r, id, offset) ==
    LET n == NodeOf(r, id)
        started == SelectSeq(n.extra, LAMBDA s : NodeOf(r, s).start < offset)
        function == IF n.kind = "FunctionStmt" THEN n.right ELSE id
        self == IF n.kind = "FunctionStmt" /\ Kind(r, n.left) = "MethodName"
                THEN <<[name |-> "self", id |-> n.left]>> ELSE <<>>
        behind == IF n.extra = <<>> THEN n.left ELSE Last(n.extra)
    IN  CASE n.kind \in {"Block", "File"} ->
               Yield(r, FlattenSeq([i \in DOMAIN started |->
                            StatementLocals(r, Reverse(started)[i], offset)]))
          [] n.kind \in {"FunctionExpr", "FunctionStmt"} -> self \o Yield(r, NodeOf(r, function).extra)
          [] n.kind = "ForNum" /\ offset > NodeOf(r, behind).end -> Yield(r, <<n.left>>)
          [] n.kind = "ForIn" /\ offset > NodeOf(r, behind).end ->
               Yield(r, NodeOf(r, n.left).extra)
          [] OTHER -> <<>>

LocalsAt(r, offset) ==
    LET at == NodeAt(r.tree, offset)
        up == IF at = 0 THEN <<>> ELSE <<at>> \o Ancestors(r, at)
    IN  FlattenSeq([i \in DOMAIN up |-> ScopeLocals(r, up[i], offset)])
-----------------------------------------------------------------------------
(* The symbols the document puts into the index: sep tells a.b from a:b,    *)
(* and the index keeps the last entry of each name.                         *)
Symbol(rec, prop, sep, node) ==
    [key |-> [rec |-> rec, prop |-> prop], sep |-> sep, node |-> node]

RECURSIVE getGlobalPath(_, _, _)
getGlobalPath(r, id, depth) ==
    LET Through(val) == IF val \in {0, id} THEN <<>> ELSE getGlobalPath(r, val, depth + 1)
        Behind(left) == IF left = <<>> THEN <<>> ELSE Append(left, source(r.tree, NodeOf(r, id).right))
    IN  IF id = 0 \/ depth > 10 THEN <<>>
        ELSE CASE Kind(r, id) = "Ident" ->
                    IF r.References[id] = 0 THEN <<source(r.tree, id)>>
                    ELSE Through(getAssignedValue(r, r.References[id]))
               [] Kind(r, id) = "MemberExpr" -> Behind(getGlobalPath(r, NodeOf(r, id).left, depth + 1))
               [] OTHER -> <<>>

\* A global that is assigned a local makes the local's fields its own.
AliasSymbols(r, def) ==
    LET Moved(f) == Symbol(<<source(r.tree, def)>> \o Tail(f.key.rec.path), f.key.prop, ".", f.node)
        All(fields) == [i \in DOMAIN fields |-> Moved(fields[i])]
        Of(val) == IF Kind(r, val) # "Ident" THEN <<>>
                   ELSE IF r.References[val] = 0 THEN <<>>
                   ELSE All(SelectSeq(r.FieldDefs, LAMBDA f : f.key.rec.def = r.References[val]))
    IN  Of(getAssignedValue(r, def))

GlobalSymbols(r, def) ==
    IF source(r.tree, def) = "" THEN <<>>
    ELSE <<Symbol(<<>>, source(r.tree, def), ".", def)>> \o AliasSymbols(r, def)

\* The field of a local is indexed under the global the local was assigned,
\* or else under the local's own name.
FieldSymbols(r, f) ==
    LET sep == IF Kind(r, Parent(r, f.node)) = "MethodName" THEN ":" ELSE "."
        Under(rec) == IF rec = <<"self">> THEN <<>> ELSE <<Symbol(rec, f.key.prop, sep, f.node)>>
        Rec(path) == IF path = <<>> THEN f.key.rec.path ELSE path
        Path(val) == IF val = 0 THEN <<>> ELSE getGlobalPath(r, val, 0)
    IN  Under(IF f.key.rec.def = 0 THEN f.key.rec.path
              ELSE Rec(Path(getAssignedValue(r, f.key.rec.def))))

ExportedGlobalDefs(r) ==
    FlattenSeq([i \in DOMAIN r.GlobalDefs |-> GlobalSymbols(r, r.GlobalDefs[i])]) \o
    FlattenSeq([i \in DOMAIN r.FieldDefs |-> FieldSymbols(r, r.FieldDefs[i])])

SymbolsByHash(r, key) ==
    LET Newest(all) == SelectSeq([i \in DOMAIN all |-> i], LAMBDA i :
                           /\ all[i].key = key
                           /\ \A j \in DOMAIN all : all[j].key = key /\ all[j].sep = all[i].sep => j <= i)
        Nodes1(all) == LET At(found) == [k \in DOMAIN found |-> all[found[k]].node] IN At(Newest(all))
    IN  Nodes1(ExportedGlobalDefs(r))

\* The path that a global was assigned, to look its fields up there.
getGlobalAlias(r, name) ==
    LET Path(val) == IF \/ Kind(r, val) \notin {"Ident", "MemberExpr"}
                        \/ Kind(r, val) = "Ident" /\ r.References[val] # 0
                     THEN <<>> ELSE getReceiverContext(r, val).path
        Paths(found) == SelectSeq([i \in DOMAIN found |-> Path(getAssignedValue(r, found[i]))],
                                  LAMBDA path : path # <<>>)
        First1(paths) == IF paths = <<>> THEN <<>> ELSE paths[1]
    IN  First1(Paths(SymbolsByHash(r, [rec |-> <<>>, prop |-> name])))

MaxAliasHops == 10

RECURSIVE getGlobalSymbols(_, _, _)
getGlobalSymbols(r, key, hops) ==
    LET Through(alias) == IF alias = <<>> THEN <<>>
                          ELSE getGlobalSymbols(r, [key EXCEPT !.rec = alias], hops - 1)
        Else(found) == IF found # <<>> \/ Len(key.rec) # 1 THEN found
                       ELSE Through(getGlobalAlias(r, key.rec[1]))
    IN  IF hops = 0 THEN <<>> ELSE Else(SymbolsByHash(r, key))

-----------------------------------------------------------------------------
(* The symbol that a name stands for.                                       *)
\* One more argument than parameters when a method is called with a colon but
\* not defined with one, one less the other way round.
getImplicitSelfOffset(r, methodCall, def) ==
    LET methodDef == Kind(r, Parent(r, def)) = "MethodName"
    IN  CASE methodCall /\ ~methodDef -> 1
          [] ~methodCall /\ methodDef -> -1
          [] OTHER -> 0

\* The call that a name is the function of, 0 when there is none.
CallOf(r, id) ==
    LET up == Parent(r, id)
        outer == Parent(r, up)
    IN  CASE Kind(r, up) = "CallExpr" /\ NodeOf(r, up).left = id -> up
          [] Kind(r, up) = "MethodCall" /\ NodeOf(r, up).right = id -> up
          [] Kind(r, up) = "MemberExpr" /\ Kind(r, outer) = "CallExpr" /\ NodeOf(r, outer).left = up ->
               outer
          [] OTHER -> 0

Params(r, def) == NodeOf(r, getAssignedValue(r, def)).extra
TakesVararg(r, def) ==
    LET EndsSo(params) == params # <<>> /\ Kind(r, Last(params)) = "Vararg" IN EndsSo(Params(r, def))

\* The arguments a call has to give.
Wanted(r, call, def) ==
    LET AtLeast0(n) == IF n < 0 THEN 0 ELSE n
    IN  AtLeast0(Len(Params(r, def)) - getImplicitSelfOffset(r, Kind(r, call) = "MethodCall", def))

ArityScore(r, call, def) ==
    LET Score(given, expected) ==
            CASE expected = given \/ (TakesVararg(r, def) /\ given >= expected - 1) -> 2
              [] expected > given -> 1
              [] OTHER -> 0
    IN  Score(Len(NodeOf(r, call).extra), Wanted(r, call, def))

getBestDefsForContext(r, id, defs) ==
    LET Highest(functions, score) ==
            SelectSeq(functions, LAMBDA d : \A e \in DOMAIN score : score[e] <= score[d])
        Best(call, functions) ==
            IF Len(defs) <= 1 \/ call = 0 \/ functions = <<>> THEN defs
            ELSE Highest(functions, [d \in ToSet(functions) |-> ArityScore(r, call, d)])
    IN  Best(CallOf(r, id),
             SelectSeq(defs, LAMBDA d : Kind(r, getAssignedValue(r, d)) = "FunctionExpr"))

NoKey == [rec |-> <<>>, prop |-> ""]
NoContext == [ident |-> 0, def |-> 0, defs |-> <<>>, isGlobal |-> FALSE, isProp |-> FALSE,
              recDef |-> 0, key |-> NoKey]

\* The definition of the name a receiver starts with.
RECURSIVE RootDef(_, _)
RootDef(r, id) ==
    CASE Kind(r, id) = "Ident" -> r.References[id]
      [] Kind(r, id) = "MemberExpr" -> RootDef(r, NodeOf(r, id).left)
      [] OTHER -> 0

\* A receiver that is no path of names is a key no symbol has.
OtherReceiver == <<"", "">>
ReceiverText(r, id) ==
    LET path == getReceiverContext(r, id).path IN IF path = <<>> THEN OtherReceiver ELSE path

IsProperty(r, id) ==
    Kind(r, Parent(r, id)) \in {"MemberExpr", "MethodCall", "MethodName"} /\
    NodeOf(r, Parent(r, id)).right = id
IsRecordKey(r, id) ==
    Kind(r, Parent(r, id)) = "RecordField" /\ NodeOf(r, Parent(r, id)).left = id

\* The names that are the place they are declared at.
Declares1(r, id) ==
    Kind(r, Parent(r, id)) \in {"NameList", "FunctionExpr", "ForNum", "LocalFunction", "FunctionStmt"}

\* The declaration of a self that the resolver has not linked.
SelfAround(r, id) ==
    LET First1(selves) == IF selves = <<>> THEN 0 ELSE selves[1].id
    IN  First1(SelectSeq(LocalsAt(r, NodeOf(r, id).start), LAMBDA l : l.name = "self"))

DefOf(r, id, isField) ==
    CASE r.References[id] # 0 -> r.References[id]
      [] r.References[id] = 0 /\ ~isField /\ Declares1(r, id) -> id
      [] OTHER -> IF source(r.tree, id) = "self" THEN SelfAround(r, id) ELSE 0

\* The context of a name before its definition is looked up.
SymbolContext(r, id) ==
    LET receiver == NodeOf(r, Parent(r, id)).left
        name == source(r.tree, id)
        Context(prop, record, def, recDef) ==
            [NoContext EXCEPT
               !.ident = id, !.def = def, !.recDef = recDef, !.isProp = prop \/ record,
               !.isGlobal = def = 0 /\ recDef = 0 /\ ~record /\ name # "self",
               !.key = IF record THEN NoKey
                       ELSE [rec |-> IF prop THEN ReceiverText(r, receiver) ELSE <<>>, prop |-> name]]
        Fields(prop, record) ==
            Context(prop, record, DefOf(r, id, prop \/ record), IF prop THEN RootDef(r, receiver) ELSE 0)
    IN  Fields(IsProperty(r, id), IsRecordKey(r, id))

\* Mutant: a definition is not looked up in the index.
AsExported_Skipped(r, ctx) == ctx

\* A definition that the index holds is a global's, under the index's key.
AsExported(r, ctx) ==
    LET Under(symbols) ==
            IF symbols = <<>> THEN ctx ELSE [ctx EXCEPT !.isGlobal = TRUE, !.key = symbols[1].key]
    IN  IF ctx.def = 0 THEN ctx
        ELSE Under(SelectSeq(ExportedGlobalDefs(r), LAMBDA e : e.node = ctx.def))

LookedUp(ctx, defs) ==
    IF ctx.def # 0 THEN [ctx EXCEPT !.defs = defs]
    ELSE IF defs # <<>> THEN [ctx EXCEPT !.defs = defs, !.def = defs[1]] ELSE ctx

InIndex(r, ctx) ==
    IF ctx.key.prop = "" \/ (ctx.def # 0 /\ ~ctx.isGlobal) THEN ctx
    ELSE LookedUp(ctx, getBestDefsForContext(r, ctx.ident, getGlobalSymbols(r, ctx.key, MaxAliasHops)))

resolveSymbolNode(r, id) ==
    IF Kind(r, id) \notin {"Ident", "Vararg"} THEN NoContext
    ELSE InIndex(r, AsExported(r, SymbolContext(r, id)))

resolveSymbolAt(r, offset) ==
    IF NodeAt(r.tree, offset) = 0 THEN NoContext ELSE resolveSymbolNode(r, NodeAt(r.tree, offset))

-----------------------------------------------------------------------------
(* References, rename, linked editing and highlights, as sets of nodes.     *)
LinkedTo(r, def) == {i \in DOMAIN r.References : def # 0 /\ r.References[i] = def}

\* The names and fields of the whole workspace that share a global's key;
\* a field is compared by the text of its receiver alone.
iterateGlobalReferences(r, ctx) ==
    LET SameName(ids) == {i \in ToSet(ids) : source(r.tree, i) = ctx.key.prop}
        SameKey(key) == key.rec.path = ctx.key.rec /\ key.prop = ctx.key.prop
    IN  IF ~ctx.isGlobal THEN {}
        ELSE IF ctx.key.rec = <<>>
        THEN SameName(r.GlobalDefs) \cup {i \in SameName(r.GlobalRefs) : r.References[i] = 0}
        ELSE {f.node : f \in {g \in ToSet(r.FieldDefs) : SameKey(g.key)}} \cup
             {f.node : f \in {g \in ToSet(r.PendingFields) :
                                 SameKey(g.key) /\ r.References[g.node] = 0}}

getReferences(r, ctx, includeDeclaration) ==
    (LinkedTo(r, ctx.def) \cup iterateGlobalReferences(r, ctx)) \
        (IF includeDeclaration THEN {} ELSE {ctx.def})

\* Mutant: only the declaration and what is linked to it.
handleRename_LocalOnly(r, ctx) == LinkedTo(r, ctx.def)

\* The nodes that a rename rewrites.
handleRename(r, ctx) == LinkedTo(r, ctx.def) \cup iterateGlobalReferences(r, ctx)

handlePrepareRename(r, ctx) == ctx.ident

handleLinkedEditingRange(r, ctx) ==
    IF ctx.ident = 0 \/ ctx.isGlobal THEN {} ELSE LinkedTo(r, ctx.def)

\* The context of a highlight: the name at the offset, or the function of
\* the innermost call around it.
highlightContext(r, offset) ==
    LET at == NodeAt(r.tree, offset)
        calls == SelectSeq(<<at>> \o Ancestors(r, at),
                           LAMBDA i : Kind(r, i) \in {"CallExpr", "MethodCall"})
        call == NodeOf(r, calls[1])
        callee == CASE call.kind = "MethodCall" -> call.right
                    [] call.kind = "CallExpr" /\ Kind(r, call.left) = "MemberExpr" ->
                         NodeOf(r, call.left).right
                    [] OTHER -> call.left
    IN  IF resolveSymbolAt(r, offset).ident # 0 THEN resolveSymbolAt(r, offset)
        ELSE IF at = 0 THEN NoContext
        ELSE IF calls = <<>> THEN NoContext
        ELSE IF Kind(r, callee) = "Ident" THEN resolveSymbolNode(r, callee) ELSE NoContext

\* Highlighted nodes with whether they are written.
getDocumentHighlights(r, ctx) ==
    LET Fields(fs) == {f.node : f \in {g \in ToSet(fs) :
                           g.key.rec = [def |-> ctx.recDef, path |-> ctx.key.rec]
                           /\ g.key.prop = ctx.key.prop}}
        linked == {[node |-> i, write |-> i = ctx.def \/ isWriteAccess(r, i)] :
                      i \in LinkedTo(r, ctx.def)}
        fields == {[node |-> i, write |-> TRUE] : i \in Fields(r.FieldDefs)} \cup
                  {[node |-> i, write |-> isWriteAccess(r, i)] : i \in Fields(r.PendingFields)}
        global == {[node |-> i, write |-> isWriteAccess(r, i)] : i \in iterateGlobalReferences(r, ctx)}
        all == (CASE ctx.def # 0 -> linked
                  [] ctx.def = 0 /\ ctx.recDef # 0 -> fields
                  [] OTHER -> {}) \cup global
    IN  IF ctx.ident = 0 THEN {}
        ELSE IF all = {} THEN {[node |-> ctx.ident, write |-> TRUE]} ELSE all

=============================================================================
