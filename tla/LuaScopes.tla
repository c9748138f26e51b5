----------------------------- MODULE LuaScopes -----------------------------
(* The declaration phase of the two-phase resolver (lsp/resolver.go): one   *)
(* walk builds a tree of scopes with what each declares, a second looks     *)
(* every name up by its position in the source, then the globals and the    *)
(* fields are bound.  Each operation takes the resolver's state s to the    *)
(* state after it.  The side table of annotations repeats the bindings and  *)
(* is left out, as are types.                                               *)
EXTENDS LuaResolver

RootScope == 0

NewScopes(t) ==
    [tree |-> t, References |-> [i \in DOMAIN t.nodes |-> 0],
     GlobalRefs |-> <<>>, GlobalDefs |-> <<>>, LocalDefs |-> <<>>,
     FieldDefs |-> <<>>, PendingFields |-> <<>>, fieldMap |-> <<>>,
     scopes |-> (RootScope :> [parent |-> RootScope, decls |-> <<>>])]

newScope(s, id, parent) ==
    [s EXCEPT !.scopes = (id :> [parent |-> parent, decls |-> <<>>]) @@ @]

Declares(s, scope, name, id) ==
    [s EXCEPT !.scopes[scope].decls = Append(@, [name |-> name, node |-> id])]

declareLocal(s, scope, id) ==
    IF source(s.tree, id) = "" THEN s
    ELSE [Declares(s, scope, source(s.tree, id), id) EXCEPT
             !.LocalDefs = Append(@, id), !.References[id] = id]

declareGlobal(s, id) ==
    IF source(s.tree, id) = "" THEN s
    ELSE [s EXCEPT !.GlobalDefs = Append(@, id), !.References[id] = id]

-----------------------------------------------------------------------------
(* Lookup: the innermost scope that declares the name before the place, the *)
(* last such declaration first.                                             *)
InInitializer(s, def, ref) ==
    LET list == NodeOf(s, def).parent
        stmt == NodeOf(s, list).parent
    IN  /\ Kind(s, list) = "NameList" /\ Kind(s, stmt) = "LocalAssign"
        /\ NodeOf(s, stmt).right # 0
        /\ NodeOf(s, ref).start >= NodeOf(s, NodeOf(s, stmt).right).start
        /\ NodeOf(s, ref).end <= NodeOf(s, NodeOf(s, stmt).right).end

\* Mutant: a local's own initializer sees it.
Sees_Initializer(s, decl, name, ref) ==
    /\ decl.name = name /\ decl.node # ref
    /\ NodeOf(s, decl.node).start <= NodeOf(s, ref).start

Sees(s, decl, name, ref) ==
    /\ decl.name = name /\ decl.node # ref
    /\ ~InInitializer(s, decl.node, ref)
    /\ NodeOf(s, decl.node).start <= NodeOf(s, ref).start

RECURSIVE lookupLocalByPosition(_, _, _, _)
lookupLocalByPosition(s, scope, name, ref) ==
    LET decls == s.scopes[scope].decls
        i == SelectLastInSeq(decls, LAMBDA d : Sees(s, d, name, ref))
    IN  IF i # 0 THEN decls[i].node
        ELSE IF scope = RootScope THEN 0
        ELSE lookupLocalByPosition(s, s.scopes[scope].parent, name, ref)

-----------------------------------------------------------------------------
(* The first walk: declarations.  Receivers are read from the links made so *)
(* far, which in this walk are those of declarations only.                  *)
DefineKey(s, rec, prop) ==
    LET key == FieldKey(rec, source(s.tree, prop))
        i == Keyed(s, key)
    IN  IF ~Named(s, prop) \/ Anonymous(rec) THEN s
        ELSE IF i # 0 THEN [s EXCEPT !.References[prop] = s.fieldMap[i].node]
        ELSE [s EXCEPT !.FieldDefs = Append(@, [key |-> key, node |-> prop]),
                       !.fieldMap = Append(@, [key |-> key, node |-> prop]),
                       !.References[prop] = prop]

collectFieldDeclaration(s, id) ==
    IF Kind(s, id) \notin {"MemberExpr", "MethodName"} THEN s
    ELSE DefineKey(s, getReceiverContext(s, NodeOf(s, id).left), NodeOf(s, id).right)

\* A constructor on the right of an assignment belongs to the name at its
\* place on the left; a nested one to nobody.
tableReceiver(s, id) ==
    IF Kind(s, NodeOf(s, id).parent) = "ExprList" THEN AssignedReceiver(s, id) ELSE NoReceiver

collectFunctionNameDeclaration(s, id, scope) ==
    LET local == lookupLocalByPosition(s, scope, source(s.tree, id), id)
    IN  CASE Kind(s, id) # "Ident" -> collectFieldDeclaration(s, id)
          [] Kind(s, id) = "Ident" /\ local = 0 -> declareGlobal(s, id)
          [] OTHER -> [s EXCEPT !.References[id] = local]

RECURSIVE collectDeclarations(_, _, _)
CollectAll(s, ids, scope) == FoldLeft(LAMBDA q, i : collectDeclarations(q, i, scope), s, ids)
DeclareAll(s, ids, scope) == FoldLeft(LAMBDA q, i : declareLocal(q, scope, i), s, ids)

\* A method's function declares self at the node of its name.
collectFunctionDeclarations(s, id, parent) ==
    LET n == NodeOf(s, id)
        name == NodeOf(s, n.parent).left
        method == Kind(s, n.parent) = "FunctionStmt" /\ Kind(s, name) = "MethodName"
        Self(q) == IF method THEN Declares(q, id, "self", name) ELSE q
    IN  collectDeclarations(DeclareAll(Self(newScope(s, id, parent)), n.extra, id), n.right, id)

TargetDeclaration(s, id, scope) ==
    IF Kind(s, id) = "Ident" THEN declareGlobal(s, id)
    ELSE collectDeclarations(collectFieldDeclaration(s, id), id, scope)

collectTableFieldDeclaration(s, table, id, scope) ==
    IF Kind(s, id) # "RecordField" THEN collectDeclarations(s, id, scope)
    ELSE collectDeclarations(DefineKey(s, tableReceiver(s, table), NodeOf(s, id).left),
                             NodeOf(s, id).right, scope)

collectDeclarations(s, id, scope) ==
    LET n == NodeOf(s, id)
        names == NodeOf(s, n.left).extra
        Loop(q, vars) == collectDeclarations(DeclareAll(newScope(q, id, scope), vars, id), n.right, id)
    IN  CASE Kind(s, id) \in {"File", "Do", "While", "ElseIf", "Else", "If", "ExprList", "Return",
                              "CallExpr", "MethodCall", "BinaryExpr", "UnaryExpr", "ParenExpr",
                              "IndexExpr", "MemberExpr", "MethodName", "RecordField", "IndexField"} ->
               CollectAll(s, <<n.left, n.right>> \o n.extra, scope)
          [] Kind(s, id) = "Block" -> CollectAll(newScope(s, id, scope), n.extra, id)
          [] Kind(s, id) = "LocalAssign" ->
               collectDeclarations(DeclareAll(s, names, scope), n.right, scope)
          [] Kind(s, id) = "LocalFunction" ->
               collectFunctionDeclarations(declareLocal(s, scope, n.left), n.right, scope)
          [] Kind(s, id) = "FunctionStmt" ->
               collectFunctionDeclarations(collectFunctionNameDeclaration(s, n.left, scope),
                                           n.right, scope)
          [] Kind(s, id) = "FunctionExpr" -> collectFunctionDeclarations(s, id, scope)
          [] Kind(s, id) = "Assign" ->
               collectDeclarations(FoldLeft(LAMBDA q, i : TargetDeclaration(q, i, scope), s, names),
                                   n.right, scope)
          [] Kind(s, id) = "ForNum" -> Loop(CollectAll(s, n.extra, scope), <<n.left>>)
          [] Kind(s, id) = "ForIn"  -> Loop(CollectAll(s, n.extra, scope), names)
          [] Kind(s, id) = "Repeat" -> CollectAll(newScope(s, id, scope), <<n.left, n.right>>, id)
          [] Kind(s, id) = "TableExpr" ->
               FoldLeft(LAMBDA q, f : collectTableFieldDeclaration(q, id, f, scope), s, n.extra)
          [] OTHER -> s

-----------------------------------------------------------------------------
(* The second walk: references.                                             *)
referencesIdent(s, id, scope) ==
    LET name == source(s.tree, id)
        local == lookupLocalByPosition(s, scope, name, id)
    IN  CASE s.References[id] # 0 \/ name = "" -> s
          [] s.References[id] = 0 /\ name # "" /\ local # 0 -> [s EXCEPT !.References[id] = local]
          [] name = "self" /\ local = 0 -> s
          [] OTHER -> [s EXCEPT !.GlobalRefs = Append(@, id)]

RECURSIVE collectReferences(_, _, _)
ReferAll(s, ids, scope) == FoldLeft(LAMBDA q, i : collectReferences(q, i, scope), s, ids)

collectReferences(s, id, scope) ==
    LET n == NodeOf(s, id)
        FieldValue(f) == IF Kind(s, f) = "RecordField" THEN NodeOf(s, f).right ELSE f
    IN  CASE Kind(s, id) \in {"File", "Do", "While", "ElseIf", "Else", "If", "ExprList", "Return",
                              "CallExpr", "BinaryExpr", "UnaryExpr", "ParenExpr", "IndexExpr",
                              "RecordField", "IndexField"} ->
               ReferAll(s, <<n.left, n.right>> \o n.extra, scope)
          [] Kind(s, id) = "Block" -> ReferAll(s, n.extra, id)
          [] Kind(s, id) = "FunctionExpr" -> collectReferences(s, n.right, id)
          [] Kind(s, id) \in {"ForNum", "ForIn"} ->
               collectReferences(ReferAll(s, n.extra, scope), n.right, id)
          [] Kind(s, id) = "Repeat" -> ReferAll(s, <<n.left, n.right>>, id)
          [] Kind(s, id) \in {"LocalAssign", "LocalFunction"} -> collectReferences(s, n.right, scope)
          [] Kind(s, id) = "FunctionStmt" ->
               ReferAll(s, (IF Kind(s, n.left) = "Ident" THEN <<>> ELSE <<NodeOf(s, n.left).left>>)
                           \o <<n.right>>, scope)
          [] Kind(s, id) = "Assign" ->
               ReferAll(s, NodeOf(s, n.left).extra \o <<n.right>>, scope)
          [] Kind(s, id) \in {"Ident", "Vararg"} -> referencesIdent(s, id, scope)
          [] Kind(s, id) \in {"MemberExpr", "MethodCall"} ->
               ReferAll(UseField(collectReferences(s, n.left, scope), id), n.extra, scope)
          [] Kind(s, id) = "TableExpr" ->
               ReferAll(s, [i \in DOMAIN n.extra |-> FieldValue(n.extra[i])], scope)
          [] OTHER -> s

\* A global read is bound to the first definition of its name.
bindReferences(s) ==
    LET First(id) == SelectInSeq(s.GlobalDefs, LAMBDA d : source(s.tree, d) = source(s.tree, id))
        Bind(q, id) == IF First(id) = 0 THEN q
                       ELSE [q EXCEPT !.References[id] = s.GlobalDefs[First(id)]]
    IN  FoldLeft(Bind, s, s.GlobalRefs)

bindPendingFields(s) ==
    LET Bind(q, use) == IF Keyed(q, use.key) = 0 THEN q
                        ELSE [q EXCEPT !.References[use.node] = q.fieldMap[Keyed(q, use.key)].node]
    IN  FoldLeft(Bind, s, s.PendingFields)

Phase1(t) ==
    bindPendingFields(bindReferences(
        collectReferences(collectDeclarations(NewScopes(t), t.root, RootScope), t.root, RootScope)))
=============================================================================
