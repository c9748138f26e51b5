---------------------------- MODULE LuaResolver ----------------------------
(* The scope resolver (semantic/resolver.go): one walk over the tree that   *)
(* links every use of a name to its definition with a stack of visible      *)
(* declarations, then links the fields met on the way.  Each operation      *)
(* takes the resolver's state r to the state after it.  Names stand for     *)
(* their bytes and for their hashes; a receiver is its path of names.       *)
EXTENDS LuaParser

\* The resolver before a walk over the tree t.
NewResolver(t) ==
    [tree |-> t, References |-> [i \in DOMAIN t.nodes |-> 0],
     GlobalRefs |-> <<>>, GlobalDefs |-> <<>>, LocalDefs |-> <<>>,
     DuplicateLocals |-> <<>>, ShadowedOuter |-> <<>>, Reassignments |-> <<>>,
     FieldDefs |-> <<>>, fieldMap |-> <<>>, PendingFields |-> <<>>,
     scopeStack |-> <<>>, scopeStarts |-> <<>>, selfStack |-> <<>>]

NodeOf(r, id) == r.tree.nodes[id]
Kind(r, id) == IF id = 0 THEN "Invalid" ELSE NodeOf(r, id).kind
Named(r, id) == Kind(r, id) = "Ident" /\ NodeOf(r, id).start < NodeOf(r, id).end

\* The name a node spells: the nodes that are asked for one are single tokens.
source(t, id) ==
    IF t.nodes[id].start = t.nodes[id].end THEN "" ELSE t.src[t.nodes[id].start \div 2 + 1]

Ignored == {"_", "...", ""}

pushScope(r) == [r EXCEPT !.scopeStarts = Append(@, Len(r.scopeStack))]
popScope(r, startScope) ==
    [r EXCEPT !.scopeStarts = Front(@), !.scopeStack = SubSeq(@, 1, startScope)]

\* Mutant: the search starts with the outermost declaration.
Lookup_Oldest(r, name) == SelectInSeq(r.scopeStack, LAMBDA d : source(r.tree, d) = name)

\* The entry of the scope stack a name denotes, 0 when there is none.
Lookup(r, name) ==
    SelectLastInSeq(r.scopeStack, LAMBDA d : source(r.tree, d) = name)

declare(r, id) ==
    LET name == source(r.tree, id)
        i    == IF name \in Ignored THEN 0 ELSE Lookup(r, name)
        same == i > Last(r.scopeStarts)
    IN  [r EXCEPT
           !.References[id] = id,
           !.LocalDefs = Append(@, id),
           !.scopeStack = Append(@, id),
           !.DuplicateLocals = IF i # 0 /\ same THEN Append(@, id) ELSE @,
           !.ShadowedOuter =
               IF i # 0 /\ ~same
               THEN Append(@, [Shadowing |-> id, Shadowed |-> r.scopeStack[i]]) ELSE @]

resolveReference(r, id, isDef) ==
    LET name == source(r.tree, id)
        i    == Lookup(r, name)
    IN  CASE name = "" -> r
          [] name # "" /\ i # 0 -> [r EXCEPT !.References[id] = r.scopeStack[i]]
          [] name = "self" /\ i = 0 ->
               IF r.selfStack = <<>> THEN r
               ELSE [r EXCEPT !.References[id] = Last(r.selfStack)]
          [] OTHER -> IF isDef THEN [r EXCEPT !.GlobalDefs = Append(@, id)]
                               ELSE [r EXCEPT !.GlobalRefs = Append(@, id)]

-----------------------------------------------------------------------------
(* Fields.  A key is the definition of the receiver's root, the receiver's  *)
(* path and the field's name.                                               *)
NoReceiver == [def |-> 0, path |-> <<>>]
Anonymous(rec) == rec.path \in {<<>>, <<"">>}

RECURSIVE getReceiverContext(_, _)
getReceiverContext(r, id) ==
    LET left == getReceiverContext(r, NodeOf(r, id).left)
        name == source(r.tree, NodeOf(r, id).right)
    IN  CASE Kind(r, id) = "Ident" ->
               [def |-> r.References[id], path |-> <<source(r.tree, id)>>]
          [] Kind(r, id) = "MemberExpr" ->
               IF left.path = <<>> THEN NoReceiver ELSE [left EXCEPT !.path = Append(@, name)]
          [] OTHER -> NoReceiver

FieldKey(rec, prop) == [rec |-> rec, prop |-> prop]
Keyed(r, key) == SelectInSeq(r.fieldMap, LAMBDA f : f.key = key)

\* member is a MemberExpr or a MethodName that an assignment or a function
\* statement defines; the first definition of a key stays its definition.
defineField(r, member) ==
    LET prop == NodeOf(r, member).right
        rec  == getReceiverContext(r, NodeOf(r, member).left)
        key  == FieldKey(rec, source(r.tree, prop))
        i    == Keyed(r, key)
    IN  IF ~Named(r, prop) \/ Anonymous(rec) THEN r
        ELSE IF i # 0 THEN [r EXCEPT !.References[prop] = r.fieldMap[i].node]
        ELSE [r EXCEPT !.FieldDefs = Append(@, [key |-> key, node |-> prop]),
                       !.fieldMap = Append(@, [key |-> key, node |-> prop]),
                       !.References[prop] = prop]

\* A use of a field waits for the end of the walk: its definition may follow.
UseField(r, member) ==
    LET prop == NodeOf(r, member).right
        rec  == getReceiverContext(r, NodeOf(r, member).left)
    IN  IF ~Named(r, prop) \/ Anonymous(rec) THEN r
        ELSE [r EXCEPT !.PendingFields =
                  Append(@, [node |-> prop, key |-> FieldKey(rec, source(r.tree, prop))])]

\* The variable or field that a table constructor is assigned to.
AssignedReceiver(r, id) ==
    LET list == NodeOf(r, id).parent
        stmt == NodeOf(r, list).parent
        i    == SelectInSeq(NodeOf(r, list).extra, LAMBDA e : e = id)
        lhs  == NodeOf(r, NodeOf(r, stmt).left).extra
    IN  IF \/ Kind(r, stmt) \notin {"Assign", "LocalAssign"}
           \/ NodeOf(r, stmt).right # list
           \/ i > Len(lhs)
        THEN NoReceiver
        ELSE IF Kind(r, stmt) = "LocalAssign"
        THEN [def |-> lhs[i], path |-> <<source(r.tree, lhs[i])>>]
        ELSE getReceiverContext(r, lhs[i])

RECURSIVE getTableReceiver(_, _)
getTableReceiver(r, id) ==
    LET up    == NodeOf(r, id).parent
        table == NodeOf(r, up).parent
        outer == IF Kind(r, table) = "TableExpr" THEN getTableReceiver(r, table) ELSE NoReceiver
    IN  CASE Kind(r, up) = "ExprList" -> AssignedReceiver(r, id)
          [] Kind(r, up) = "RecordField" /\ ~Anonymous(outer) ->
               [outer EXCEPT !.path = Append(@, source(r.tree, NodeOf(r, up).left))]
          [] OTHER -> NoReceiver

-----------------------------------------------------------------------------
(* The walk.                                                                *)
RECURSIVE visit(_, _)
visitArgs(r, ids) == FoldLeft(visit, r, ids)

\* One target of an assignment, with the value at its place in the list.
Target(r, id, val) ==
    LET n == NodeOf(r, id)
        q == resolveReference(r, id, TRUE)
        def == q.References[id]
    IN  CASE n.kind = "Ident" ->
               [q EXCEPT !.Reassignments = Append(@,
                   [name |-> IF def = 0 THEN source(r.tree, id) ELSE "",
                    def |-> def, val |-> val])]
          [] n.kind = "MemberExpr" -> defineField(visit(r, n.left), id)
          [] n.kind = "IndexExpr"  -> visit(visit(r, n.left), n.right)
          [] OTHER -> visit(r, id)

visitAssign(r, n) ==
    LET lhs == NodeOf(r, n.left).extra
        rhs == IF n.right = 0 THEN <<>> ELSE NodeOf(r, n.right).extra
        ValueAt(i) == IF i <= Len(rhs) THEN rhs[i] ELSE 0
    IN  visit(FoldLeft(LAMBDA q, i : Target(q, lhs[i], ValueAt(i)), r,
                       [i \in DOMAIN lhs |-> i]),
              n.right)

visitField(r, id, rec) ==
    LET n == NodeOf(r, id)
        key == FieldKey(rec, source(r.tree, n.left))
        q == IF Anonymous(rec) \/ ~Named(r, n.left) THEN r
             ELSE [r EXCEPT !.FieldDefs = Append(@, [key |-> key, node |-> n.left]),
                            !.References[n.left] = n.left]
    IN  CASE Kind(r, id) = "RecordField" -> visit(q, n.right)
          [] Kind(r, id) = "IndexField"  -> visit(visit(r, n.left), n.right)
          [] OTHER -> visit(r, id)

\* The name of a function statement: a variable, or a field of its receiver;
\* in a method the node of the name stands for self.
visitFunctionName(r, id) ==
    LET n == NodeOf(r, id)
        q == defineField(visit(r, n.left), id)
    IN  CASE n.kind = "Ident" -> resolveReference(r, id, TRUE)
          [] n.kind = "MemberExpr" -> q
          [] n.kind = "MethodName" -> [q EXCEPT !.selfStack = Append(@, id)]

visit(r, id) ==
    LET n     == NodeOf(r, id)
        base  == Len(r.scopeStack)
        inner == pushScope(r)
        names == NodeOf(r, n.left).extra
        bounds == visitArgs(r, n.extra)
    IN  CASE Kind(r, id) \in {"File", "Do", "While", "ElseIf", "Else", "BinaryExpr",
                              "UnaryExpr", "ParenExpr", "IndexExpr", "Return",
                              "CallExpr", "ExprList", "If"} ->
               visitArgs(r, <<n.left, n.right>> \o n.extra)
          [] Kind(r, id) = "Block" -> popScope(visitArgs(inner, n.extra), base)
          [] Kind(r, id) = "LocalAssign" -> FoldLeft(declare, visit(r, n.right), names)
          [] Kind(r, id) = "LocalFunction" -> visit(declare(r, n.left), n.right)
          [] Kind(r, id) = "ForNum" ->
               popScope(visit(declare(pushScope(bounds), n.left), n.right),
                        Len(bounds.scopeStack))
          [] Kind(r, id) = "ForIn" ->
               popScope(visit(FoldLeft(declare, pushScope(bounds), names), n.right),
                        Len(bounds.scopeStack))
          [] Kind(r, id) \in {"Ident", "Vararg"} -> resolveReference(r, id, FALSE)
          [] Kind(r, id) = "Assign" -> visitAssign(r, n)
          [] Kind(r, id) \in {"MemberExpr", "MethodCall"} ->
               visitArgs(UseField(visit(r, n.left), id), n.extra)
          [] Kind(r, id) = "MethodName" -> visit(r, n.left)
          [] Kind(r, id) = "TableExpr" ->
               LET rec == getTableReceiver(r, id)
               IN  FoldLeft(LAMBDA q, f : visitField(q, f, rec), r, n.extra)
          [] Kind(r, id) = "FunctionExpr" ->
               popScope(visit(FoldLeft(declare, inner, n.extra), n.right), base)
          [] Kind(r, id) = "FunctionStmt" ->
               popScope([visit(visitFunctionName(inner, n.left), n.right)
                         EXCEPT !.selfStack = r.selfStack], base)
          [] Kind(r, id) = "Repeat" ->
               popScope(visit(visitArgs(inner, NodeOf(r, n.left).extra), n.right), base)
          [] OTHER -> r

Resolve(t) ==
    LET walked == visit(NewResolver(t), t.root)
        Link(r, use) ==
            LET i == Keyed(r, use.key)
            IN  IF i = 0 THEN r ELSE [r EXCEPT !.References[use.node] = r.fieldMap[i].node]
    IN  FoldLeft(Link, walked, walked.PendingFields)

=============================================================================
