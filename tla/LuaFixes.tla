------------------------------ MODULE LuaFixes -----------------------------
(* The edits the server offers in a document r (lsp/refactor.go): the safe  *)
(* fixes, the quick fixes of diagnostics and the refactorings.  An edit     *)
(* replaces the tokens from start up to end by text.  Statements stand on   *)
(* lines of their own, so removing the blanks around one joins no tokens.   *)
(* The pragmas that silence a diagnostic, which are comments, the calls of  *)
(* table.insert, the loops over ipairs and the fixes of FiveM diagnostics   *)
(* are left out; no local is declared <close>.                              *)
EXTENDS LuaDiagnostics

Edit(start, end, text) == [start |-> start, end |-> end, text |-> text]
Replace(r, id, text) == Edit(NodeOf(r, id).start, NodeOf(r, id).end, text)

\* What an editor does with the edits of one answer: it refuses edits that
\* overlap, else all of them apply to the text they were made for.
Overlap(e, f) == e.start < f.end /\ f.start < e.end
Applicable(edits) == \A i, j \in DOMAIN edits : i # j => ~Overlap(edits[i], edits[j])
Edited(t, edits) ==
    LET At(k) == TokenStart(t, k)
        First1(e) == CHOOSE k \in 1 .. Len(t.src) + 1 :
                        /\ At(k) >= e.start
                        /\ k = 1 \/ At(k - 1) < e.start
        Inserted(k) == FlattenSeq([i \in DOMAIN edits |->
                           IF First1(edits[i]) = k THEN edits[i].text ELSE <<>>])
        Removed(k) == \E i \in DOMAIN edits : edits[i].start <= At(k) /\ At(k) < edits[i].end
    IN  FlattenSeq([k \in DOMAIN t.src |->
                        Inserted(k) \o (IF Removed(k) THEN <<>> ELSE <<t.src[k]>>)])
        \o Inserted(Len(t.src) + 1)

-----------------------------------------------------------------------------
(* Names for a renaming.                                                    *)
SafeNames(base, isIgnore) ==
    CASE base = "a" -> IF isIgnore THEN <<"_a", "_a_ignored">> ELSE <<"newA", "localA">>
      [] base = "b" -> IF isIgnore THEN <<"_b", "_b_ignored">> ELSE <<"newB", "localB">>
      [] OTHER -> <<"_">>

\* Mutant: only the place of the declaration is looked at.
isNameSafe_AtDeclaration(r, def, name) ==
    /\ name \in Idents \ KnownGlobals
    /\ ~Defines(r, name)
    /\ \A l \in ToSet(LocalsAt(r, NodeOf(r, def).start)) : l.name = name => l.id = def

\* No other local of that name is visible at the declaration or at a use.
isNameSafe(r, def, name) ==
    /\ name \in Idents \ KnownGlobals
    /\ ~Defines(r, name)
    /\ \A i \in LinkedTo(r, def) \cup {def} :
          \A l \in ToSet(LocalsAt(r, NodeOf(r, i).start)) : l.name = name => l.id = def

generateSafeName(r, def, base, isIgnore) ==
    LET Choose(safe) == IF safe # <<>> THEN safe[1] ELSE SafeNames(base, isIgnore)[1]
    IN  Choose(SelectSeq(SafeNames(base, isIgnore), LAMBDA n : isNameSafe(r, def, n)))

RenameAll(r, def, name) ==
    LET All(ids) == [i \in DOMAIN ids |-> Replace(r, ids[i], <<name>>)]
    IN  All(<<def>> \o SetToSortSeq(LinkedTo(r, def) \ {def}, <))

SafeFix(title, coverage, edits) ==
    [title |-> title, coverage |-> ToSet(coverage), edits |-> edits]

createRenameFix(r, def) ==
    SafeFix("rename", <<def>>,
            RenameAll(r, def, generateSafeName(r, def, source(r.tree, def), TRUE)))

-----------------------------------------------------------------------------
(* The safe fixes.                                                          *)
\* A stretch with the semicolon behind it.
expandRemovalRange(r, start, end) ==
    Edit(start, IF Token(r.tree, (end + 1) \div 2 + 1) = ";" THEN end + 2 ELSE end, <<>>)
getStatementRemovalRange(r, id) == expandRemovalRange(r, NodeOf(r, id).start, NodeOf(r, id).end)

UnusedDefs(r) ==
    {d \in ToSet(r.LocalDefs) : ActualReads(r, d) = {} /\ source(r.tree, d) \notin Underscored \cup {""}}

RECURSIVE getRootDef(_, _)
getRootDef(r, id) ==
    CASE Kind(r, id) = "Ident" -> r.References[id]
      [] Kind(r, id) \in {"MemberExpr", "IndexExpr"} -> getRootDef(r, NodeOf(r, id).left)
      [] OTHER -> 0

IsCall(r, id) == Kind(r, id) \in {"CallExpr", "MethodCall"}

\* What becomes of an assignment whose targets all go: it is removed, or left
\* as the call it consists of; <<>> when it has to stay.
DeadStoreEdit(r, stmt) ==
    LET rhs == ListOf(r, NodeOf(r, stmt).right)
    IN  CASE AllFree(r, rhs) -> <<getStatementRemovalRange(r, stmt)>>
          [] ~AllFree(r, rhs) /\ Len(rhs) = 1 /\ IsCall(r, rhs[1]) ->
               <<Replace(r, stmt, Spelling(r, rhs[1]))>>
          [] OTHER -> <<>>

\* The assignments to an unused local: whether all of them can go, with the
\* edits and the statements, one for each time the local is a target.
DeadStores(r, def, unused) ==
    LET Targets(lhs) == [i \in DOMAIN lhs |-> getRootDef(r, lhs[i])]
        StoreOf(s, targets) ==
            [stmt |-> s, goes |-> ToSet(targets) \subseteq unused, edit |-> DeadStoreEdit(r, s),
             times |-> SelectSeq(targets, LAMBDA d : d = def)]
        All(stores) ==
            [CanRemoveAll |-> \A i \in DOMAIN stores : stores[i].goes /\ stores[i].edit # <<>>,
             Edits |-> FlattenSeq([i \in DOMAIN stores |->
                          FlattenSeq([k \in DOMAIN stores[i].times |-> stores[i].edit])]),
             Coverage |-> [i \in DOMAIN stores |-> stores[i].stmt]]
        assigns == SetToSortSeq(OfKind(r, {"Assign"}), <)
    IN  All(SelectSeq([i \in DOMAIN assigns |->
                          StoreOf(assigns[i], Targets(ListOf(r, NodeOf(r, assigns[i]).left)))],
                      LAMBDA s : s.times # <<>>))

\* The first of the names at the end of a list that are all unused.
SuffixStart(names, unused) ==
    LET used == {i \in DOMAIN names : names[i] \notin unused}
    IN  IF used = {} THEN 1 ELSE (CHOOSE i \in used : \A j \in used : j <= i) + 1

RenameFixes(r, ids) == [i \in DOMAIN ids |-> createRenameFix(r, ids[i])]
UnusedBefore(names, s, unused) == SelectSeq(SubSeq(names, 1, s - 1), LAMBDA d : d \in unused)

\* From the comma before the item s of a list, whose items start behind limit,
\* to the list's end.
DropFrom(r, items, s, limit) ==
    Edit(findCommaBefore(r, NodeOf(r, items[s]).start,
                         IF s > 1 THEN NodeOf(r, items[s - 1]).end ELSE limit),
         NodeOf(r, Last(items)).end, <<>>)

\* The unused names at the end of a list go with their statement, or alone
\* with their values; those before them, and those that cannot go, are renamed.
processListForFixes(r, stmt, names, exprs, canRemoveStatement, unused) ==
    LET Entire(s) == s = 1 /\ canRemoveStatement
        Values(s) == SubSeq(exprs, s, Len(exprs))
        \* The edits that take the names away, none when they cannot go.
        Removal(s) ==
            CASE Entire(s) /\ AllFree(r, exprs) -> <<getStatementRemovalRange(r, stmt)>>
              [] Entire(s) /\ ~AllFree(r, exprs) /\ Len(exprs) = 1 /\ IsCall(r, exprs[1]) ->
                   <<Replace(r, stmt, Spelling(r, exprs[1]))>>
              [] s > 1 /\ AllFree(r, Values(s)) ->
                   <<DropFrom(r, names, s, 0)>> \o
                   (IF Values(s) = <<>> THEN <<>> ELSE <<DropFrom(r, exprs, s, 0)>>)
              [] OTHER -> <<>>
        Fixes(suffix, stores, removal) ==
            IF \/ removal = <<>>
               \/ \E i \in DOMAIN stores : ~stores[i].CanRemoveAll
            THEN RenameFixes(r, suffix)
            ELSE <<SafeFix("unused",
                           suffix \o FlattenSeq([i \in DOMAIN stores |-> stores[i].Coverage]),
                           removal \o FlattenSeq([i \in DOMAIN stores |-> stores[i].Edits]))>>
        Suffix(suffix, s) == IF suffix = <<>> THEN <<>>
                             ELSE Fixes(suffix, [i \in DOMAIN suffix |-> DeadStores(r, suffix[i], unused)], Removal(s))
        From(s) == RenameFixes(r, UnusedBefore(names, s, unused)) \o
                   Suffix(SubSeq(names, s, Len(names)), s)
    IN  From(SuffixStart(names, unused))

processParamsForFixes(r, function, unused) ==
    LET params == NodeOf(r, function).extra
        Drop(s) == IF s > 1 THEN DropFrom(r, params, s, 0)
                   ELSE Edit(NodeOf(r, params[1]).start, NodeOf(r, Last(params)).end, <<>>)
        From(s) == RenameFixes(r, UnusedBefore(params, s, unused)) \o
                   (IF s > Len(params) THEN <<>>
                    ELSE <<SafeFix("parameter", SubSeq(params, s, Len(params)), <<Drop(s)>>)>>)
    IN  From(SuffixStart(params, unused))

RedundantValues(r, id, lhs, rhs) ==
    IF lhs = <<>> \/ Len(rhs) <= Len(lhs) THEN <<>>
    ELSE <<SafeFix("values", <<id>>, <<DropFrom(r, rhs, Len(lhs) + 1, 0)>>)>>

\* A self is no argument of a method and one more of a function with a dot.
RedundantArguments(r, call) ==
    LET n == NodeOf(r, call)
        Behind(most) ==
            <<SafeFix("arguments", <<call>>, <<DropFrom(r, n.extra, most + 1, NodeOf(r, n.left).end)>>)>>
        Excess(defs, wanted) ==
            IF \/ defs = {}
               \/ \E d \in defs : TakesVararg(r, d) \/ Len(n.extra) <= wanted[d]
            THEN <<>> ELSE Behind(Max({wanted[d] : d \in defs}))
        Fix(defs) == Excess(defs, [d \in defs |-> Wanted(r, call, d)])
    IN  Fix(Callees(r, call))

UnreachableFix(r, dead) ==
    IF dead = <<>> THEN <<>>
    ELSE <<SafeFix("unreachable", <<dead[1]>>,
                   <<expandRemovalRange(r, NodeOf(r, dead[1]).start, NodeOf(r, Last(dead)).end)>>)>>

FixesOf(r, id, unused) ==
    LET n == NodeOf(r, id)
        lhs == ListOf(r, n.left)
        rhs == ListOf(r, n.right)
        Gone(title, covered) == <<SafeFix(title, <<covered>>, <<getStatementRemovalRange(r, id)>>)>>
    IN  CASE n.kind = "Do" -> IF lhs = <<>> THEN Gone("do", id) ELSE <<>>
          [] n.kind \in {"LocalAssign", "ForIn"} ->
               processListForFixes(r, id, lhs, IF n.kind = "ForIn" THEN <<>> ELSE rhs,
                                   n.kind = "LocalAssign", unused) \o
               (IF n.kind = "ForIn" THEN <<>> ELSE RedundantValues(r, id, lhs, rhs))
          [] n.kind = "Assign" ->
               (IF /\ Len(lhs) = 1 /\ Len(rhs) = 1
                   /\ Spelling(r, lhs[1]) = Spelling(r, rhs[1]) THEN Gone("self", id) ELSE <<>>) \o
               RedundantValues(r, id, lhs, rhs)
          [] n.kind = "LocalFunction" -> IF n.left \in unused THEN Gone("function", n.left) ELSE <<>>
          [] n.kind = "FunctionExpr" -> processParamsForFixes(r, id, unused)
          [] n.kind = "ForNum" -> IF n.left \in unused THEN <<createRenameFix(r, n.left)>> ELSE <<>>
          [] n.kind = "Return" ->
               IF NodeDiagnostic(r, "redundant-return", id) \in RedundantReturns(r)
               THEN Gone("return", id) ELSE <<>>
          [] n.kind \in {"CallExpr", "MethodCall"} -> RedundantArguments(r, id)
          [] n.kind = "Block" -> UnreachableFix(r, Unreachable(r, id))
          [] OTHER -> <<>>

FixesOfAll(r, unused) == FlattenSeq([i \in DOMAIN r.tree.nodes |-> FixesOf(r, i, unused)])

getSafeFixesForDocument(r) == FixesOfAll(r, UnusedDefs(r))

AllEdits(fixes) == FlattenSeq([i \in DOMAIN fixes |-> fixes[i].edits])

-----------------------------------------------------------------------------
(* The quick fixes of a diagnostic, as sequences of edits.                  *)
WithoutUnderscore(name) ==
    CASE name = "_a" -> "a" [] name = "_b" -> "b" [] OTHER -> ""

ignoredVarFix(r, diag) ==
    LET name == WithoutUnderscore(source(r.tree, diag.data))
    IN  IF name = "" THEN {}
        ELSE {RenameAll(r, diag.data,
                        IF isNameSafe(r, diag.data, name) THEN name
                        ELSE generateSafeName(r, diag.data, name, FALSE))}

shadowFix(r, diag) ==
    LET To(def, name) == IF name = source(r.tree, def) THEN {} ELSE {RenameAll(r, def, name)}
        Of(def) == IF r.References[def] # def THEN {}
                   ELSE To(def, generateSafeName(r, def, source(r.tree, def), FALSE))
    IN  Of(NodeAt(r.tree, diag.start))

SafeFixCodes ==
    {"unused-local", "unused-parameter", "unused-loop-var", "unused-vararg", "unused-function",
     "unreachable-code", "self-assignment", "empty-block", "redundant-return", "redundant-value",
     "redundant-parameter"}

\* The safe fixes that cover the node of the diagnostic.
safeFixFor(diag, fixes) ==
    LET All(fitting) == IF diag.data = 0 \/ fitting = <<>> THEN {} ELSE {AllEdits(fitting)}
    IN  All(SelectSeq(fixes, LAMBDA f : diag.data \in f.coverage))

\* fixes are the safe fixes of the document.
quickFixes(r, diag, fixes) ==
    CASE diag.code \in SafeFixCodes -> safeFixFor(diag, fixes)
      [] diag.code = "used-ignored-var" -> ignoredVarFix(r, diag)
      [] diag.code = "implicit-global" -> {<<Edit(diag.start, diag.start, <<"local">>)>>}
      [] diag.code \in {"shadow-global", "shadow-outer", "duplicate-local"} -> shadowFix(r, diag)
      [] OTHER -> {}

\* The edits of lugo.applySafeFixes and of the action that fixes a whole file.
applySafeFixes(fixes) == AllEdits(fixes)

-----------------------------------------------------------------------------
(* Refactorings: the text of statements and conditions.                     *)
HasKind(r, ids, kind) == \E i \in DOMAIN ids : Kind(r, ids[i]) = kind

\* Nothing runs behind the statement before its function returns.
RECURSIVE checkSafety(_, _)
checkSafety(r, id) ==
    LET up == Parent(r, id)
    IN  CASE Kind(r, up) = "Block" -> Last(NodeOf(r, up).extra) = id /\ checkSafety(r, up)
          [] Kind(r, up) \in {"Invalid", "FunctionExpr", "FunctionStmt", "LocalFunction"} -> TRUE
          [] Kind(r, up) \in {"While", "ForIn", "ForNum", "Repeat"} -> FALSE
          [] OTHER -> checkSafety(r, up)

InvertedOp == ("==" :> "~=") @@ ("~=" :> "==") @@ ("<" :> ">=") @@ ("<=" :> ">") @@
              (">" :> "<=") @@ (">=" :> "<")
Parens(tokens) == <<"(">> \o tokens \o <<")">>

\* Mutant: or becomes and without parentheses around what was an and.
InvertedOperand_Bare(r, id, inverted) == inverted

InvertedOperand(r, id, inverted) ==
    IF Kind(r, id) = "BinaryExpr" /\ NodeOf(r, id).op = "and" THEN Parens(inverted) ELSE inverted

RECURSIVE invertCondition(_, _)
invertCondition(r, cond) ==
    LET n == NodeOf(r, cond)
        Joined(left, right) ==
            IF n.op = "and" THEN left \o <<"or">> \o right
            ELSE InvertedOperand(r, n.left, left) \o <<"and">> \o InvertedOperand(r, n.right, right)
    IN  CASE n.kind = "ParenExpr" -> Parens(invertCondition(r, n.left))
          [] n.kind = "UnaryExpr" /\ FirstToken(r, cond) = "not" -> Spelling(r, n.right)
          [] n.kind = "BinaryExpr" /\ n.op \in {"and", "or"} ->
               Joined(invertCondition(r, n.left), invertCondition(r, n.right))
          [] n.kind = "BinaryExpr" /\ n.op \in DOMAIN InvertedOp ->
               Spelling(r, n.left) \o <<InvertedOp[n.op]>> \o Spelling(r, n.right)
          [] n.kind \in {"Ident", "MemberExpr", "CallExpr", "MethodCall", "IndexExpr"} ->
               <<"not">> \o Spelling(r, cond)
          [] OTHER -> <<"not">> \o Parens(Spelling(r, cond))

RECURSIVE formatStatement(_, _), flattenBlock(_, _)
flattenBlock(r, block) ==
    FlattenSeq([i \in DOMAIN ListOf(r, block) |-> formatStatement(r, ListOf(r, block)[i])])

\* An if at the end of its function returns early instead of nesting.
earlyReturn(r, id) ==
    LET n == NodeOf(r, id)
        elses == SelectSeq(n.extra, LAMBDA a : Kind(r, a) = "Else")
        other == IF elses = <<>> THEN <<>> ELSE ListOf(r, NodeOf(r, elses[1]).left)
        leaves == other # <<>> /\ isTerminal(r, Last(other))
    IN  <<"if">> \o invertCondition(r, n.left) \o <<"then">> \o
        FlattenSeq([i \in DOMAIN other |-> Spelling(r, other[i])]) \o
        (IF leaves THEN <<"end">> ELSE <<"return", "end">>) \o flattenBlock(r, n.right)

formatStatement(r, id) ==
    LET n == NodeOf(r, id)
        Arm(a) == IF Kind(r, a) = "Else" THEN <<"else">> \o flattenBlock(r, NodeOf(r, a).left)
                  ELSE <<"elseif">> \o Spelling(r, NodeOf(r, a).left) \o <<"then">> \o
                       flattenBlock(r, NodeOf(r, a).right)
    IN  CASE n.kind = "Do" -> <<"do">> \o flattenBlock(r, n.left) \o <<"end">>
          [] n.kind = "If" /\ ~HasKind(r, n.extra, "ElseIf") /\ checkSafety(r, id) -> earlyReturn(r, id)
          [] n.kind = "If" /\ (HasKind(r, n.extra, "ElseIf") \/ ~checkSafety(r, id)) ->
               <<"if">> \o Spelling(r, n.left) \o <<"then">> \o flattenBlock(r, n.right) \o
               FlattenSeq([i \in DOMAIN n.extra |-> Arm(n.extra[i])]) \o <<"end">>
          [] OTHER -> Spelling(r, id)

-----------------------------------------------------------------------------
(* The refactorings offered at an offset, from the node there upwards: each *)
(* for the innermost node it fits, with the node's new text.                *)
isParenRedundant(r, id) ==
    \/ Kind(r, NodeOf(r, id).left) \in LiteralKinds \cup {"Invalid", "Ident", "HashedString",
                                                         "TableExpr", "FunctionExpr"}
    \/ Kind(r, Parent(r, id)) \in {"ParenExpr", "If", "ElseIf", "While", "Repeat"}

isMergeable(r, id) ==
    LET body == ListOf(r, NodeOf(r, id).right)
    IN  /\ NodeOf(r, id).extra = <<>>
        /\ Len(body) = 1 /\ Kind(r, body[1]) = "If" /\ NodeOf(r, body[1]).extra = <<>>

\* Every target has its value, and no value uses a variable that is a target.
canSplit(r, id) ==
    LET lhs == ListOf(r, NodeOf(r, id).left)
        rhs == ListOf(r, NodeOf(r, id).right)
        Inside(i, e) == NodeOf(r, e).start <= NodeOf(r, i).start /\ NodeOf(r, i).end <= NodeOf(r, e).end
    IN  /\ Len(lhs) > 1 /\ Len(rhs) <= Len(lhs)
        /\ rhs # <<>> /\ Len(rhs) < Len(lhs) => ~Dynamic(r, Last(rhs))
        /\ \A d \in {r.References[i] : i \in ToSet(lhs)} \ {0} :
              \A i \in LinkedTo(r, d), e \in ToSet(rhs) : ~Inside(i, e)

\* The cursor is before the body of a function with a dot or a colon.
isMethodAt(r, id, offset) ==
    LET n == NodeOf(r, id)
    IN  /\ offset <= NodeOf(r, NodeOf(r, n.right).right).start
        /\ Kind(r, n.left) \in {"MethodName", "MemberExpr"}

Offers(r, id, offset) ==
    LET n == NodeOf(r, id)
    IN  CASE n.kind = "FunctionStmt" -> IF isMethodAt(r, id, offset) THEN {"convertMethodSig"} ELSE {}
          [] n.kind = "If" ->
               (IF isMergeable(r, id) THEN {"mergeNestedIf"} ELSE {}) \cup
               (IF HasKind(r, n.extra, "Else") /\ ~HasKind(r, n.extra, "ElseIf")
                THEN {"swapIfElse"} ELSE {})
          [] n.kind \in {"LocalAssign", "Assign"} -> IF canSplit(r, id) THEN {"splitMultiAssign"} ELSE {}
          [] n.kind = "ParenExpr" -> IF isParenRedundant(r, id) THEN {"removeParen"} ELSE {}
          [] n.kind = "IndexExpr" -> IF Kind(r, n.right) = "String" THEN {"indexToMember"} ELSE {}
          [] n.kind = "MemberExpr" -> {"memberToIndex"}
          [] OTHER -> {}

\* The conditions of the cursor's line, whose first token the statement is.
LineActions(r, id) ==
    LET n == NodeOf(r, id)
    IN  (IF Kind(r, id) \in {"If", "ElseIf", "While"}
         THEN {[type |-> "invertCondition", node |-> n.left]} ELSE {}) \cup
        (IF Kind(r, id) = "If" /\ ~HasKind(r, n.extra, "ElseIf") /\ checkSafety(r, id)
         THEN {[type |-> "earlyReturn", node |-> id]} ELSE {})

handleCodeAction(r, offset) ==
    LET at == NodeAt(r.tree, offset)
        up == IF at = 0 THEN <<>> ELSE <<at>> \o Ancestors(r, at)
        types == UNION {Offers(r, id, offset) : id \in ToSet(up)}
        Innermost(type) == up[SelectInSeq(up, LAMBDA id : type \in Offers(r, id, offset))]
        lines == {id \in ToSet(up) : NodeOf(r, id).start = offset}
    IN  {[type |-> t, node |-> Innermost(t)] : t \in types} \cup
        UNION {LineActions(r, id) : id \in lines}

resolveConvertMethodSig(r, id) ==
    LET name == NodeOf(r, NodeOf(r, id).left)
    IN  Edit(name.start, name.end,
             Spelling(r, name.left) \o <<IF name.kind = "MethodName" THEN "." ELSE ":">> \o
             Spelling(r, name.right))

wrapCond(r, cond) ==
    IF Kind(r, cond) = "BinaryExpr" /\ NodeOf(r, cond).op = "or" THEN Parens(Spelling(r, cond))
    ELSE Spelling(r, cond)

resolveMergeNestedIf(r, id) ==
    LET inner == NodeOf(r, ListOf(r, NodeOf(r, id).right)[1])
    IN  Replace(r, id, <<"if">> \o wrapCond(r, NodeOf(r, id).left) \o <<"and">> \o
                       wrapCond(r, inner.left) \o <<"then">> \o flattenBlock(r, inner.right) \o <<"end">>)

resolveSplitMultiAssign(r, id) ==
    LET lhs == ListOf(r, NodeOf(r, id).left)
        rhs == ListOf(r, NodeOf(r, id).right)
        local == IF Kind(r, id) = "LocalAssign" THEN <<"local">> ELSE <<>>
        value(i) == IF i <= Len(rhs) THEN Spelling(r, rhs[i]) ELSE <<"nil">>
    IN  Replace(r, id, FlattenSeq([i \in DOMAIN lhs |->
                           local \o Spelling(r, lhs[i]) \o <<"=">> \o value(i)]))

resolveSwapIfElse(r, id) ==
    LET n == NodeOf(r, id)
        other == SelectSeq(n.extra, LAMBDA a : Kind(r, a) = "Else")[1]
    IN  Replace(r, id, <<"if">> \o invertCondition(r, n.left) \o <<"then">> \o
                       flattenBlock(r, NodeOf(r, other).left) \o <<"else">> \o
                       flattenBlock(r, n.right) \o <<"end">>)

resolveRemoveParen(r, id) == Replace(r, id, Spelling(r, NodeOf(r, id).left))

resolveIndexToMember(r, id) == Replace(r, id, Spelling(r, NodeOf(r, id).left) \o <<".", "b">>)

\* Only the name 'b' has a string literal.
resolveMemberToIndex(r, id) ==
    Replace(r, id, Spelling(r, NodeOf(r, id).left) \o <<"[", "'b'", "]">>)

handleCodeActionResolve(r, action) ==
    CASE action.type = "invertCondition"  -> Replace(r, action.node, invertCondition(r, action.node))
      [] action.type = "earlyReturn"      -> Replace(r, action.node, formatStatement(r, action.node))
      [] action.type = "convertMethodSig" -> resolveConvertMethodSig(r, action.node)
      [] action.type = "mergeNestedIf"    -> resolveMergeNestedIf(r, action.node)
      [] action.type = "splitMultiAssign" -> resolveSplitMultiAssign(r, action.node)
      [] action.type = "swapIfElse"       -> resolveSwapIfElse(r, action.node)
      [] action.type = "removeParen"      -> resolveRemoveParen(r, action.node)
      [] action.type = "indexToMember"    -> resolveIndexToMember(r, action.node)
      [] action.type = "memberToIndex"    -> resolveMemberToIndex(r, action.node)
=============================================================================
