--------------------------- MODULE LuaDiagnostics --------------------------
(* The diagnostics of a document r that come from the program itself        *)
(* (lsp/diagnostics.go, lsp/utils.go): names, unused and shadowing locals,  *)
(* unreachable code, constant conditions, assignments and calls.  All of    *)
(* them are on.  A diagnostic has a code, the stretch of source it marks    *)
(* and the node its quick fix works on.  Left out are annotations, pragmas, *)
(* the limits of a document and what depends on line breaks (the ambiguous  *)
(* return); no local is declared <close>.                                   *)
EXTENDS LuaSymbols

Diagnostic(code, start, end, data) == [code |-> code, start |-> start, end |-> end, data |-> data]
NodeDiagnostic(r, code, id) == Diagnostic(code, NodeOf(r, id).start, NodeOf(r, id).end, id)

\* The tokens of a stretch of source.
Slice(t, start, end) == SubSeq(t.src, start \div 2 + 1, (end + 1) \div 2)
Spelling(r, id) == Slice(r.tree, NodeOf(r, id).start, NodeOf(r, id).end)
FirstToken(r, id) == Spelling(r, id)[1]

\* Globals the standard library declares.
KnownGlobals == {"type"}

\* Names that start with an underscore.
Underscored == {"_", "_a", "_a_ignored", "_b", "_b_ignored"}

-----------------------------------------------------------------------------
(* Reads.  A use counts unless it is the target of an assignment; the       *)
(* receiver of an assigned field is read.                                   *)
RECURSIVE isActualRead(_, _)
isActualRead(r, id) ==
    LET up == Parent(r, id)
        n == NodeOf(r, up)
    IN  CASE Kind(r, up) \in {"MemberExpr", "MethodName", "IndexExpr"} ->
               n.left # id \/ isLHSOfAssignment(r, up) \/ isActualRead(r, up)
          [] Kind(r, up) \in {"LocalAssign", "Assign"} -> n.left # id
          [] Kind(r, up) \in {"ExprList", "NameList"} ->
               ~LeftListOf(r, up, {"Assign", "LocalAssign"}) /\ isActualRead(r, up)
          [] Kind(r, up) \in {"ParenExpr", "BinaryExpr", "UnaryExpr"} -> isActualRead(r, up)
          [] OTHER -> TRUE

\* The uses of a declaration that read it.
ActualReads(r, def) == {i \in LinkedTo(r, def) \ {def} : isActualRead(r, i)}

\* A call is taken for pure by how its function is spelled: the spelling starts,
\* in any case, with get, is, has, can, type and the like, whoever wrote the
\* function and whatever follows (getNext, getNext.b).
PureStarts == {"type", "getNext"}
isPureCallName(spelling) == spelling # <<>> /\ spelling[1] \in PureStarts

RECURSIVE isSideEffectFree(_, _)
AllFree(r, ids) == \A i \in DOMAIN ids : isSideEffectFree(r, ids[i])
isSideEffectFree(r, id) ==
    LET n == NodeOf(r, id)
        Item(f) == IF Kind(r, f) \in {"RecordField", "IndexField"}
                   THEN AllFree(r, <<NodeOf(r, f).left, NodeOf(r, f).right>>)
                   ELSE isSideEffectFree(r, f)
        \* The method's name, or the whole of a name with dots.
        called == CASE n.kind = "MethodCall" -> Spelling(r, n.right)
                    [] n.kind = "CallExpr" /\ Kind(r, n.left) \in {"Ident", "MemberExpr"} ->
                         Spelling(r, n.left)
                    [] OTHER -> <<>>
    IN  CASE Kind(r, id) \in LiteralKinds \cup {"Invalid", "Ident", "Vararg", "FunctionExpr"} -> TRUE
          [] Kind(r, id) \in {"UnaryExpr", "BinaryExpr", "ParenExpr", "IndexExpr"} ->
               AllFree(r, <<n.left, n.right>>)
          [] Kind(r, id) = "MemberExpr" -> isSideEffectFree(r, n.left)
          [] Kind(r, id) = "ExprList" -> AllFree(r, n.extra)
          [] Kind(r, id) = "TableExpr" -> \A i \in DOMAIN n.extra : Item(n.extra[i])
          [] Kind(r, id) \in {"CallExpr", "MethodCall"} ->
               isPureCallName(called) /\ AllFree(r, n.extra)
          [] OTHER -> FALSE

-----------------------------------------------------------------------------
(* Control flow: statements behind which nothing runs.                      *)
Truth(r, cond) ==
    LET Of(v) == IF ~Known(v) THEN "unknown" ELSE IF Truthy(v) THEN "true" ELSE "false"
    IN  Of(evalNode(r, cond, 0))

\* A condition without one pair of parentheses around it.
Bare(tokens) ==
    IF Len(tokens) > 1 /\ tokens[1] = "(" /\ Last(tokens) = ")" THEN SubSeq(tokens, 2, Len(tokens) - 1)
    ELSE tokens

isOppositeCondition(r, c, d) ==
    LET Negates(x, y) == /\ Kind(r, x) = "UnaryExpr" /\ FirstToken(r, x) = "not"
                         /\ Bare(Spelling(r, NodeOf(r, x).right)) = Bare(Spelling(r, y))
    IN  Negates(c, d) \/ Negates(d, c)

\* Mutant: an if without an else counts when its branches all leave.
Exhaustive_Always(r, if) == TRUE

\* One of the branches of an if is taken whatever the conditions are.
Exhaustive(r, if) ==
    \E i \in DOMAIN NodeOf(r, if).extra :
        LET arm == NodeOf(r, if).extra[i]
        IN  \/ Kind(r, arm) = "Else"
            \/ Kind(r, arm) = "ElseIf" /\ isOppositeCondition(r, NodeOf(r, if).left, NodeOf(r, arm).left)

RECURSIVE isTerminal(_, _), ArmsLeave(_, _, _)
\* The arms of an if from the i-th on: the first that is always taken decides,
\* the ones never taken do not count.
ArmsLeave(r, arms, i) ==
    LET arm == NodeOf(r, arms[i])
        Leaves(truth) == /\ truth = "false" \/ isTerminal(r, arm.right)
                         /\ truth = "true" \/ ArmsLeave(r, arms, i + 1)
    IN  IF i > Len(arms) THEN TRUE
        ELSE IF Kind(r, arms[i]) = "Else" THEN isTerminal(r, arm.left)
        ELSE Leaves(Truth(r, arm.left))

\* Some arm's condition is always true, with no reachable arm before it that
\* does not leave.
Decided(r, arms) ==
    \E i \in DOMAIN arms : Kind(r, arms[i]) # "Else" /\ Truth(r, NodeOf(r, arms[i]).left) = "true"

isTerminal(r, id) ==
    LET n == NodeOf(r, id)
        arms == <<id>> \o n.extra
    IN  CASE Kind(r, id) \in {"Return", "Break", "Goto"} -> TRUE
          [] Kind(r, id) = "Do" -> isTerminal(r, n.left)
          [] Kind(r, id) = "Block" -> \E i \in DOMAIN n.extra : isTerminal(r, n.extra[i])
          [] Kind(r, id) = "If" ->
               ArmsLeave(r, arms, 1) /\ (Decided(r, arms) \/ Exhaustive(r, id))
          [] OTHER -> FALSE

-----------------------------------------------------------------------------
(* Uses of a global that a condition guards.                                *)
RECURSIVE checksForGlobal(_, _, _)
checksForGlobal(r, cond, name) ==
    LET n == NodeOf(r, cond)
        NotNil(x, y) == Kind(r, x) = "Ident" /\ Kind(r, y) = "Nil" /\ source(r.tree, x) = name
    IN  CASE Kind(r, cond) = "ParenExpr" -> checksForGlobal(r, n.left, name)
          [] Kind(r, cond) = "Ident" -> source(r.tree, cond) = name
          [] Kind(r, cond) = "BinaryExpr" /\ n.op = "~=" -> NotNil(n.left, n.right) \/ NotNil(n.right, n.left)
          [] Kind(r, cond) = "BinaryExpr" /\ n.op = "and" -> checksForGlobal(r, n.left, name)
          [] OTHER -> FALSE

RECURSIVE checksForGlobalNegative(_, _, _)
checksForGlobalNegative(r, cond, name) ==
    LET n == NodeOf(r, cond)
        IsNil(x, y) == Kind(r, x) = "Ident" /\ Kind(r, y) = "Nil" /\ source(r.tree, x) = name
    IN  CASE Kind(r, cond) = "ParenExpr" -> checksForGlobalNegative(r, n.left, name)
          [] Kind(r, cond) = "UnaryExpr" /\ FirstToken(r, cond) = "not" -> checksForGlobal(r, n.right, name)
          [] Kind(r, cond) = "BinaryExpr" /\ n.op = "==" -> IsNil(n.left, n.right) \/ IsNil(n.right, n.left)
          [] Kind(r, cond) = "BinaryExpr" /\ n.op = "or" -> checksForGlobalNegative(r, n.left, name)
          [] OTHER -> FALSE

RECURSIVE isDirectExistenceCheck(_, _)
isDirectExistenceCheck(r, id) ==
    LET up == Parent(r, id)
        n == NodeOf(r, up)
        other == IF n.right = id THEN n.left ELSE n.right
    IN  CASE Kind(r, up) = "ParenExpr" -> isDirectExistenceCheck(r, up)
          [] Kind(r, up) \in {"If", "ElseIf", "While"} -> n.left = id
          [] Kind(r, up) = "Repeat" -> n.right = id
          [] Kind(r, up) = "UnaryExpr" -> FirstToken(r, up) = "not"
          [] Kind(r, up) = "BinaryExpr" ->
               n.op \in {"and", "or"} \/ (n.op \in {"==", "~="} /\ Kind(r, other) = "Nil")
          [] OTHER -> FALSE

\* Mutant: an if that tests for absence guards what follows it in any case.
GuardsRest_Always(r, stmt, name) ==
    Kind(r, stmt) = "If" /\ checksForGlobalNegative(r, NodeOf(r, stmt).left, name)

\* Behind the statement the global exists.
GuardsRest(r, stmt, name) ==
    LET n == NodeOf(r, stmt)
    IN  CASE n.kind = "While"  -> checksForGlobalNegative(r, n.left, name)
          [] n.kind = "Repeat" -> checksForGlobal(r, n.right, name)
          [] n.kind = "If"     -> checksForGlobalNegative(r, n.left, name) /\ isTerminal(r, n.right)
          [] OTHER -> FALSE

isGuardedByPreviousStatements(r, block, stmt, name) ==
    LET stmts == NodeOf(r, block).extra
    IN  \E i \in 1 .. IndexOfExtra(r, block, stmt) - 1 : GuardsRest(r, stmts[i], name)

RECURSIVE GuardedAbove(_, _, _)
GuardedAbove(r, id, name) ==
    LET up == Parent(r, id)
        n == NodeOf(r, up)
        tested == checksForGlobal(r, n.left, name)
    IN  /\ up # 0
        /\ \/ n.kind = "BinaryExpr" /\ n.op = "and" /\ n.right = id /\ tested
           \/ n.kind \in {"If", "ElseIf", "While"} /\ n.right = id /\ tested
           \/ n.kind \in {"Block", "File"} /\ isGuardedByPreviousStatements(r, up, id, name)
           \/ GuardedAbove(r, up, name)

isGlobalGuarded(r, id) ==
    isDirectExistenceCheck(r, id) \/ GuardedAbove(r, id, source(r.tree, id))

-----------------------------------------------------------------------------
(* The diagnostics.                                                         *)
Defines(r, name) == \E i \in DOMAIN r.GlobalDefs : source(r.tree, r.GlobalDefs[i]) = name
DefinesAtRoot(r, name) ==
    \E d \in ToSet(SymbolsByHash(r, [rec |-> <<>>, prop |-> name])) : isRootLevel(r, d)

UndefinedGlobals(r) ==
    {NodeDiagnostic(r, "undefined-global", i) : i \in {j \in ToSet(r.GlobalRefs) :
        LET name == source(r.tree, j)
        IN  /\ name \notin {"", "_"} \cup KnownGlobals
            /\ ~isGlobalGuarded(r, j) /\ ~Defines(r, name)}}

ImplicitGlobals(r) ==
    {NodeDiagnostic(r, "implicit-global", i) : i \in {j \in ToSet(r.GlobalDefs) :
        LET name == source(r.tree, j)
        IN  /\ name \notin {"", "_"} \cup KnownGlobals
            /\ ~isRootLevel(r, j) /\ ~DefinesAtRoot(r, name)}}

Unused(r, def) == ActualReads(r, def) = {}

UnusedCode(r, def) ==
    LET up == Parent(r, def)
    IN  CASE Kind(r, def) = "Vararg" -> "unused-vararg"
          [] Kind(r, def) # "Vararg" /\ Kind(r, up) = "FunctionExpr" -> "unused-parameter"
          [] Kind(r, up) = "ForNum" \/ (Kind(r, up) = "NameList" /\ Kind(r, Parent(r, up)) = "ForIn") ->
               "unused-loop-var"
          [] Kind(r, up) = "LocalFunction" -> "unused-function"
          [] OTHER -> "unused-local"

Visible(r) == {d \in ToSet(r.LocalDefs) : source(r.tree, d) # ""}

UnusedLocals(r) ==
    {NodeDiagnostic(r, "used-ignored-var", d) : d \in {e \in Visible(r) :
        source(r.tree, e) \in Underscored /\ ~Unused(r, e)}} \cup
    {NodeDiagnostic(r, UnusedCode(r, d), d) : d \in {e \in Visible(r) :
        source(r.tree, e) \notin Underscored /\ Unused(r, e)}}

checkGlobalShadowing(r) ==
    {NodeDiagnostic(r, "shadow-global", d) : d \in {e \in Visible(r) :
        LET name == source(r.tree, e)
        IN  name \notin Underscored /\ (name \in KnownGlobals \/ Defines(r, name))}}

ShadowedOuter(r) == {NodeDiagnostic(r, "shadow-outer", s.Shadowing) : s \in ToSet(r.ShadowedOuter)}
DuplicateLocals(r) == {NodeDiagnostic(r, "duplicate-local", d) : d \in ToSet(r.DuplicateLocals)}

OfKind(r, kinds) == {i \in DOMAIN r.tree.nodes : Kind(r, i) \in kinds}
ListOf(r, id) == IF id = 0 THEN <<>> ELSE NodeOf(r, id).extra

RedundantReturns(r) ==
    LET Redundant(i) == LET up == Parent(r, i)
                        IN  /\ ListOf(r, NodeOf(r, i).left) = <<>>
                            /\ Kind(r, up) = "Block" /\ Last(NodeOf(r, up).extra) = i
                            /\ Kind(r, Parent(r, up)) \in {"FunctionExpr", "File"}
    IN  {NodeDiagnostic(r, "redundant-return", i) : i \in {j \in OfKind(r, {"Return"}) : Redundant(j)}}

\* The statements behind the first of a block that always leaves it.
Unreachable(r, block) ==
    LET stmts == NodeOf(r, block).extra
        Behind(i) == IF i = 0 THEN <<>> ELSE SubSeq(stmts, i + 1, Len(stmts))
    IN  Behind(SelectInSeq(stmts, LAMBDA s : isTerminal(r, s)))

UnreachableCode(r) ==
    LET Mark(dead) == Diagnostic("unreachable-code", NodeOf(r, dead[1]).start,
                                 NodeOf(r, Last(dead)).end, dead[1])
    IN  {Mark(dead) : dead \in {Unreachable(r, b) : b \in OfKind(r, {"Block"})} \ {<<>>}}

EmptyBlocks(r) ==
    {Diagnostic("empty-block", NodeOf(r, b).start, NodeOf(r, b).end,
                IF Kind(r, Parent(r, b)) = "Do" THEN Parent(r, b) ELSE 0) :
        b \in {c \in OfKind(r, {"Block"}) :
                  /\ NodeOf(r, c).extra = <<>>
                  /\ Kind(r, Parent(r, c)) \notin {"Invalid", "File"}}}

LoopVarMutations(r) ==
    {NodeDiagnostic(r, "loop-var-mutation", i) : i \in {j \in OfKind(r, {"Ident"}) :
        LeftListOf(r, Parent(r, j), {"Assign"}) /\ isLoopVariable(r, r.References[j])}}

SelfAssignments(r) ==
    LET Pairs(i) == {k \in DOMAIN ListOf(r, NodeOf(r, i).left) \cap DOMAIN ListOf(r, NodeOf(r, i).right) :
                        Spelling(r, ListOf(r, NodeOf(r, i).left)[k]) =
                        Spelling(r, ListOf(r, NodeOf(r, i).right)[k])}
        Mark(i, k) == Diagnostic("self-assignment", NodeOf(r, ListOf(r, NodeOf(r, i).left)[k]).start,
                                 NodeOf(r, ListOf(r, NodeOf(r, i).right)[k]).end, i)
    IN  UNION {{Mark(i, k) : k \in Pairs(i)} : i \in OfKind(r, {"Assign"})}

\* The place of the comma before a node, but not before the limit.
findCommaBefore(r, start, limit) ==
    LET commas == {2 * (k - 1) : k \in {j \in DOMAIN r.tree.src : r.tree.src[j] = ","}}
        before == {c \in commas : limit <= c /\ c < start}
        found == IF before = {} THEN start ELSE CHOOSE c \in before : \A d \in before : d <= c
    IN  IF start <= limit THEN limit ELSE IF found > limit THEN found - 1 ELSE found

Dynamic(r, id) == Kind(r, id) \in {"CallExpr", "MethodCall", "Vararg"}

Unbalanced(r) ==
    LET Mark(i) ==
            LET lhs == ListOf(r, NodeOf(r, i).left)
                rhs == ListOf(r, NodeOf(r, i).right)
            IN  IF Len(rhs) > Len(lhs)
                THEN {Diagnostic("redundant-value",
                          IF lhs = <<>> THEN NodeOf(r, rhs[1]).start
                          ELSE findCommaBefore(r, NodeOf(r, rhs[Len(lhs) + 1]).start,
                                               NodeOf(r, rhs[Len(lhs)]).end),
                          NodeOf(r, Last(rhs)).end, i)}
                ELSE IF rhs # <<>> /\ Len(lhs) > Len(rhs) /\ ~Dynamic(r, Last(rhs))
                THEN {Diagnostic("unbalanced-assignment", NodeOf(r, lhs[Len(rhs) + 1]).start,
                                 NodeOf(r, Last(lhs)).end, 0)}
                ELSE {}
    IN  UNION {Mark(i) : i \in OfKind(r, {"Assign", "LocalAssign"})}

IncorrectVarargs(r) ==
    LET Around(i) == SelectSeq(Ancestors(r, i), LAMBDA a : Kind(r, a) \in {"FunctionExpr", "File"})
        Bad(i) == /\ Kind(r, Parent(r, i)) \notin {"Invalid", "FunctionExpr"}
                  /\ Around(i) # <<>>
                  /\ LET f == NodeOf(r, Around(i)[1])
                     IN  f.kind = "FunctionExpr" /\ (f.extra = <<>> \/ Kind(r, Last(f.extra)) # "Vararg")
    IN  {NodeDiagnostic(r, "incorrect-vararg", i) : i \in {j \in OfKind(r, {"Vararg"}) : Bad(j)}}

DuplicateFields(r) ==
    LET Keys1(i) == [k \in DOMAIN NodeOf(r, i).extra |-> NodeOf(r, NodeOf(r, i).extra[k]).left]
        Named1(i) == {k \in DOMAIN Keys1(i) : Kind(r, NodeOf(r, i).extra[k]) = "RecordField"}
        Again(i) == {Keys1(i)[k] : k \in {j \in Named1(i) : \E h \in Named1(i) :
                        h < j /\ source(r.tree, Keys1(i)[h]) = source(r.tree, Keys1(i)[j])}}
    IN  {NodeDiagnostic(r, "duplicate-field", i) : i \in UNION {Again(j) : j \in OfKind(r, {"TableExpr"})}}

\* Arms behind one that is always taken, and arms never taken.
Arms(r, id) == <<id>> \o NodeOf(r, id).extra
ArmTruths(r, arms) ==
    [i \in DOMAIN arms |-> IF Kind(r, arms[i]) = "Else" THEN "else" ELSE Truth(r, NodeOf(r, arms[i]).left)]
Live(truths, i) == \A j \in 1 .. i - 1 : truths[j] # "true"

DeadAmong(r, arms, truths) ==
    {arms[i] : i \in {j \in DOMAIN arms : ~Live(truths, j)}} \cup
    {NodeOf(r, arms[i]).right : i \in {j \in DOMAIN arms : Live(truths, j) /\ truths[j] = "false"}}
DeadArms(r, id) == DeadAmong(r, Arms(r, id), ArmTruths(r, Arms(r, id)))

ConstantConditions(r) ==
    LET Decided1(arms, truths) ==
            {NodeOf(r, arms[i]).left : i \in {j \in DOMAIN arms :
                                                  Live(truths, j) /\ truths[j] \in {"true", "false"}}}
        Marks(arms, truths) ==
            {NodeDiagnostic(r, "constant-condition", c) : c \in Decided1(arms, truths)} \cup
            {NodeDiagnostic(r, "unreachable-branch", a) : a \in DeadAmong(r, arms, truths)}
    IN  UNION {Marks(Arms(r, i), ArmTruths(r, Arms(r, i))) : i \in OfKind(r, {"If"})}

\* The definitions a call may reach that are functions, with the number of
\* arguments each takes.
Callees(r, call) ==
    LET n == NodeOf(r, call)
        name == CASE n.kind = "MethodCall" -> n.right
                  [] n.kind = "CallExpr" /\ Kind(r, n.left) = "MemberExpr" -> NodeOf(r, n.left).right
                  [] OTHER -> n.left
        Defs(ctx) == IF ctx.defs # <<>> THEN ToSet(ctx.defs) ELSE {ctx.def} \ {0}
    IN  {d \in Defs(resolveSymbolNode(r, name)) : Kind(r, getAssignedValue(r, d)) = "FunctionExpr"}

\* Without parameters the count stays at nothing, also for a method called
\* with its self.
Takes(r, call, def) ==
    IF Params(r, def) = <<>> THEN 0 ELSE Wanted(r, call, def)

RedundantParameters(r) ==
    LET Mark(c, given, most) ==
            Diagnostic("redundant-parameter",
                findCommaBefore(r, NodeOf(r, given[most + 1]).start,
                    NodeOf(r, IF most > 0 THEN given[most] ELSE NodeOf(r, c).left).end),
                NodeOf(r, Last(given)).end, c)
        Excess(c, given, defs, takes) ==
            IF /\ defs # {}
               /\ \A d \in defs : ~TakesVararg(r, d) /\ Len(given) > takes[d]
            THEN {Mark(c, given, Max({takes[d] : d \in defs}))} ELSE {}
        Marks(c, defs) == Excess(c, NodeOf(r, c).extra, defs, [d \in defs |-> Takes(r, c, d)])
    IN  UNION {Marks(c, Callees(r, c)) : c \in OfKind(r, {"CallExpr", "MethodCall"})}

publishDiagnostics(r) ==
    UndefinedGlobals(r) \cup ImplicitGlobals(r) \cup UnusedLocals(r) \cup checkGlobalShadowing(r) \cup
    ShadowedOuter(r) \cup RedundantReturns(r) \cup UnreachableCode(r) \cup EmptyBlocks(r) \cup
    LoopVarMutations(r) \cup SelfAssignments(r) \cup Unbalanced(r) \cup IncorrectVarargs(r) \cup
    DuplicateFields(r) \cup ConstantConditions(r) \cup RedundantParameters(r) \cup DuplicateLocals(r)
=============================================================================
