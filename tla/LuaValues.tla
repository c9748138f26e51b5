----------------------------- MODULE LuaValues -----------------------------
(* Constant folding (lsp/eval.go) over a resolved document r: what an       *)
(* expression is known to be worth without running the program, which the   *)
(* hover shows and the diagnostics act on.  Numbers are rationals instead   *)
(* of doubles, a literal string is one character, a number within a string  *)
(* is one too.                                                              *)
EXTENDS LuaMeaning

Unknown == Value("unknown")
Known(v) == v.k # "unknown"

MaxEvalDepth == 20

Parent(r, id) == NodeOf(r, id).parent
IndexOfExtra(r, list, id) == SelectInSeq(NodeOf(r, list).extra, LAMBDA e : e = id)

\* The narrowest node at an offset: the first child that covers it, the left
\* one before the right one before the list.
RECURSIVE Narrowest(_, _, _)
Narrowest(t, id, offset) ==
    LET n == t.nodes[id]
        under == SelectSeq(<<n.left, n.right>> \o n.extra,
                           LAMBDA c : c # 0 /\ t.nodes[c].start <= offset /\ offset <= t.nodes[c].end)
    IN  IF under = <<>> THEN id ELSE Narrowest(t, under[1], offset)
NodeAt(t, offset) == IF offset > t.nodes[t.root].end THEN 0 ELSE Narrowest(t, t.root, offset)

\* The value at a name's place in a list of values.
ValueBeside(r, list, stmt, id) ==
    LET values == IF NodeOf(r, stmt).right = 0 THEN <<>>
                  ELSE NodeOf(r, NodeOf(r, stmt).right).extra
        i == IndexOfExtra(r, list, id)
    IN  IF i > Len(values) THEN 0 ELSE values[i]

RECURSIVE AssignedTo(_, _)
AssignedTo(r, id) ==
    LET up == Parent(r, id)
        stmt == Parent(r, up)
    IN  CASE Kind(r, up) = "LocalFunction" ->
               IF NodeOf(r, up).left = id THEN NodeOf(r, up).right ELSE 0
          [] Kind(r, up) = "FunctionStmt" -> NodeOf(r, up).right
          [] Kind(r, up) \in {"RecordField", "IndexField"} ->
               IF NodeOf(r, up).left = id THEN NodeOf(r, up).right ELSE 0
          [] Kind(r, up) = "NameList" ->
               IF Kind(r, stmt) = "LocalAssign" THEN ValueBeside(r, up, stmt, id) ELSE 0
          [] Kind(r, up) = "ExprList" ->
               IF Kind(r, stmt) = "Assign" /\ NodeOf(r, stmt).left = up
               THEN ValueBeside(r, up, stmt, id) ELSE 0
          [] Kind(r, up) \in {"MemberExpr", "MethodName"} -> AssignedTo(r, up)
          [] OTHER -> 0

LiteralKinds == {"Number", "String", "True", "False", "Nil"}

getAssignedValue(r, id) ==
    IF Kind(r, id) \in LiteralKinds \cup {"HashedString", "FunctionExpr", "TableExpr"} THEN id
    ELSE IF id = 0 THEN 0 ELSE AssignedTo(r, id)

MutatedLocals(r) == {r.Reassignments[i].def : i \in DOMAIN r.Reassignments} \ {0}

Trunc(q) == IF q[1] < 0 THEN -((-q[1]) \div q[2]) ELSE q[1] \div q[2]

Remainder(q, p) ==
    LET k == Floor(Ratio(q[1] * p[2], q[2] * p[1]))
    IN  Ratio(q[1] * p[2] - k * p[1] * q[2], q[2] * p[2])

\* A comparison is of the kind True whatever it gives.  Powers with a
\* fractional exponent leave the rationals and are not folded here.
numberOp(q, p, op) ==
    CASE op \in {"+", "-", "*"} \/ (op \in {"/", "//"} /\ p[1] # 0) -> OnNumbers(op, q, p)
      [] op \in {"/", "//", "%"} /\ p[1] = 0 -> Unknown
      [] op = "%" /\ p[1] # 0 -> Number(Remainder(q, p))
      [] op = "^" -> IF Whole(p) /\ (p[1] >= 0 \/ q[1] # 0) THEN Number(Power(q, p[1])) ELSE Unknown
      [] op \in {"&", "|", "~"} -> IntOf(Bits(op, Trunc(q), Trunc(p)))
      [] op \in {"<<", ">>"} /\ Trunc(p) < 0 -> Unknown
      [] op = "<<" /\ Trunc(p) >= 0 -> IntOf(Trunc(q) * 2 ^ Trunc(p))
      [] op = ">>" /\ Trunc(p) >= 0 -> IntOf(Trunc(q) \div 2 ^ Trunc(p))
      [] op \in {"==", "~=", "<", "<=", ">", ">="} -> Bool(TRUE)
      [] OTHER -> Unknown

applyOp(v, w, op) ==
    CASE op = ".." -> IF {v.k, w.k} \subseteq {"string", "number"}
                      THEN Str(Pieces(v) \o Pieces(w)) ELSE Unknown
      [] {v.k, w.k} = {"number"} /\ op \notin {"..", "and", "or"} -> numberOp(v.n, w.n, op)
      [] {v.k, w.k} = {"string"} /\ op \in {"==", "~="} -> Bool(TRUE)
      [] op = "and" -> IF Truthy(v) THEN w ELSE v
      [] op = "or"  -> IF Truthy(v) THEN v ELSE w
      [] OTHER -> Unknown

unaryOp(op, v) ==
    CASE op = "-" /\ v.k = "number" -> Number(<<-v.n[1], v.n[2]>>)
      [] op = "~" /\ v.k = "number" -> IntOf(-Trunc(v.n) - 1)
      [] op = "not" -> Bool(~Truthy(v))
      [] op = "#" /\ v.k = "string" -> IntOf(Len(v.s))
      [] OTHER -> Unknown

\* Mutant: a local that is assigned again is folded to its first value.
Frozen_IgnoresWrites(r, def) == TRUE

\* A local whose declaration is its only assignment.
Frozen(r, def) == def \notin MutatedLocals(r)

RECURSIVE evalNode(_, _, _)
evalNode(r, id, depth) ==
    LET n == NodeOf(r, id)
        def == r.References[id]
        val == getAssignedValue(r, def)
        Right(w) == IF Known(w) THEN unaryOp(r.tree.src[n.start \div 2 + 1], w) ELSE Unknown
        Both(v, w) == IF Known(v) /\ Known(w) THEN applyOp(v, w, n.op) ELSE Unknown
    IN  IF id = 0 \/ depth > MaxEvalDepth THEN Unknown
        ELSE CASE n.kind = "Number" -> IntOf(Numbers[source(r.tree, id)])
               [] n.kind = "String" -> Spelled("b")
               [] n.kind = "HashedString" -> Hash
               [] n.kind \in {"True", "False"} -> Bool(n.kind = "True")
               [] n.kind = "Nil" -> Nil
               [] n.kind = "ParenExpr" -> evalNode(r, n.left, depth + 1)
               [] n.kind = "Ident" ->
                    IF def # 0 /\ Frozen(r, def) /\ val \notin {0, id}
                    THEN evalNode(r, val, depth + 1) ELSE Unknown
               [] n.kind = "UnaryExpr" -> Right(evalNode(r, n.right, depth + 1))
               [] n.kind = "BinaryExpr" ->
                    Both(evalNode(r, n.left, depth + 1), evalNode(r, n.right, depth + 1))
               [] OTHER -> Unknown

-----------------------------------------------------------------------------
(* What the hover shows: a value with the stretch of source it stands for.  *)
NoEval == [start |-> 0, end |-> 0, val |-> Unknown, node |-> 0]

EvaluateExpression(r, id) ==
    IF Kind(r, id) \in LiteralKinds THEN Unknown ELSE evalNode(r, id, 0)

ClimbKinds == LiteralKinds \cup {"UnaryExpr", "BinaryExpr", "ParenExpr", "Ident"}

\* The highest of the expressions around a node that is a constant.
RECURSIVE HighestConstant(_, _, _)
HighestConstant(r, id, best) ==
    IF Kind(r, id) \notin ClimbKinds THEN best
    ELSE HighestConstant(r, Parent(r, id),
                         IF Known(EvaluateExpression(r, id)) THEN id ELSE best)

isAssociative(op) == op \in {"+", "*", "&", "|", "~", "and", "or", ".."}

\* The root of the chain of one associative operator around a node.
RECURSIVE ChainRoot(_, _, _)
ChainRoot(r, id, root) ==
    LET n == NodeOf(r, id)
    IN  CASE id = 0 -> root
          [] id # 0 /\ n.kind = "BinaryExpr" ->
               IF isAssociative(n.op) /\ (root = 0 \/ NodeOf(r, root).op = n.op)
               THEN ChainRoot(r, n.parent, id) ELSE root
          [] id # 0 /\ n.kind \in {"ParenExpr", "Return", "Assign", "LocalAssign"} /\ root # 0 -> root
          [] OTHER -> ChainRoot(r, n.parent, root)

RECURSIVE flatten(_, _, _)
flatten(r, id, op) ==
    LET n == NodeOf(r, id)
    IN  IF n.kind = "BinaryExpr" /\ n.op = op THEN flatten(r, n.left, op) \o flatten(r, n.right, op)
        ELSE <<id>>

\* The run of constants among the operands of a chain that the offset is in:
\* it reaches from the run's first operand to the last whose end the offset
\* has not passed.
findPartialEval(r, offset) ==
    LET root == ChainRoot(r, NodeAt(r.tree, offset), 0)
        operands == flatten(r, root, NodeOf(r, root).op)
        Constant(i) == Known(evalNode(r, operands[i], 0))
        First1(i) == CHOOSE k \in 1 .. i : /\ \A j \in k .. i : Constant(j)
                                           /\ k = 1 \/ ~Constant(k - 1)
        covers == {i \in DOMAIN operands :
                      /\ Constant(i)
                      /\ NodeOf(r, operands[First1(i)]).start <= offset
                      /\ offset <= NodeOf(r, operands[i]).end}
        last == CHOOSE i \in covers : \A j \in covers : j <= i
        Apply(v, i) == IF Known(v)
                       THEN applyOp(v, evalNode(r, operands[i], 0), NodeOf(r, root).op) ELSE v
        Chain(first) ==
            [start |-> NodeOf(r, operands[first]).start, end |-> NodeOf(r, operands[last]).end,
             val |-> FoldLeft(Apply, evalNode(r, operands[first], 0),
                              [i \in 1 .. last - first |-> first + i]),
             node |-> 0]
    IN  IF root = 0 THEN NoEval
        ELSE IF covers = {} THEN NoEval
        ELSE IF First1(last) = last THEN NoEval ELSE Chain(First1(last))

FindEvaluableParent(r, offset) ==
    LET id == HighestConstant(r, NodeAt(r.tree, offset), 0)
    IN  IF id = 0 THEN findPartialEval(r, offset)
        ELSE [start |-> NodeOf(r, id).start, end |-> NodeOf(r, id).end,
              val |-> EvaluateExpression(r, id), node |-> id]
=============================================================================
