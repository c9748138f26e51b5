----------------------------- MODULE LuaParser -----------------------------
(* The parser (parser/parser.go) and the flat tree it fills (ast/ast.go):   *)
(* recursive descent with precedence climbing, one list stack shared by all *)
(* the lists under construction, error recovery and nesting limits.  Each   *)
(* operation takes the parser's state p to the state after it; ret is the   *)
(* node it returns, 0 being InvalidNode.  An operation of several steps     *)
(* names the states between them by the parameters of local operators.      *)
(*                                                                          *)
(* A source is a sequence of tokens one byte long, each followed by a blank.*)
(* Comments, which nextToken sets aside, the text of messages and the       *)
(* attribute of a local are left out.                                       *)
EXTENDS Integers, Sequences, FiniteSets, SequencesExt

CONSTANTS
    MaxDepth,       \* nesting limit of expressions (200)
    MaxBlockDepth,  \* nesting limit of blocks (200)
    MaxErrors,      \* errors kept, 0 for all of them
    StaleEnd        \* End of the token a reused parser has before the first

ASSUME ParserAssumption ==
    /\ MaxDepth \in Nat \ {0} /\ MaxBlockDepth \in Nat \ {0}
    /\ MaxErrors \in Nat /\ StaleEnd \in Nat

-----------------------------------------------------------------------------
(* Tokens.  Identifiers and literals stand for their kinds; the one string  *)
(* literal is a name, 'b', and "hashed" the one between backticks.          *)
Idents == {"a", "b", "c", "d", "self", "_", "type", "getNext"} \cup
          {"_a", "_a_ignored", "newA", "localA", "_b", "_b_ignored", "newB", "localB"}
Numbers == [n \in {"0", "1", "2"} |-> CASE n = "0" -> 0 [] n = "1" -> 1 [] n = "2" -> 2]

Keywords ==
    {"and", "break", "do", "else", "elseif", "end", "false", "for", "function",
     "goto", "if", "in", "local", "nil", "not", "or", "repeat", "return",
     "then", "true", "until", "while"}

LeafKinds ==
    [t \in Idents |-> "Ident"] @@
    [t \in DOMAIN Numbers |-> "Number"] @@ ("'b'" :> "String") @@ ("hashed" :> "HashedString") @@
    ("nil" :> "Nil") @@ ("true" :> "True") @@ ("false" :> "False") @@
    ("..." :> "Vararg")

\* The binding powers of the tokens that continue an expression.
Levels ==
    << {"or"}, {"and"}, {"<", "<=", ">", ">=", "==", "~="}, {"|"}, {"~"}, {"&"},
       {"<<", ">>"}, {".."}, {"+", "-"}, {"*", "/", "//", "%"}, {}, {"^"},
       {"(", "[", ".", "'b'", "hashed", "{", ":"} >>

Lowest == 0
Unary  == 11

precedences(t) ==
    IF \E n \in DOMAIN Levels : t \in Levels[n]
    THEN CHOOSE n \in DOMAIN Levels : t \in Levels[n]
    ELSE Lowest

BinaryOps == UNION {Levels[n] : n \in 1 .. 12}
CallStart == {"(", "'b'", "hashed", "{"}

-----------------------------------------------------------------------------
(* The parser's state and the tree's nodes.                                 *)
Reset(source) ==
    [src |-> source, pos |-> 1, nodes |-> <<>>, root |-> 0, ret |-> 0,
     listStack |-> <<>>, errors |-> 0, loopDepth |-> 0, depth |-> 0,
     blockDepth |-> 0]

Size(p) == 2 * Len(p.src)
Token(p, i) == IF i > Len(p.src) THEN "EOF" ELSE p.src[i]
TokenStart(p, i) == IF i > Len(p.src) THEN Size(p) ELSE 2 * (i - 1)
TokenEnd(p, i) == IF i > Len(p.src) THEN Size(p) ELSE 2 * i - 1

curr(p)  == Token(p, p.pos)
peek(p)  == Token(p, p.pos + 1)
Start(p) == TokenStart(p, p.pos)
End(p)   == TokenEnd(p, p.pos)
PrevEnd(p) == IF p.pos = 1 THEN StaleEnd ELSE TokenEnd(p, p.pos - 1)

\* Past the end the lexer answers EOF for ever.
nextToken(p) == [p EXCEPT !.pos = IF @ > Len(p.src) THEN Len(p.src) + 2 ELSE @ + 1]

Fail(p) == [p EXCEPT !.errors = IF MaxErrors > 0 /\ @ >= MaxErrors THEN @ ELSE @ + 1]
Expect(p, t) == IF curr(p) = t THEN nextToken(p) ELSE Fail(p)
Invalid(p) == [p EXCEPT !.ret = 0]

isIdentOrKeyword(p) == curr(p) \in Idents \cup Keywords

Node(kind, start, end, left, right) ==
    [kind |-> kind, start |-> start, end |-> end, left |-> left, right |-> right,
     extra |-> <<>>, op |-> "", parent |-> 0]

AddNode(p, n) ==
    LET id == Len(p.nodes) + 1
        children == {n.left, n.right} \cup {n.extra[i] : i \in DOMAIN n.extra}
    IN  [p EXCEPT !.ret = id,
                  !.nodes = Append([i \in DOMAIN @ |->
                                IF i \in children THEN [@[i] EXCEPT !.parent = id]
                                                  ELSE @[i]], n)]

\* A node that ends with the last token taken, its right child in p.ret.
Ended(p, kind, start, left) ==
    AddNode(p, Node(kind, start, PrevEnd(p), left, p.ret))

Leaf(p, kind) == nextToken(AddNode(p, Node(kind, Start(p), End(p), 0, 0)))

Push(p) == [p EXCEPT !.listStack = Append(@, p.ret)]
PushValid(p) == IF p.ret # 0 THEN Push(p) ELSE p

\* Mutant: the items stay on the stack.
flushListStack_KeepsItems(p, mark, n) ==
    AddNode(p, [n EXCEPT !.extra = SubSeq(p.listStack, mark + 1, Len(p.listStack))])

\* The list above mark moves into the extra list of the node n.
flushListStack(p, mark, n) ==
    AddNode([p EXCEPT !.listStack = SubSeq(@, 1, mark)],
            [n EXCEPT !.extra = SubSeq(p.listStack, mark + 1, Len(p.listStack))])

-----------------------------------------------------------------------------
(* Error recovery: skip at least one token, then to where a statement or    *)
(* the end of a block may be.                                               *)
SyncStops ==
    Idents \cup {"EOF", "local", "function", "if", "for", "while", "repeat",
                 "return", "do", "break", "end", "goto", "::"}

RECURSIVE SkipTo(_, _)
SkipTo(p, stops) ==
    IF curr(p) \in stops THEN p ELSE SkipTo(nextToken(p), stops)

SkipOne(p, t) == IF curr(p) = t THEN nextToken(p) ELSE p
sync(p) == SkipOne(SkipTo(nextToken(p), SyncStops \cup {";"}), ";")

validateLHS(p, list) ==
    LET exprs == p.nodes[list].extra
        bad == {i \in DOMAIN exprs :
                   p.nodes[exprs[i]].kind \notin {"Ident", "IndexExpr", "MemberExpr"}}
    IN  FoldLeft(LAMBDA q, i : IF i \in bad THEN Fail(q) ELSE q, p,
                 [i \in DOMAIN exprs |-> i])

RECURSIVE parseExpression(_, _), parseBlock(_, _)
-----------------------------------------------------------------------------
(* Lists.                                                                   *)
RECURSIVE ExprItems(_)
ExprItems(p) ==
    LET More(q) == IF curr(q) = "," THEN ExprItems(nextToken(q)) ELSE q
    IN  More(PushValid(parseExpression(p, Lowest)))

parseExprList(p) ==
    LET mark == Len(p.listStack)
        List(q) == IF Len(q.listStack) = mark THEN Invalid(q)
                   ELSE flushListStack(q, mark, Node("ExprList", Start(p), PrevEnd(q), 0, 0))
    IN  List(ExprItems(p))

RECURSIVE ParamItems(_)
ParamItems(p) ==
    LET Checked(q) == IF curr(p) = "..." /\ curr(q) = "," THEN Fail(q) ELSE q
        More(q) == IF curr(q) = "," THEN ParamItems(nextToken(q)) ELSE q
    IN  CASE curr(p) \in {")", "EOF"} -> p
          [] curr(p) \in Idents \cup {"..."} ->
               More(Checked(Push(Leaf(p, LeafKinds[curr(p)]))))
          [] OTHER -> Fail(p)

\* [key] = value, name = value or value.
RecordField(p, name) ==
    Ended(parseExpression(nextToken(name), Lowest), "RecordField", Start(p), name.ret)
IndexField(p, key) ==
    Ended(parseExpression(Expect(Expect(key, "]"), "="), Lowest), "IndexField", Start(p), key.ret)
Field(p) ==
    CASE curr(p) = "[" -> IndexField(p, parseExpression(nextToken(p), Lowest))
      [] curr(p) # "[" /\ isIdentOrKeyword(p) /\ peek(p) = "=" -> RecordField(p, Leaf(p, "Ident"))
      [] OTHER -> parseExpression(p, Lowest)

RECURSIVE FieldItems(_)
FieldItems(p) ==
    LET More(q) ==
            CASE curr(q) \in {",", ";"} -> FieldItems(nextToken(q))
              [] curr(q) \in {"}", "EOF"} -> q
              [] OTHER -> FieldItems(IF q.ret = 0 THEN nextToken(Fail(q)) ELSE Fail(q))
    IN  IF curr(p) \in {"}", "EOF"} THEN p ELSE More(Push(Field(p)))

parseTableConstructor(p) ==
    LET Table(q) == flushListStack(Expect(q, "}"), Len(p.listStack),
                                   Node("TableExpr", Start(p), End(q), 0, 0))
    IN  Table(FieldItems(nextToken(p)))

RECURSIVE ArgItems(_)
ArgItems(p) ==
    LET More(q) == IF curr(q) = "," THEN ArgItems(nextToken(q)) ELSE q
    IN  IF curr(p) \in {")", "EOF"} THEN p
        ELSE More(PushValid(parseExpression(p, Lowest)))

parseCallArgs(p, left) ==
    LET Call(q, end) == flushListStack(q, Len(p.listStack),
                            Node("CallExpr", p.nodes[left].start, end, left, 0))
        Args(q)  == Call(Expect(q, ")"), End(q))
        Table(q) == Call(Push(q), q.nodes[q.ret].end)
    IN  CASE curr(p) = "(" -> Args(ArgItems(nextToken(p)))
          [] curr(p) = "{" -> Table(parseTableConstructor(p))
          [] OTHER -> Call(Push(Leaf(p, LeafKinds[curr(p)])), End(p))

parseFunctionBody(p, start) ==
    LET Body(q) == flushListStack(Expect(q, "end"), Len(p.listStack),
                                  Node("FunctionExpr", start, End(q), 0, q.ret))
    IN  Body(parseBlock(Expect(ParamItems(Expect(p, "(")), ")"), {"end"}))

-----------------------------------------------------------------------------
(* Expressions.                                                             *)
parsePrefix(p) ==
    LET Paren(q) == AddNode(Expect(q, ")"), Node("ParenExpr", Start(p), End(q), q.ret, 0))
    IN  CASE curr(p) \in DOMAIN LeafKinds -> Leaf(p, LeafKinds[curr(p)])
          [] curr(p) = "{" -> parseTableConstructor(p)
          [] curr(p) = "function" -> parseFunctionBody(nextToken(p), Start(p))
          [] curr(p) \in {"-", "not", "#", "~"} ->
               Ended(parseExpression(nextToken(p), Unary), "UnaryExpr", Start(p), 0)
          [] curr(p) = "(" -> Paren(parseExpression(nextToken(p), Lowest))
          [] OTHER -> Invalid(Fail(p))

\* Mutant: every operator associates to the left.
RightPower_AlwaysLeft(op) == precedences(op)

\* The power with which an operator's right operand is parsed: one less for
\* the operators that associate to the right.
RightPower(op) == precedences(op) - (IF op \in {"^", ".."} THEN 1 ELSE 0)

\* left:name(args): the call of the name becomes a method call on left.
CalledOn(p, left) ==
    LET OnLeft(q) ==
            [q EXCEPT !.nodes[q.ret] = [@ EXCEPT !.kind = "MethodCall", !.left = left,
                                                 !.right = p.ret,
                                                 !.start = p.nodes[left].start],
                      !.nodes[left].parent = q.ret]
    IN  IF curr(p) \notin CallStart THEN [Fail(p) EXCEPT !.ret = left]
        ELSE OnLeft(parseCallArgs(p, p.ret))
MethodCall(p, left) == CalledOn(Leaf(p, "Ident"), left)

\* A failed member or method access gives back its receiver: a token was
\* consumed, so the loop of parseExpression makes progress.
Access(p, left, op) ==
    CASE ~isIdentOrKeyword(p) -> [Fail(p) EXCEPT !.ret = left]
      [] isIdentOrKeyword(p) /\ op = "." ->
           Ended(Leaf(p, "Ident"), "MemberExpr", p.nodes[left].start, left)
      [] OTHER -> MethodCall(p, left)

parseInfix(p) ==
    LET left  == p.ret
        start == p.nodes[left].start
        op    == curr(p)
        Binary(q) == AddNode(q, [Node("BinaryExpr", start, PrevEnd(q), left, q.ret)
                                 EXCEPT !.op = op])
        Index(q)  == AddNode(Expect(q, "]"), Node("IndexExpr", start, End(q), left, q.ret))
    IN  CASE op \in BinaryOps -> Binary(parseExpression(nextToken(p), RightPower(op)))
          [] op \in {".", ":"} -> Access(nextToken(p), left, op)
          [] op = "[" -> Index(parseExpression(nextToken(p), Lowest))
          [] OTHER -> parseCallArgs(p, left)

RECURSIVE Infixes(_, _)
Infixes(p, precedence) ==
    IF precedence < precedences(curr(p)) THEN Infixes(parseInfix(p), precedence) ELSE p

Operands(p, precedence) == IF p.ret = 0 THEN p ELSE Infixes(p, precedence)

parseExpression(p, precedence) ==
    IF p.depth >= MaxDepth THEN Invalid(Fail(p))
    ELSE [Operands(parsePrefix([p EXCEPT !.depth = @ + 1]), precedence) EXCEPT !.depth = @ - 1]

-----------------------------------------------------------------------------
(* Statements.                                                              *)
AfterExprs(lhs, start) ==
    LET Single(exprs) ==
            IF Len(exprs) = 1 /\ lhs.nodes[exprs[1]].kind \in {"CallExpr", "MethodCall"}
            THEN [lhs EXCEPT !.ret = exprs[1]]
            ELSE Invalid(Fail(lhs))
    IN  CASE lhs.ret = 0 -> lhs
          [] lhs.ret # 0 /\ curr(lhs) = "=" ->
               Ended(parseExprList(validateLHS(nextToken(lhs), lhs.ret)), "Assign", start, lhs.ret)
          [] OTHER -> Single(lhs.nodes[lhs.ret].extra)

parseAssignmentOrCall(p) == AfterExprs(parseExprList(p), Start(p))

\* The name of a function, empty when it is missing.
FunctionName(p) ==
    IF curr(p) \in Idents THEN Leaf(p, "Ident")
    ELSE AddNode(Fail(p), Node("Ident", Start(p), Start(p), 0, 0))

NamedFunction(p, kind, start) ==
    LET Whole(q) == AddNode(q, Node(kind, start, q.nodes[q.ret].end, p.ret, q.ret))
    IN  Whole(parseFunctionBody(p, start))

\* <const> or <close> after a name.
Attribute(p) ==
    IF curr(p) # "<" \/ peek(p) \notin Idents THEN p
    ELSE SkipOne(nextToken(nextToken(p)), ">")

RECURSIVE LocalItems(_)
LocalItems(p) ==
    LET More(q) == IF curr(q) = "," THEN LocalItems(nextToken(q)) ELSE q
    IN  IF curr(p) \notin Idents THEN Fail(p)
        ELSE More(Attribute(Push(Leaf(p, "Ident"))))

LocalValues(p, start) ==
    Ended(IF curr(p) = "=" THEN parseExprList(nextToken(p)) ELSE Invalid(p), "LocalAssign", start, p.ret)

LocalAssign(p, start) ==
    LET mark == Len(p.listStack)
        Names(q) ==
            flushListStack(q, mark,
                IF Len(q.listStack) = mark THEN Node("NameList", Start(q), Start(q), 0, 0)
                ELSE Node("NameList", q.nodes[q.listStack[mark + 1]].start,
                          q.nodes[Last(q.listStack)].end, 0, 0))
    IN  LocalValues(Names(LocalItems(p)), start)

parseLocal(p) ==
    IF peek(p) = "function"
    THEN NamedFunction(FunctionName(nextToken(nextToken(p))), "LocalFunction", Start(p))
    ELSE LocalAssign(nextToken(p), Start(p))

\* The block after the condition of an if or an elseif.
ThenBlock(p) == parseBlock(Expect(p, "then"), {"elseif", "else", "end"})

ElseIfBody(cond, start) == Ended(ThenBlock(cond), "ElseIf", start, cond.ret)

RECURSIVE ElseIfs(_)
ElseIfs(p) ==
    IF curr(p) # "elseif" THEN p
    ELSE ElseIfs(Push(ElseIfBody(parseExpression(nextToken(p), Lowest), Start(p))))

\* The else branch, pushed after its end.
ElseBranch(p) ==
    LET Else(q) == AddNode(q, Node("Else", Start(p), PrevEnd(q), q.ret, 0))
    IN  IF curr(p) = "else"
        THEN Push(Expect(Else(parseBlock(nextToken(p), {"end"})), "end"))
        ELSE Expect(p, "end")

\* p is where the if starts, q behind its condition's block.
IfBranches(p, q, cond) ==
    LET Whole(all) ==
            flushListStack(all, Len(p.listStack), Node("If", Start(p), PrevEnd(all), cond, q.ret))
    IN  Whole(ElseBranch(ElseIfs(q)))
IfBody(p, cond) == IfBranches(p, ThenBlock(cond), cond.ret)
parseIf(p) == IfBody(p, parseExpression(nextToken(p), Lowest))

ReturnValues(p) ==
    IF curr(p) \in {"end", "elseif", "else", "until", "EOF", ";"} THEN Invalid(p) ELSE parseExprList(p)

parseReturn(p) ==
    LET Whole(q) == AddNode(q, Node("Return", Start(p), PrevEnd(q), q.ret, 0))
    IN  Whole(SkipOne(ReturnValues(nextToken(p)), ";"))

LoopBody(p) ==
    [parseBlock([p EXCEPT !.loopDepth = @ + 1], {"end"}) EXCEPT !.loopDepth = @ - 1]

WhileBody(cond, start) ==
    LET Whole(q) == AddNode(Expect(q, "end"), Node("While", start, End(q), cond.ret, q.ret))
    IN  Whole(LoopBody(Expect(cond, "do")))
parseWhile(p) == WhileBody(parseExpression(nextToken(p), Lowest), Start(p))

Until(body, start) ==
    Ended(parseExpression(Expect([body EXCEPT !.loopDepth = @ - 1], "until"), Lowest),
          "Repeat", start, body.ret)
parseRepeat(p) ==
    Until(parseBlock([nextToken(p) EXCEPT !.loopDepth = @ + 1], {"until"}), Start(p))

Bound(p) == Push(parseExpression(p, Lowest))
Step(p) == IF curr(p) = "," THEN Bound(nextToken(p)) ELSE p

ForNum(p, start) ==
    LET Whole(q) == flushListStack(Expect(q, "end"), Len(p.listStack),
                                   Node("ForNum", start, End(q), p.ret, q.ret))
    IN  Whole(LoopBody(Expect(Step(Bound(Expect(Bound(nextToken(p)), ","))), "do")))

RECURSIVE ForNames(_)
ForNames(p) ==
    CASE curr(p) # "," -> p
      [] curr(p) = "," /\ peek(p) \in Idents -> ForNames(Push(Leaf(nextToken(p), "Ident")))
      [] OTHER -> Fail(nextToken(p))

\* The names are flushed before the expressions; the expression list is the
\* node's only extra.
ForInBody(exprs, names, start) ==
    LET Whole(q) == AddNode(Expect(q, "end"),
                        [Node("ForIn", start, End(q), names, q.ret) EXCEPT !.extra = <<exprs.ret>>])
    IN  Whole(LoopBody(Expect(exprs, "do")))
ForInExprs(names, start) == ForInBody(parseExprList(Expect(names, "in")), names.ret, start)
ForIn(p, start) ==
    LET Names(q) == flushListStack(q, Len(p.listStack),
                        Node("NameList", p.nodes[p.ret].start, PrevEnd(q), 0, 0))
    IN  ForInExprs(Names(ForNames(Push(p))), start)

ForLoop(p, start) == IF curr(p) = "=" THEN ForNum(p, start) ELSE ForIn(p, start)
parseFor(p) ==
    IF peek(p) \notin Idents THEN Invalid(Fail(nextToken(p)))
    ELSE ForLoop(Leaf(nextToken(p), "Ident"), Start(p))

\* .name, or :name when method, after the function name in p.ret.
NamePart(p, kind) ==
    Ended(Leaf(nextToken(p), "Ident"), kind, p.nodes[p.ret].start, p.ret)

RECURSIVE NameParts(_)
NameParts(p) ==
    CASE curr(p) # "." -> p
      [] curr(p) = "." /\ isIdentOrKeyword(nextToken(p)) -> NameParts(NamePart(p, "MemberExpr"))
      [] OTHER -> Fail(nextToken(p))

parseFunctionStmt(p) ==
    LET Method(q) == CASE curr(q) # ":" -> q
                       [] curr(q) = ":" /\ isIdentOrKeyword(nextToken(q)) ->
                            NamePart(q, "MethodName")
                       [] OTHER -> Fail(nextToken(q))
    IN  NamedFunction(Method(NameParts(FunctionName(nextToken(p)))), "FunctionStmt", Start(p))

parseDo(p) ==
    LET Whole(q) == AddNode(Expect(q, "end"), Node("Do", Start(p), End(q), q.ret, 0))
    IN  Whole(parseBlock(nextToken(p), {"end"}))

parseBreak(p) ==
    AddNode(nextToken(IF p.loopDepth = 0 THEN Fail(p) ELSE p),
            Node("Break", Start(p), End(p), 0, 0))

LabelName(p) == IF curr(p) \in Idents THEN Leaf(p, "Ident") ELSE Invalid(Fail(p))

parseGoto(p) ==
    LET Whole(q) == AddNode(q, Node("Goto", Start(p), PrevEnd(q), q.ret, 0))
    IN  Whole(LabelName(nextToken(p)))

parseLabel(p) ==
    LET Whole(q) == AddNode(q, Node("Label", Start(p), PrevEnd(q), q.ret, 0))
    IN  Whole(Expect(LabelName(nextToken(p)), "::"))

parseStatement(p) ==
    CASE curr(p) = "local"    -> parseLocal(p)
      [] curr(p) = "if"       -> parseIf(p)
      [] curr(p) = "return"   -> parseReturn(p)
      [] curr(p) = "while"    -> parseWhile(p)
      [] curr(p) = "repeat"   -> parseRepeat(p)
      [] curr(p) = "for"      -> parseFor(p)
      [] curr(p) = "do"       -> parseDo(p)
      [] curr(p) = "break"    -> parseBreak(p)
      [] curr(p) = "goto"     -> parseGoto(p)
      [] curr(p) = "::"       -> parseLabel(p)
      [] curr(p) = "function" -> parseFunctionStmt(p)
      [] OTHER                -> parseAssignmentOrCall(p)

\* The state after a statement: a failed one is skipped over, a return must
\* be the last of its block.
Kept(p, stops) ==
    CASE p.ret = 0 -> sync(p)
      [] p.ret # 0 /\ p.nodes[p.ret].kind = "Return" /\ curr(p) \notin stops \cup {"EOF"} ->
           Push(Fail(p))
      [] OTHER -> Push(p)

RECURSIVE Statements(_, _)
Statements(p, stops) ==
    CASE curr(p) \in stops \cup {"EOF"} -> p
      [] curr(p) = ";" -> Statements(nextToken(p), stops)
      [] OTHER -> Statements(Kept(parseStatement(p), stops), stops)

\* At the nesting limit the block is skipped, its stop token left to the caller.
parseBlock(p, stops) ==
    LET mark == Len(p.listStack)
        Whole(q) ==
            flushListStack([q EXCEPT !.blockDepth = @ - 1], mark,
                Node("Block", Start(p),
                     IF Len(q.listStack) > mark THEN q.nodes[Last(q.listStack)].end
                     ELSE Start(p), 0, 0))
    IN  IF p.blockDepth >= MaxBlockDepth
        THEN AddNode(SkipTo(Fail(p), stops \cup {"EOF"}),
                     Node("Block", Start(p), Start(p), 0, 0))
        ELSE Whole(Statements([p EXCEPT !.blockDepth = @ + 1], stops))

Parse(p) ==
    LET File(q) == AddNode(q, Node("File", 0, Size(p), q.ret, 0))
        Rooted(q) == [q EXCEPT !.root = q.ret]
    IN  Rooted(File(parseBlock(p, {"EOF"})))

=============================================================================
