---------------------------- MODULE LuaMeaning -----------------------------
(* What a Lua program does, from the Lua manual: the reference for what the *)
(* server says of a program and for the edits it makes in one.  A program   *)
(* runs in a world that decides the truth of what comes from outside: a     *)
(* global the program does not set is an external value, or absent from a   *)
(* world that has the library's globals only.  Its meaning is               *)
(* the trace of what the outside sees: calls of external values with their  *)
(* arguments, and assignments to globals and to fields of external values.  *)
(* Functions handed to the outside are called once the program has ended.   *)
(*                                                                          *)
(* Each operation takes the machine's state m to the state after it; vals   *)
(* are the values it leaves, out is "go" while control flows on.            *)
EXTENDS LuaResolver

CONSTANT Fuel  \* calls and loop rounds of a run

ASSUME FuelAssumption == Fuel \in Nat \ {0}

-----------------------------------------------------------------------------
(* Values: n is a rational number, s the pieces of a string, the name one   *)
(* of an external value, n also the identity of functions and tables.       *)
Value(k) == [k |-> k, n |-> <<0, 1>>, s |-> <<>>, name |-> ""]
Nil      == Value("nil")
Bool(b)  == Value(IF b THEN "true" ELSE "false")
External(name, i) == [Value("external") EXCEPT !.name = name, !.n = <<i, 1>>]
Truthy(v) == v.k \notin {"nil", "false"}

RECURSIVE GCD(_, _)
GCD(x, y) == IF y = 0 THEN x ELSE GCD(y, x % y)
Abs(x) == IF x < 0 THEN -x ELSE x
Ratio(x, y) ==
    LET g == GCD(Abs(x), Abs(y)) * (IF y < 0 THEN -1 ELSE 1)
    IN  <<(IF g < 0 THEN -x ELSE x) \div Abs(g), (IF g < 0 THEN -y ELSE y) \div Abs(g)>>
Number(q) == [Value("number") EXCEPT !.n = q]
IntOf(x) == Number(<<x, 1>>)
Floor(q) == q[1] \div q[2]
Whole(q) == q[2] = 1
Str(pieces) == [Value("string") EXCEPT !.s = pieces]

\* The hash of the one backtick string there is.
Hash == IntOf(3)

\* A string is made of pieces: the name it was written as, numbers made
\* strings.  A name after a dot is the string that spells it.
NamePiece == <<0, 0>>
Spelled(name) == [Str(<<NamePiece>>) EXCEPT !.name = name]
Pieces(v) == IF v.k = "string" THEN v.s ELSE <<v.n>>

RECURSIVE Power(_, _)
Power(q, e) ==
    CASE e = 0 -> <<1, 1>>
      [] e > 0 -> LET p == Power(q, e - 1) IN Ratio(q[1] * p[1], q[2] * p[2])
      [] OTHER -> LET p == Power(q, -e) IN Ratio(p[2], p[1])

\* A bitwise operation on the two's complement of two whole numbers.
RECURSIVE Bits(_, _, _)
Bits(op, x, y) ==
    LET Bit(c, d) == CASE op = "&" -> c * d
                       [] op = "|" -> IF c + d > 0 THEN 1 ELSE 0
                       [] op = "~" -> (c + d) % 2
    IN  IF x \in {0, -1} /\ y \in {0, -1} THEN -Bit(-x, -y)
        ELSE 2 * Bits(op, x \div 2, y \div 2) + Bit(x % 2, y % 2)

\* What two numbers give, by the manual; the shifts fill with zeros, which
\* for the small shifts of a non-negative number is a product or a quotient.
OnNumbers(op, q, p) ==
    CASE op = "+"  -> Number(Ratio(q[1] * p[2] + p[1] * q[2], q[2] * p[2]))
      [] op = "-"  -> Number(Ratio(q[1] * p[2] - p[1] * q[2], q[2] * p[2]))
      [] op = "*"  -> Number(Ratio(q[1] * p[1], q[2] * p[2]))
      [] op = "/"  -> Number(Ratio(q[1] * p[2], q[2] * p[1]))
      [] op = "//" -> IntOf(Floor(Ratio(q[1] * p[2], q[2] * p[1])))
      [] op = "%"  -> LET k == Floor(Ratio(q[1] * p[2], q[2] * p[1]))
                      IN  Number(Ratio(q[1] * p[2] - k * p[1] * q[2], q[2] * p[2]))
      [] op = "^"  -> Number(Power(q, p[1]))
      [] op \in {"&", "|", "~"} -> IntOf(Bits(op, q[1], p[1]))
      [] op = "<<" -> IntOf(q[1] * 2 ^ p[1])
      [] op = ">>" -> IntOf(q[1] \div 2 ^ p[1])
      [] op = "<"  -> Bool(q[1] * p[2] < p[1] * q[2])
      [] op = "<=" -> Bool(q[1] * p[2] <= p[1] * q[2])
      [] op = ">"  -> Bool(q[1] * p[2] > p[1] * q[2])
      [] op = ">=" -> Bool(q[1] * p[2] >= p[1] * q[2])

-----------------------------------------------------------------------------
(* The machine.  env is the stack of visible names with their cells, home   *)
(* the declaration each cell belongs to; funs and tabs are the functions    *)
(* and tables made; ran, seen and read record what the run did: the nodes   *)
(* that were evaluated, with their values, and the declarations read.       *)
Machine(t, world, absent) ==
    [t |-> t, world |-> world, absent |-> absent, out |-> "go", label |-> "", vals |-> <<>>, fuel |-> Fuel,
     env |-> <<>>, cells |-> <<>>, home |-> <<>>, dots |-> <<>>, funs |-> <<>>, tabs |-> <<>>,
     globals |-> <<>>, trace |-> <<>>, handed |-> <<>>, ran |-> {}, seen |-> {}, read |-> {}]

N(m, id) == m.t.nodes[id]
K(m, id) == IF id = 0 THEN "Invalid" ELSE m.t.nodes[id].kind
Spells(m, id) == source(m.t, id)

Give(m, vs) == [m EXCEPT !.vals = vs]
Stop(m, why) == [m EXCEPT !.out = why, !.vals = <<>>]
First(m) == IF m.vals = <<>> THEN Nil ELSE m.vals[1]
Nth(vs, i) == IF i <= Len(vs) THEN vs[i] ELSE Nil
On(m, Op(_)) == IF m.out = "go" THEN Op(m) ELSE m

\* What the outside sees of a value.
Seen(v) == IF v.k \in {"function", "table"} THEN Value(v.k) ELSE v
Handing(m, v) == IF v.k = "function" THEN [m EXCEPT !.handed = Append(@, v)] ELSE m
Observe(m, name, vs) ==
    FoldLeft(Handing, [m EXCEPT !.trace = Append(@, <<name, [i \in DOMAIN vs |-> Seen(vs[i])]>>)], vs)

CellOf(m, name) == SelectLastInSeq(m.env, LAMBDA e : e.name = name)

Bind(m, name, decl, v) ==
    [m EXCEPT !.env = Append(@, [name |-> name, cell |-> Len(m.cells) + 1]),
              !.cells = Append(@, v), !.home = Append(@, decl)]

\* Names declared with values, the first with the first.
BindAll(m, decls, vs) ==
    FoldLeft(LAMBDA q, i : Bind(q, Spells(q, decls[i]), decls[i], Nth(vs, i)), m,
             [i \in DOMAIN decls |-> i])

\* Functions of Lua's library, which only read.
Library == {"type"}

Get(m, name) ==
    LET i == CellOf(m, name)
        g == SelectInSeq(m.globals, LAMBDA e : e.name = name)
    IN  IF i # 0
        THEN [Give(m, <<m.cells[m.env[i].cell]>>) EXCEPT !.read = @ \cup {m.home[m.env[i].cell]}]
        ELSE Give(m, <<CASE g # 0 -> m.globals[g].v
                         [] g = 0 /\ m.absent /\ name \notin Library -> Nil
                         [] OTHER -> External(name, 0)>>)

Set(m, name, v) ==
    LET i == CellOf(m, name)
        others == SelectSeq(m.globals, LAMBDA e : e.name # name)
    IN  IF i # 0 THEN [m EXCEPT !.cells[m.env[i].cell] = v]
        ELSE Observe([m EXCEPT !.globals = Append(others, [name |-> name, v |-> v])], name, <<v>>)

Entry(m, tab, key) == SelectInSeq(m.tabs[tab.n[1]], LAMBDA e : e.key = key)

Index(m, v, key) ==
    CASE v.k = "table" ->
           Give(m, <<IF Entry(m, v, key) = 0 THEN Nil ELSE m.tabs[v.n[1]][Entry(m, v, key)].v>>)
      [] v.k = "external" -> Give(m, <<External(key.name, v.n[1])>>)
      [] OTHER -> Stop(m, "error")

Put(m, v, key, val) ==
    CASE v.k = "table" ->
           [m EXCEPT !.tabs[v.n[1]] =
               Append(SelectSeq(@, LAMBDA e : e.key # key), [key |-> key, v |-> val])]
      [] v.k = "external" -> Observe(m, key.name, <<v, val>>)
      [] OTHER -> Stop(m, "error")

\* The key that a name after a dot stands for.
KeyOf(m, id) == Spelled(Spells(m, id))

Unary1(m, op, v) ==
    CASE op = "not" -> Give(m, <<Bool(~Truthy(v))>>)
      [] op = "-" /\ v.k = "number" -> Give(m, <<Number(<<-v.n[1], v.n[2]>>)>>)
      [] op = "~" /\ v.k = "number" -> Give(m, <<IntOf(-v.n[1] - 1)>>)
      [] op = "#" /\ v.k = "string" -> Give(m, <<IntOf(Len(v.s))>>)
      [] v.k = "external" -> Give(m, <<External(op, v.n[1])>>)
      [] OTHER -> Stop(m, "error")

Binary1(m, op, v, w) ==
    CASE op \in {"==", "~="} ->
           Give(m, <<Bool((op = "==") <=> (IF "external" \in {v.k, w.k} THEN v = w \/ m.world
                                                                        ELSE v = w))>>)
      [] op = ".." /\ {v.k, w.k} \subseteq {"number", "string"} ->
           Give(m, <<Str(Pieces(v) \o Pieces(w))>>)
      [] op \notin {"..", "==", "~="} /\ {v.k, w.k} = {"number"} ->
           IF op \in {"&", "|", "~", "<<", ">>"} /\ ~(Whole(v.n) /\ Whole(w.n)) THEN Stop(m, "error")
           ELSE Give(m, <<OnNumbers(op, v.n, w.n)>>)
      [] "external" \in {v.k, w.k} /\ op \notin {"==", "~="} ->
           Give(m, <<CASE op \in {"<", "<="} -> Bool(m.world)
                       [] op \in {">", ">="} -> Bool(~m.world)
                       [] OTHER -> External(op, 0)>>)
      [] OTHER -> Stop(m, "error")

-----------------------------------------------------------------------------
(* Expressions.                                                             *)
RECURSIVE Eval(_, _), Run(_, _)

RECURSIVE EvalAll(_, _, _)
EvalAll(m, ids, got) ==
    LET Next1(q) == EvalAll(q, Tail(ids),
                            got \o (IF Len(ids) = 1 THEN q.vals ELSE <<First(q)>>))
    IN  IF ids = <<>> THEN Give(m, got) ELSE On(Eval(m, Head(ids)), Next1)

\* A function's body runs in the environment it was made in.
Enter(m, fun, vs) ==
    LET f == N(m, fun.node)
        named == SelectSeq(f.extra, LAMBDA d : K(m, d) = "Ident")
        self == IF fun.method = 0 THEN <<>> ELSE <<fun.method>>
        rest == SubSeq(vs, Len(named) + Len(self) + 1, Len(vs))
        Inside(q) == BindAll(IF fun.method = 0 THEN q ELSE Bind(q, "self", fun.method, Nth(vs, 1)),
                             named, SubSeq(vs, Len(self) + 1, Len(vs)))
        Back(q) == [q EXCEPT !.env = m.env, !.dots = m.dots,
                             !.out = IF @ = "return" THEN "go" ELSE @,
                             !.vals = IF q.out = "return" THEN @ ELSE <<>>]
    IN  Back(Run(Inside([m EXCEPT !.env = fun.env, !.dots = rest, !.fuel = @ - 1, !.vals = <<>>]),
                 f.right))

Call(m, f, vs) ==
    LET result == IF m.world THEN External("", Len(m.trace) + 1) ELSE Bool(FALSE)
    IN  CASE f.k = "external" /\ f.name \in Library -> Give(m, <<External("", 0)>>)
          [] f.k = "external" /\ f.name \notin Library -> Give(Observe(m, f.name, vs), <<result>>)
          [] f.k = "function" /\ m.fuel > 0 -> Enter(m, m.funs[f.n[1]], vs)
          [] f.k = "function" /\ m.fuel = 0 -> Stop(m, "fuel")
          [] OTHER -> Stop(m, "error")

Closure(m, id, method) ==
    LET f == [Value("function") EXCEPT !.n = <<Len(m.funs) + 1, 1>>]
    IN  Give([m EXCEPT !.funs = Append(@, [node |-> id, env |-> m.env, method |-> method])], <<f>>)

Table(m, id) ==
    LET fields == N(m, id).extra
        tab == [Value("table") EXCEPT !.n = <<Len(m.tabs) + 1, 1>>]
        Keyed1(q, f, key) == LET Store(p) == Put(p, tab, key, First(p))
                             IN  On(Eval(q, N(q, f).right), Store)
        Item(q, i) == LET Store(p) == Put(p, tab, IntOf(i), First(p))
                      IN  On(Eval(q, fields[i]), Store)
        Add(q, i) ==
            LET f == fields[i]
                WithKey(p) == Keyed1(p, f, First(p))
            IN  CASE q.out # "go" -> q
                  [] q.out = "go" /\ K(q, f) = "RecordField" -> Keyed1(q, f, KeyOf(q, N(q, f).left))
                  [] q.out = "go" /\ K(q, f) = "IndexField" -> On(Eval(q, N(q, f).left), WithKey)
                  [] OTHER -> Item(q, i)
        Made(q) == Give(q, <<tab>>)
    IN  On(FoldLeft(Add, [m EXCEPT !.tabs = Append(@, <<>>)], [i \in DOMAIN fields |-> i]), Made)

EvalNode(m, id) ==
    LET n == N(m, id)
        op == IF K(m, id) = "UnaryExpr" THEN m.t.src[n.start \div 2 + 1] ELSE n.op
        Args(q, f, self) ==
            LET Do(p) == Call(p, f, self \o p.vals) IN On(EvalAll(q, n.extra, <<>>), Do)
        Callee(q) == Args(q, First(q), <<>>)
        Method(q) == LET Found(p) == Args(p, First(p), <<First(q)>>)
                     IN  On(Index(q, First(q), KeyOf(q, n.right)), Found)
        Member(q) == Index(q, First(q), KeyOf(q, n.right))
        Element(q) == LET At(p) == Index(p, First(q), First(p)) IN On(Eval(q, n.right), At)
        Left(q) == LET Both(p) == Binary1(p, op, First(q), First(p)) IN On(Eval(q, n.right), Both)
        Short(q) == IF Truthy(First(q)) = (op = "and") THEN Eval(q, n.right)
                    ELSE Give(q, <<First(q)>>)
        Applied(q) == Unary1(q, op, First(q))
        Single(q) == Give(q, <<First(q)>>)
    IN  CASE K(m, id) = "Nil"    -> Give(m, <<Nil>>)
          [] K(m, id) = "True"   -> Give(m, <<Bool(TRUE)>>)
          [] K(m, id) = "False"  -> Give(m, <<Bool(FALSE)>>)
          [] K(m, id) = "Number" -> Give(m, <<IntOf(Numbers[Spells(m, id)])>>)
          [] K(m, id) = "String" -> Give(m, <<Spelled("b")>>)
          [] K(m, id) = "HashedString" -> Give(m, <<Hash>>)
          [] K(m, id) = "Vararg" -> Give(m, m.dots)
          [] K(m, id) = "Ident"  -> Get(m, Spells(m, id))
          [] K(m, id) = "ParenExpr" -> On(Eval(m, n.left), Single)
          [] K(m, id) = "FunctionExpr" -> Closure(m, id, 0)
          [] K(m, id) = "TableExpr"  -> Table(m, id)
          [] K(m, id) = "CallExpr"   -> On(Eval(m, n.left), Callee)
          [] K(m, id) = "MethodCall" -> On(Eval(m, n.left), Method)
          [] K(m, id) = "MemberExpr" -> On(Eval(m, n.left), Member)
          [] K(m, id) = "IndexExpr"  -> On(Eval(m, n.left), Element)
          [] K(m, id) = "UnaryExpr"  -> On(Eval(m, n.right), Applied)
          [] K(m, id) = "BinaryExpr" ->
               IF op \in {"and", "or"} THEN On(Eval(m, n.left), Short) ELSE On(Eval(m, n.left), Left)

Eval(m, id) ==
    LET Note(q) == [q EXCEPT !.seen = @ \cup {<<id, First(q)>>}]
    IN  On(EvalNode([m EXCEPT !.ran = @ \cup {id}], id), Note)

-----------------------------------------------------------------------------
(* Statements.                                                              *)
List(m, id) == IF id = 0 THEN <<>> ELSE N(m, id).extra

\* A target of an assignment: its receiver and key are evaluated first.
Aim(m, id) ==
    LET n == N(m, id)
        Member(q) == Give(q, <<First(q), KeyOf(q, n.right)>>)
        Element(q) == LET At(p) == Give(p, <<First(q), First(p)>>) IN On(Eval(q, n.right), At)
    IN  CASE n.kind = "Ident" -> Give(m, <<>>)
          [] n.kind = "IndexExpr" -> On(Eval(m, n.left), Element)
          [] OTHER -> On(Eval(m, n.left), Member)

Store(m, id, aim, v) ==
    IF m.out # "go" THEN m
    ELSE IF aim = <<>> THEN Set(m, Spells(m, id), v) ELSE Put(m, aim[1], aim[2], v)

RECURSIVE Aims(_, _, _)
Aims(m, ids, aims) ==
    LET Next1(q) == IF q.out # "go" THEN [m |-> q, aims |-> aims]
                    ELSE Aims(q, Tail(ids), Append(aims, q.vals))
    IN  IF ids = <<>> THEN [m |-> m, aims |-> aims]
        ELSE Next1(Aim(m, Head(ids)))

Assigns(m, lhs, rhs) ==
    LET Values(a) ==
            LET Stored(q) == FoldLeft(LAMBDA p, i : Store(p, lhs[i], a.aims[i], Nth(q.vals, i)), q,
                                      [i \in DOMAIN lhs |-> i])
            IN  IF a.m.out # "go" THEN a.m ELSE On(EvalAll(a.m, rhs, <<>>), Stored)
    IN  Values(Aims(m, lhs, <<>>))

\* The branch of an if that runs.
RECURSIVE Branch(_, _)
Branch(m, arms) ==
    LET arm == Head(arms)
        Choose(q) == IF Truthy(First(q)) THEN Run(q, N(q, arm).right) ELSE Branch(q, Tail(arms))
    IN  IF arms = <<>> THEN m
        ELSE IF K(m, arm) = "Else" THEN Run(m, N(m, arm).left)
        ELSE On(Eval([m EXCEPT !.ran = @ \cup {arm}], N(m, arm).left), Choose)

AfterRound(m) == [m EXCEPT !.out = IF @ = "break" THEN "go" ELSE @]
Refuel(m) == IF m.fuel = 0 THEN Stop(m, "fuel") ELSE [m EXCEPT !.fuel = @ - 1]

RECURSIVE While(_, _)
While(m, id) ==
    LET Again(q) == IF q.out = "go" THEN While(q, id) ELSE AfterRound(q)
        Round(q) == IF Truthy(First(q)) THEN Again(Run(q, N(q, id).right)) ELSE q
        Test(q) == On(Eval(q, N(q, id).left), Round)
    IN  On(Refuel(m), Test)

RECURSIVE ForRounds(_, _, _, _, _)
ForRounds(m, id, x, stop, step) ==
    LET n == N(m, id)
        Body(q) == [Run(BindAll(q, <<n.left>>, <<IntOf(x)>>), n.right) EXCEPT !.env = m.env]
        Then(q) == IF q.out = "go" THEN ForRounds(q, id, x + step, stop, step) ELSE AfterRound(q)
    IN  IF (step > 0 /\ x > stop) \/ (step < 0 /\ x < stop) THEN m
        ELSE IF m.fuel = 0 THEN Stop(m, "fuel") ELSE Then(Body(Refuel(m)))

\* Bounds from outside let the world decide on one round.
ForNumRun(m, id) ==
    LET n == N(m, id)
        Loop(q) ==
            LET vs == q.vals
                step == IF Len(vs) = 3 THEN vs[3].n[1] ELSE 1
                outer == [Run(BindAll(q, <<n.left>>, <<External("", 0)>>), n.right) EXCEPT !.env = m.env]
            IN  IF \A i \in DOMAIN vs : vs[i].k = "number"
                THEN IF step = 0 THEN Stop(q, "error")
                     ELSE ForRounds(q, id, vs[1].n[1], vs[2].n[1], step)
                ELSE IF \E i \in DOMAIN vs : vs[i].k = "external"
                THEN IF q.world THEN AfterRound(outer) ELSE q
                ELSE Stop(q, "error")
    IN  On(EvalAll(m, n.extra, <<>>), Loop)

ForInRun(m, id) ==
    LET n == N(m, id)
        decls == N(m, n.left).extra
        outer(q) == [Run(BindAll(q, decls, [i \in DOMAIN decls |-> External("", i)]), n.right)
                     EXCEPT !.env = m.env]
        Loop(q) == CASE First(q).k = "external" -> IF q.world THEN AfterRound(outer(q)) ELSE q
                     [] OTHER -> Stop(q, "error")
    IN  On(EvalAll(m, List(m, n.extra[1]), <<>>), Loop)

\* The statements of a block from the i-th on; a goto continues behind its
\* label when the block has it, with the names visible there.
RECURSIVE Steps(_, _, _, _)
Steps(m, ids, i, base) ==
    LET Declares(k) == CASE K(m, ids[k]) = "LocalAssign" -> Len(N(m, N(m, ids[k]).left).extra)
                         [] K(m, ids[k]) = "LocalFunction" -> 1
                         [] OTHER -> 0
        visible(j) == base + FoldLeft(LAMBDA s, k : s + Declares(k), 0, [k \in 1 .. j |-> k])
        target(q) == SelectInSeq(ids, LAMBDA s : K(q, s) = "Label"
                                                 /\ Spells(q, N(q, s).left) = q.label)
        Jump(q, j) == Steps([q EXCEPT !.out = "go", !.label = "",
                                      !.env = SubSeq(@, 1, IF visible(j) < Len(@) THEN visible(j)
                                                                                 ELSE Len(@))],
                            ids, j + 1, base)
        After(q) == CASE q.out = "go" -> Steps(q, ids, i + 1, base)
                      [] q.out = "goto" /\ target(q) # 0 ->
                           IF q.fuel = 0 THEN Stop(q, "fuel") ELSE Jump(Refuel(q), target(q))
                      [] OTHER -> q
    IN  IF i > Len(ids) THEN m ELSE After(Run(m, ids[i]))

RECURSIVE Repeat(_, _)
Repeat(m, id) ==
    LET Test(q) == On(Eval(q, N(q, id).right), LAMBDA p : p)
        Then(q) == CASE q.out # "go" -> AfterRound([q EXCEPT !.env = m.env])
                     [] q.out = "go" /\ Truthy(First(q)) -> [q EXCEPT !.env = m.env]
                     [] OTHER -> Repeat([q EXCEPT !.env = m.env], id)
        Body(q) == Then(On(Steps(q, N(q, N(q, id).left).extra, 1, Len(q.env)), Test))
    IN  On(Refuel(m), Body)

RunNode(m, id) ==
    LET n == N(m, id)
        Locals(q) == BindAll(q, N(q, n.left).extra, q.vals)
        Made(q) == [q EXCEPT !.cells[Len(q.cells)] = First(q)]
        Defined(q) == LET Into(p) == Store(p, n.left, p.vals, First(q)) IN On(Aim(q, n.left), Into)
        Finish(q) == [q EXCEPT !.out = "return"]
    IN  CASE K(m, id) = "File"  -> Run(m, n.left)
          [] K(m, id) = "Block" -> [Steps(m, n.extra, 1, Len(m.env)) EXCEPT !.env = m.env]
          [] K(m, id) = "Do"    -> Run(m, n.left)
          [] K(m, id) = "LocalAssign" -> On(EvalAll(m, List(m, n.right), <<>>), Locals)
          [] K(m, id) = "LocalFunction" ->
               Made(Closure(Bind(m, Spells(m, n.left), n.left, Nil), n.right, 0))
          [] K(m, id) = "FunctionStmt" ->
               Defined(Closure(m, n.right, IF K(m, n.left) = "MethodName" THEN n.left ELSE 0))
          [] K(m, id) = "Assign" -> Assigns(m, N(m, n.left).extra, List(m, n.right))
          [] K(m, id) = "Return" -> On(EvalAll(m, List(m, n.left), <<>>), Finish)
          [] K(m, id) = "If"     -> Branch(m, <<id>> \o n.extra)
          [] K(m, id) = "While"  -> While(m, id)
          [] K(m, id) = "Repeat" -> Repeat(m, id)
          [] K(m, id) = "ForNum" -> ForNumRun(m, id)
          [] K(m, id) = "ForIn"  -> ForInRun(m, id)
          [] K(m, id) = "Break"  -> Stop(m, "break")
          [] K(m, id) = "Goto"   -> [Stop(m, "goto") EXCEPT !.label = Spells(m, n.left)]
          [] K(m, id) = "Label"  -> m
          [] OTHER -> Eval(m, id)

Run(m, id) == RunNode([m EXCEPT !.ran = @ \cup {id}], id)

\* What the program hands out: what it returns, then what its functions do
\* when the outside calls them.
RECURSIVE CallHanded(_, _)
CallHanded(m, i) ==
    LET Next1(q) == CallHanded([q EXCEPT !.out = IF @ = "error" THEN "go" ELSE @], i + 1)
    IN  IF i > Len(m.handed) THEN m
        ELSE Next1(Call(m, m.handed[i], <<External("x", i), External("y", i)>>))

Ran(t, world, absent) ==
    LET Observed(m) == CASE m.out = "return" /\ m.vals # <<>> -> Observe([m EXCEPT !.out = "go"], "return", m.vals)
                      [] m.out = "error"  -> Observe([m EXCEPT !.out = "go"], "error", <<>>)
                      [] OTHER -> m
    IN  CallHanded(Observed(Run(Machine(t, world, absent), t.root)), 1)

Failed(m) == \E i \in DOMAIN m.trace : m.trace[i][1] = "error"

\* Two programs mean the same when no observer tells them apart in a world
\* where both end and the first runs without an error.
SameMeaning(t, u) ==
    \A world \in BOOLEAN :
        LET Same(m, q) == "fuel" \in {m.out, q.out} \/ Failed(m) \/ m.trace = q.trace
        IN  Same(Ran(t, world, FALSE), Ran(u, world, FALSE))
=============================================================================
