---------------------------- MODULE LuaDocument ----------------------------
(* A document under edit: with every change of its text updateDocument      *)
(* resets the shared parser and the document's resolver, parses and         *)
(* resolves (lsp/workspace.go).  The reference definitions say what a tree  *)
(* and its bindings must be, from Lua's grammar and scoping rules, without  *)
(* following the parser or the walk.                                        *)
EXTENDS LuaResolver

CONSTANT Drafts  \* what may be typed: records of a start, phrases and a bound

ASSUME DraftsAssumption == \A d \in Drafts : d.max \in Nat

VARIABLES
    draft,   \* the kind of text being typed
    typed,   \* number of edits made
    before,  \* tokens before the cursor
    after,   \* pieces after the cursor: what closes the constructs typed
    names    \* the resolver when it returned, with the tree it walked
vars == <<draft, typed, before, after, names>>

\* The tree, with the parser's counters when it returned.
tree == names.tree

Text(left, pieces) == left \o FlattenSeq(pieces)

updateDocument(text) == Resolve(Parse(Reset(text)))

Init ==
    /\ draft \in Drafts
    /\ typed = 0
    /\ before = draft.open
    /\ after = draft.close
    /\ names = updateDocument(Text(before, after))

\* The cursor moves behind k of the pieces and the editor inserts a phrase
\* there, with what closes it behind.
Type(phrase, k) ==
    /\ typed < draft.max
    /\ typed' = typed + 1
    /\ before' = Text(before, SubSeq(after, 1, k)) \o phrase.open
    /\ after' = phrase.close \o SubSeq(after, k + 1, Len(after))
    /\ names' = updateDocument(Text(before', after'))
    /\ UNCHANGED draft

Next == \E phrase \in draft.phrases, k \in 0 .. Len(after) : Type(phrase, k)

Spec == Init /\ [][Next]_vars

-----------------------------------------------------------------------------
(* The tree as a reader of the source expects it.                           *)
Accepted == tree.errors = 0
Nodes == tree.nodes
KindOf(i) == IF i = 0 THEN "Invalid" ELSE Nodes[i].kind
Children(i) == ({Nodes[i].left, Nodes[i].right} \cup ToSet(Nodes[i].extra)) \ {0}

RECURSIVE Subtree(_)
Subtree(i) == {i} \cup UNION {Subtree(c) : c \in Children(i)}
Attached == Subtree(tree.root)

\* An empty block stands at the token after it.
Within(i, j) ==
    \/ Nodes[i].start = Nodes[i].end
    \/ Nodes[j].start <= Nodes[i].start /\ Nodes[i].end <= Nodes[j].end
Disjoint(i, j) == Nodes[i].end <= Nodes[j].start \/ Nodes[j].end <= Nodes[i].start

\* The tokens that a leaf of the tree must stand for.
Words ==
    {k \in DOMAIN tree.src :
        /\ tree.src[k] \in DOMAIN LeafKinds
        /\ ~(k > 1 /\ tree.src[k - 1] = "<" /\ Token(tree, k + 1) = ">")}

(* Whatever is typed, the parser ends with its counters and its list stack  *)
(* as it found them, every node lies within the source and the tree's       *)
(* children name it as their parent.  When it reports no error the tree is  *)
(* the source: children nest, siblings are apart (a function's body starts  *)
(* before its name) and every word is exactly one leaf of it, so no list    *)
(* took a node of another and none was dropped.                             *)
TreeSpellsSource ==
    /\ tree.listStack = <<>> /\ tree.depth = 0 /\ tree.blockDepth = 0 /\ tree.loopDepth = 0
    /\ \A i \in DOMAIN Nodes :
          Nodes[i].start <= Nodes[i].end /\ Nodes[i].end <= Size(tree)
    /\ \A i \in Attached : \A c \in Children(i) : Nodes[c].parent = i
    /\ Accepted =>
          /\ \A i \in Attached : \A c \in Children(i) :
                /\ Within(c, i)
                /\ \A d \in Children(i) \ {c} :
                      Disjoint(c, d) \/ KindOf(i) \in {"LocalFunction", "FunctionStmt"}
          /\ \A k \in Words : \E leaf \in Attached :
                {i \in Attached : /\ Children(i) = {} /\ Nodes[i].start < Nodes[i].end
                                  /\ Nodes[i].start = TokenStart(tree, k)} = {leaf}

\* Lua's operators from the loosest to the tightest (manual, 3.4.8); "unary"
\* stands for the unary ones.
BindingOrder ==
    << {"or"}, {"and"}, {"<", ">", "<=", ">=", "~=", "=="}, {"|"}, {"~"}, {"&"},
       {"<<", ">>"}, {".."}, {"+", "-"}, {"*", "/", "//", "%"}, {"unary"}, {"^"} >>
Binds(op) == CHOOSE n \in DOMAIN BindingOrder : op \in BindingOrder[n]
OperatorOf(i) ==
    CASE KindOf(i) = "BinaryExpr" -> {Nodes[i].op}
      [] KindOf(i) = "UnaryExpr"  -> {"unary"}
      [] OTHER -> {}
Groups(right) == IF right THEN {"^", ".."} ELSE UNION {BindingOrder[n] : n \in 1 .. 10} \ {".."}

(* In an accepted source operands are grouped by Lua's precedence and       *)
(* associativity: an operator without parentheses below another binds       *)
(* tighter, or as tightly on the side it associates to; a unary operator    *)
(* yields to ^ alone, and suffixes bind tighter than every operator.        *)
OperatorsGroup ==
    Accepted => \A i \in Attached :
        /\ \A op \in OperatorOf(i) :
              /\ \A o \in OperatorOf(Nodes[i].left) :
                    Binds(o) > Binds(op) \/ (Binds(o) = Binds(op) /\ op \in Groups(FALSE))
              /\ \A o \in OperatorOf(Nodes[i].right) :
                    \/ o = "unary" \/ Binds(o) > Binds(op)
                    \/ Binds(o) = Binds(op) /\ op \in Groups(TRUE)
        /\ KindOf(i) \in {"MemberExpr", "IndexExpr", "CallExpr", "MethodCall"} =>
              OperatorOf(Nodes[i].left) = {}

-----------------------------------------------------------------------------
(* Lua's scopes as stretches of source: a declaration is visible from one   *)
(* place of the text to another, and the latest visible one is meant.       *)
BlockEnd(b) ==
    IF KindOf(Nodes[b].parent) = "Repeat" THEN Nodes[Nodes[b].parent].end ELSE Nodes[b].end

\* ids are declared in the scope of owner and visible on [from, to).
Declare(ids, owner, from, to) ==
    {[id |-> d, name |-> source(tree, d), owner |-> owner, from |-> from, to |-> to] : d \in ids}

DeclaredBy(i) ==
    LET n == Nodes[i]
        Body == Nodes[n.right]
    IN  CASE n.kind = "LocalAssign" ->
               Declare(ToSet(Nodes[n.left].extra), n.parent, n.end, BlockEnd(n.parent))
          [] n.kind = "LocalFunction" ->
               Declare({n.left}, n.parent, Nodes[n.left].start, BlockEnd(n.parent))
          [] n.kind = "ForNum" -> Declare({n.left}, i, Body.start, Body.end)
          [] n.kind = "ForIn" -> Declare(ToSet(Nodes[n.left].extra), i, Body.start, Body.end)
          [] n.kind = "FunctionExpr" -> Declare(ToSet(n.extra), i, Body.start, Body.end)
          [] OTHER -> {}
Declarations == UNION {DeclaredBy(i) : i \in Attached}

\* The latest of a set of declarations, as a set of at most one.
Latest(ds) == {d \in ds : \A e \in ds : Nodes[e.id].start <= Nodes[d.id].start}
VisibleAt(name, place, decls) ==
    {d.id : d \in Latest({e \in decls : e.name = name /\ e.from <= place /\ place < e.to})}

\* The method whose body place is in, as a set of at most one.
SelfAt(place) ==
    LET methods == {i \in Attached : /\ KindOf(i) = "FunctionStmt"
                                     /\ KindOf(Nodes[i].left) = "MethodName"
                                     /\ Nodes[Nodes[i].left].end <= place
                                     /\ place < Nodes[i].end}
    IN  {Nodes[i].left : i \in {m \in methods :
                                   \A o \in methods : Nodes[o].start <= Nodes[m].start}}

FieldSites == {i \in Attached : KindOf(i) \in {"MemberExpr", "MethodName", "MethodCall"}}
Keys == {Nodes[i].right : i \in FieldSites} \cup
        {Nodes[i].left : i \in {j \in Attached : KindOf(j) \in {"RecordField", "Goto", "Label"}}}
Uses(decls) ==
    {i \in Attached : KindOf(i) \in {"Ident", "Vararg"}} \ (Keys \cup {d.id : d \in decls})

\* The names that a statement assigns or defines.
Assigned(i) ==
    CASE KindOf(i) = "Assign" -> ToSet(Nodes[Nodes[i].left].extra)
      [] KindOf(i) = "FunctionStmt" -> {Nodes[i].left}
      [] OTHER -> {}
Definitions == UNION {Assigned(i) : i \in Attached}

(* In an accepted source every use of a variable is linked to the latest    *)
(* declaration visible at its place, or to the method whose self it is, and *)
(* to none exactly when it is a global, listed as defined or as read; and   *)
(* the duplicate and shadowing warnings name a declaration and the one it   *)
(* repeats in its own scope or hides from an outer one.                     *)
VariablesBind ==
    LET decls == Declarations
        globals == ToSet(names.GlobalDefs) \cup ToSet(names.GlobalRefs)
        warned == {d \in decls : d.name \notin Ignored}
        repeats == {d \in warned : \E e \in decls :
                       /\ e.name = d.name /\ e.owner = d.owner
                       /\ Nodes[e.id].start < Nodes[d.id].start}
        Hidden(d) == VisibleAt(d.name, Nodes[d.id].start, decls \ {d})
    IN  /\ \A u \in Uses(decls) :
              LET name == source(tree, u)
                  visible == VisibleAt(name, Nodes[u].start, decls)
                  meant == IF visible = {} /\ name = "self" THEN SelfAt(Nodes[u].start)
                                                            ELSE visible
              IN  /\ names.References[u] = IF meant = {} THEN 0 ELSE CHOOSE d \in meant : TRUE
                  /\ (u \in globals) <=> (meant = {} /\ name # "self")
        /\ globals \subseteq Uses(decls)
        /\ ToSet(names.GlobalDefs) = globals \cap Definitions
        /\ ToSet(names.LocalDefs) = {d.id : d \in decls}
        /\ ToSet(names.DuplicateLocals) = {d.id : d \in repeats}
        /\ {<<s.Shadowing, s.Shadowed>> : s \in ToSet(names.ShadowedOuter)} =
              UNION {{d.id} \X Hidden(d) : d \in warned \ repeats}

\* The receiver of a field: what its first name is bound to and the names.
RECURSIVE ReceiverOf(_)
ReceiverOf(i) ==
    CASE KindOf(i) = "Ident" -> <<names.References[i], source(tree, i)>>
      [] KindOf(i) = "MemberExpr" ->
           IF ReceiverOf(Nodes[i].left) = <<>> THEN <<>>
           ELSE Append(ReceiverOf(Nodes[i].left), source(tree, Nodes[i].right))
      [] OTHER -> <<>>

(* In an accepted source a field of a variable is linked to the earliest    *)
(* place that defines that field of the same variable, wherever the use is, *)
(* never to one of another variable of the same name.                       *)
FieldsBind ==
    LET Key(i) == <<ReceiverOf(Nodes[i].left), source(tree, Nodes[i].right)>>
        defs == {i \in FieldSites \cap Definitions : ReceiverOf(Nodes[i].left) # <<>>}
        First(key) == {Nodes[i].right : i \in {d \in defs : Key(d) = key /\
                          \A e \in defs : Key(e) = key =>
                              Nodes[d].end <= Nodes[e].end}}
    IN  \A i \in FieldSites :
            names.References[Nodes[i].right] =
                IF First(Key(i)) = {} THEN 0 ELSE CHOOSE d \in First(Key(i)) : TRUE

(* The resolver's links, lists and warnings of an accepted source are those *)
(* of Lua's scoping rules, for variables and for fields (visit, declare,    *)
(* resolveReference, defineField and the pending fields of Resolve).  A     *)
(* local named self hides the self of a method inside its scope, which is   *)
(* where the resolver departs from Lua.                                     *)
NamesBind == Accepted => VariablesBind /\ FieldsBind
=============================================================================
