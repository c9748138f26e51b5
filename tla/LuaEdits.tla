------------------------------ MODULE LuaEdits -----------------------------
(* A document whose author types and then lets the server edit: a rename,   *)
(* the fix of a diagnostic, all the safe fixes of the file or a             *)
(* refactoring.  The edits are made for the text they were asked for, the   *)
(* editor applies them and the document is analysed again.  What the server *)
(* says of a program, and what its edits do to it, is compared with what    *)
(* the program does.                                                        *)
EXTENDS LuaDocument, LuaScopes, LuaFixes

CONSTANT FreshName  \* what a variable or a field is renamed to

ASSUME FreshAssumption == FreshName \in Idents

VARIABLE command    \* the last request for edits, with the edits still to apply

NoCommand == [kind |-> "none", detail |-> "", node |-> 0, edits |-> <<>>]
editVars == <<vars, command>>

EditsInit == Init /\ command = NoCommand

Typing ==
    /\ command = NoCommand
    /\ Next
    /\ UNCHANGED command

\* A request about a program without errors is answered with edits.
Answer(kind, detail, node, edits) ==
    /\ command = NoCommand /\ edits # <<>>
    /\ command' = [kind |-> kind, detail |-> detail, node |-> node, edits |-> edits]
    /\ UNCHANGED vars
Asked(kind) == command = NoCommand /\ kind \in draft.commands /\ Accepted

Rename ==
    /\ Asked("rename")
    /\ \E ctx \in {resolveSymbolAt(names, TokenStart(tree, k)) : k \in DOMAIN tree.src} :
          \E ids \in {SetToSortSeq(handleRename(names, ctx), <)} :
             /\ handlePrepareRename(names, ctx) # 0
             /\ Answer("rename", IF ctx.isGlobal THEN ctx.key.prop ELSE FreshName, ctx.ident,
                       [i \in DOMAIN ids |-> Replace(names, ids[i], <<FreshName>>)])

\* The fixes of the diagnostics, and all the safe ones together.
QuickFix(fixes) ==
    \E diag \in publishDiagnostics(names) :
       \E edits \in quickFixes(names, diag, fixes) : Answer("fix", diag.code, diag.data, edits)

FixAll(fixes) == Answer("fix", "all", 0, applySafeFixes(fixes))

Fix ==
    /\ Asked("fix")
    /\ \E fixes \in {getSafeFixesForDocument(names)} : QuickFix(fixes) \/ FixAll(fixes)

Refactor ==
    /\ Asked("refactor")
    /\ \E action \in UNION {handleCodeAction(names, TokenStart(tree, k)) : k \in DOMAIN tree.src} :
          \E edit \in {handleCodeActionResolve(names, action)} :
             Answer("refactor", action.type, action.node, <<edit>>)

\* The editor applies the edits of the answer, unless they overlap.
Apply ==
    /\ command.edits # <<>> /\ Applicable(command.edits)
    /\ command' = [command EXCEPT !.edits = <<>>]
    /\ before' = Edited(tree, command.edits)
    /\ after' = <<>>
    /\ names' = updateDocument(before')
    /\ UNCHANGED <<draft, typed>>

EditsNext == Typing \/ Rename \/ Fix \/ Refactor \/ Apply
EditsSpec == EditsInit /\ [][EditsNext]_editVars
-----------------------------------------------------------------------------
(* What the server says of a program.                                       *)
\* The uses of variables that are read, but for the places where the server
\* departs from Lua: the condition of a repeat does not see the locals of its
\* body, the name of a function sees its parameters, and self.
Apart == {Nodes[i].right : i \in {j \in Attached : KindOf(j) = "Repeat"}} \cup
         {Nodes[i].left : i \in {j \in Attached : KindOf(j) = "FunctionStmt"}}
Under(i, tops) == \E t \in tops : Nodes[t].start <= Nodes[i].start /\ Nodes[i].end <= Nodes[t].end
Reads == {u \in Uses(Declarations) \ Definitions : source(tree, u) # "self" /\ ~Under(u, Apart)}
LocalOf(q, u) == IF q.References[u] \in ToSet(q.LocalDefs) THEN q.References[u] ELSE 0

(* The two resolvers of the server, the one that walks with a stack of      *)
(* scopes (semantic/resolver.go) and the one that collects declarations     *)
(* first and looks them up by their place (Phase1 of lsp/resolver.go),      *)
(* declare the same locals and bind every read of a variable to the same    *)
(* one.                                                                     *)
PhasesAgree ==
    Accepted =>
        LET s == Phase1(tree)
        IN  /\ ToSet(s.LocalDefs) = ToSet(names.LocalDefs)
            /\ \A u \in Reads : LocalOf(s, u) = LocalOf(names, u)

(* The locals that completion and the safe names see at a place are those   *)
(* of the resolver: the first of a name that LocalsAt yields is the one a   *)
(* read of that name is bound to, and it yields none where the read is of a *)
(* global.                                                                  *)
LocalsInScope ==
    Accepted => \A u \in Reads :
        LET same == SelectSeq(LocalsAt(names, Nodes[u].start), LAMBDA l : l.name = source(tree, u))
        IN  names.References[u] = IF same = <<>> THEN 0 ELSE same[1].id

(* Every part of the server that asks what a name denotes gets one answer.  *)
NamesAgree == PhasesAgree /\ LocalsInScope

\* Comparisons of constants are folded to true whatever they give, and what
\* follows a goto is not looked at for its label: programs with either are
\* left out where it matters.
Comparisons == {"==", "~=", "<", "<=", ">", ">="}
Plainly(r, kinds) ==
    \A i \in DOMAIN r.tree.nodes :
        Kind(r, i) \notin kinds /\ ~(Kind(r, i) = "BinaryExpr" /\ NodeOf(r, i).op \in Comparisons)

\* The runs of an accepted program, none of another.
Runs(r, absent) ==
    IF r.tree.errors = 0 THEN {Ran(r.tree, world, absent) : world \in BOOLEAN} ELSE {}

\* Every value a node has in a run is the one it is folded to.
Folded(r) ==
    LET Right(id, v, runs) == Known(v) => \A m \in runs : \A s \in m.seen : s[1] = id => s[2] = v
        All(runs) == \A i \in DOMAIN r.tree.nodes : Right(i, EvaluateExpression(r, i), runs)
    IN  All(Runs(r, FALSE))

\* The value shown for a stretch of literals is what the stretch gives alone.
ShownRight(r, shown) ==
    LET Right(text, alone) ==
            ToSet(text) \cap Idents = {} =>
                Failed(alone) \/ alone.trace = << <<"return", <<shown.val>> >> >>
        Alone(text) == Right(text, Ran(Parse(Reset(<<"return">> \o text)), TRUE, FALSE))
    IN  Known(shown.val) /\ shown.node = 0 => Alone(Slice(r.tree, shown.start, shown.end))

Hovers(r) == {FindEvaluableParent(r, TokenStart(r.tree, k)) : k \in DOMAIN r.tree.src}

(* After every step a constant that evalNode folds, with the locals that    *)
(* are assigned once replaced by their values, is the value of the          *)
(* expression in every run, and what the hover shows inside a chain of one  *)
(* operator is the value of the part it marks (findPartialEval).            *)
ConstantsFold ==
    [][Plainly(names', {}) => Folded(names') /\ \A shown \in Hovers(names') : ShownRight(names', shown)]_editVars

(* README.md:42, "statically evaluates constant expressions": the same of   *)
(* every program, whatever its operators.                                   *)
ComparisonsFold == [][Folded(names')]_editVars

\* What is reported as unreachable, with all that is in it.
Dead(r) ==
    LET tops == UNION ({ToSet(Unreachable(r, b)) : b \in OfKind(r, {"Block"})} \cup
                       {DeadArms(r, i) : i \in OfKind(r, {"If"})})
    IN  {i \in DOMAIN r.tree.nodes : ({i} \cup ToSet(Ancestors(r, i))) \cap tops # {}}

NeverRead(r) == {d.data : d \in {e \in UnusedLocals(r) : e.code # "used-ignored-var"}}

(* What is reported as unreachable never runs, and a local reported as      *)
(* unused is never read, in any run of the program: the safe fixes remove   *)
(* both (isTerminal, DeadArms, isActualRead).                               *)
DeadStaysDead ==
    [][Plainly(names', {"Goto"}) =>
           \A m \in Runs(names', FALSE) :
               m.ran \cap Dead(names') = {} /\ m.read \cap NeverRead(names') = {}]_editVars

\* The uses of globals nobody defines that are excused.
Guarded(r) ==
    {i \in ToSet(r.GlobalRefs) :
        /\ source(r.tree, i) \notin KnownGlobals /\ ~Defines(r, source(r.tree, i))
        /\ isGlobalGuarded(r, i) /\ ~isDirectExistenceCheck(r, i)}

(* A use of an undefined global that isGlobalGuarded excuses is evaluated   *)
(* in no run where the global does not exist, except to test for it.  Loops *)
(* that are left by a break are not looked into by the code.                *)
GuardsHold ==
    [][Plainly(names', {"Goto", "Break"}) =>
           \A m \in Runs(names', TRUE) : m.ran \cap Guarded(names') = {}]_editVars

\* The names of the program with what each stands for.  Left out are the fields
\* whose receiver has the name of a local, since a local's field is taken for
\* that of the global spelled alike, and the fields defined both in a
\* constructor and by an assignment, whose uses are linked to one of the two.
Divided(r, prop) ==
    \E f, g \in ToSet(r.FieldDefs) : f.key = g.key /\ f.node # g.node /\ f.key.prop = prop
Contexts(r) ==
    {ctx \in {highlightContext(r, TokenStart(r.tree, k)) : k \in DOMAIN r.tree.src} \ {NoContext} :
        ctx.isProp => /\ \A d \in ToSet(r.LocalDefs) : source(r.tree, d) \notin ToSet(ctx.key.rec)
                      /\ ~Divided(r, source(r.tree, ctx.ident))}

\* A global that bounds a numeric for is taken for its own declaration.
IsBound(r, i) ==
    LET loop == NodeOf(r, Parent(r, i)) IN loop.kind = "ForNum" /\ i \in ToSet(loop.extra)

\* The places that the editor marks, lists and links with a name.
Marked(r, ctx) == {h.node : h \in getDocumentHighlights(r, ctx)}
Alike(r, ctx) ==
    LET Same(all) ==
            /\ \A i \in all : IsBound(r, i) \/ Marked(r, resolveSymbolNode(r, i)) = all
            /\ getReferences(r, ctx, TRUE) \cup {ctx.ident} = all
            /\ handleLinkedEditingRange(r, ctx) \in {{}, all}
    IN  IsBound(r, ctx.ident) \/ Same(Marked(r, ctx))

(* The places highlighted for a name are those that its references and its  *)
(* linked editing give, and from every one of them the same are found:      *)
(* what is one symbol to a request is one to the others, wherever the       *)
(* cursor is (resolveSymbolNode, getDocumentHighlights, getReferences).     *)
SymbolsAgree ==
    [][names'.tree.errors = 0 => \A ctx \in Contexts(names') : Alike(names', ctx)]_editVars

-----------------------------------------------------------------------------
(* What the edits do to a program.                                          *)
\* A trace with one name replaced.
Renamed(trace, old) ==
    LET Name(n) == IF n = old THEN FreshName ELSE n
    IN  [i \in DOMAIN trace |->
            <<Name(trace[i][1]), [j \in DOMAIN trace[i][2] |-> [trace[i][2][j] EXCEPT !.name = Name(@)]]>>]

\* The step that applies the edits of a request of a kind.
Applies(kind) == command.kind = kind /\ names' # names

SameButName(t, u, old) ==
    \A world \in BOOLEAN :
        LET Same(m, q) == "fuel" \in {m.out, q.out} \/ Failed(m) \/ Renamed(m.trace, old) = q.trace
        IN  Same(Ran(t, world, FALSE), Ran(u, world, FALSE))

(* A rename to a name the program does not use changes what the program     *)
(* does in nothing but that name, which the outside sees when it is a       *)
(* global's or a field's: every use of the variable is rewritten and no     *)
(* other (handleRename).                                                    *)
RenameKeepsMeaning ==
    [][Applies("rename") /\ ~Divided(names, command.detail) =>
           Accepted' /\ SameButName(tree, tree', command.detail)]_editVars

\* A call of a function of Lua's library by its own name.
OfLibrary(i) ==
    LET f == Nodes[i].left
    IN  /\ KindOf(i) = "CallExpr" /\ KindOf(f) = "Ident"
        /\ source(tree, f) \in Library /\ names.References[f] = 0

\* What the fixes are known to lose: values and arguments with side effects,
\* the calls in the value of an unused local that are taken for pure by their
\* name alone, the declaration of a parameter or a function that is assigned
\* later, and the assignment of a global or a field to itself.
Loses ==
    LET Fixes == getSafeFixesForDocument(names)
        Dropped(f) == {i \in Attached : \E e \in ToSet(f.edits) :
                          e.start <= Nodes[i].start /\ Nodes[i].end <= e.end}
    IN  \E f \in ToSet(Fixes) :
           \/ /\ f.title \in {"values", "arguments"}
              /\ \E i \in Dropped(f) : IsCall(names, i)
           \/ /\ f.title = "unused"
              /\ \E i \in Dropped(f) :
                    IsCall(names, i) /\ isSideEffectFree(names, i) /\ ~OfLibrary(i)
           \/ /\ f.title \in {"parameter", "function"}
              /\ \E d \in f.coverage : LinkedTo(names, d) # {d}
           \/ /\ f.title = "self"
              /\ \A d \in ToSet(names.LocalDefs) : LinkedTo(names, d) \cap Dropped(f) = {}

\* A global the program reads has a name that a fix may choose for a local:
\* isNameSafe knows the globals the program defines and the library's only.
Captures ==
    LET Chosen(d) == LET base == source(tree, d)
                     IN  ToSet(SafeNames(base, TRUE) \o SafeNames(base, FALSE)) \cup {WithoutUnderscore(base)}
    IN  \E g \in ToSet(names.GlobalRefs), d \in ToSet(names.LocalDefs) : source(tree, g) \in Chosen(d)

(* A fix of a diagnostic, and all the safe fixes together, leave what the   *)
(* program does as it was ("without breaking side-effects", README.md:289): *)
(* what they remove was dead, what they rename keeps its uses and captures  *)
(* none of another (getSafeFixesForDocument, isNameSafe).                   *)
FixKeepsMeaning ==
    [][Applies("fix") /\ command.detail # "implicit-global" /\ Plainly(names, {"Goto"}) /\ ~Loses /\ ~Captures =>
           Accepted' /\ SameMeaning(tree, tree')]_editVars

(* The same claim for every program.                                        *)
SafeFixesAreSafe ==
    [][Applies("fix") /\ command.detail = "all" => SameMeaning(tree, tree')]_editVars

\* A value of a multiple assignment reads no name it assigns, and none calls.
SplitApart(id) ==
    LET targets == ToSet(ListOf(names, Nodes[id].left))
        values == ToSet(ListOf(names, Nodes[id].right))
    IN  \A v \in values : \A i \in Subtree(v) :
            ~IsCall(names, i) /\ \A t \in targets : Spelling(names, i) # Spelling(names, t)

\* The refactorings that keep a program's meaning, where they do.
Preserving(type, id) ==
    CASE type \in {"earlyReturn", "mergeNestedIf", "swapIfElse", "indexToMember"} -> TRUE
      [] type = "splitMultiAssign" -> SplitApart(id)
      [] type = "removeParen" ->
           KindOf(Nodes[id].parent) \notin {"MemberExpr", "IndexExpr", "CallExpr", "MethodCall"}
      [] type = "memberToIndex" -> KindOf(Nodes[id].parent) \notin {"FunctionStmt", "MethodName"}
      [] OTHER -> FALSE

\* The program with a condition negated as a whole.
Negated(id) ==
    Parse(Reset(Edited(tree, <<Replace(names, id, <<"not">> \o Parens(Spelling(names, id)))>>)))

(* A refactoring that restructures leaves what the program does as it was,  *)
(* and inverting a condition negates it: operators and parentheses of the   *)
(* text it writes group as those of the tree it read (invertCondition,      *)
(* wrapCond, formatStatement).                                              *)
RefactorKeepsMeaning ==
    [][Applies("refactor") =>
           /\ Preserving(command.detail, command.node) => Accepted' /\ SameMeaning(tree, tree')
           /\ command.detail = "invertCondition" => SameMeaning(Negated(command.node), tree')]_editVars
=============================================================================
