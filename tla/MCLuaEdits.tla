----------------------------- MODULE MCLuaEdits ----------------------------
(* Drafts for TLC, each for the commands it says.                           *)
EXTENDS LuaEdits

Phrase(open, close) == [open |-> open, close |-> close]
Plain(ps) == {Phrase(p, <<>>) : p \in ps}
Draft(commands, open, close, phrases, max) ==
    [commands |-> commands, open |-> open, close |-> close, phrases |-> phrases, max |-> max]

\* Scopes of every kind around names that hide each other.
Scopes ==
    Draft({"rename"}, <<"c", "(", "a", ")">>, <<>>,
          Plain({<<"local", "a", ",", "b", "=", "b">>, <<"c", "(", "a", ",", "b", ")">>,
                 <<"a", "=", "b">>}) \cup
          {Phrase(<<"do">>, << <<"end">> >>),
           Phrase(<<"for", "a", "in", "a", "do">>, << <<"end">> >>),
           Phrase(<<"for", "b", "=", "b", ",", "a", "do">>, << <<"end">> >>),
           Phrase(<<"local", "function", "b", "(", "a", ")">>, << <<"end">>, <<"b", "(", ")">> >>)}, 2)

\* Fields of globals, assigned, in constructors and defined as functions.
Members ==
    Draft({"rename"}, <<>>, <<>>,
          Plain({<<"a", ".", "b", "=", "1">>, <<"c", "(", "a", ".", "b", ")">>,
                 <<"a", "=", "{", "b", "=", "2", "}">>, <<"a", ".", "b", "(", "a", ")">>,
                 <<"c", "(", "a", ")">>}) \cup
          {Phrase(<<"function", "a", ".", "b", "(", "_", ")">>, << <<"end">> >>)}, 3)

\* Constant expressions.
Constants ==
    Draft({}, <<"local", "a", "=", "1">>, << <<"c", "(", "2">>, <<"-", "a", ")">> >>,
          Plain({<<op, "2">> : op \in {"+", "-", "*", "%", "..", "/", "//", "^", "and", "or"}} \cup
                {<<"%", "-", "2">>, <<"&", "-", "1">>, <<"a", "=", "2">>, <<"..", "'b'">>,
                 <<"+", "not", "a">>}), 2)

\* Statements that leave a block and conditions that are constant.
Flow ==
    Draft({"fix"}, <<>>, << <<"c", "(", ")">> >>,
          Plain({<<"local", "a", "=", "true">>, <<"a", "=", "b">>}) \cup
          {Phrase(<<"do">>, << <<"return", "end">> >>),
           Phrase(<<"if", "a", "then">>, << <<"end">> >>),
           Phrase(<<"if", "a", "then", "return">>, << <<"elseif", "not", "a", "then">>, <<"end">> >>),
           Phrase(<<"if", "not", "a", "then">>, << <<"else">>, <<"return", "end">> >>),
           Phrase(<<"while", "b", "do">>, << <<"break", "end">> >>),
           Phrase(<<"local", "function", "b", "(", ")", "return">>, << <<"end">>, <<"b", "(", ")">> >>)}, 2)

\* Tests for a global before it is used.
Guards ==
    Draft({}, <<>>, << <<"a", "(", ")">> >>,
          Plain({<<"type", "(", "a", "and", "a", "(", ")", ")">>, <<"a", "(", ")">>}) \cup
          {Phrase(<<"if", "a", "then">>, << <<"end">> >>),
           Phrase(<<"if", "not", "a", "then">>, << <<"return", "end">> >>),
           Phrase(<<"if", "not", "a", "or", "b", "then">>, << <<"else">>, <<"end">> >>),
           Phrase(<<"if", "b", "then">>, << <<"elseif", "a", "then">>, <<"end">> >>),
           Phrase(<<"while", "not", "a", "do">>, << <<"end">> >>),
           Phrase(<<"repeat">>, << <<"until", "a">> >>),
           Phrase(<<"local", "function", "b", "(", ")">>, << <<"end">>, <<"b", "(", ")">> >>)}, 2)

\* Locals that are unused, hidden or written only.
Locals ==
    Draft({"fix"}, <<>>, << <<"c", "(", "b", ")">> >>,
          Plain({<<"local", "a", ",", "b", "=", "1", ",", "2">>, <<"local", "a", "=", "c", "(", ")">>,
                 <<"a", "=", "b">>, <<"a", ",", "b", "=", "2">>, <<"local", "_a", "=", "b">>,
                 <<"c", "(", "_a", ")">>, <<"b", "=", "b">>, <<"local", "b", "=", "b", ",", "1">>}) \cup
          {Phrase(<<"do">>, << <<"end">> >>),
           Phrase(<<"for", "a", ",", "b", "in", "c", "do">>, << <<"end">> >>),
           Phrase(<<"local", "function", "b", "(", "a", ",", "b", ")">>,
                  << <<"end">>, <<"b", "(", "1", ",", "2", ",", "a", ")">> >>)}, 2)

\* Unused locals with calls among their values, some by names that look pure.
Readers ==
    Draft({"fix"}, <<"local", "b">>, << <<"c", "(", "b", ")">> >>,
          Plain({<<"local", "a", "=", "getNext", "(", ")">>, <<"local", "a", "=", "getNext", ".", "b", "(", "1", ")">>,
                 <<"local", "a", "=", "b", "(", ")", ":", "getNext", "(", ")">>,
                 <<"local", "a", "=", "type", "(", "b", ")">>, <<"local", "a", "=", "type", "(", "c", "(", ")", ")">>,
                 <<"a", "=", "getNext", "(", ")">>, <<"a", "=", "1">>,
                 <<"local", "a", ",", "d", "=", "c", "(", ")", ",", "type", "(", "b", ")">>}), 2)

\* Names a renaming may choose that other locals have.
Hiding ==
    Draft({"fix"}, <<"for", "a", ",", "b", "in", "c", "do">>, << <<"end">> >>,
          Plain({<<"local", "_a", "=", "1">>, <<"a", "=", "b">>, <<"c", "(", "_a", ")">>}), 3)

\* Conditions and branches at the end of a function or of the file.
Branches ==
    Draft({"refactor"}, <<"if", "a">>, << <<"then", "c", "(", ")", "end">> >>,
          Plain({<<"or", "b">>, <<"and", "b">>, <<"==", "b">>, <<"<", "b">>, <<"and", "not", "a">>,
                 <<"and", "(", "b", "or", "c", ")">>, <<"or", "a", "and", "b">>,
                 <<"then", "c", "(", "1", ")", "else", "if", "b">>,
                 <<"then", "return", "a", "else", "if", "b">>,
                 <<"then", "if", "a", "or", "b">>, <<"then", "if", "b">>}) \cup
          {Phrase(<<"then">>, << <<"end", "if", "b">> >>), Phrase(<<>>, << <<"end">> >>)}, 2)

\* Assignments, parentheses and members.
Shapes ==
    Draft({"refactor"}, <<>>, <<>>,
          Plain({<<"a", ",", "b", "=", "1">>, <<"local", "a", ",", "b", "=", "b", ",", "2">>,
                 <<"a", ",", "a", ".", "b", "=", "c", "(", ")", ",", "2">>,
                 <<"c", "(", "(", "a", ")", ",", "a", ".", "b", ",", "a", "[", "'b'", "]", ")">>,
                 <<"c", "(", "(", "a", ")", "+", "1", ")">>,
                 <<"if", "(", "a", "or", "b", ")", "then", "c", "(", "a", ")", "end">>}) \cup
          {Phrase(<<"function", "a", ".", "b", "(", "b", ")">>, << <<"end">>, <<"a", ".", "b", "(", "1", ")">> >>)}, 2)

AllDrafts == {Scopes, Members, Constants, Flow, Guards, Locals, Readers, Hiding, Branches, Shapes}

ComparisonDrafts ==
    {Draft({}, <<"c", "(", "1">>, << <<"==", "2", ")">> >>, Plain({<<"+", "1">>, <<"*", "2">>}), 2)}

CallDrafts ==
    {Draft({"fix"}, <<"local", "a", "=", "1", ",", "b", "(", ")">>,
           << <<"local", "d", "=", "getNext", "(", ")", "c", "(", "a", ")">> >>,
           Plain({<<"+", "1">>}), 1)}
=============================================================================
