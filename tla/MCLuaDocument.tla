--------------------------- MODULE MCLuaDocument ---------------------------
(* Drafts for TLC: expressions, statements that open scopes, fields and     *)
(* methods, and broken text.                                                *)
EXTENDS LuaDocument

Phrase(open, close) == [open |-> open, close |-> close]
Plain(ps) == {Phrase(p, <<>>) : p \in ps}
Draft(open, close, phrases, max) ==
    [open |-> open, close |-> close, phrases |-> phrases, max |-> max]

Operators == {"or", "==", "..", "-", "*", "^"}
Expressions ==
    Draft(<<"a", "=", "b">>, <<>>,
          Plain({<<op, "b">> : op \in Operators} \cup
                {<<op, "-", "b">> : op \in {"..", "^"}} \cup
                {<<"==", "not", "b">>, <<".", "b">>}), 4)

Scopes ==
    Draft(<<>>, <<>>,
          Plain({<<"local", "a", ",", "b", "=", "b">>, <<"a", "=", "b">>,
                 <<"local", "a", "=", "function", "(", "a", ")", "a", "(", ")", "end">>}) \cup
          {Phrase(<<"do">>, << <<"end">> >>),
           Phrase(<<"repeat">>, << <<"until", "a">> >>),
           Phrase(<<"while", "a", "do", "local", "a">>, << <<"break", "end">> >>),
           Phrase(<<"for", "a", "=", "a", ",", "b", "do">>, << <<"end">> >>),
           Phrase(<<"for", "b", ",", "a", "in", "a", "do">>, << <<"end">> >>),
           Phrase(<<"if", "a", "then">>, << <<"elseif", "b", "then">>, <<"else">>, <<"end">> >>),
           Phrase(<<"local", "function", "a", "(", "_", ",", "...", ")">>,
                  << <<"return", "...", "end">> >>)}, 3)

Fields ==
    Draft(<<>>, <<>>,
          Plain({<<"a", ".", "b", "=", "self", ".", "b">>, <<"local", "a", "=", "a">>,
                 <<"a", "=", "{", "b", "=", "{", "b", "=", "a", "}", ",", "a", ".", "b", "}">>,
                 <<"a", ".", "b", ":", "end", "(", ")">>, <<"self", "=", "1">>}) \cup
          {Phrase(<<"function", "a", ":", "b", "(", ")">>, << <<"end">> >>),
           Phrase(<<"function", "a", ".", "b", ".", "end", "(", "self", ")">>, << <<"end">> >>),
           Phrase(<<"a", "[", "function", "(", ")">>, << <<"end">>, <<"]", "=", "a", ".", "b">> >>)}, 3)

Broken ==
    Draft(<<>>, <<>>,
          Plain({<<t>> : t \in {"a", "=", "(", "{", "}", "[", ",", ".", ";",
                                "local", "for"}}), 4)
Limits ==
    Draft(<<"a", "=">>, <<>>,
          Plain({<<"(", "-">>, <<"{", "[">>, <<"{", "b", "=">>, <<"function", "(">>,
                 <<"do">>, <<"return", "until">>, <<"::", "goto", "a">>, <<"}">>, <<":">>,
                 <<"end">>, <<"if">>, <<"local", "a", "<", "b", ">">>}), 4)

AllDrafts == {Expressions, Scopes, Fields, Broken, Limits}
=============================================================================
