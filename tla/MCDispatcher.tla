---------------------------- MODULE MCDispatcher ----------------------------
(* Four configurations and five editors for TLC: one that asks and          *)
(* cancels, one whose frames break, one that runs commands and answers the  *)
(* server's requests, one that changes settings and one that changes        *)
(* folders.                                                                 *)
EXTENDS Dispatcher

Configurations ==
    {[index |-> 1, publish |-> 1, parse |-> 1], [index |-> 2, publish |-> 1, parse |-> 1],
     [index |-> 1, publish |-> 2, parse |-> 1], [index |-> 1, publish |-> 1, parse |-> 2]}

Start(folders, progress) ==
    [folders |-> folders, settings |-> [index |-> 1, publish |-> 1, parse |-> 1],
     progress |-> progress]
Session(methods, max, starts) ==
    [methods |-> methods \cup {"initialize"}, max |-> max, starts |-> starts]

Editors ==
    {Session({"query", "$/cancelRequest", "shutdown"}, 4, {Start(<<>>, FALSE)}),
     Session({"query", "refused", "garbage", "note", "unknown", "exit"}, 4, {Start(<<>>, FALSE)}),
     Session({"executeCommand", "", "oldVersion", "initialized"}, 4, {Start(<<>>, TRUE)}),
     Session({"configuration", "initialized"}, 5, {Start(<<>>, TRUE)}),
     Session({"folders", "initialized"}, 4, {Start(<<>>, FALSE), Start(<<"f">>, FALSE)})}
=============================================================================
