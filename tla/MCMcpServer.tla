---------------------------- MODULE MCMcpServer ----------------------------
(* An instance of McpServer for TLC.                                        *)
EXTENDS McpServer

CONSTANTS c1, c2, f1, f2, f3

ThreeFiles == <<f1, f2, f3>>
TextsOf == (f1 :> {"a", "b"}) @@ (f2 :> {"a", "large"}) @@ (f3 :> {"a"})
StartDisks == {(f1 :> "a") @@ (f2 :> x) @@ (f3 :> "a") : x \in {"large", None}}
ToolsOfCalls == (c1 :> {"reindex", "status"}) @@ (c2 :> Tools)
=============================================================================
