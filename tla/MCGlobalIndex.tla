--------------------------- MODULE MCGlobalIndex ---------------------------
(* An instance of GlobalIndex for TLC: two scripts that may belong to one   *)
(* resource and a library, over texts that share names, keys and nodes.     *)
EXTENDS GlobalIndex

CONSTANTS d1, d2, lib, r1, r2, r3, n1, n2, n3, kx, kf

AllSides == {"client", "shared"}
NameOfRoot == (r1 :> n1) @@ (r2 :> n2) @@ (r3 :> n2)

Global == [name |-> "x", key |-> kx, node |-> 1]
Field  == [name |-> "G.f", key |-> kf, node |-> 2]
Method == [name |-> "G:f", key |-> kf, node |-> 2]

Text(defs, size, path) ==
    [defs |-> defs, size |-> size, paths |-> [t \in {"C"} |-> path]]
AllTexts == {Text(<<Global, Field>>, 2, 0), Text(<<Field, Method>>, 1, 7),
             Text(<<Global>>, 1, 8)}

In(res, side) == [res |-> res, side |-> side]
AllHomes == [d \in {d1, d2, lib} |->
    CASE d = d1  -> {In(r1, "client"), In(r1, "shared")}
      [] d = d2  -> {In(d2, "shared"), In(r1, "shared")}
      [] d = lib -> {In(lib, "shared")}]

AllUris == <<d1, d2, lib, n2, n1, n3, r1, r2, r3>>
AllDeps == {{}, {n2}, {n1, n3}}

\* Bound: the graph and the tables meet in clearDocument alone, so histories
\* with registered manifests index one document at a time.
Apart == named = {} \/ Cardinality({d \in Docs : text[d] # Nil}) <= 1

=============================================================================
