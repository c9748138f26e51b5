---------------------------- MODULE MCFiveMStore ----------------------------
(* FiveMStore for TLC: a resource with both manifests and a script, and     *)
(* inside it a second resource of the same name.                            *)
EXTENDS FiveMStore, TLC

CONSTANTS r1, r2, n1, alias, fx1, legacy1, fx2, s1, cl, sv

TwoBodies == {Blank, cl, sv}
OneGives == (Blank :> {}) @@ (cl :> {alias}) @@ (sv :> {})
MCEnvOf == [b \in TwoBodies |-> [s \in Scripts |->
              IF b = Blank THEN "unknown"
              ELSE IF b = cl THEN "client" ELSE "server"]]

TwoRoots == {r1, r2}
NameAndAlias == {n1, alias}
OneNameOf == [r \in TwoRoots |-> n1]
Nested == (r1 :> 1) @@ (r2 :> 2)
NestedAbove == (r1 :> {r1}) @@ (r2 :> {r1, r2})
ThreeManifests == {fx1, legacy1, fx2}
RootOfThree == (fx1 :> r1) @@ (legacy1 :> r1) @@ (fx2 :> r2)
KindOfThree == (fx1 :> 2) @@ (legacy1 :> 1) @@ (fx2 :> 2)
OneScript == {s1}
OuterScript == s1 :> {r1}
OuterPrefix == (r1 :> {s1}) @@ (r2 :> {})

\* Bound: all of the first resource while the second does not exist; with it,
\* manifests on the disk only, one for each root, and the script stays.
Apart ==
    LET absent(m) == /\ disk[m] = NoBody
                     /\ m \notin news \cup open
                     /\ mdocs[m] = NoMDoc
    IN  \/ absent(fx2)
        \/ /\ absent(legacy1)
           /\ open = {}
           /\ files = Scripts
           /\ sv \notin {disk[fx1], mdocs[fx1].body}
=============================================================================
