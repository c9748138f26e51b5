---------------------------- MODULE MCWorkspace ----------------------------
(* Instances of Workspace for TLC.                                          *)
EXTENDS Workspace

CONSTANTS f1, lib, a, b

\* A file of the workspace with every text and both scopes, the folder and the
\* globs coming and going, and a library.
TwoFiles == {f1, lib}
AllTexts == {Empty, Huge, a, b}
Sliced == {b}
Scopes == {{}, {f1}}

\* Bound: until the library is opened or written, all of the other file; from
\* then on an unmodified workspace, and one text in the buffers.
Apart ==
    LET untouched == disk[lib] = a /\ buffer[lib] = Nil /\ sent[lib] = 0 /\ docs[lib].src = a
        plain == /\ sent[f1] <= 1 /\ folders = {f1} /\ ignored = {} /\ diverged = {}
                 /\ \A f \in Files : disk[f] \in {a, Nil} /\ buffer[f] \in {Nil, a}
    IN  sent[lib] <= 1 /\ (untouched \/ plain)
=============================================================================
