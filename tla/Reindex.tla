------------------------------- MODULE Reindex -------------------------------
(***************************************************************************)
(* What a refresh of the workspace promises (refreshWorkspace of           *)
(* lsp/workspace.go), whatever its walk, its channels and its workers do:  *)
(* it takes time, and when it ends every closed file is indexed as the     *)
(* disk had it at some moment of the refresh, or not at all where the disk *)
(* had it missing or oversized.  A file that goes while it is being        *)
(* indexed may keep what was indexed before, and a worker that panics may  *)
(* cost any closed file its document.  Open documents are left alone.      *)
(* IndexPool implements it.                                                *)
(***************************************************************************)
CONSTANTS
    Files,  \* those the walk meets once
    Texts,  \* contents of a file
    Huge,   \* a content beyond MaxFileSize
    Nil     \* no content, no document

VARIABLES
    disk,   \* the text of each file
    index,  \* the text each file is indexed from, outside a refresh
    open,   \* files open in the editor
    busy,   \* a refresh runs
    may     \* how each file may be indexed when it ends

vars == <<disk, index, open, busy, may>>

Indexed(text) == IF text = Huge THEN Nil ELSE text
None == [f \in Files |-> {}]

Init ==
    /\ disk \in [Files -> Texts \cup {Nil}]
    /\ index = [f \in Files |-> Nil]
    /\ open = {} /\ busy = FALSE
    /\ may = None

Begin ==
    /\ ~busy /\ busy' = TRUE
    /\ may' = [f \in Files |-> {Indexed(disk[f])}]
    /\ UNCHANGED <<disk, index, open>>

\* Another program writes or deletes a file, at any time.  A file that was
\* listed and is gone when it is looked at was deleted in between.
Write(f, text) ==
    /\ disk' = [disk EXCEPT ![f] = text]
    /\ may' = IF busy
              THEN [may EXCEPT ![f] = @ \cup {text, Indexed(text)} \cup
                                      (IF text = Nil THEN {index[f]} ELSE {})]
              ELSE may
    /\ UNCHANGED <<index, open, busy>>

Panic ==
    /\ busy
    /\ may' = [f \in Files |-> may[f] \cup {Nil}]
    /\ UNCHANGED <<disk, index, open, busy>>

Finish ==
    /\ busy /\ busy' = FALSE
    /\ index' \in [Files -> Texts \cup {Nil}]
    /\ \A f \in Files : IF f \in open THEN index'[f] = index[f] ELSE index'[f] \in may[f]
    /\ may' = None
    /\ UNCHANGED <<disk, open>>

Edit ==
    /\ ~busy
    /\ open' \in SUBSET Files
    /\ UNCHANGED <<disk, index, busy, may>>

Next ==
    \/ Begin \/ Finish \/ Panic \/ Edit
    \/ \E f \in Files, text \in Texts \cup {Nil} : Write(f, text)

Spec == Init /\ [][Next]_vars
=============================================================================
