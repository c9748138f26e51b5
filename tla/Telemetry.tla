------------------------------ MODULE Telemetry ------------------------------
(***************************************************************************)
(* lsp/telemetry.go: collection, the bounded trace journal and opting out. *)
(* Every language server and MCP server of a user is a process with its    *)
(* own Telemetry, and all of them journal to one path.  Removing the file  *)
(* leaves the other processes with handles on an unlinked file.            *)
(*                                                                         *)
(* Record holds Telemetry.mu throughout.  disableAndPurge and Close set    *)
(* their flag under it and release it before they touch the client and the *)
(* journal, so those are steps of their own.  A process may be killed at   *)
(* any point, also half way through the rewriting of the file; two         *)
(* processes' rewritings are not interleaved with each other.              *)
(***************************************************************************)
EXTENDS Naturals, Sequences, SequencesExt

CONSTANTS
    Procs,      \* the processes that share the journal path
    Sizes,      \* the sizes of a marshalled event, newline included
    MaxBytes,   \* LUGO_TRACE_MAX_BYTES
    Missing     \* no file at the journal path

ASSUME TelemetryConstantsOK ==
    /\ Sizes \subseteq Nat \ {0}
    /\ MaxBytes \in Nat \ {0}

VARIABLES
    up,       \* the processes running
    tel,      \* Telemetry: [enabled, optedOut, closed, client]
    entries,  \* traceJournal.entries
    handle,   \* traceJournal.file: "none", "path", "unlinked"; "nopath"
              \* when traceJournal.path is empty too
    optOut,   \* where disableAndPurge is: "no", "client", "purge", "done";
              \* "failed" when the file could not be removed
    closing,  \* where Close is: "no", "journal", "client", "done"
    file      \* the lines of the file at the journal path, or Missing

vars == <<up, tel, entries, handle, optOut, closing, file>>

(* A line of the journal: its process, its bytes, whether it begins with a  *)
(* brace and whether it ends with a newline.                                *)
Line == [by: Procs, size: Nat, brace: BOOLEAN, whole: BOOLEAN]

Bytes(lines) ==
    LET upTo[k \in 0..Len(lines)] == IF k = 0 THEN 0 ELSE upTo[k - 1] + lines[k].size
    IN  upTo[Len(lines)]

NoTelemetry == [enabled |-> FALSE, optedOut |-> FALSE, closed |-> FALSE,
                client |-> "none"]

TelemetryInit ==
    /\ up = {}
    /\ tel = [p \in Procs |-> NoTelemetry]
    /\ entries = [p \in Procs |-> <<>>]
    /\ handle = [p \in Procs |-> "none"]
    /\ optOut = [p \in Procs |-> "no"]
    /\ closing = [p \in Procs |-> "no"]
    /\ file = Missing

-----------------------------------------------------------------------------
(* The journal.                                                             *)

(* What append keeps of the old entries to fit n more bytes.                *)
Kept(lines, n) ==
    CHOOSE s \in Suffixes(lines) \cup {<<>>} :
        /\ Bytes(s) + n <= MaxBytes \/ s = <<>>
        /\ \A t \in Suffixes(lines) : Bytes(t) + n <= MaxBytes => Len(t) <= Len(s)

\* Mutant: the oldest entry makes room, whether that is enough or not.
appended_DropsOne(p, size, brace) ==
    LET n == IF size > MaxBytes THEN MaxBytes ELSE size
        line == [by |-> p, size |-> n, whole |-> TRUE,
                 brace |-> size <= MaxBytes \/ brace]
    IN  IF entries[p] # <<>> /\ Bytes(entries[p]) + n > MaxBytes
        THEN Append(Tail(entries[p]), line)
        ELSE Append(entries[p], line)

(* traceJournal.append: an oversized event keeps its last MaxBytes bytes.   *)
appended(p, size, brace) ==
    LET n == IF size > MaxBytes THEN MaxBytes ELSE size
        line == [by |-> p, size |-> n, whole |-> TRUE,
                 brace |-> size <= MaxBytes \/ brace]
    IN  Append(Kept(entries[p], n), line)

(* What a rewriting cut short leaves: some lines, then part of the next.    *)
Partial(lines) ==
    {SubSeq(lines, 1, k) : k \in 0..Len(lines) - 1} \cup
    UNION {{Append(SubSeq(lines, 1, k), [lines[k + 1] EXCEPT !.size = b, !.whole = FALSE]) :
               b \in 1..lines[k + 1].size - 1} : k \in 0..Len(lines) - 1}

(* loadTraceJournal: the first line is dropped unless it begins with a      *)
(* brace, and every other line ends with a newline afterwards.              *)
Loaded(lines) ==
    LET first == IF lines # <<>> /\ ~lines[1].brace THEN Tail(lines) ELSE lines
    IN  [i \in DOMAIN first |->
            IF first[i].whole THEN first[i]
            ELSE [first[i] EXCEPT !.size = @ + 1, !.whole = TRUE]]

\* Mutant: the file is emptied and stays where it is.
Erase_Truncates(p) ==
    /\ entries' = [entries EXCEPT ![p] = <<>>]
    /\ handle' = [handle EXCEPT ![p] = "none"]
    /\ file' = IF file = Missing THEN file ELSE <<>>
    /\ optOut' = [optOut EXCEPT ![p] = "done"]

(* The entries go and os.Remove takes the file off the path, under the      *)
(* handles of the other processes.  The removal may fail, and a journal     *)
(* without a path has nothing to remove.                                    *)
Erase(p) ==
    /\ entries' = [entries EXCEPT ![p] = <<>>]
    /\ \/ /\ handle[p] # "nopath"
          /\ file' = Missing
          /\ handle' = [q \in Procs |->
                CASE q = p -> "none"
                  [] q # p /\ handle[q] = "path" -> "unlinked"
                  [] OTHER -> handle[q]]
          /\ optOut' = [optOut EXCEPT ![p] = "done"]
       \/ /\ handle' = [handle EXCEPT ![p] = "none"]
          /\ optOut' = [optOut EXCEPT ![p] = "failed"]
          /\ UNCHANGED file

-----------------------------------------------------------------------------
(* InitTelemetry, in a new process.  mode is what the environment says.     *)
InitTelemetry(p, mode) ==
    /\ p \notin up
    /\ up' = up \cup {p}
    /\ closing' = [closing EXCEPT ![p] = "no"]
    /\ tel' = [tel EXCEPT ![p] =
          [enabled |-> mode = "on", optedOut |-> mode = "off", closed |-> FALSE,
           client |-> IF mode = "on" THEN "open" ELSE "none"]]
    /\ \/ mode = "off" /\ Erase(p)
       \/ /\ mode \in {"on", "local"}
          /\ optOut' = [optOut EXCEPT ![p] = "no"]
          /\ entries' = [entries EXCEPT ![p] =
                IF file = Missing THEN <<>> ELSE Loaded(file)]
          /\ file' = entries'[p]
          /\ handle' = [handle EXCEPT ![p] = "path"]

(* InitTelemetry returning early, without a client: the file cannot be      *)
(* opened, and the journal is in memory only and never learns its path; or  *)
(* loading it fails, and the handle is closed.                              *)
InitFails(p) ==
    /\ p \notin up
    /\ up' = up \cup {p}
    /\ tel' = [tel EXCEPT ![p] = [NoTelemetry EXCEPT !.enabled = TRUE]]
    /\ optOut' = [optOut EXCEPT ![p] = "no"]
    /\ closing' = [closing EXCEPT ![p] = "no"]
    /\ \/ /\ handle' = [handle EXCEPT ![p] = "nopath"]
          /\ entries' = [entries EXCEPT ![p] = <<>>]
          /\ UNCHANGED file
       \/ /\ file # Missing
          /\ handle' = [handle EXCEPT ![p] = "none"]
          /\ entries' = [entries EXCEPT ![p] = Loaded(file)]
          /\ file' \in Partial(entries'[p])

Collects(p) == p \in up /\ ~tel[p].closed /\ ~tel[p].optedOut

(* Record and RecordLocalTelemetry, and with the flags read again the crash *)
(* envelope of CapturePanicContext.  A write that fails cuts the file short *)
(* (traceJournal.err is only returned, to callers that drop it).            *)
Record(p, size, brace) ==
    /\ Collects(p)
    /\ entries' = [entries EXCEPT ![p] = appended(p, size, brace)]
    /\ \/ /\ handle[p] = "path"
          /\ file' \in {entries'[p]} \cup Partial(entries'[p])
       \/ handle[p] # "path" /\ UNCHANGED file
    /\ UNCHANGED <<up, tel, handle, optOut, closing>>

MayEnable(p) == tel[p].client # "none" /\ ~tel[p].closed /\ ~tel[p].optedOut

SetEnabled(p) ==
    /\ p \in up /\ MayEnable(p)
    /\ tel' = [tel EXCEPT ![p].enabled = TRUE]
    /\ UNCHANGED <<up, entries, handle, optOut, closing, file>>

-----------------------------------------------------------------------------
(* disableAndPurge, in three steps: flag, client, journal.                  *)
SetDisabled(p) ==
    /\ p \in up /\ ~tel[p].optedOut
    /\ tel' = [tel EXCEPT ![p].enabled = FALSE, ![p].optedOut = TRUE]
    /\ optOut' = [optOut EXCEPT ![p] = "client"]
    /\ UNCHANGED <<up, entries, handle, closing, file>>

CloseClient(p) ==
    tel' = [tel EXCEPT ![p].client = IF @ = "open" THEN "closed" ELSE @]

DropClient(p) ==
    /\ p \in up /\ optOut[p] = "client"
    /\ CloseClient(p)
    /\ optOut' = [optOut EXCEPT ![p] = "purge"]
    /\ UNCHANGED <<up, entries, handle, closing, file>>

(* traceJournal.purge                                                       *)
purge(p) ==
    /\ p \in up /\ optOut[p] = "purge"
    /\ Erase(p)
    /\ UNCHANGED <<up, tel, closing>>

(* Close, in three steps as well: flag, journal, client.                    *)
Close(p) ==
    /\ p \in up /\ ~tel[p].closed
    /\ tel' = [tel EXCEPT ![p].closed = TRUE]
    /\ closing' = [closing EXCEPT ![p] = "journal"]
    /\ UNCHANGED <<up, entries, handle, optOut, file>>

CloseSteps(p) ==
    /\ p \in up
    /\ \/ /\ closing[p] = "journal"
          /\ handle' = [handle EXCEPT ![p] = IF @ = "nopath" THEN @ ELSE "none"]
          /\ closing' = [closing EXCEPT ![p] = "client"]
          /\ UNCHANGED tel
       \/ /\ closing[p] = "client"
          /\ CloseClient(p)
          /\ closing' = [closing EXCEPT ![p] = "done"]
          /\ UNCHANGED handle
    /\ UNCHANGED <<up, entries, optOut, file>>

-----------------------------------------------------------------------------
(* The process ends, by itself or killed, in the middle of a rewriting too. *)
Exit(p) ==
    /\ p \in up
    /\ up' = up \ {p}
    /\ handle' = [handle EXCEPT ![p] = "none"]
    /\ entries' = [entries EXCEPT ![p] = <<>>]
    /\ tel' = [tel EXCEPT ![p] = NoTelemetry]
    /\ optOut' = [optOut EXCEPT ![p] = "no"]
    /\ closing' = [closing EXCEPT ![p] = "no"]
    /\ \/ UNCHANGED file
       \/ /\ handle[p] = "path" /\ Collects(p)
          /\ \E size \in Sizes : file' \in Partial(appended(p, size, FALSE))

TelemetryNext ==
    \E p \in Procs :
        \/ \E mode \in {"on", "local", "off"} : InitTelemetry(p, mode)
        \/ InitFails(p)
        \/ \E size \in Sizes, brace \in BOOLEAN : Record(p, size, brace)
        \/ SetEnabled(p)
        \/ SetDisabled(p) \/ DropClient(p) \/ purge(p)
        \/ Close(p) \/ CloseSteps(p)
        \/ Exit(p)

TelemetrySpec == TelemetryInit /\ [][TelemetryNext]_vars

-----------------------------------------------------------------------------
(* Types, and every entry in memory is a terminated line, reloaded ones too. *)
TelemetryTypeOK ==
    /\ up \subseteq Procs
    /\ tel \in [Procs -> [enabled: BOOLEAN, optedOut: BOOLEAN, closed: BOOLEAN,
                          client: {"none", "open", "closed"}]]
    /\ entries \in [Procs -> Seq([by: Procs, size: Nat, brace: BOOLEAN,
                              whole: {TRUE}])]
    /\ handle \in [Procs -> {"none", "nopath", "path", "unlinked"}]
    /\ optOut \in [Procs -> {"no", "client", "purge", "done", "failed"}]
    /\ closing \in [Procs -> {"no", "journal", "client", "done"}]
    /\ file = Missing \/ file \in Seq(Line)

(* LUGO_TRACE_MAX_BYTES bounds what a process keeps and what is on the disk *)
(* through appends, cut-short rewritings, kills and reloads, although a     *)
(* reload adds the newline a killed process did not write; every entry in   *)
(* memory is a terminated line, reloaded ones too.                          *)
JournalBounded ==
    /\ TelemetryTypeOK
    /\ \A p \in Procs : Bytes(entries[p]) <= MaxBytes
    /\ file # Missing => Bytes(file) <= MaxBytes

(* Opting out is terminal and complete for a process.  From its flag on     *)
(* nothing more is journalled, and enabled, without which Record hands the  *)
(* client nothing, stays off whatever the editor asks for afterwards; once  *)
(* its purge is through, nothing it ever recorded is at the journal path,   *)
(* not even by way of another process that read its lines before and        *)
(* rewrites the journal now (SetTelemetryEnabled, disableAndPurge, purge).  *)
OptOutHolds ==
    [][\A p \in Procs :
          /\ p \in up \cap up' /\ tel[p].optedOut =>
                /\ tel'[p].optedOut /\ ~tel'[p].enabled
                /\ entries'[p] \in {entries[p], <<>>}
          /\ p \in up' /\ optOut'[p] = "done" =>
                /\ entries'[p] = <<>>
                /\ file' # Missing => \A i \in DOMAIN file' : file'[i].by # p]_vars
=============================================================================
