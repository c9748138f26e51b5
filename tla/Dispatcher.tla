----------------------------- MODULE Dispatcher -----------------------------
(* The LSP server's message loop (lsp/server.go Start, handleMessageContext *)
(* and the handlers of the protocol's life cycle) and its framing           *)
(* (lsp/rpc.go).  One goroutine reads a message, handles it and reads the   *)
(* next; the editor writes messages and reads answers at its own pace.      *)
(*                                                                          *)
(* A frame is refused when its length is missing, malformed, zero or over   *)
(* the limit: then its body stays in the stream and is read as header       *)
(* lines.  A body that ends in the middle of a line (JSON without a final   *)
(* newline) takes the next frame's Content-Length line with it.             *)
(* What the handlers of queries and documents do is left to the modules of  *)
(* those parts; here they answer, or panic.                                 *)
EXTENDS Integers, Sequences, FiniteSets, SequencesExt

CONSTANTS
    Ids,        \* identifiers the editor gives its requests
    Folders,    \* workspace folders
    Settings,   \* configurations: what is walked with, published with, parsed with
    Sessions,   \* kinds of messages an editor sends, and how many of them
    MaxUnread   \* messages in the stream

ASSUME DispatcherAssumption ==
    /\ Ids \subseteq Nat \ {0}
    /\ MaxUnread \in Nat
    /\ Settings # {}
    /\ \A c \in Settings :
          c = [index |-> c.index, publish |-> c.publish, parse |-> c.parse]
    /\ \A s \in Sessions :
          /\ s.max \in Nat
          /\ \A start \in s.starts :
                /\ start.folders \in Seq(Folders) /\ IsInjective(start.folders)
                /\ start.settings \in Settings /\ start.progress \in BOOLEAN

VARIABLES
    session,    \* what the editor sends
    sent,       \* every frame the editor wrote, in order
    read,       \* number of frames whose header the server consumed
    torn,       \* the stream continues in the middle of a refused body's line
    taken,      \* frames the server accepted as messages
    running,    \* "yes", or how the server ended
    hungUp,     \* the editor closed the stream
    canceledRequests,
    written,    \* every message the server wrote, in order
    outgoingRequestID,
    workDoneProgressSupport,
    WorkspaceFolders, RootURI,
    settings,   \* the configuration in force
    parsed,     \* what the indexed documents were parsed with
    shown,      \* what the diagnostics on display were computed with
    editorFolders, replies  \* the editor: its folders, server requests replied to

stream  == <<session, sent, hungUp, editorFolders, replies>>
reader  == <<read, torn, taken>>
config  == <<WorkspaceFolders, RootURI, settings, parsed, shown, workDoneProgressSupport>>
output  == <<written, outgoingRequestID>>
vars == <<stream, reader, config, output, running, canceledRequests>>

NoId == 0
NoFolder == "none"

-----------------------------------------------------------------------------
(* The editor.                                                              *)
\* A frame: method and body, whether ReadMessage takes it, and whether its
\* body, if it is not taken, ends inside a line.
Frame(method, id, good, arg) ==
    [method |-> method, id |-> id, good |-> good, arg |-> arg, fits |-> TRUE, midLine |-> TRUE]
Refused(midLine) == [Frame("refused", NoId, TRUE, "none") EXCEPT !.fits = FALSE, !.midLine = midLine]

Requests == {"query", "initialize", "executeCommand", "shutdown", "unknown"}

AnswersTo(k) == {j \in DOMAIN written : written[j].kind # "request" /\ written[j].to = k}
Open(id) == \E k \in DOMAIN sent :
                sent[k].id = id /\ sent[k].method \in Requests /\ AnswersTo(k) = {}
ServerRequests == {j \in DOMAIN written : written[j].kind = "request"}

Send(f) ==
    /\ ~hungUp /\ Len(sent) < session.max /\ Len(sent) - read < MaxUnread
    /\ f.method \in session.methods
    /\ sent' = Append(sent, f)
    /\ UNCHANGED session

\* The first message, with the editor's folders, settings and capabilities.
SendInitialize ==
    /\ sent = <<>>
    /\ \E id \in Ids, good \in BOOLEAN, start \in session.starts :
          /\ Send(Frame("initialize", id, good, start))
          /\ editorFolders' = IF good THEN ToSet(start.folders) ELSE {}
    /\ UNCHANGED <<hungUp, replies>>

\* An identifier is used again once its request was answered.
SendRequest ==
    /\ sent # <<>>
    /\ \E id \in {i \in Ids : ~Open(i)} :
          \E f \in {Frame(method, id, TRUE, "none") : method \in Requests \ {"initialize"}} \cup
                   {Frame("executeCommand", id, TRUE, arg) : arg \in {"edits", "unknown"}} \cup
                   {Frame(method, id, FALSE, "none") : method \in {"query", "executeCommand"}} :
             Send(f)
    /\ UNCHANGED <<hungUp, editorFolders, replies>>

\* Messages that carry no request of the editor.
SendOther ==
    /\ sent # <<>>
    /\ \E f \in {Frame("initialized", NoId, TRUE, NoId), Frame("exit", NoId, TRUE, NoId),
                 Frame("garbage", NoId, TRUE, NoId), Frame("note", NoId, TRUE, NoId),
                 Frame("$/cancelRequest", NoId, FALSE, NoId), Refused(TRUE), Refused(FALSE)}
              \cup {Frame("$/cancelRequest", NoId, TRUE, id) : id \in Ids}
              \cup {Frame("oldVersion", id, TRUE, NoId) : id \in {i \in Ids : ~Open(i)}}
              \cup {Frame("configuration", NoId, TRUE, c) : c \in Settings} :
          Send(f)
    /\ UNCHANGED <<hungUp, editorFolders, replies>>

SendFolders ==
    /\ sent # <<>>
    /\ \E added \in {s \in SeqOf(Folders, 2) : IsInjective(s)}, removed \in SUBSET editorFolders :
          /\ ToSet(added) \cap editorFolders = {}
          /\ Len(added) + Cardinality(removed) \in {1, 2}
          /\ Send(Frame("folders", NoId, TRUE, [added |-> added, removed |-> removed]))
          /\ editorFolders' = (editorFolders \ removed) \cup ToSet(added)
    /\ UNCHANGED <<hungUp, replies>>

\* The editor answers the server's requests in order: they are numbered.
SendReply ==
    /\ replies < outgoingRequestID
    /\ replies' = replies + 1
    /\ Send(Frame("", replies + 1, TRUE, NoId))
    /\ UNCHANGED <<hungUp, editorFolders>>

HangUp == ~hungUp /\ hungUp' = TRUE /\ UNCHANGED <<session, sent, editorFolders, replies>>

Editor ==
    /\ running = "yes"
    /\ SendInitialize \/ SendRequest \/ SendOther \/ SendFolders \/ SendReply \/ HangUp
    /\ UNCHANGED <<reader, config, output, running, canceledRequests>>

-----------------------------------------------------------------------------
(* ReadMessage.                                                             *)
head == sent[read + 1]

\* The frame is refused, or its Content-Length line was read as the end of
\* the body before it; either way its own body is what is read next.
ReadFails ==
    /\ read < Len(sent) /\ (torn \/ ~head.fits)
    /\ read' = read + 1
    /\ torn' = head.midLine
    /\ UNCHANGED <<taken, stream, config, output, running, canceledRequests>>

\* The stream ended: Start returns.
ReadEnds ==
    /\ read = Len(sent) /\ hungUp
    /\ running' = "closed"
    /\ UNCHANGED <<reader, stream, config, output, canceledRequests>>

ReadMessage ==
    /\ read < Len(sent) /\ ~torn /\ head.fits
    /\ read' = read + 1
    /\ taken' = taken \cup {read + 1}
    /\ torn' = FALSE

-----------------------------------------------------------------------------
(* Answers, and the requests the server makes of the editor.                *)
Write(kind, id) == [kind |-> kind, id |-> id, to |-> read + 1]
Reply(kind) == written' = Append(written, Write(kind, head.id))
ReplyIfRequest(kind) == IF head.id = NoId THEN written' = written ELSE Reply(kind)

nextOutgoingRequestID == outgoingRequestID + 1

Silent == UNCHANGED output
Keeps  == UNCHANGED <<stream, config, running, canceledRequests>>

\* A body that is not JSON is answered without an identifier.
ParseError ==
    /\ head.method = "garbage"
    /\ Reply("error")
    /\ Keeps /\ UNCHANGED outgoingRequestID

\* No method, or another protocol version: an editor's answer to a request of
\* the server looks like this too.
InvalidRequest ==
    /\ head.method \in {"", "oldVersion"}
    /\ ReplyIfRequest("error")
    /\ Keeps /\ UNCHANGED outgoingRequestID

-----------------------------------------------------------------------------
(* Cancellation.                                                            *)
\* Mutant: a cancellation is not forgotten when it is used.
takeCanceledRequest_Keeps == UNCHANGED canceledRequests

takeCanceledRequest == canceledRequests' = canceledRequests \ {head.id}

isCanceled == head.id # NoId /\ head.id \in canceledRequests /\ head.method # "$/cancelRequest"

\* Mutant: a cancelled request is dropped.
Canceled_Silent ==
    /\ head.method \notin {"", "garbage", "oldVersion"}
    /\ isCanceled
    /\ takeCanceledRequest
    /\ UNCHANGED <<stream, config, running, output>>

Canceled ==
    /\ head.method \notin {"", "garbage", "oldVersion"}
    /\ isCanceled
    /\ takeCanceledRequest
    /\ written' = Append(written, Write("cancelled", head.id))
    /\ UNCHANGED <<stream, config, running, outgoingRequestID>>

handleCancelRequest ==
    /\ head.method = "$/cancelRequest"
    /\ canceledRequests' = canceledRequests \cup (IF head.good THEN {head.arg} ELSE {})
    /\ Silent /\ UNCHANGED <<stream, config, running>>

-----------------------------------------------------------------------------
(* The handlers.                                                            *)
\* Every document's diagnostics are computed again; those of the parser are
\* the errors stored when it was parsed.
publishWorkspaceDiagnostics ==
    shown' = {[settings' EXCEPT !.parse = p] : p \in parsed'}

\* refreshWorkspace: a progress token is requested from an editor that
\* supports it.  Documents that are new or modified are parsed, the others
\* kept, and all of them published.
refreshWorkspace(answer) ==
    /\ parsed' \in SUBSET (parsed \cup {settings'.parse})
    /\ publishWorkspaceDiagnostics
    /\ IF workDoneProgressSupport
       THEN /\ outgoingRequestID' = nextOutgoingRequestID
            /\ written' = written \o <<Write("request", nextOutgoingRequestID)>> \o answer
       ELSE /\ written' = written \o answer /\ UNCHANGED outgoingRequestID

\* The folders and settings come with the request; progress is a capability
\* of the editor.  It is answered also when its parameters do not decode.
handleInitialize ==
    /\ head.method = "initialize" /\ ~isCanceled
    /\ \/ /\ head.good
          /\ settings' = head.arg.settings
          /\ workDoneProgressSupport' = head.arg.progress
          /\ WorkspaceFolders' = WorkspaceFolders \o head.arg.folders
          /\ RootURI' = IF head.arg.folders = <<>> THEN RootURI ELSE WorkspaceFolders'[1]
       \/ ~head.good /\ UNCHANGED <<settings, workDoneProgressSupport, WorkspaceFolders, RootURI>>
    /\ Reply("result")
    /\ UNCHANGED <<stream, parsed, shown, running, canceledRequests, outgoingRequestID>>

handleInitialized ==
    /\ head.method = "initialized"
    /\ settings' = settings
    /\ refreshWorkspace(<<>>)
    /\ UNCHANGED <<stream, WorkspaceFolders, RootURI, workDoneProgressSupport, running,
                   canceledRequests>>

\* Mutant: a change of what is indexed is only shown.
applyInitializationOptions_NoReindex ==
    [reindex |-> FALSE,
     republish |-> settings.publish # head.arg.publish \/ settings.parse # head.arg.parse]

\* Which of the parts of a configuration differ from the one in force.  A
\* limit of the parser (MaxParseErrors) asks for a republish only.
applyInitializationOptions ==
    [reindex |-> settings.index # head.arg.index,
     republish |-> settings.publish # head.arg.publish \/ settings.parse # head.arg.parse]

handleDidChangeConfiguration ==
    /\ head.method = "configuration"
    /\ settings' = head.arg
    /\ LET needs == applyInitializationOptions
       IN  \/ needs.reindex /\ refreshWorkspace(<<>>)
           \/ /\ ~needs.reindex /\ needs.republish
              /\ UNCHANGED parsed /\ publishWorkspaceDiagnostics /\ Silent
           \/ ~needs.reindex /\ ~needs.republish /\ Silent /\ UNCHANGED <<parsed, shown>>
    /\ UNCHANGED <<stream, WorkspaceFolders, RootURI, workDoneProgressSupport, running,
                   canceledRequests>>

\* The two loops: over the folders in force, then over those that are added.
Without(old, removed) ==
    LET kept[i \in 0 .. Len(old)] ==
          IF i = 0 THEN <<>>
          ELSE IF old[i] \in removed THEN kept[i - 1] ELSE Append(kept[i - 1], old[i])
    IN  kept[Len(old)]
With(old, added) ==
    LET list[i \in 0 .. Len(added)] ==
          IF i = 0 THEN old
          ELSE IF added[i] \in ToSet(list[i - 1]) THEN list[i - 1]
               ELSE Append(list[i - 1], added[i])
    IN  list[Len(added)]

ChangedFolders(old, event) == With(Without(old, event.removed), event.added)

handleDidChangeWorkspaceFolders ==
    /\ head.method = "folders"
    /\ WorkspaceFolders' = ChangedFolders(WorkspaceFolders, head.arg)
    /\ RootURI' = IF WorkspaceFolders' = <<>> THEN NoFolder ELSE WorkspaceFolders'[1]
    /\ settings' = settings
    /\ refreshWorkspace(<<>>)
    /\ UNCHANGED <<stream, workDoneProgressSupport, running, canceledRequests>>

handleShutdown ==
    /\ head.method = "shutdown" /\ ~isCanceled
    /\ Reply("result")
    /\ Keeps /\ UNCHANGED outgoingRequestID

handleExit ==
    /\ head.method = "exit"
    /\ running' = "exited"
    /\ Silent /\ UNCHANGED <<stream, config, canceledRequests>>

\* A command with fixes first asks the editor to apply them.  A command the
\* server does not know, or parameters that do not decode, end without an
\* answer.
handleExecuteCommand ==
    /\ head.method = "executeCommand" /\ ~isCanceled
    /\ \/ /\ ~head.good \/ head.arg = "unknown"
          /\ Silent
       \/ /\ head.good /\ head.arg = "edits"
          /\ outgoingRequestID' = nextOutgoingRequestID
          /\ written' = written \o <<Write("request", nextOutgoingRequestID), Write("result", head.id)>>
       \/ /\ head.good /\ head.arg = "none"
          /\ Reply("result") /\ UNCHANGED outgoingRequestID
    /\ Keeps

\* Mutant: the handler writes its answer before and after it looked the
\* document up.
HandleQuery_AnswersTwice ==
    /\ head.method = "query" /\ ~isCanceled
    /\ \/ ~head.good /\ Silent
       \/ /\ head.good /\ UNCHANGED outgoingRequestID
          /\ written' = written \o <<Write("result", head.id), Write("result", head.id)>>
    /\ Keeps

\* A feature request: without an answer when its parameters do not decode.
HandleQuery ==
    /\ head.method = "query" /\ ~isCanceled
    /\ \/ ~head.good /\ Silent
       \/ head.good /\ Reply("result") /\ UNCHANGED outgoingRequestID
    /\ Keeps

HandleNotification == head.method = "note" /\ Silent /\ Keeps

HandleUnknown ==
    /\ head.method = "unknown" /\ ~isCanceled
    /\ ReplyIfRequest("error")
    /\ Keeps /\ UNCHANGED outgoingRequestID

\* A handler panics: the request is answered and the process ends.
HandlerPanics ==
    /\ head.method \in {"query", "note"} /\ ~isCanceled
    /\ ReplyIfRequest("error")
    /\ running' = "crashed"
    /\ UNCHANGED <<stream, config, canceledRequests, outgoingRequestID>>

handleMessage ==
    /\ ReadMessage
    /\ \/ ParseError \/ InvalidRequest \/ Canceled \/ handleCancelRequest
       \/ handleInitialize \/ handleInitialized \/ handleDidChangeConfiguration
       \/ handleDidChangeWorkspaceFolders \/ handleShutdown \/ handleExit
       \/ handleExecuteCommand \/ HandleQuery \/ HandleNotification \/ HandleUnknown
       \/ HandlerPanics

Server == running = "yes" /\ (ReadFails \/ ReadEnds \/ handleMessage)

-----------------------------------------------------------------------------
Init ==
    /\ session \in Sessions
    /\ sent = <<>> /\ read = 0 /\ torn = FALSE /\ taken = {}
    /\ running = "yes" /\ hungUp = FALSE /\ canceledRequests = {}
    /\ written = <<>> /\ outgoingRequestID = 0 /\ workDoneProgressSupport = FALSE
    /\ WorkspaceFolders = <<>> /\ RootURI = NoFolder /\ editorFolders = {}
    /\ settings = (CHOOSE c \in Settings : TRUE) /\ replies = 0
    /\ parsed = {} /\ shown = {}

Next == Editor \/ Server

\* The reader goroutine never waits for anything but the stream.
Spec == Init /\ [][Next]_vars /\ WF_vars(Server)

-----------------------------------------------------------------------------
(* The fields of the server and of its stream hold what their types say,    *)
(* and the server's own requests are numbered in the order it makes them.   *)
DispatcherTypeOK ==
    /\ read \in 0 .. Len(sent) /\ taken \subseteq 1 .. read
    /\ torn \in BOOLEAN /\ hungUp \in BOOLEAN
    /\ running \in {"yes", "closed", "exited", "crashed"}
    /\ canceledRequests \subseteq Ids
    /\ WorkspaceFolders \in Seq(Folders) /\ settings \in Settings
    /\ {written[j].id : j \in ServerRequests} = 1 .. outgoingRequestID
    /\ \A i, j \in ServerRequests : i < j => written[i].id < written[j].id

\* The message k was refused as cancelled.
Cancelled(k) == \E j \in DOMAIN written : written[j].kind = "cancelled" /\ written[j].to = k

(* An answer carries the identifier of the message it answers, and no       *)
(* message is answered twice: whatever the order of queries, commands that  *)
(* first ask the editor something, cancellations, errors and panics, an     *)
(* editor that waits for the answer of a request gets one at most           *)
(* (handleMessageContext, writeProtocolResponse).                           *)
OneAnswer ==
    /\ DispatcherTypeOK
    /\ \A j \in DOMAIN written :
          written[j].kind # "request" => written[j].id = sent[written[j].to].id
    /\ \A k \in DOMAIN sent :
          Cardinality(AnswersTo(k)) <= 1

(* A request is refused as cancelled exactly when a cancellation of its     *)
(* identifier was read after the request before that had the identifier: a  *)
(* cancellation that comes too late is kept, and hits the request that uses *)
(* the identifier next (handleCancelRequest, takeCanceledRequest).          *)
CancelledSince ==
    \A k \in taken :
        sent[k].method \in Requests =>
            (Cancelled(k) <=>
                \E c \in taken :
                    /\ c < k /\ sent[c].method = "$/cancelRequest" /\ sent[c].good
                    /\ sent[c].arg = sent[k].id
                    /\ \A m \in taken :
                          (c < m /\ m < k) => ~(sent[m].method \in Requests /\ sent[m].id = sent[k].id))

(* When every message of the editor was read, the server's folders are the  *)
(* editor's, each once, and the root is the first of them, also when one    *)
(* message adds and removes (handleDidChangeWorkspaceFolders).              *)
FoldersFollow ==
    taken = DOMAIN sent =>
        /\ ToSet(WorkspaceFolders) = editorFolders
        /\ Len(WorkspaceFolders) = Cardinality(editorFolders)
        /\ RootURI = IF editorFolders = {} THEN NoFolder ELSE WorkspaceFolders[1]

(* Once the workspace was indexed, what the editor shows was computed with  *)
(* the settings in force: no change of a setting is applied without the     *)
(* refresh it needs (applyInitializationOptions, the two flags).  Excepted  *)
(* is what a document keeps from the time it was parsed: a changed limit of *)
(* the parser's errors shows the errors stored under an older one.          *)
ShownWithSettings ==
    \A c \in shown : c.index = settings.index /\ c.publish = settings.publish

(* What the editor tells the server by notification takes effect on what    *)
(* the server shows it, in any order of folders and settings.               *)
EditorFollowed == FoldersFollow /\ ShownWithSettings

\* A request whose handler answers, and whose frame follows no refused body
\* that ended inside a line.
Answerable(k) ==
    /\ k \in DOMAIN sent
    /\ sent[k].method \in Requests
    /\ sent[k].good \/ sent[k].method \in {"initialize", "unknown"}
    /\ sent[k].method = "executeCommand" => sent[k].arg # "unknown"
    /\ \A j \in 1 .. k - 1 : sent[j].fits \/ ~sent[j].midLine

(* A request is answered or refused, whatever its neighbours do, unless the *)
(* process ends first: an unreadable body, an unknown method, an answer     *)
(* nobody waits for and a refused frame whose body ends with its line never *)
(* stop the loop.  After a refused body that ends inside a line nothing of  *)
(* the kind holds: every frame after it takes the length of the next        *)
(* (Start, ReadMessage).                                                    *)
RequestsAnswered ==
    \A k \in 1 .. Max({s.max : s \in Sessions}) :
        Answerable(k) ~> (AnswersTo(k) # {} \/ running # "yes")
=============================================================================
