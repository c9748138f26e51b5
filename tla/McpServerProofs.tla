-------------------------- MODULE McpServerProofs --------------------------
(* Proofs about McpServer, for any number of calls and files: the locks     *)
(* keep readers out of a re-index, the recorded revision is that of the     *)
(* sources indexed, calls never all wait for each other, and each has       *)
(* finitely many steps.                                                     *)
EXTENDS McpServer, FiniteSetTheorems, TLAPS

(* Some places are reached by one tool only, and a re-index gets past the   *)
(* wait for workspaceMu when its readers have left.                         *)
PlacesFit ==
    \A c \in Calls :
        /\ pc[c] \in {"announce", "drain", "walk", "refresh"} => tool[c] = "reindex"
        /\ pc[c] = "diagnose" => tool[c] = "diagnostics"
        /\ \/ pc[c] \in {"walk", "refresh"}
           \/ pc[c] = "mcp" /\ tool[c] = "reindex"
           => readers = {}

LockInv == McpTypeOK /\ PlacesFit

(* A re-index that no write has met: what it has read is what is indexed    *)
(* and on the disk, also when the next re-index has overtaken it.           *)
Undisturbed ==
    \A c \in Calls : tool[c] = "reindex" /\ c \notin moved =>
        /\ pc[c] = "refresh" =>
              /\ \A f \in active \ pinned : index[f] = disk[f]
              /\ \A f \in todo[c] : disk[f] # None
        /\ pc[c] \in {"list", "hash"} =>
              \A f \in FileSet \ pinned :
                  f \in active \/ disk[f] = None => index[f] = disk[f]
        /\ pc[c] = "hash" =>
              \A f \in FileSet : f \in todo[c] \/ snap[c][f] = disk[f]

(* A write that meets a re-index in its files meets those as well that are  *)
(* past theirs, and the sweep at its end takes nothing that is vouched for. *)
Overtaken ==
    \A d \in Calls : pc[d] = "refresh" =>
        /\ d \in moved => \A c \in Calls : tool[c] = "reindex" /\ pc[c] \in {"list", "hash"}
                                              => c \in moved
        /\ \A f \in vouched : f \in active \cup pinned \/ index[f] = None

(* A hash starts from nothing.                                              *)
SnapStarts == \A c \in Calls : pc[c] # "hash" => snap[c] = Nothing

RevisionInv == LockInv /\ Undisturbed /\ Overtaken /\ SnapStarts /\ RevisionIsIndexed

-----------------------------------------------------------------------------
(* What a set of sources is made of.                                        *)
LEMMA SourcesFacts ==
    /\ Nothing \in Sources
    /\ \A s \in Sources : /\ DOMAIN s = FileSet
                         /\ s = [f \in FileSet |-> s[f]]
                         /\ \A f \in FileSet : s[f] \in Texts[f] \cup {None}
    /\ \A s \in Sources : \A f, x :
          (f \in FileSet => x \in Texts[f] \cup {None})
              => [s EXCEPT ![f] = x] \in Sources
<1>0. None \in AnyText /\ \A f \in FileSet : Texts[f] \subseteq AnyText
  <2>1. None \in AnyText
    BY DEF AnyText
  <2>2. ASSUME NEW f \in FileSet PROVE Texts[f] \subseteq AnyText
    <3>1. Texts[f] \in {Texts[g] : g \in FileSet}
      OBVIOUS
    <3>. QED
      BY <3>1 DEF AnyText
  <2>. QED
    BY <2>1, <2>2
<1>1. Nothing \in Sources
  BY <1>0 DEF Nothing, Sources
<1>2. \A s \in Sources : /\ DOMAIN s = FileSet
                        /\ s = [f \in FileSet |-> s[f]]
                        /\ \A f \in FileSet : s[f] \in Texts[f] \cup {None}
  BY DEF Sources
<1>3. ASSUME NEW s \in Sources, NEW f, NEW x,
             f \in FileSet => x \in Texts[f] \cup {None}
      PROVE  [s EXCEPT ![f] = x] \in Sources
  BY <1>0, <1>3 DEF Sources
<1>. QED
  BY <1>1, <1>2, <1>3

(* What the proofs about the locks use of the assumption.                   *)
LEMMA NoneIsNoCall ==
    /\ Main \in Calls /\ None \notin Calls /\ MaxWrites \in Nat
    /\ ToolsOf \in [Calls -> SUBSET Tools]
  BY McpConstantsOK

(* main starts with both locks to itself.                                   *)
LEMMA LockInit ==
    ASSUME Init PROVE LockInv
<1>1. Main \in Calls /\ None \notin Calls /\ MaxWrites \in Nat
  BY McpConstantsOK
<1>2. disk \in Sources
  BY McpConstantsOK DEF Init
<1>3. Nothing \in Sources
  BY SourcesFacts
<1>4. /\ pc \in [Calls -> Places]
      /\ tool \in [Calls -> Tools \cup {"context2", "none"}]
      /\ todo \in [Calls -> SUBSET FileSet]
      /\ snap \in [Calls -> Sources]
  BY <1>3 DEF Init, Places, Tools
<1>5. McpTypeOK
  <2>1. /\ disk \in Sources /\ index \in Sources /\ revision \in Sources
        /\ pinned \subseteq FileSet /\ vouched \subseteq FileSet
        /\ writes \in 0..MaxWrites /\ moved \subseteq Calls
        /\ active \subseteq FileSet
        /\ up \in {"starting", "serving", "failed"}
    BY <1>1, <1>2, <1>3 DEF Init
  <2>0. leaked \in BOOLEAN
    BY Zenon DEF Init
  <2>2. \A c \in Calls :
            IF c = Main THEN pc[c] = "walk" /\ mcp = c /\ writer = c
            ELSE pc[c] = "idle" /\ mcp # c /\ writer # c
    BY <1>1 DEF Init
  <2>3. readers = {}
    BY DEF Init
  <2>. QED
    BY <1>4, <2>0, <2>1, <2>2, <2>3 DEF McpTypeOK
<1>6. PlacesFit
  BY <1>1 DEF Init, PlacesFit
<1>. QED
  BY <1>5, <1>6 DEF LockInv

(* The actions that start a call or take a lock.                            *)
LEMMA LockLocks ==
    ASSUME LockInv, NEW c \in Calls,
           Locks(c) \/ \E t \in ToolsOf[c] : StartTool(c, t)
    PROVE  LockInv'
<1>. USE NoneIsNoCall DEF LockInv
<1>1. CASE announce(c)
  BY <1>1 DEF announce, Goto, McpTypeOK, PlacesFit, Places, storeVars
<1>2. CASE workspaceMuLock(c)
  BY <1>2 DEF workspaceMuLock, Goto, McpTypeOK, PlacesFit, Places, storeVars,
              lockVars
<1>3. CASE workspaceMuRLock(c)
  BY <1>3 DEF workspaceMuRLock, Goto, McpTypeOK, PlacesFit, Places, storeVars
<1>4. CASE mcpMuLock(c)
  BY <1>4 DEF mcpMuLock, Goto, McpTypeOK, PlacesFit, Places, storeVars
<1>5. ASSUME NEW t \in ToolsOf[c], StartTool(c, t) PROVE LockInv'
  BY <1>5 DEF StartTool, FirstStep, Goto, McpTypeOK, PlacesFit, Places, Tools,
              storeVars, lockVars
<1>. QED
  BY <1>1, <1>2, <1>3, <1>4, <1>5 DEF Locks

(* A call that returns: it is idle, and every other is where it was.        *)
LEMMA Returned ==
    ASSUME LockInv, NEW c \in Calls, Return(c)
    PROVE  /\ pc' \in [Calls -> Places] /\ pc'[c] = "idle"
           /\ tool' \in [Calls -> Tools \cup {"context2", "none"}]
           /\ tool'[c] = "none"
           /\ todo' \in [Calls -> SUBSET FileSet]
           /\ snap' \in [Calls -> Sources] /\ snap'[c] = Nothing
           /\ \A d \in Calls \ {c} : /\ pc'[d] = pc[d] /\ tool'[d] = tool[d]
                                     /\ todo'[d] = todo[d] /\ snap'[d] = snap[d]
<1>1. /\ pc \in [Calls -> Places]
      /\ tool \in [Calls -> Tools \cup {"context2", "none"}]
      /\ todo \in [Calls -> SUBSET FileSet] /\ snap \in [Calls -> Sources]
  BY DEF LockInv, McpTypeOK
<1>2. Nothing \in Sources
  BY SourcesFacts
<1>. QED
  BY <1>1, <1>2 DEF Return, Goto, Places

(* The steps of a re-index.                                                 *)
LEMMA LockRefresh ==
    ASSUME LockInv, NEW c \in Calls,
           \/ refreshList(c) \/ refreshDone(c) \/ refreshPanics(c)
           \/ \E f \in FileSet : refreshFile(c, f)
    PROVE  LockInv'
<1>. USE NoneIsNoCall DEF LockInv
<1>0. /\ pc \in [Calls -> Places] /\ todo \in [Calls -> SUBSET FileSet]
      /\ index \in Sources /\ disk \in Sources /\ active \subseteq FileSet
  BY DEF McpTypeOK
<1>1. CASE refreshList(c)
  <2>1. /\ active' \subseteq FileSet
        /\ todo' \in [Calls -> SUBSET FileSet]
    BY <1>0, <1>1 DEF refreshList, Listed, Present
  <2>. QED
    BY <1>1, <2>1 DEF refreshList, Goto, McpTypeOK, PlacesFit, Places, lockVars
<1>2. ASSUME NEW f \in FileSet, refreshFile(c, f) PROVE LockInv'
  <2>1. index' \in Sources
    <3>1. PICK x : /\ index' = [index EXCEPT ![f] = x]
                   /\ x \in {None, index[f], disk[f]}
      BY <1>2 DEF refreshFile
    <3>2. x \in Texts[f] \cup {None}
      BY <1>0, <3>1, SourcesFacts
    <3>. QED
      BY <1>0, <3>1, <3>2, SourcesFacts
  <2>2. active' \subseteq FileSet
    BY <1>2 DEF refreshFile, McpTypeOK
  <2>. QED
    BY <1>2, <2>1, <2>2 DEF refreshFile, McpTypeOK, PlacesFit, lockVars
<1>3. CASE refreshDone(c)
  <2>1. index' \in Sources
    <3>1. \A f \in FileSet : index[f] \in AnyText /\ index[f] \in Texts[f] \cup {None}
      BY <1>0 DEF Sources
    <3>2. None \in AnyText
      BY DEF AnyText
    <3>3. index' = [f \in FileSet |-> IF f \in active \cup pinned THEN index[f] ELSE None]
      BY <1>3 DEF refreshDone
    <3>. QED
      BY <3>1, <3>2, <3>3 DEF Sources
  <2>. QED
    BY <1>3, <2>1 DEF refreshDone, Goto, McpTypeOK, PlacesFit, Places
<1>4. CASE refreshPanics(c)
  <2>1. Return(c)
    BY <1>4 DEF refreshPanics, Fail
  <2>2. PlacesFit'
    BY <1>4, <2>1, Returned DEF refreshPanics, PlacesFit
  <2>3. McpTypeOK'
    BY <1>4, <2>1, Returned DEF refreshPanics, Fail, McpTypeOK
  <2>. QED
    BY <2>2, <2>3
<1>. QED
  BY <1>1, <1>2, <1>3, <1>4

(* The hash of the sources and what becomes of it.                          *)
LEMMA LockHash ==
    ASSUME LockInv, NEW c \in Calls,
           \/ hashList(c) \/ hashFile(c)
           \/ captureFreshness(c) \/ currentFreshness(c)
    PROVE  LockInv'
<1>. USE NoneIsNoCall DEF LockInv
<1>1. CASE hashList(c)
  BY <1>1 DEF hashList, Goto, McpTypeOK, PlacesFit, Places, lockVars, storeVars,
              Present
<1>2. CASE hashFile(c)
  <2>1. PICK f : IF disk[f] = None THEN Fail(c)
                 ELSE /\ snap' = [snap EXCEPT ![c][f] = disk[f]]
                      /\ todo' = [todo EXCEPT ![c] = @ \ {f}]
                      /\ UNCHANGED <<pc, tool, up>>
    BY <1>2 DEF hashFile
  <2>2. CASE Fail(c)
    BY <1>2, <2>2, Returned DEF hashFile, Fail, McpTypeOK, PlacesFit, lockVars
  <2>3. CASE ~Fail(c)
    <3>1. [snap[c] EXCEPT ![f] = disk[f]] \in Sources
      BY SourcesFacts DEF McpTypeOK
    <3>2. snap' \in [Calls -> Sources]
      BY <2>1, <2>3, <3>1 DEF McpTypeOK
    <3>. QED
      BY <1>2, <2>1, <2>3, <3>2 DEF hashFile, McpTypeOK, PlacesFit, lockVars
  <2>. QED
    BY <2>2, <2>3
<1>3. CASE captureFreshness(c)
  BY <1>3, Returned DEF captureFreshness, McpTypeOK, PlacesFit, lockVars
<1>4. CASE currentFreshness(c)
  BY <1>4, Returned DEF currentFreshness, McpTypeOK, PlacesFit, lockVars, storeVars
<1>. QED
  BY <1>1, <1>2, <1>3, <1>4

(* The tools that read, and the disk.                                       *)
LEMMA LockReads ==
    ASSUME LockInv, NEW c \in Calls,
           \/ summary(c) \/ fivemEvents(c) \/ MCPRequestContext(c)
           \/ \E f \in FileSet : MCPDiagnostics(c, f) \/ diagnosticsPanics(c, f)
    PROVE  LockInv'
<1>. USE NoneIsNoCall DEF LockInv
<1>1. CASE summary(c)
  <2>1. CASE tool[c] = "status"
    BY <1>1, <2>1 DEF summary, Goto, McpTypeOK, PlacesFit, Places, storeVars
  <2>2. CASE tool[c] # "status"
    BY <1>1, <2>2, Returned DEF summary, McpTypeOK, PlacesFit, storeVars
  <2>. QED
    BY <2>1, <2>2
<1>2. CASE fivemEvents(c)
  BY <1>2, Returned DEF fivemEvents, McpTypeOK, PlacesFit, lockVars, storeVars
<1>3. CASE MCPRequestContext(c)
  <2>1. CASE Return(c)
    BY <1>3, <2>1, Returned DEF MCPRequestContext, McpTypeOK, PlacesFit, storeVars
  <2>2. CASE ~Return(c)
    BY <1>3, <2>2 DEF MCPRequestContext, Goto, McpTypeOK, PlacesFit, Places, Tools,
                      storeVars
  <2>. QED
    BY <2>1, <2>2
<1>4. ASSUME NEW f \in FileSet, MCPDiagnostics(c, f) PROVE LockInv'
  BY <1>4, Returned DEF MCPDiagnostics, McpTypeOK, PlacesFit
<1>5. ASSUME NEW f \in FileSet, diagnosticsPanics(c, f) PROVE LockInv'
  BY <1>5, Returned DEF diagnosticsPanics, McpTypeOK, PlacesFit
<1>. QED
  BY <1>1, <1>2, <1>3, <1>4, <1>5

(* LockInv is inductive.                                                    *)
LEMMA LockStep ==
    ASSUME LockInv, [Next]_vars PROVE LockInv'
<1>1. ASSUME NEW f \in FileSet, NEW x \in Texts[f] \cup {None}, WriteFile(f, x)
      PROVE  LockInv'
  <2>1. disk' \in Sources
    BY <1>1, SourcesFacts DEF WriteFile, LockInv, McpTypeOK
  <2>. QED
    BY <1>1, <2>1, NoneIsNoCall
    DEF WriteFile, LockInv, McpTypeOK, PlacesFit, storeVars, callVars, lockVars
<1>2. CASE UNCHANGED vars
  BY <1>2 DEF vars, LockInv, McpTypeOK, PlacesFit
<1>3. ASSUME NEW c \in Calls, Runs(c) \/ Panics(c) PROVE LockInv'
  BY <1>3, LockRefresh, LockHash, LockReads DEF Runs, Panics
<1>. QED
  BY <1>1, <1>2, <1>3, LockLocks DEF Next

(* A call is inside a lock exactly when the lock says so, whatever errors   *)
(* and panics calls end in (server.reindex, server.diagnostics, mcpMu).     *)
THEOREM McpTypeCorrect == Spec => []McpTypeOK
<1>1. Init => LockInv
  BY LockInit
<1>2. LockInv /\ [Next]_vars => LockInv'
  BY LockStep
<1>3. LockInv => McpTypeOK
  BY DEF LockInv
<1>. QED
  BY <1>1, <1>2, <1>3, PTL DEF Spec

(* However many calls run, none reads the index while a re-index replaces   *)
(* it (workspaceMu and mcpMu).                                              *)
THEOREM ReadersExcluded == Spec => []ReadsAreWhole
<1>1. Init => LockInv
  BY LockInit
<1>2. LockInv /\ [Next]_vars => LockInv'
  BY LockStep
<1>3. LockInv => ReadsAreWhole
  BY DEF LockInv, McpTypeOK, PlacesFit, ReadsAreWhole
<1>. QED
  BY <1>1, <1>2, <1>3, PTL DEF Spec

-----------------------------------------------------------------------------
(* A call that returns has nothing left to be said of it.                   *)
LEMMA RevisionReturned ==
    ASSUME RevisionInv, NEW c \in Calls, Return(c),
           disk' = disk, index' = index, active' = active, pinned \subseteq pinned',
           moved' = moved \/ moved' = moved \ {c},
           \A f \in vouched' \ vouched : f \in active \/ index[f] = None
    PROVE  Undisturbed' /\ Overtaken' /\ SnapStarts'
<1>1. LockInv
  BY DEF RevisionInv
<1>2. Undisturbed' /\ SnapStarts'
  BY <1>1, Returned DEF RevisionInv, Undisturbed, SnapStarts, Nothing
<1>3. Overtaken'
  BY <1>1, Returned DEF RevisionInv, Overtaken
<1>. QED
  BY <1>2, <1>3

(* Steps that read no file leave every re-index as it was.                  *)
LEMMA RevisionElsewhere ==
    ASSUME RevisionInv, NEW c \in Calls,
           \/ Locks(c) \/ \E t \in ToolsOf[c] : StartTool(c, t)
           \/ summary(c) \/ fivemEvents(c) \/ MCPRequestContext(c)
           \/ refreshPanics(c)
           \/ \E f \in FileSet : MCPDiagnostics(c, f) \/ diagnosticsPanics(c, f)
    PROVE  Undisturbed' /\ Overtaken' /\ SnapStarts' /\ RevisionIsIndexed'
<1>. USE DEF RevisionInv
<1>1. pc \in [Calls -> Places] /\ tool \in [Calls -> Tools \cup {"context2", "none"}]
  BY DEF LockInv, McpTypeOK
<1>2. index' = index /\ revision' = revision /\ vouched' = vouched /\ disk' = disk
      /\ moved' = moved /\ active' = active /\ pinned \subseteq pinned'
  BY DEF Locks, announce, workspaceMuLock, workspaceMuRLock, mcpMuLock, StartTool,
         summary, fivemEvents, MCPRequestContext, refreshPanics, MCPDiagnostics,
         diagnosticsPanics, storeVars
<1>3. RevisionIsIndexed'
  BY <1>2 DEF RevisionIsIndexed
<1>4. CASE Return(c)
  BY <1>2, <1>3, <1>4, RevisionReturned
<1>5. CASE ~Return(c)
  <2>1. /\ todo' = todo /\ snap' = snap
        /\ \A d \in Calls \ {c} : pc'[d] = pc[d] /\ tool'[d] = tool[d]
        /\ pc[c] # "hash" /\ pc'[c] \notin {"refresh", "hash"}
        /\ pc'[c] = "list" => tool'[c] # "reindex"
    BY <1>1, <1>5 DEF Locks, announce, workspaceMuLock, workspaceMuRLock, mcpMuLock,
       StartTool, FirstStep, Goto, summary, fivemEvents, MCPRequestContext,
       refreshPanics, Fail, MCPDiagnostics, diagnosticsPanics
  <2>2. Undisturbed' /\ SnapStarts'
    BY <1>2, <2>1 DEF Undisturbed, SnapStarts, Nothing
  <2>3. Overtaken'
    BY <1>2, <2>1 DEF Overtaken
  <2>. QED
    BY <1>3, <2>2, <2>3
<1>. QED
  BY <1>4, <1>5

(* A re-index of one call confirms what an undisturbed other one has read.  *)
LEMMA RevisionRefresh ==
    ASSUME RevisionInv, NEW c \in Calls,
           refreshList(c) \/ refreshDone(c) \/ \E f \in FileSet : refreshFile(c, f)
    PROVE  Undisturbed' /\ Overtaken' /\ SnapStarts' /\ RevisionIsIndexed'
<1>. USE DEF RevisionInv
<1>1. /\ pc \in [Calls -> Places] /\ todo \in [Calls -> SUBSET FileSet]
      /\ active \subseteq FileSet /\ vouched \subseteq FileSet
      /\ pc[c] \in {"walk", "refresh"} =>
            \A d \in Calls \ {c} : pc[d] # "refresh"
  BY DEF LockInv, McpTypeOK
<1>2. /\ DOMAIN index = FileSet /\ DOMAIN disk = FileSet
  BY SourcesFacts DEF LockInv, McpTypeOK
<1>3. CASE refreshList(c)
  <2>1. \A d \in Calls \ {c} : pc'[d] = pc[d] /\ todo'[d] = todo[d]
    BY <1>1, <1>3 DEF refreshList, Goto
  <2>2. /\ \A f \in active' : f \in pinned \/ index[f] = disk[f]
        /\ \A f \in todo'[c] : disk[f] # None
    BY <1>1, <1>3 DEF refreshList, Listed, Present
  <2>3. pc'[c] = "refresh" /\ vouched' = {} /\ moved' = moved \ {c}
        /\ UNCHANGED <<index, disk, pinned, tool, snap>>
    BY <1>1, <1>3 DEF refreshList, Goto
  <2>4. Undisturbed'
    BY <1>1, <1>3, <2>1, <2>2, <2>3 DEF Undisturbed
  <2>5. Overtaken'
    BY <1>1, <1>3, <2>1, <2>3 DEF refreshList, Overtaken
  <2>6. SnapStarts' /\ RevisionIsIndexed'
    BY <1>3, <2>1, <2>3 DEF refreshList, SnapStarts, RevisionIsIndexed, Nothing
  <2>. QED
    BY <2>4, <2>5, <2>6
<1>4. CASE refreshDone(c)
  <2>1. \A f \in FileSet : index'[f] = IF f \in active \cup pinned THEN index[f] ELSE None
    BY <1>4 DEF refreshDone
  <2>2. /\ pc[c] = "refresh" /\ pc'[c] = "list"
        /\ \A d \in Calls \ {c} : pc'[d] = pc[d]
        /\ UNCHANGED <<disk, pinned, active, revision, vouched, tool, todo, snap, moved>>
    BY <1>1, <1>4 DEF refreshDone, Goto
  <2>3. Undisturbed'
    BY <1>1, <2>1, <2>2 DEF Undisturbed
  <2>4. Overtaken'
    BY <1>1, <2>2 DEF Overtaken
  <2>5. RevisionIsIndexed'
    BY <1>1, <2>1, <2>2 DEF Overtaken, RevisionIsIndexed
  <2>6. SnapStarts'
    BY <2>2 DEF SnapStarts, Nothing
  <2>. QED
    BY <2>3, <2>4, <2>5, <2>6
<1>5. ASSUME NEW f \in FileSet, refreshFile(c, f)
      PROVE  Undisturbed' /\ Overtaken' /\ SnapStarts' /\ RevisionIsIndexed'
  <2>1. /\ \A d \in Calls \ {c} : todo'[d] = todo[d]
        /\ todo'[c] = todo[c] \ {f} /\ f \in todo[c] /\ pc[c] = "refresh"
        /\ \A g \in FileSet \ {f} : index'[g] = index[g]
        /\ vouched' = vouched \ {f}
        /\ UNCHANGED <<disk, pinned, revision, pc, tool, snap, moved>>
    BY <1>1, <1>2, <1>5 DEF refreshFile
  <2>2. \/ /\ index'[f] = IF disk[f] = None THEN index[f] ELSE disk[f]
           /\ active' = active \cup {f}
        \/ disk[f] # None /\ index[f] # disk[f] /\ active' = active
    BY <1>2, <1>5 DEF refreshFile
  <2>3. \A d \in Calls \ {c} :
            tool[d] = "reindex" /\ d \notin moved /\ pc[d] \in {"list", "hash"} => c \notin moved
    BY <1>1, <2>1 DEF Overtaken
  <2>4. \A d \in Calls : tool[d] = "reindex" /\ d \notin moved
                         /\ pc[d] \in {"refresh", "list", "hash"} => disk[f] # None
    BY <1>1, <2>1, <2>3 DEF Undisturbed, LockInv, PlacesFit
  <2>5. Undisturbed'
    BY <1>1, <2>1, <2>2, <2>4 DEF Undisturbed
  <2>6. Overtaken'
    BY <1>1, <2>1, <2>2 DEF Overtaken
  <2>7. RevisionIsIndexed'
    BY <1>1, <2>1 DEF RevisionIsIndexed
  <2>8. SnapStarts'
    BY <2>1 DEF SnapStarts, Nothing
  <2>. QED
    BY <2>5, <2>6, <2>7, <2>8
<1>. QED
  BY <1>3, <1>4, <1>5

(* The hash of an undisturbed re-index is of what it has indexed.           *)
LEMMA RevisionHash ==
    ASSUME RevisionInv, NEW c \in Calls,
           \/ hashList(c) \/ hashFile(c)
           \/ captureFreshness(c) \/ currentFreshness(c)
    PROVE  Undisturbed' /\ Overtaken' /\ SnapStarts' /\ RevisionIsIndexed'
<1>. USE DEF RevisionInv
<1>1. /\ pc \in [Calls -> Places] /\ todo \in [Calls -> SUBSET FileSet]
      /\ snap \in [Calls -> Sources]
  BY DEF LockInv, McpTypeOK
<1>2. CASE hashList(c)
  <2>1. Overtaken'
    BY <1>1, <1>2 DEF hashList, Goto, Overtaken, storeVars
  <2>. QED
    BY <1>1, <1>2, <2>1 DEF hashList, Goto, Present, Undisturbed, SnapStarts,
                            RevisionIsIndexed, storeVars, Nothing
<1>3. CASE hashFile(c)
  <2>1. PICK f \in todo[c] :
              IF disk[f] = None THEN Fail(c)
                 ELSE /\ snap' = [snap EXCEPT ![c][f] = disk[f]]
                      /\ todo' = [todo EXCEPT ![c] = @ \ {f}]
                      /\ UNCHANGED <<pc, tool, up>>
    BY <1>3 DEF hashFile
  <2>2. CASE Fail(c)
    BY <1>3, <2>2, RevisionReturned DEF hashFile, Fail, RevisionIsIndexed
  <2>3. CASE ~Fail(c)
    <3>1. snap[c] \in Sources /\ DOMAIN snap[c] = FileSet
      BY <1>1, SourcesFacts
    <3>2. /\ \A d \in Calls \ {c} : todo'[d] = todo[d] /\ snap'[d] = snap[d]
          /\ todo'[c] = todo[c] \ {f}
          /\ \A g \in FileSet : snap'[c][g] = IF g = f THEN disk[g] ELSE snap[c][g]
      BY <1>1, <2>1, <2>3, <3>1
    <3>3. Overtaken'
      BY <1>3, <2>1, <2>3 DEF hashFile, Overtaken
    <3>. QED
      BY <1>1, <1>3, <2>1, <2>3, <3>2, <3>3
      DEF hashFile, Undisturbed, SnapStarts, RevisionIsIndexed, Nothing
  <2>. QED
    BY <2>2, <2>3
<1>4. CASE captureFreshness(c)
  <2>1. \A f \in vouched' : /\ f \in FileSet \ pinned /\ c \notin moved
                            /\ f \in active \/ disk[f] = None
                            /\ index[f] = disk[f]
    BY <1>4 DEF captureFreshness, Undisturbed
  <2>2. Undisturbed' /\ Overtaken' /\ SnapStarts'
    BY <1>4, <2>1, RevisionReturned DEF captureFreshness
  <2>3. RevisionIsIndexed'
    BY <1>4, <2>1 DEF captureFreshness, Undisturbed, RevisionIsIndexed
  <2>. QED
    BY <2>2, <2>3
<1>5. CASE currentFreshness(c)
  BY <1>5, RevisionReturned DEF currentFreshness, RevisionIsIndexed, storeVars
<1>. QED
  BY <1>2, <1>3, <1>4, <1>5

(* The revision recorded by an undisturbed re-index is that of the sources  *)
(* indexed, for any number of calls that overlap it (captureFreshness).     *)
THEOREM RevisionCorrect == Spec => []RevisionIsIndexed
<1>1. Init => RevisionInv
  <2>1. ASSUME Init PROVE Undisturbed /\ Overtaken /\ SnapStarts /\ RevisionIsIndexed
    <3>1. \A c \in Calls : pc[c] \in {"walk", "idle"} /\ snap[c] = Nothing
      BY <2>1 DEF Init
    <3>2. vouched = {}
      BY <2>1 DEF Init
    <3>. QED
      BY <3>1, <3>2 DEF Undisturbed, Overtaken, SnapStarts, RevisionIsIndexed
  <2>. QED
    BY <2>1, LockInit DEF RevisionInv
<1>2. RevisionInv /\ [Next]_vars => RevisionInv'
  <2>. SUFFICES ASSUME RevisionInv, [Next]_vars PROVE RevisionInv'
    OBVIOUS
  <2>1. LockInv'
    BY LockStep DEF RevisionInv
  <2>2. ASSUME NEW f \in FileSet, NEW x \in Texts[f] \cup {None}, WriteFile(f, x)
        PROVE  Undisturbed' /\ Overtaken' /\ SnapStarts' /\ RevisionIsIndexed'
    <3>1. \A c \in Calls : tool'[c] = "reindex" /\ c \notin moved' =>
              pc'[c] \notin {"refresh", "list", "hash"}
      BY <2>2 DEF WriteFile, callVars
    <3>2. Undisturbed'
      BY <3>1 DEF Undisturbed
    <3>3. Overtaken'
      BY <2>2 DEF WriteFile, RevisionInv, Overtaken, storeVars, callVars
    <3>. QED
      BY <2>2, <3>2, <3>3 DEF WriteFile, RevisionInv, SnapStarts, RevisionIsIndexed,
                        storeVars, callVars, Nothing
  <2>3. ASSUME UNCHANGED vars
        PROVE  Undisturbed' /\ Overtaken' /\ SnapStarts' /\ RevisionIsIndexed'
    BY <2>3 DEF vars, RevisionInv, Undisturbed, Overtaken, SnapStarts, RevisionIsIndexed,
                Nothing
  <2>4. ASSUME NEW c \in Calls, Runs(c) \/ Panics(c)
        PROVE  Undisturbed' /\ Overtaken' /\ SnapStarts' /\ RevisionIsIndexed'
    BY <2>4, RevisionElsewhere, RevisionRefresh, RevisionHash DEF Runs, Panics
  <2>5. ASSUME NEW c \in Calls, Locks(c) \/ \E t \in ToolsOf[c] : StartTool(c, t)
        PROVE  Undisturbed' /\ Overtaken' /\ SnapStarts' /\ RevisionIsIndexed'
    BY <2>5, RevisionElsewhere
  <2>6. Undisturbed' /\ Overtaken' /\ SnapStarts' /\ RevisionIsIndexed'
    BY <2>2, <2>3, <2>4, <2>5 DEF Next
  <2>. QED
    BY <2>1, <2>6 DEF RevisionInv
<1>3. RevisionInv => RevisionIsIndexed
  BY DEF RevisionInv
<1>. QED
  BY <1>1, <1>2, <1>3, PTL DEF Spec

-----------------------------------------------------------------------------
(* The return of a call: its two halves that need no fairness.              *)

(* The calls that wait for no lock.  A call that diagnoses names a file.    *)
CanRun(c) ==
    \/ pc[c] \in {"announce", "rlock"} /\ writer = None
    \/ pc[c] = "drain" /\ readers = {} /\ ~leaked
    \/ pc[c] = "mcp" /\ mcp = None
    \/ pc[c] = "refresh"
    \/ pc[c] = "hash" /\ (todo[c] # {} \/ tool[c] \in {"reindex", "status"})
    \/ pc[c] = "diagnose" /\ FileSet # {}
    \/ pc[c] \in {"walk", "list", "read", "serve", "peek"}
CallsCanGo ==
    ~leaked /\ FileSet # {} /\ (\E c \in Calls : pc[c] # "idle") =>
        \E c \in Calls : CanRun(c)

(* What a call has before it: places, and files to refresh and to hash.     *)
AllFiles == Cardinality(FileSet)
FromMcp(t) ==
    CASE t = "reindex" -> 2 * AllFiles + 6
      [] t = "context" -> 6
      [] t = "context2" -> 4
      [] OTHER -> 2
LeftAt(place, t, n) ==
    CASE place = "idle" -> 0
      [] place = "announce" -> 2 * AllFiles + 8
      [] place = "drain" -> 2 * AllFiles + 7
      [] place = "mcp" -> FromMcp(t)
      [] place = "serve" -> FromMcp(t) - 1
      [] place = "walk" -> 2 * AllFiles + 5
      [] place = "refresh" -> AllFiles + 3 + n
      [] place = "rlock" -> AllFiles + 4
      [] place = "read" -> AllFiles + 3
      [] place = "list" -> AllFiles + 2
      [] place = "hash" -> 1 + n
      [] OTHER -> 1
Left(c) == LeftAt(pc[c], tool[c], Cardinality(todo[c]))

SameCall(c) == pc'[c] = pc[c] /\ tool'[c] = tool[c] /\ todo'[c] = todo[c]

(* Every step of a call is one of those it has before it, and no other      *)
(* call, panic or write of another program adds to them.                    *)
CallsShorten ==
    [][\A c \in Calls :
          /\ Locks(c) \/ Runs(c) \/ Panics(c) => Left(c)' < Left(c)
          /\ pc[c] # "idle" => Left(c)' < Left(c) \/ SameCall(c)]_vars

(* Who holds a lock is a call, and who hashes will do something with it.    *)
HoldersFit ==
    /\ writer \in Calls \cup {None} /\ mcp \in Calls \cup {None} /\ readers \subseteq Calls
    /\ \A c \in Calls : pc[c] \in {"list", "hash"} => tool[c] \in {"reindex", "status"}

ProgressInv == LockInv /\ HoldersFit

(* HoldersFit is kept by every step of a call.                              *)
LEMMA HoldersStep ==
    ASSUME ProgressInv, NEW c \in Calls,
           \/ Locks(c) \/ Runs(c) \/ Panics(c) \/ \E t \in ToolsOf[c] : StartTool(c, t)
    PROVE  HoldersFit'
<1>. USE DEF ProgressInv, HoldersFit
<1>0. /\ pc \in [Calls -> Places] /\ tool \in [Calls -> Tools \cup {"context2", "none"}]
      /\ todo \in [Calls -> SUBSET FileSet]
  BY DEF LockInv, McpTypeOK
<1>1. ASSUME Return(c), writer' \in {writer, None}, mcp' \in {mcp, None}, readers' \subseteq readers
      PROVE  HoldersFit'
  BY <1>1, Returned
<1>2. CASE Locks(c)
  BY <1>0, <1>2 DEF Locks, announce, workspaceMuLock, workspaceMuRLock, mcpMuLock, Goto, lockVars
<1>3. CASE \E t \in ToolsOf[c] : StartTool(c, t)
  BY <1>0, <1>3 DEF StartTool, FirstStep, Goto, lockVars
<1>4. CASE refreshList(c) \/ refreshDone(c) \/ hashList(c) \/ \E f \in FileSet : refreshFile(c, f)
  BY <1>0, <1>4 DEF refreshList, refreshDone, hashList, refreshFile, Goto, lockVars, LockInv, PlacesFit
<1>5. CASE hashFile(c)
  <2>1. CASE Return(c)
    BY <1>1, <1>5, <2>1 DEF hashFile, lockVars
  <2>2. CASE ~Return(c)
    BY <1>5, <2>2 DEF hashFile, Fail, lockVars
  <2>. QED
    BY <2>1, <2>2
<1>6. CASE summary(c)
  <2>1. CASE Return(c)
    BY <1>1, <1>6, <2>1 DEF summary
  <2>2. CASE ~Return(c)
    BY <1>0, <1>6, <2>2 DEF summary, Goto
  <2>. QED
    BY <2>1, <2>2
<1>7. CASE MCPRequestContext(c)
  <2>1. CASE Return(c)
    BY <1>1, <1>7, <2>1 DEF MCPRequestContext
  <2>2. CASE ~Return(c)
    BY <1>0, <1>7, <2>2 DEF MCPRequestContext, Goto
  <2>. QED
    BY <2>1, <2>2
<1>8. CASE \/ captureFreshness(c) \/ currentFreshness(c) \/ fivemEvents(c)
  BY <1>1, <1>8 DEF captureFreshness, currentFreshness, fivemEvents, lockVars
<1>9. CASE \E f \in FileSet : MCPDiagnostics(c, f)
  BY <1>1, <1>9 DEF MCPDiagnostics
<1>10. CASE Panics(c)
  BY <1>1, <1>10 DEF Panics, refreshPanics, diagnosticsPanics, Fail
<1>. QED
  BY <1>2, <1>3, <1>4, <1>5, <1>6, <1>7, <1>8, <1>9, <1>10 DEF Runs

(* main starts with the holds it needs.                                     *)
LEMMA ProgressInit == Init => ProgressInv
<1>. SUFFICES ASSUME Init PROVE HoldersFit
  BY LockInit DEF ProgressInv
<1>. QED
  BY McpConstantsOK DEF Init, HoldersFit

(* ProgressInv is inductive.                                                *)
LEMMA ProgressStep == ProgressInv /\ [Next]_vars => ProgressInv'
<1>. SUFFICES ASSUME ProgressInv, [Next]_vars PROVE ProgressInv'
  OBVIOUS
<1>1. LockInv'
  BY LockStep DEF ProgressInv
<1>2. ASSUME NEW f \in FileSet, NEW x \in Texts[f] \cup {None}, WriteFile(f, x)
      PROVE  HoldersFit'
  BY <1>2 DEF WriteFile, callVars, lockVars, ProgressInv, HoldersFit
<1>3. ASSUME UNCHANGED vars PROVE HoldersFit'
  BY <1>3 DEF vars, ProgressInv, HoldersFit
<1>4. ASSUME NEW c \in Calls,
             \/ Locks(c) \/ Runs(c) \/ Panics(c) \/ \E t \in ToolsOf[c] : StartTool(c, t)
      PROVE  HoldersFit'
  BY <1>4, HoldersStep
<1>5. HoldersFit'
  BY <1>2, <1>3, <1>4 DEF Next
<1>. QED
  BY <1>1, <1>5 DEF ProgressInv

(* The order of the locks: who holds mcpMu runs, who has a reader's hold of *)
(* workspaceMu waits for mcpMu at most, and who has announced itself waits  *)
(* for those two.                                                           *)
LEMMA SomeoneRuns == ProgressInv => CallsCanGo
<1>. SUFFICES ASSUME ProgressInv, ~leaked, FileSet # {}, NEW c \in Calls, pc[c] # "idle",
                     \A d \in Calls : ~CanRun(d)
              PROVE  FALSE
  BY DEF CallsCanGo
<1>0. pc \in [Calls -> Places]
  BY DEF ProgressInv, LockInv, McpTypeOK
<1>1. \A d \in Calls : pc[d] \in {"idle", "announce", "drain", "rlock", "mcp"}
  BY <1>0 DEF CanRun, Places, ProgressInv, HoldersFit
<1>2. mcp = None
  BY <1>1 DEF ProgressInv, HoldersFit, LockInv, McpTypeOK
<1>3. \A d \in Calls : pc[d] # "mcp"
  BY <1>2 DEF CanRun
<1>4. readers = {}
  BY <1>1, <1>3 DEF ProgressInv, HoldersFit, LockInv, McpTypeOK
<1>5. \A d \in Calls : pc[d] # "drain"
  BY <1>4 DEF CanRun
<1>6. writer = None
  BY <1>1, <1>3, <1>5 DEF ProgressInv, HoldersFit, LockInv, McpTypeOK
<1>. QED
  BY <1>1, <1>3, <1>5, <1>6 DEF CanRun

(* The files are finitely many, and so are those a call has still to read.  *)
LEMMA FewerFiles ==
    /\ IsFiniteSet(FileSet) /\ AllFiles \in Nat
    /\ \A s \in SUBSET FileSet :
          /\ Cardinality(s) \in Nat /\ Cardinality(s) <= AllFiles
          /\ \A f \in s : /\ Cardinality(s \ {f}) \in Nat
                          /\ Cardinality(s \ {f}) < Cardinality(s)
<1>1. IsFiniteSet(FileSet)
  <2>1. Len(Files) \in Nat /\ Files \in [1 .. Len(Files) -> FileSet]
    BY McpConstantsOK DEF FileSet
  <2>2. Files \in Surjection(1 .. Len(Files), FileSet)
    BY <2>1 DEF FileSet, ToSet, Surjection
  <2>3. IsFiniteSet(1 .. Len(Files))
    BY <2>1, FS_Interval
  <2>. QED
    BY <2>2, <2>3, FS_Surjection
<1>2. AllFiles \in Nat
  BY <1>1, FS_CardinalityType DEF AllFiles
<1>3. ASSUME NEW s \in SUBSET FileSet
      PROVE  IsFiniteSet(s) /\ Cardinality(s) \in Nat /\ Cardinality(s) <= AllFiles
  BY <1>1, <1>3, FS_Subset, FS_CardinalityType DEF AllFiles
<1>4. ASSUME NEW s \in SUBSET FileSet, NEW f \in s
      PROVE  Cardinality(s \ {f}) \in Nat /\ Cardinality(s \ {f}) < Cardinality(s)
  <2>1. IsFiniteSet(s) /\ Cardinality(s) \in Nat
    BY <1>3
  <2>2. IsFiniteSet(s \ {f}) /\ Cardinality(s \ {f}) = Cardinality(s) - 1
    BY <2>1, FS_RemoveElement
  <2>3. Cardinality(s \ {f}) \in Nat
    BY <2>2, FS_CardinalityType
  <2>. QED
    BY <2>1, <2>2, <2>3
<1>. QED
  BY <1>1, <1>2, <1>3, <1>4

(* A call that has not returned has something before it.                    *)
LEMMA LeftIs ==
    ASSUME NEW place \in Places, NEW t, NEW n \in Nat
    PROVE  /\ LeftAt(place, t, n) \in Nat
           /\ place # "idle" => LeftAt(place, t, n) > 0
<1>1. PICK k : k = AllFiles
  OBVIOUS
<1>2. k \in Nat
  BY <1>1, FewerFiles
<1>3. FromMcp(t) \in {2 * k + 6, 6, 4, 2}
  BY <1>1 DEF FromMcp
<1>4. PICK m : m = FromMcp(t)
  OBVIOUS
<1>5. m \in Nat /\ m - 1 \in Nat /\ m > 0 /\ m - 1 > 0
  BY <1>2, <1>3, <1>4
<1>6. /\ 2 * k + 8 \in Nat /\ 2 * k + 7 \in Nat /\ 2 * k + 5 \in Nat /\ k + 3 + n \in Nat
      /\ k + 4 \in Nat /\ k + 3 \in Nat /\ k + 2 \in Nat /\ 1 + n \in Nat
      /\ 2 * k + 8 > 0 /\ 2 * k + 7 > 0 /\ 2 * k + 5 > 0 /\ k + 3 + n > 0
      /\ k + 4 > 0 /\ k + 3 > 0 /\ k + 2 > 0 /\ 1 + n > 0
  BY <1>2
<1>7. \/ place = "idle" /\ LeftAt(place, t, n) = 0
      \/ place # "idle" /\ LeftAt(place, t, n)
            \in {2 * k + 8, 2 * k + 7, m, m - 1, 2 * k + 5, k + 3 + n, k + 4, k + 3, k + 2, 1 + n, 1}
  BY <1>1, <1>4 DEF LeftAt
<1>8. CASE place = "idle" /\ LeftAt(place, t, n) = 0
  BY <1>8
<1>9. CASE place # "idle" /\ LeftAt(place, t, n)
            \in {2 * k + 8, 2 * k + 7, m, m - 1, 2 * k + 5, k + 3 + n, k + 4, k + 3, k + 2, 1 + n, 1}
  <2>1. PICK l : l = LeftAt(place, t, n)
    OBVIOUS
  <2>2. l \in {2 * k + 8, 2 * k + 7, m, m - 1, 2 * k + 5, k + 3 + n, k + 4, k + 3, k + 2, 1 + n, 1}
    BY <1>9, <2>1
  <2>3. l \in Nat /\ l > 0
    BY <1>5, <1>6, <2>2
  <2>. QED
    BY <2>1, <2>3
<1>. QED
  BY <1>7, <1>8, <1>9

(* A call that returns has nothing before it.                               *)
LEMMA ReturnShortens ==
    ASSUME LockInv, NEW c \in Calls, pc[c] # "idle", Return(c)
    PROVE  Left(c)' < Left(c)
<1>1. pc[c] \in Places /\ Cardinality(todo[c]) \in Nat
  BY FewerFiles DEF LockInv, McpTypeOK
<1>2. Left(c) \in Nat /\ Left(c) > 0
  BY <1>1, LeftIs DEF Left
<1>3. pc'[c] = "idle"
  BY Returned
<1>4. Left(c)' = 0
  BY <1>3 DEF Left, LeftAt
<1>. QED
  BY <1>2, <1>4

(* The steps of a call at its locks.                                        *)
LEMMA LocksShorten ==
    ASSUME LockInv, NEW c \in Calls, Locks(c)
    PROVE  Left(c)' < Left(c)
<1>0. pc \in [Calls -> Places] /\ tool' = tool
  BY DEF LockInv, McpTypeOK, Locks, announce, workspaceMuLock, workspaceMuRLock, mcpMuLock
<1>1. PICK h, h2, k, t, n, n2 :
         /\ h = Left(c) /\ h2 = Left(c)' /\ k = AllFiles /\ t = tool[c]
         /\ n = Cardinality(todo[c]) /\ n2 = Cardinality(todo'[c])
  OBVIOUS
<1>2. k \in Nat
  BY <1>1, FewerFiles
<1>3. h = LeftAt(pc[c], t, n) /\ h2 = LeftAt(pc'[c], t, n2)
  BY <1>0, <1>1 DEF Left
<1>. SUFFICES h2 < h
  BY <1>1
<1>4. CASE announce(c)
  <2>1. pc[c] = "announce" /\ pc'[c] = "drain"
    BY <1>0, <1>4 DEF announce, Goto
  <2>2. h = 2 * k + 8 /\ h2 = 2 * k + 7
    BY <1>1, <1>3, <2>1 DEF LeftAt
  <2>. QED
    BY <1>2, <2>2
<1>5. CASE workspaceMuLock(c)
  <2>1. pc[c] = "drain" /\ pc'[c] = "mcp" /\ t = "reindex"
    BY <1>0, <1>1, <1>5 DEF workspaceMuLock, Goto, LockInv, PlacesFit
  <2>2. h = 2 * k + 7 /\ h2 = 2 * k + 6
    BY <1>1, <1>3, <2>1 DEF LeftAt, FromMcp
  <2>. QED
    BY <1>2, <2>2
<1>6. CASE workspaceMuRLock(c)
  <2>1. pc[c] = "rlock" /\ (pc'[c] = "read" \/ (pc'[c] = "mcp" /\ t = "diagnostics"))
    BY <1>0, <1>1, <1>6 DEF workspaceMuRLock, Goto
  <2>2. h = k + 4 /\ (h2 = k + 3 \/ h2 = 2)
    BY <1>1, <1>3, <2>1 DEF LeftAt, FromMcp
  <2>. QED
    BY <1>2, <2>2
<1>7. CASE mcpMuLock(c)
  <2>1. pc[c] = "mcp"
    BY <1>7 DEF mcpMuLock
  <2>2. CASE t = "reindex"
    <3>1. pc'[c] = "walk"
      BY <1>0, <1>1, <1>7, <2>2 DEF mcpMuLock, Goto
    <3>2. h = 2 * k + 6 /\ h2 = 2 * k + 5
      BY <1>1, <1>3, <2>1, <2>2, <3>1 DEF LeftAt, FromMcp
    <3>. QED
      BY <1>2, <3>2
  <2>3. CASE t = "diagnostics"
    <3>1. pc'[c] = "diagnose"
      BY <1>0, <1>1, <1>7, <2>3 DEF mcpMuLock, Goto
    <3>2. h = 2 /\ h2 = 1
      BY <1>1, <1>3, <2>1, <2>3, <3>1 DEF LeftAt, FromMcp
    <3>. QED
      BY <3>2
  <2>4. CASE t \notin {"reindex", "diagnostics"}
    <3>1. pc'[c] = "serve"
      BY <1>0, <1>1, <1>7, <2>4 DEF mcpMuLock, Goto
    <3>2. FromMcp(t) \in {6, 4, 2}
      BY <2>4 DEF FromMcp
    <3>3. h = FromMcp(t) /\ h2 = FromMcp(t) - 1
      BY <1>3, <2>1, <3>1 DEF LeftAt
    <3>. QED
      BY <3>2, <3>3
  <2>. QED
    BY <2>2, <2>3, <2>4
<1>. QED
  BY <1>4, <1>5, <1>6, <1>7 DEF Locks

(* The steps of a call between its locks, and its panics.                   *)
LEMMA RunsShorten ==
    ASSUME LockInv, NEW c \in Calls, Runs(c) \/ Panics(c)
    PROVE  Left(c)' < Left(c)
<1>0. /\ pc \in [Calls -> Places] /\ todo \in [Calls -> SUBSET FileSet]
      /\ tool \in [Calls -> Tools \cup {"context2", "none"}]
  BY DEF LockInv, McpTypeOK
<1>1. PICK h, h2, k, t, t2, n, n2 :
         /\ h = Left(c) /\ h2 = Left(c)' /\ k = AllFiles /\ t = tool[c] /\ t2 = tool'[c]
         /\ n = Cardinality(todo[c]) /\ n2 = Cardinality(todo'[c])
  OBVIOUS
<1>2. k \in Nat /\ n \in Nat
  BY <1>0, <1>1, FewerFiles
<1>3. h = LeftAt(pc[c], t, n) /\ h2 = LeftAt(pc'[c], t2, n2)
  BY <1>1 DEF Left
<1>r. ASSUME pc[c] # "idle", Return(c) PROVE h2 < h
  BY <1>1, <1>r, ReturnShortens
<1>. SUFFICES h2 < h
  BY <1>1
<1>4. CASE refreshList(c)
  <2>1. pc[c] = "walk" /\ pc'[c] = "refresh" /\ todo'[c] \subseteq FileSet
    BY <1>0, <1>4 DEF refreshList, Goto, Listed, Present
  <2>2. n2 \in Nat /\ n2 <= k
    BY <1>1, <2>1, FewerFiles
  <2>3. h = 2 * k + 5 /\ h2 = k + 3 + n2
    BY <1>1, <1>3, <2>1 DEF LeftAt
  <2>. QED
    BY <1>2, <2>2, <2>3
<1>5. ASSUME NEW f \in FileSet, refreshFile(c, f) PROVE h2 < h
  <2>1. pc[c] = "refresh" /\ pc'[c] = "refresh" /\ f \in todo[c] /\ todo'[c] = todo[c] \ {f}
    BY <1>0, <1>5 DEF refreshFile
  <2>2. n2 \in Nat /\ n2 < n
    BY <1>0, <1>1, <2>1, FewerFiles
  <2>3. h = k + 3 + n /\ h2 = k + 3 + n2
    BY <1>1, <1>3, <2>1 DEF LeftAt
  <2>. QED
    BY <1>2, <2>2, <2>3
<1>6. CASE refreshDone(c)
  <2>1. pc[c] = "refresh" /\ pc'[c] = "list"
    BY <1>0, <1>6 DEF refreshDone, Goto
  <2>2. h = k + 3 + n /\ h2 = k + 2
    BY <1>1, <1>3, <2>1 DEF LeftAt
  <2>. QED
    BY <1>2, <2>2
<1>7. CASE hashList(c)
  <2>1. pc[c] = "list" /\ pc'[c] = "hash" /\ todo'[c] \subseteq FileSet
    BY <1>0, <1>7 DEF hashList, Goto, Present
  <2>2. n2 \in Nat /\ n2 <= k
    BY <1>1, <2>1, FewerFiles
  <2>3. h = k + 2 /\ h2 = 1 + n2
    BY <1>1, <1>3, <2>1 DEF LeftAt
  <2>. QED
    BY <1>2, <2>2, <2>3
<1>8. CASE hashFile(c)
  <2>1. CASE Return(c)
    BY <1>8, <1>r, <2>1 DEF hashFile
  <2>2. CASE ~Return(c)
    <3>1. PICK f \in todo[c] : todo' = [todo EXCEPT ![c] = @ \ {f}]
      BY <1>8, <2>2 DEF hashFile, Fail
    <3>2. pc[c] = "hash" /\ pc'[c] = "hash" /\ todo'[c] = todo[c] \ {f}
      BY <1>0, <1>8, <2>2, <3>1 DEF hashFile, Fail
    <3>3. n2 \in Nat /\ n2 < n
      BY <1>0, <1>1, <3>2, FewerFiles
    <3>4. h = 1 + n /\ h2 = 1 + n2
      BY <1>1, <1>3, <3>2 DEF LeftAt
    <3>. QED
      BY <1>2, <3>3, <3>4
  <2>. QED
    BY <2>1, <2>2
<1>9. CASE summary(c)
  <2>1. CASE Return(c)
    BY <1>9, <1>r, <2>1 DEF summary
  <2>2. CASE ~Return(c)
    <3>1. pc[c] = "read" /\ pc'[c] = "list"
      BY <1>0, <1>9, <2>2 DEF summary, Goto
    <3>2. h = k + 3 /\ h2 = k + 2
      BY <1>1, <1>3, <3>1 DEF LeftAt
    <3>. QED
      BY <1>2, <3>2
  <2>. QED
    BY <2>1, <2>2
<1>10. CASE MCPRequestContext(c)
  <2>1. CASE Return(c)
    BY <1>10, <1>r, <2>1 DEF MCPRequestContext
  <2>2. CASE ~Return(c)
    <3>1. /\ pc[c] = "serve" /\ pc'[c] = "mcp"
          /\ \/ t = "context" /\ t2 = "context2"
             \/ t = "context2" /\ t2 = "request"
      BY <1>0, <1>1, <1>10, <2>2 DEF MCPRequestContext, Goto
    <3>2. h = FromMcp(t) - 1 /\ h2 = FromMcp(t2)
      BY <1>3, <3>1 DEF LeftAt
    <3>3. \/ FromMcp(t) = 6 /\ FromMcp(t2) = 4
          \/ FromMcp(t) = 4 /\ FromMcp(t2) = 2
      BY <3>1 DEF FromMcp
    <3>. QED
      BY <3>2, <3>3
  <2>. QED
    BY <2>1, <2>2
<1>11. CASE captureFreshness(c) \/ currentFreshness(c) \/ fivemEvents(c)
  BY <1>11, <1>r DEF captureFreshness, currentFreshness, fivemEvents
<1>12. CASE \E f \in FileSet : MCPDiagnostics(c, f)
  BY <1>12, <1>r DEF MCPDiagnostics
<1>13. CASE Panics(c)
  BY <1>13, <1>r DEF Panics, refreshPanics, diagnosticsPanics, Fail
<1>. QED
  BY <1>4, <1>5, <1>6, <1>7, <1>8, <1>9, <1>10, <1>11, <1>12, <1>13 DEF Runs

(* A step leaves every call alone but the one that makes it.                *)
LEMMA OthersStay ==
    ASSUME LockInv, [Next]_vars, NEW c \in Calls, ~SameCall(c)
    PROVE  Locks(c) \/ Runs(c) \/ Panics(c) \/ \E t \in ToolsOf[c] : StartTool(c, t)
<1>0. /\ pc \in [Calls -> Places] /\ todo \in [Calls -> SUBSET FileSet]
      /\ tool \in [Calls -> Tools \cup {"context2", "none"}]
  BY DEF LockInv, McpTypeOK
<1>1. ~UNCHANGED vars /\ ~\E f \in FileSet : \E x \in Texts[f] \cup {None} : WriteFile(f, x)
  BY DEF SameCall, vars, WriteFile, callVars
<1>2. PICK d \in Calls : \/ \E t \in ToolsOf[d] : StartTool(d, t)
                         \/ Locks(d) \/ Runs(d) \/ Panics(d)
  BY <1>1 DEF Next
<1>. SUFFICES d = c
  BY <1>2
<1>. SUFFICES ASSUME d # c PROVE SameCall(c)
  OBVIOUS
<1>3. CASE Return(d)
  BY <1>3, Returned DEF SameCall
<1>4. CASE (\E t \in ToolsOf[d] : StartTool(d, t)) \/ Locks(d)
  BY <1>0, <1>4 DEF StartTool, Locks, announce, workspaceMuLock, workspaceMuRLock, mcpMuLock,
                    Goto, SameCall
<1>5. CASE ~Return(d) /\ (Runs(d) \/ Panics(d))
  <2>1. CASE refreshList(d) \/ refreshDone(d) \/ hashList(d) \/ \E f \in FileSet : refreshFile(d, f)
    BY <1>0, <2>1 DEF refreshList, refreshDone, hashList, refreshFile, Goto, SameCall
  <2>2. CASE hashFile(d)
    BY <1>0, <1>5, <2>2 DEF hashFile, Fail, SameCall
  <2>3. CASE summary(d) \/ MCPRequestContext(d)
    BY <1>0, <1>5, <2>3 DEF summary, MCPRequestContext, Goto, SameCall
  <2>. QED
    BY <1>5, <2>1, <2>2, <2>3
    DEF Runs, Panics, captureFreshness, currentFreshness, fivemEvents, MCPDiagnostics,
        refreshPanics, diagnosticsPanics, Fail
<1>. QED
  BY <1>2, <1>3, <1>4, <1>5

(* Unless a reader's hold of workspaceMu was leaked by a panic, calls never *)
(* all wait for each other, however many there are: some call goes on, or   *)
(* every call has returned (workspaceMu before mcpMu in every tool).        *)
THEOREM CallsCanGoHolds == Spec => []CallsCanGo
  BY ProgressInit, ProgressStep, SomeoneRuns, PTL DEF Spec

(* A call has finitely many steps: no other call, no panic and no write of  *)
(* another program gives it more to do (refreshWorkspace,                   *)
(* workspaceSourceHash and lugo_symbol_context, which takes mcpMu three     *)
(* times).                                                                  *)
THEOREM CallsShortenHolds == Spec => CallsShorten
<1>1. LockInv /\ [Next]_vars =>
        [\A c \in Calls :
          /\ Locks(c) \/ Runs(c) \/ Panics(c) => Left(c)' < Left(c)
          /\ pc[c] # "idle" => Left(c)' < Left(c) \/ SameCall(c)]_vars
  <2>. SUFFICES ASSUME LockInv, [Next]_vars, NEW c \in Calls
                PROVE  /\ Locks(c) \/ Runs(c) \/ Panics(c) => Left(c)' < Left(c)
                       /\ pc[c] # "idle" => Left(c)' < Left(c) \/ SameCall(c)
    OBVIOUS
  <2>1. Locks(c) \/ Runs(c) \/ Panics(c) => Left(c)' < Left(c)
    BY LocksShorten, RunsShorten
  <2>2. pc[c] # "idle" => ~\E t \in ToolsOf[c] : StartTool(c, t)
    BY DEF StartTool
  <2>. QED
    BY <2>1, <2>2, OthersStay
<1>. QED
  BY <1>1, LockInit, LockStep, PTL DEF Spec, CallsShorten
=============================================================================
