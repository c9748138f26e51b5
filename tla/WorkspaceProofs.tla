--------------------------- MODULE WorkspaceProofs ---------------------------
(* StoreInv is inductive: what the run of MCWorkspace shows for one file     *)
(* holds for any set of files, texts and versions.                           *)
EXTENDS Workspace, TLAPS

(* A parse yields a well-formed document of the parsed text.                 *)
LEMMA FinalizeDocument ==
    ASSUME NEW f, NEW old \in Document, NEW text \in Indexable, NEW fo
    PROVE  LET d == finalizeDocumentUpdate(f, old, text, fo)
           IN  d \in Document /\ d.src = text /\ d.ast = text
<1>1. checkIsWorkspace(f, fo) \in BOOLEAN
  BY DEF checkIsWorkspace
<1>2. old.fresh \in BOOLEAN /\ old.ws \in BOOLEAN
  BY DEF Document
<1>3. (IF HasDoc(old) THEN old.ws ELSE checkIsWorkspace(f, fo)) \in BOOLEAN
  BY <1>1, <1>2
<1>. QED
  BY <1>2, <1>3 DEF finalizeDocumentUpdate, Document

(* Recording the modification time changes nothing else of a document.       *)
LEMMA WithModTime ==
    ASSUME NEW d \in Document
    PROVE  /\ withModTime(d) \in Document
           /\ withModTime(d).src = d.src
           /\ withModTime(d).ast = d.ast
           /\ withModTime(d).ws = d.ws
  BY DEF withModTime, Document

(* updateDocument on an indexable text leaves a document parsed from it; the *)
(* one exception is an evicted document given the empty text.                *)
LEMMA UpdateDocumentIndexes ==
    ASSUME TypeOK, SourceIsParsed, NEW f \in Files, NEW text \in Indexable
    PROVE  LET d == updateDocument(f, docs[f], text)
           IN  /\ d \in Document
               /\ HasDoc(d)
               /\ d.src \in {Nil, d.ast}
               /\ (d.ast = text /\ d.src # Nil) \/ (text = Empty /\ d.src = Nil)
               /\ d.ast \in {text, docs[f].ast}
<1>1. docs[f] \in Document /\ docs[f].src \in {Nil, docs[f].ast}
  BY DEF TypeOK, SourceIsParsed
<1>2. text # Huge /\ text # Nil
  BY ConstantsOK DEF Indexable
<1>3. CASE HasDoc(docs[f]) /\ BytesEqual(docs[f].src, text)
  BY <1>1, <1>2, <1>3, ConstantsOK
  DEF updateDocument, BytesEqual, HasDoc
<1>4. CASE ~(HasDoc(docs[f]) /\ BytesEqual(docs[f].src, text))
  <2>1. updateDocument(f, docs[f], text)
            = finalizeDocumentUpdate(f, docs[f], text, folders)
    BY <1>2, <1>4 DEF updateDocument
  <2>. QED
    BY <1>1, <1>2, <2>1, FinalizeDocument DEF HasDoc
<1>. QED
  BY <1>3, <1>4

(* Diagnostics are those of the text d was parsed from, or those left when   *)
(* the source of d is gone.                                                  *)
Belongs(diagnostics, d) ==
    diagnostics = d.ast \/ (diagnostics = Sourceless /\ d.src = Nil)

(* Publishing one document puts its own diagnostics on display, unless the   *)
(* process ends in the attempt.                                              *)
LEMMA PublishOne ==
    ASSUME NEW f \in Files, NEW d \in Document, d.src \in {Nil, d.ast},
           shown \in [Files -> Displayed], publishDiagnostics(f, d)
    PROVE  /\ shown' \in [Files -> Displayed]
           /\ exited' \in BOOLEAN
           /\ ~exited' => Belongs(shown'[f], d)
           /\ \A g \in Files \ {f} : shown'[g] = shown[g]
<1>1. exited' = Panics(d) /\ exited' \in BOOLEAN
  BY DEF publishDiagnostics, Panics
<1>2. /\ diagnosed(d) \in Displayed
      /\ diagnosed(d) = d.ast \/ (diagnosed(d) = Sourceless /\ d.src = Nil)
  BY DEF diagnosed, Displayed, Document, Indexable
<1>3. CASE Panics(d)
  <2>1. shown' = shown
    BY <1>3 DEF publishDiagnostics
  <2>. QED
    BY <1>1, <1>3, <2>1
<1>4. CASE ~Panics(d)
  <2>1. shown' = [shown EXCEPT ![f] = diagnosed(d)]
    BY <1>4 DEF publishDiagnostics
  <2>. QED
    BY <1>1, <1>2, <2>1 DEF Belongs
<1>. QED
  BY <1>3, <1>4

(* Publishing all of them: each of those published shows its own, and the    *)
(* others what they showed.                                                  *)
LEMMA PublishAll ==
    ASSUME NEW ds \in [Files -> Document], NEW op, NEW sh \in [Files -> Displayed],
           \A g \in Files : ds[g].src \in {Nil, ds[g].ast},
           publishWorkspaceDiagnostics(ds, op, sh)
    PROVE  /\ shown' \in [Files -> Displayed]
           /\ exited' \in BOOLEAN
           /\ \A g \in Files : shown'[g] = sh[g] \/ (HasDoc(ds[g]) /\ Belongs(shown'[g], ds[g]))
           /\ ~exited' => \A g \in Files :
                 HasDoc(ds[g]) /\ (ds[g].ws \/ g \in op) => Belongs(shown'[g], ds[g])
<1>. DEFINE published == {g \in Files : HasDoc(ds[g]) /\ (ds[g].ws \/ g \in op)}
            panicking == {g \in published : Panics(ds[g])}
<1>1. PICK done \in SUBSET (published \ panicking) :
          /\ panicking = {} => done = published
          /\ shown' = [g \in Files |-> IF g \in done THEN diagnosed(ds[g]) ELSE sh[g]]
  BY DEF publishWorkspaceDiagnostics
<1>2. exited' = (panicking # {}) /\ exited' \in BOOLEAN
  BY DEF publishWorkspaceDiagnostics
<1>3. ASSUME NEW g \in Files
      PROVE  /\ diagnosed(ds[g]) \in Displayed
             /\ \/ diagnosed(ds[g]) = ds[g].ast
                \/ diagnosed(ds[g]) = Sourceless /\ ds[g].src = Nil
  <2>1. ds[g] \in Document /\ ds[g].src \in {Nil, ds[g].ast}
    OBVIOUS
  <2>. QED
    BY <2>1 DEF diagnosed, Displayed, Document, Indexable
<1>4. \A g \in Files : shown'[g] = IF g \in done THEN diagnosed(ds[g]) ELSE sh[g]
  BY <1>1
<1>5. \A g \in done : g \in Files /\ HasDoc(ds[g])
  BY <1>1
<1>6. shown' \in [Files -> Displayed]
  BY <1>1, <1>3
<1>7. \A g \in Files : g \in done => Belongs(shown'[g], ds[g])
  <2>. SUFFICES ASSUME NEW g \in Files, g \in done PROVE Belongs(shown'[g], ds[g])
    OBVIOUS
  <2>1. shown'[g] = diagnosed(ds[g])
    BY <1>4
  <2>. QED
    BY <1>3, <2>1 DEF Belongs
<1>8. \A g \in Files : shown'[g] = sh[g] \/ (HasDoc(ds[g]) /\ Belongs(shown'[g], ds[g]))
  BY <1>4, <1>5, <1>7
<1>9. ~exited' => \A g \in Files :
          HasDoc(ds[g]) /\ (ds[g].ws \/ g \in op) => Belongs(shown'[g], ds[g])
  <2>. SUFFICES ASSUME ~exited', NEW g \in Files, HasDoc(ds[g]), ds[g].ws \/ g \in op
                PROVE  Belongs(shown'[g], ds[g])
    OBVIOUS
  <2>1. g \in done
    BY <1>1, <1>2
  <2>. QED
    BY <1>7, <2>1
<1>. QED
  BY <1>2, <1>6, <1>8, <1>9

(* What ShownMatchesIndex says of one file.                                  *)
ShownForFile(f) ==
    /\ HasDoc(docs[f]) /\ (docs[f].ws \/ f \in open) =>
          \/ shown[f] \in {docs[f].ast, Huge}
          \/ shown[f] = Sourceless /\ docs[f].src = Nil
    /\ HasDoc(docs[f]) /\ f \in open /\ buffer[f] \notin {Empty, Huge} =>
          docs[f].src # Nil
    /\ ~HasDoc(docs[f]) => shown[f] \in {Nil, Huge}

(* The same statement, file by file.                                         *)
LEMMA ShownByFile == ShownMatchesIndex <=> (~exited => \A f \in Files : ShownForFile(f))
  BY DEF ShownMatchesIndex, ShownForFile

(* What a re-index leaves of one document: an open one is untouched, a       *)
(* closed one is forgotten, skipped as unmodified or parsed from the disk.   *)
LEMMA RefreshedDocument ==
    ASSUME disk \in [Files -> Texts \cup {Nil}], NEW f \in Files,
           NEW old \in Document, old.src \in {Nil, old.ast},
           NEW op, NEW fo, NEW ig
    PROVE  LET d == refreshedDoc(f, old, op, fo, ig)
           IN  /\ d \in Document
               /\ d.src \in {Nil, d.ast}
               /\ f \in op => d = old
               /\ f \notin op =>
                    \/ d = NoDoc /\ ~(Walked(f, fo, ig) /\ disk[f] # Huge)
                    \/ d = old /\ old.fresh /\ HasDoc(old)
                    \/ d.ast = disk[f] /\ disk[f] # Nil
<1>1. NoDoc \in Document /\ NoDoc.src = Nil
  BY DEF NoDoc, Document
<1>2. CASE f \in op
  BY <1>2 DEF refreshedDoc
<1>3. CASE f \notin op /\ ~(Walked(f, fo, ig) /\ disk[f] # Huge)
  <2>1. refreshedDoc(f, old, op, fo, ig) = NoDoc
    BY <1>3 DEF refreshedDoc
  <2>. QED
    BY <1>1, <1>3, <2>1
<1>4. CASE f \notin op /\ Walked(f, fo, ig) /\ disk[f] # Huge
  <2>1. CASE HasDoc(old) /\ old.fresh
    <3>1. refreshedDoc(f, old, op, fo, ig) = old
      BY <1>4, <2>1 DEF refreshedDoc
    <3>. QED
      BY <1>4, <2>1, <3>1
  <2>2. CASE ~(HasDoc(old) /\ old.fresh)
    <3>1. refreshedDoc(f, old, op, fo, ig) = IndexJobResult(f, old, fo)
      BY <1>4, <2>2 DEF refreshedDoc
    <3>2. disk[f] \in Indexable /\ disk[f] # Nil
      BY <1>4, ConstantsOK DEF Walked, Indexable
    <3>3. PICK d \in Document : /\ IndexJobResult(f, old, fo) = withModTime(d)
                                /\ d.ast = disk[f]
                                /\ d.src = disk[f]
      BY <3>2, FinalizeDocument DEF IndexJobResult
    <3>. QED
      BY <1>4, <3>1, <3>2, <3>3, WithModTime
  <2>. QED
    BY <2>1, <2>2
<1>. QED
  BY <1>2, <1>3, <1>4

-----------------------------------------------------------------------------
(* One lemma per handler.                                                    *)

(* The first index run establishes the invariant.                            *)
LEMMA InitStore == Init => StoreInv
<1>. SUFFICES ASSUME Init PROVE StoreInv
  OBVIOUS
<1>1. NoDoc \in Document /\ NoDoc.src = Nil /\ NoDoc.ast = Nil /\ ~NoDoc.ws
  BY DEF NoDoc, Document
<1>2. \A f \in Files :
        LET d == docs[f]
        IN  /\ d \in Document
            /\ d.src \in {Nil, d.ast}
            /\ \/ d = NoDoc /\ ~(Walked(f, folders, ignored) /\ disk[f] # Huge)
               \/ d.ast = disk[f] /\ disk[f] # Nil
  <2>. SUFFICES ASSUME NEW f \in Files
                PROVE  LET d == docs[f]
                       IN  /\ d \in Document
                           /\ d.src \in {Nil, d.ast}
                           /\ \/ d = NoDoc /\ ~(Walked(f, folders, ignored) /\ disk[f] # Huge)
                              \/ d.ast = disk[f] /\ disk[f] # Nil
    OBVIOUS
  <2>1. docs[f] = refreshedDoc(f, NoDoc, {}, folders, ignored)
    BY DEF Init
  <2>. QED
    BY <1>1, <2>1, RefreshedDocument DEF Init, HasDoc
<1>3. TypeOK
  <2>1. docs \in [Files -> Document]
    BY <1>2 DEF Init
  <2>2. shown \in [Files -> Displayed]
    BY <1>2 DEF Init, Document, Indexable, Displayed
  <2>3. versions \in [Files -> 0..MaxVersion] /\ sent \in [Files -> 0..MaxVersion]
    BY ConstantsOK DEF Init
  <2>. QED
    BY <2>1, <2>2, <2>3 DEF Init, TypeOK, Displayed
<1>4. SourceIsParsed /\ OpenIsCurrent /\ EventsMatchDisk /\ OpenTextIndexed
  BY <1>2 DEF Init, SourceIsParsed, OpenIsCurrent, EventsMatchDisk, OpenTextIndexed
<1>5. ShownMatchesIndex
  <2>. SUFFICES ASSUME NEW f \in Files
                PROVE  /\ HasDoc(docs[f]) /\ docs[f].ws => shown[f] = docs[f].ast
                       /\ ~HasDoc(docs[f]) => shown[f] = Nil
    BY DEF ShownMatchesIndex, Init
  <2>1. shown[f] = IF docs[f].ws THEN docs[f].ast ELSE Nil
    BY DEF Init
  <2>. QED
    BY <1>1, <1>2, <2>1 DEF HasDoc
<1>6. SkippedOnlyIfCurrent
  BY <1>2 DEF SkippedOnlyIfCurrent, NoDoc
<1>7. ClosedFileInSync
  BY <1>1, <1>2 DEF ClosedFileInSync, Walked
<1>. QED
  BY <1>3, <1>4, <1>5, <1>6, <1>7 DEF StoreInv

(* refreshWorkspace keeps it, whatever the folders and globs become.         *)
LEMMA RefreshStore ==
    ASSUME StoreInv, NEW fo \in FolderChoices, NEW ig \in IgnoreChoices,
           refreshWorkspace(fo, ig), folders' = fo, ignored' = ig
    PROVE  StoreInv'
<1>. USE DEF StoreInv
<1>1. \A f \in Files :
        /\ docs'[f] = refreshedDoc(f, docs[f], open, fo, ig)
        /\ docs'[f] \in Document
        /\ docs'[f].src \in {Nil, docs'[f].ast}
        /\ f \in open => docs'[f] = docs[f]
        /\ f \notin open =>
             \/ docs'[f] = NoDoc /\ ~(Walked(f, fo, ig) /\ disk[f] # Huge)
             \/ docs'[f] = docs[f] /\ docs[f].fresh /\ HasDoc(docs[f])
             \/ docs'[f].ast = disk[f] /\ disk[f] # Nil
  <2>. SUFFICES ASSUME NEW f \in Files
                PROVE  /\ docs'[f] = refreshedDoc(f, docs[f], open, fo, ig)
                       /\ docs'[f] \in Document
                       /\ docs'[f].src \in {Nil, docs'[f].ast}
                       /\ f \in open => docs'[f] = docs[f]
                       /\ f \notin open =>
                            \/ docs'[f] = NoDoc /\ ~(Walked(f, fo, ig) /\ disk[f] # Huge)
                            \/ docs'[f] = docs[f] /\ docs[f].fresh /\ HasDoc(docs[f])
                            \/ docs'[f].ast = disk[f] /\ disk[f] # Nil
    OBVIOUS
  <2>1. docs'[f] = refreshedDoc(f, docs[f], open, fo, ig)
    BY DEF refreshWorkspace
  <2>2. docs[f] \in Document /\ docs[f].src \in {Nil, docs[f].ast}
        /\ disk \in [Files -> Texts \cup {Nil}]
    BY DEF TypeOK, SourceIsParsed
  <2>. QED
    BY <2>1, <2>2, RefreshedDocument
<1>2. /\ shown' \in [Files -> Displayed]
      /\ exited' \in BOOLEAN
      /\ \A f \in Files : HasDoc(docs'[f]) /\ (docs'[f].ws \/ f \in open) /\ ~exited'
                           => Belongs(shown'[f], docs'[f])
      /\ \A f \in Files : ~HasDoc(docs'[f]) =>
              shown'[f] = IF HasDoc(docs[f]) THEN Nil ELSE shown[f]
  <2>1. PICK new : /\ new = docs' /\ new \in [Files -> Document]
                   /\ \A f \in Files : new[f].src \in {Nil, new[f].ast}
    BY <1>1 DEF refreshWorkspace
  <2>2. PICK swept :
          /\ swept = [f \in Files |-> IF HasDoc(docs[f]) /\ ~HasDoc(new[f])
                                     THEN Nil ELSE shown[f]]
          /\ swept \in [Files -> Displayed]
    <3>1. [f \in Files |-> IF HasDoc(docs[f]) /\ ~HasDoc(new[f]) THEN Nil ELSE shown[f]]
              \in [Files -> Displayed]
      BY DEF TypeOK, Displayed
    <3>. QED
      BY <3>1
  <2>3. publishWorkspaceDiagnostics(new, open, swept)
    BY <2>1, <2>2 DEF refreshWorkspace
  <2>4. /\ shown' \in [Files -> Displayed]
        /\ exited' \in BOOLEAN
        /\ \A g \in Files : \/ shown'[g] = swept[g]
                            \/ HasDoc(new[g]) /\ Belongs(shown'[g], new[g])
        /\ ~exited' => \A g \in Files : HasDoc(new[g]) /\ (new[g].ws \/ g \in open)
                                         => Belongs(shown'[g], new[g])
    BY <2>1, <2>2, <2>3, PublishAll
  <2>. QED
    BY <2>1, <2>2, <2>4
<1>3. diverged' = {f \in diverged : docs'[f].ast = docs[f].ast}
  BY DEF refreshWorkspace, TypeOK
<1>4. UNCHANGED <<open, versions, disk, buffer, sent, pending>>
  BY DEF refreshWorkspace
<1>5. TypeOK'
  <2>1. docs' \in [Files -> Document]
    BY <1>1 DEF refreshWorkspace
  <2>. QED
    BY <1>2, <1>3, <1>4, <2>1 DEF TypeOK, Displayed
<1>6. (SourceIsParsed /\ OpenIsCurrent /\ EventsMatchDisk /\ OpenTextIndexed)'
  BY <1>1, <1>4 DEF SourceIsParsed, OpenIsCurrent, EventsMatchDisk, OpenTextIndexed, TypeOK
<1>7. ShownMatchesIndex'
  <2>. SUFFICES ASSUME ~exited', NEW f \in Files PROVE ShownForFile(f)'
    BY <1>4 DEF ShownMatchesIndex, ShownForFile
  <2>1. ~exited /\ ShownForFile(f)
    BY DEF refreshWorkspace, ShownMatchesIndex, ShownForFile
  <2>2. HasDoc(docs'[f]) /\ f \in open /\ buffer[f] \notin {Empty, Huge} =>
            docs'[f].src # Nil
    BY <1>1, <2>1 DEF ShownForFile
  <2>3. ~HasDoc(docs'[f]) => shown'[f] \in {Nil, Huge}
    BY <1>2, <2>1 DEF ShownForFile
  <2>. QED
    BY <1>2, <1>4, <2>2, <2>3 DEF ShownForFile, Belongs
<1>8. SkippedOnlyIfCurrent'
  <2>1. NoDoc.fresh = FALSE
    BY DEF NoDoc
  <2>. QED
    BY <1>1, <1>3, <1>4, <2>1 DEF SkippedOnlyIfCurrent, OpenIsCurrent
<1>9. ClosedFileInSync'
  <2>1. NoDoc.ast = Nil
    BY DEF NoDoc
  <2>. QED
    BY <1>1, <1>3, <1>4, <2>1
    DEF ClosedFileInSync, SkippedOnlyIfCurrent, OpenIsCurrent, Walked
<1>. QED
  BY <1>5, <1>6, <1>7, <1>8, <1>9

(* Republishing without a re-index keeps it: of what is evicted, only what   *)
(* is left without the source is put on display.                             *)
LEMMA RepublishStore ==
    ASSUME StoreInv, handleDidChangeConfigurationRepublish
    PROVE  StoreInv'
<1>. USE DEF StoreInv
<1>1. /\ UNCHANGED <<docs, open, versions, folders, ignored, disk, buffer, sent,
                      pending, diverged>>
      /\ ~exited
      /\ publishWorkspaceDiagnostics(docs, open, shown)
  BY DEF handleDidChangeConfigurationRepublish, client
<1>2. PICK ds, sh : /\ ds = docs /\ ds \in [Files -> Document]
                    /\ sh = shown /\ sh \in [Files -> Displayed]
                    /\ \A f \in Files : ds[f].src \in {Nil, ds[f].ast}
  BY DEF TypeOK, SourceIsParsed, Displayed
<1>3. /\ shown' \in [Files -> Displayed]
      /\ exited' \in BOOLEAN
      /\ \A g \in Files : \/ shown'[g] = sh[g]
                          \/ HasDoc(ds[g]) /\ Belongs(shown'[g], ds[g])
      /\ ~exited' => \A g \in Files : HasDoc(ds[g]) /\ (ds[g].ws \/ g \in open)
                                       => Belongs(shown'[g], ds[g])
  BY <1>1, <1>2, PublishAll
<1>4. TypeOK'
  BY <1>1, <1>3 DEF TypeOK, Displayed
<1>5. ShownMatchesIndex'
  <2>. SUFFICES ASSUME ~exited', NEW f \in Files PROVE ShownForFile(f)'
    BY DEF ShownMatchesIndex, ShownForFile
  <2>1. ShownForFile(f)
    BY <1>1, ShownByFile
  <2>. QED
    BY <1>1, <1>2, <1>3, <2>1 DEF ShownForFile, Belongs
<1>. QED
  BY <1>1, <1>4, <1>5 DEF SourceIsParsed, OpenIsCurrent, EventsMatchDisk,
                          OpenTextIndexed, SkippedOnlyIfCurrent, ClosedFileInSync

(* The common tail of didOpen and didChange: f is indexed from the text, or  *)
(* the text is oversized and only the diagnostics change.                    *)
LEMMA ApplyText ==
    ASSUME StoreInv, NEW f \in Files, NEW text \in Texts, applyText(f, text)
    PROVE  /\ docs' \in [Files -> Document]
           /\ shown' \in [Files -> Displayed]
           /\ exited' \in BOOLEAN
           /\ \A g \in Files : docs'[g].src \in {Nil, docs'[g].ast}
           /\ \A g \in Files \ {f} : docs'[g] = docs[g] /\ shown'[g] = shown[g]
           /\ text = Huge => docs' = docs /\ shown'[f] = Huge
           /\ text # Huge => /\ HasDoc(docs'[f])
                             /\ ~exited' => Belongs(shown'[f], docs'[f])
                             /\ \/ docs'[f].ast = text /\ docs'[f].src # Nil
                                \/ text = Empty /\ docs'[f].src = Nil
           /\ docs'[f].ast \in {text, docs[f].ast}
<1>. USE DEF StoreInv
<1>1. CASE text = Huge
  BY <1>1, ConstantsOK DEF applyText, TypeOK, SourceIsParsed, Displayed
<1>2. CASE text # Huge
  <2>. DEFINE d == updateDocument(f, docs[f], text)
  <2>1. text \in Indexable
    BY <1>2 DEF Indexable
  <2>2. /\ d \in Document
        /\ HasDoc(d)
        /\ d.src \in {Nil, d.ast}
        /\ (d.ast = text /\ d.src # Nil) \/ (text = Empty /\ d.src = Nil)
        /\ d.ast \in {text, docs[f].ast}
    BY <2>1, UpdateDocumentIndexes
  <2>3. docs' = [docs EXCEPT ![f] = d] /\ publishDiagnostics(f, d)
    BY <1>2 DEF applyText
  <2>4. docs'[f] = d
    BY <2>3 DEF TypeOK
  <2>. HIDE DEF d
  <2>5. /\ shown' \in [Files -> Displayed]
        /\ exited' \in BOOLEAN
        /\ ~exited' => Belongs(shown'[f], d)
        /\ \A g \in Files \ {f} : shown'[g] = shown[g]
    BY <2>2, <2>3, PublishOne DEF TypeOK, Displayed
  <2>. QED
    BY <1>2, <2>2, <2>3, <2>4, <2>5 DEF TypeOK, SourceIsParsed
<1>. QED
  BY <1>1, <1>2

(* handleDidOpen keeps the invariant: accepted, stale or ignored.            *)
LEMMA OpenStore ==
    ASSUME StoreInv, NEW f \in Files, NEW text \in Texts, NEW v \in 1..MaxVersion,
           handleDidOpen(f, text, v)
    PROVE  StoreInv'
<1>. USE DEF StoreInv
<1>1. /\ buffer[f] = Nil /\ f \notin open /\ ~exited
      /\ buffer' = [buffer EXCEPT ![f] = text]
      /\ sent' = [sent EXCEPT ![f] = v]
      /\ UNCHANGED <<disk, pending, diverged, folders, ignored>>
  BY DEF handleDidOpen, server, OpenIsCurrent
<1>2. text # Nil /\ v \in Nat /\ v \in 0..MaxVersion
  BY ConstantsOK
<1>3. CASE f \in ignored \/ StaleVersion(f, v)
  <2>1. UNCHANGED <<docs, open, versions, shown, exited>>
    BY <1>3 DEF handleDidOpen, server
  <2>2. TypeOK'
    BY <1>1, <1>2, <2>1 DEF TypeOK
  <2>3. (SourceIsParsed /\ EventsMatchDisk /\ ShownMatchesIndex)'
    BY <1>1, <2>1 DEF SourceIsParsed, EventsMatchDisk, ShownMatchesIndex, TypeOK
  <2>4. (OpenIsCurrent /\ OpenTextIndexed)'
    BY <1>1, <2>1 DEF OpenIsCurrent, OpenTextIndexed, TypeOK
  <2>5. (SkippedOnlyIfCurrent /\ ClosedFileInSync)'
    BY <1>1, <1>2, <2>1 DEF SkippedOnlyIfCurrent, ClosedFileInSync, TypeOK
  <2>. QED
    BY <2>2, <2>3, <2>4, <2>5
<1>4. CASE ~(f \in ignored \/ StaleVersion(f, v))
  <2>1. /\ versions' = [versions EXCEPT ![f] = v]
        /\ open' = open \cup {f}
        /\ applyText(f, text)
    BY <1>4 DEF handleDidOpen
  <2>2. /\ docs' \in [Files -> Document]
        /\ shown' \in [Files -> Displayed]
        /\ exited' \in BOOLEAN
        /\ \A g \in Files : docs'[g].src \in {Nil, docs'[g].ast}
        /\ \A g \in Files \ {f} : docs'[g] = docs[g] /\ shown'[g] = shown[g]
        /\ text = Huge => docs' = docs /\ shown'[f] = Huge
        /\ text # Huge => /\ HasDoc(docs'[f])
                          /\ ~exited' => Belongs(shown'[f], docs'[f])
                          /\ \/ docs'[f].ast = text /\ docs'[f].src # Nil
                             \/ text = Empty /\ docs'[f].src = Nil
    BY <2>1, ApplyText
  <2>3. TypeOK'
    BY <1>1, <1>2, <2>1, <2>2 DEF TypeOK
  <2>4. (SourceIsParsed /\ EventsMatchDisk)'
    BY <1>1, <2>2 DEF SourceIsParsed, EventsMatchDisk
  <2>5. ShownMatchesIndex'
    <3>. SUFFICES ASSUME ~exited', NEW g \in Files PROVE ShownForFile(g)'
      BY DEF ShownMatchesIndex, ShownForFile
    <3>1. buffer'[f] = text /\ (g # f => buffer'[g] = buffer[g])
      BY <1>1 DEF TypeOK
    <3>2. ShownForFile(g)
      BY <1>1, ShownByFile
    <3>3. CASE g = f
      BY <2>1, <2>2, <3>1, <3>2, <3>3 DEF ShownForFile, Belongs
    <3>4. CASE g # f
      BY <2>1, <2>2, <3>1, <3>2, <3>4 DEF ShownForFile
    <3>. QED
      BY <3>3, <3>4
  <2>6. OpenIsCurrent'
    BY <1>1, <1>2, <2>1 DEF OpenIsCurrent, TypeOK
  <2>7. OpenTextIndexed'
    BY <1>1, <2>1, <2>2 DEF OpenTextIndexed, TypeOK
  <2>8. (SkippedOnlyIfCurrent /\ ClosedFileInSync)'
    BY <1>1, <1>2, <2>2 DEF SkippedOnlyIfCurrent, ClosedFileInSync, TypeOK
  <2>. QED
    BY <2>3, <2>4, <2>5, <2>6, <2>7, <2>8
<1>. QED
  BY <1>3, <1>4

(* Forgetting f: it holds no text and shows no diagnostics any more.         *)
LEMMA ClearDocument ==
    ASSUME NEW f \in Files, NEW ds \in [Files -> Document],
           shown \in [Files -> Displayed], clearDocument(f, ds)
    PROVE  /\ docs' \in [Files -> Document]
           /\ shown' \in [Files -> Displayed]
           /\ docs'[f] = NoDoc /\ docs'[f].src = Nil /\ docs'[f].ast = Nil
           /\ ~docs'[f].fresh /\ ~HasDoc(docs'[f])
           /\ shown'[f] = Nil
           /\ exited' = exited
           /\ \A g \in Files \ {f} : docs'[g] = ds[g] /\ shown'[g] = shown[g]
<1>1. /\ NoDoc \in Document /\ NoDoc.src = Nil /\ NoDoc.ast = Nil
      /\ NoDoc.fresh = FALSE /\ ~HasDoc(NoDoc)
  BY DEF NoDoc, Document, HasDoc
<1>. QED
  BY <1>1 DEF clearDocument, Displayed

(* handleDidChange keeps it: an open document never sees its edit refused as *)
(* stale.                                                                    *)
LEMMA ChangeStore ==
    ASSUME StoreInv, NEW f \in Files, NEW text \in Texts, handleDidChange(f, text)
    PROVE  StoreInv'
<1>. USE DEF StoreInv
<1>1. /\ buffer[f] # Nil /\ ~exited
      /\ buffer' = [buffer EXCEPT ![f] = text]
      /\ sent' = [sent EXCEPT ![f] = sent[f] + 1]
      /\ UNCHANGED <<open, folders, ignored, disk, pending, diverged>>
  BY DEF handleDidChange
<1>2. /\ text # Nil /\ text \in Texts \cup {Nil}
      /\ sent[f] \in Nat /\ sent[f] + 1 \in 0..MaxVersion
  BY ConstantsOK DEF handleDidChange, TypeOK
<1>3. /\ buffer' \in [Files -> Texts \cup {Nil}]
      /\ sent' \in [Files -> 0..MaxVersion]
      /\ buffer'[f] = text /\ sent'[f] = sent[f] + 1
      /\ \A g \in Files \ {f} : buffer'[g] = buffer[g] /\ sent'[g] = sent[g]
  BY <1>1, <1>2 DEF TypeOK
<1>4. EventsMatchDisk'
  BY <1>1 DEF EventsMatchDisk
<1>5. \A g \in Files : ShownForFile(g)
  BY <1>1, ShownByFile
<1>6. CASE f \in ignored
  <2>1. /\ docs' \in [Files -> Document]
        /\ shown' \in [Files -> Displayed]
        /\ exited' \in BOOLEAN
        /\ ~HasDoc(docs'[f])
        /\ docs'[f].src \in {Nil, docs'[f].ast}
        /\ shown'[f] \in {Nil, Huge}
        /\ \A g \in Files \ {f} : docs'[g] = docs[g] /\ shown'[g] = shown[g]
    <3>1. CASE HasDoc(docs[f])
      <4>1. clearDocument(f, docs)
        BY <1>6, <3>1 DEF handleDidChange
      <4>. QED
        BY <4>1, ClearDocument DEF TypeOK
    <3>2. CASE ~HasDoc(docs[f])
      BY <1>6, <1>5, <3>2 DEF handleDidChange, TypeOK, ShownForFile, SourceIsParsed
    <3>. QED
      BY <3>1, <3>2
  <2>2. UNCHANGED versions
    BY <1>6 DEF handleDidChange
  <2>3. TypeOK'
    BY <1>1, <1>3, <2>1, <2>2 DEF TypeOK
  <2>4. SourceIsParsed' /\ ShownMatchesIndex'
    BY <1>1, <1>3, <1>5, <2>1 DEF SourceIsParsed, ShownMatchesIndex, ShownForFile
  <2>5. OpenIsCurrent'
    BY <1>1, <1>2, <1>3, <2>2 DEF OpenIsCurrent, TypeOK
  <2>6. OpenTextIndexed'
    BY <1>1, <1>3, <2>1 DEF OpenTextIndexed, TypeOK
  <2>7. (SkippedOnlyIfCurrent /\ ClosedFileInSync)'
    BY <1>1, <1>2, <1>3, <2>1 DEF SkippedOnlyIfCurrent, ClosedFileInSync
  <2>. QED
    BY <1>4, <2>3, <2>4, <2>5, <2>6, <2>7
<1>7. CASE f \notin ignored /\ StaleVersion(f, sent[f] + 1)
  <2>1. UNCHANGED <<docs, shown, exited, versions>>
    BY <1>7 DEF handleDidChange
  <2>2. f \notin open
    BY <1>2, <1>7 DEF StaleVersion, OpenIsCurrent, TypeOK
  <2>3. TypeOK'
    BY <1>1, <1>3, <2>1 DEF TypeOK
  <2>4. SourceIsParsed' /\ ShownMatchesIndex'
    BY <1>1, <1>3, <1>5, <2>1, <2>2 DEF SourceIsParsed, ShownMatchesIndex, ShownForFile
  <2>5. (OpenIsCurrent /\ OpenTextIndexed)'
    BY <1>1, <1>3, <2>1, <2>2 DEF OpenIsCurrent, OpenTextIndexed, TypeOK
  <2>6. (SkippedOnlyIfCurrent /\ ClosedFileInSync)'
    BY <1>1, <1>2, <1>3, <2>1 DEF SkippedOnlyIfCurrent, ClosedFileInSync
  <2>. QED
    BY <1>4, <2>3, <2>4, <2>5, <2>6
<1>8. CASE f \notin ignored /\ ~StaleVersion(f, sent[f] + 1)
  <2>1. versions' = [versions EXCEPT ![f] = sent[f] + 1] /\ applyText(f, text)
    BY <1>8 DEF handleDidChange
  <2>2. /\ docs' \in [Files -> Document]
        /\ shown' \in [Files -> Displayed]
        /\ exited' \in BOOLEAN
        /\ \A g \in Files : docs'[g].src \in {Nil, docs'[g].ast}
        /\ \A g \in Files \ {f} : docs'[g] = docs[g] /\ shown'[g] = shown[g]
        /\ text = Huge => docs' = docs /\ shown'[f] = Huge
        /\ text # Huge => /\ HasDoc(docs'[f])
                          /\ ~exited' => Belongs(shown'[f], docs'[f])
                          /\ \/ docs'[f].ast = text /\ docs'[f].src # Nil
                             \/ text = Empty /\ docs'[f].src = Nil
    BY <2>1, ApplyText
  <2>3. TypeOK'
    BY <1>1, <1>2, <1>3, <2>1, <2>2 DEF TypeOK
  <2>4. SourceIsParsed' /\ ShownMatchesIndex'
    <3>1. SourceIsParsed'
      BY <2>2 DEF SourceIsParsed
    <3>. SUFFICES ASSUME ~exited', NEW g \in Files PROVE ShownForFile(g)'
      BY <3>1 DEF ShownMatchesIndex, ShownForFile
    <3>2. CASE g = f
      BY <1>1, <1>3, <1>5, <2>2, <3>2 DEF ShownForFile, Belongs
    <3>3. CASE g # f
      BY <1>1, <1>3, <1>5, <2>2, <3>3 DEF ShownForFile
    <3>. QED
      BY <3>2, <3>3
  <2>5. OpenIsCurrent'
    BY <1>1, <1>2, <1>3, <2>1 DEF OpenIsCurrent, TypeOK
  <2>6. OpenTextIndexed'
    BY <1>1, <1>3, <2>2 DEF OpenTextIndexed, TypeOK
  <2>7. (SkippedOnlyIfCurrent /\ ClosedFileInSync)'
    BY <1>1, <1>2, <1>3, <2>2 DEF SkippedOnlyIfCurrent, ClosedFileInSync
  <2>. QED
    BY <1>4, <2>3, <2>4, <2>5, <2>6, <2>7
<1>. QED
  BY <1>6, <1>7, <1>8

(* handleDidClose keeps it: eviction drops sources, never trees, and a file  *)
(* missing on the disk is forgotten.                                         *)
LEMMA CloseStore ==
    ASSUME StoreInv, NEW f \in Files, handleDidClose(f)
    PROVE  StoreInv'
<1>. USE DEF StoreInv
<1>. DEFINE kept == evictClosedDocumentCaches(docs, open')
<1>1. /\ ~exited
      /\ buffer' = [buffer EXCEPT ![f] = Nil]
      /\ open' = open \ {f}
      /\ UNCHANGED <<versions, folders, ignored, disk, sent, pending>>
      /\ diverged' = IF docs'[f].ast # disk[f] THEN diverged \cup {f}
                     ELSE diverged \ {f}
  BY DEF handleDidClose
<1>2. /\ kept \in [Files -> Document]
      /\ \A g \in Files : /\ kept[g].ast = docs[g].ast
                          /\ kept[g].fresh = docs[g].fresh
                          /\ kept[g].ws = docs[g].ws
                          /\ kept[g].src \in {Nil, docs[g].src}
                          /\ kept[g].src \in {Nil, kept[g].ast}
                          /\ g \in open' => kept[g].src = docs[g].src
  <2>1. \A g \in Files : docs[g] \in Document /\ docs[g].src \in {Nil, docs[g].ast}
    BY DEF TypeOK, SourceIsParsed
  <2>2. \A g \in Files :
          kept[g] = docs[g] \/ (kept[g] = [docs[g] EXCEPT !.src = Nil] /\ g \notin open')
    BY DEF evictClosedDocumentCaches
  <2>3. kept = [g \in Files |-> kept[g]]
    BY DEF evictClosedDocumentCaches
  <2>. HIDE DEF kept
  <2>4. \A g \in Files : kept[g] \in Document
    <3>. SUFFICES ASSUME NEW g \in Files PROVE kept[g] \in Document
      OBVIOUS
    <3>1. PICK d \in Document : d = docs[g]
      BY <2>1
    <3>2. [d EXCEPT !.src = Nil] \in Document
      BY DEF Document
    <3>. QED
      BY <2>2, <3>1, <3>2
  <2>5. kept \in [Files -> Document]
    BY <2>3, <2>4
  <2>. QED
    BY <2>1, <2>2, <2>5 DEF Document
<1>. HIDE DEF kept
<1>3. /\ docs' \in [Files -> Document]
      /\ shown' \in [Files -> Displayed]
      /\ exited' \in BOOLEAN
      /\ \A g \in Files \ {f} : docs'[g] = kept[g] /\ shown'[g] = shown[g]
      /\ docs'[f].src \in {Nil, docs'[f].ast}
      /\ \/ docs'[f] = kept[f] /\ shown'[f] = shown[f]
         \/ ~HasDoc(docs'[f]) /\ shown'[f] = Nil /\ disk[f] = Nil /\ ~docs'[f].fresh
  <2>1. CASE disk[f] = Nil
    <3>1. clearDocument(f, kept)
      BY <2>1 DEF handleDidClose, kept
    <3>. QED
      BY <1>2, <2>1, <3>1, ClearDocument DEF TypeOK
  <2>2. CASE disk[f] # Nil
    <3>1. docs' = kept /\ shown' = shown /\ exited' = exited
      BY <2>2 DEF handleDidClose, kept
    <3>. QED
      BY <1>2, <2>2, <3>1 DEF TypeOK
  <2>. QED
    BY <2>1, <2>2
<1>4. TypeOK'
  BY <1>1, <1>3 DEF TypeOK
<1>5. (SourceIsParsed /\ EventsMatchDisk)'
  BY <1>1, <1>2, <1>3 DEF SourceIsParsed, EventsMatchDisk
<1>6. (OpenIsCurrent /\ OpenTextIndexed)'
  BY <1>1, <1>2, <1>3 DEF OpenIsCurrent, OpenTextIndexed, TypeOK, HasDoc
<1>7. ShownMatchesIndex'
  <2>. SUFFICES ASSUME NEW g \in Files PROVE ShownForFile(g)'
    BY DEF ShownMatchesIndex, ShownForFile
  <2>1. ShownForFile(g) /\ docs[g] \in Document /\ docs[g].src \in {Nil, docs[g].ast}
    BY <1>1, ShownByFile DEF TypeOK, SourceIsParsed
  <2>2. CASE g = f
    BY <1>1, <1>2, <1>3, <2>1, <2>2 DEF ShownForFile, HasDoc
  <2>3. CASE g # f
    <3>1. buffer'[g] = buffer[g] /\ (g \in open' <=> g \in open)
      BY <1>1, <2>3 DEF TypeOK
    <3>. QED
      BY <1>2, <1>3, <2>1, <2>3, <3>1 DEF ShownForFile, HasDoc
  <2>. QED
    BY <2>2, <2>3
<1>8. SkippedOnlyIfCurrent'
  BY <1>1, <1>2, <1>3 DEF SkippedOnlyIfCurrent, TypeOK
<1>9. ClosedFileInSync'
  BY <1>1, <1>2, <1>3 DEF ClosedFileInSync, TypeOK
<1>. QED
  BY <1>4, <1>5, <1>6, <1>7, <1>8, <1>9

(* A watcher change keeps it: a closed file is read again and stamped.       *)
LEMMA WatchedChangedStore ==
    ASSUME StoreInv, NEW f \in Files, WatchedChanged(f)
    PROVE  StoreInv'
<1>. USE DEF StoreInv
<1>1. /\ pending[f] = "changed" /\ ~exited
      /\ pending' = [pending EXCEPT ![f] = "none"]
      /\ UNCHANGED <<open, folders, ignored, disk, buffer, sent>>
  BY DEF WatchedChanged
<1>2. disk[f] # Nil
  BY <1>1 DEF EventsMatchDisk
<1>3. EventsMatchDisk'
  BY <1>1 DEF EventsMatchDisk, TypeOK
<1>4. CASE f \in ignored \/ f \in open \/ disk[f] = Huge
  <2>1. /\ UNCHANGED <<docs, shown, exited, diverged>>
        /\ versions' \in [Files -> 0..MaxVersion]
        /\ \A g \in open : versions'[g] = versions[g]
    BY <1>4, <1>2, ConstantsOK DEF WatchedChanged, TypeOK
  <2>2. TypeOK'
    BY <1>1, <2>1 DEF TypeOK
  <2>3. (SourceIsParsed /\ OpenIsCurrent /\ OpenTextIndexed /\ ShownMatchesIndex
          /\ SkippedOnlyIfCurrent)'
    BY <1>1, <2>1 DEF SourceIsParsed, OpenIsCurrent, OpenTextIndexed,
                      ShownMatchesIndex, SkippedOnlyIfCurrent
  <2>4. ClosedFileInSync'
    BY <1>1, <1>4, <2>1 DEF ClosedFileInSync, OpenIsCurrent, TypeOK
  <2>. QED
    BY <1>3, <2>2, <2>3, <2>4
<1>5. CASE ~(f \in ignored \/ f \in open \/ disk[f] = Huge)
  <2>. DEFINE d == withModTime(updateDocument(f, docs[f], disk[f]))
  <2>1. disk[f] \in Indexable
    BY <1>2, <1>5 DEF Indexable, TypeOK
  <2>2. /\ d \in Document
        /\ HasDoc(d)
        /\ d.src \in {Nil, d.ast}
        /\ d.ast = disk[f] \/ disk[f] = Empty
        /\ d.ast \in Texts \cup {Nil}
    <3>1. PICK u \in Document : /\ u = updateDocument(f, docs[f], disk[f])
                                /\ HasDoc(u)
                                /\ u.src \in {Nil, u.ast}
                                /\ u.ast = disk[f] \/ disk[f] = Empty
      BY <2>1, UpdateDocumentIndexes
    <3>. QED
      BY <3>1, WithModTime DEF HasDoc, Document, Indexable
  <2>3. /\ versions' = [versions EXCEPT ![f] = 0]
        /\ docs' = [docs EXCEPT ![f] = d]
        /\ IF d.ws THEN publishDiagnostics(f, d) ELSE UNCHANGED <<shown, exited>>
        /\ diverged' = IF d.ast = disk[f] THEN diverged \ {f} ELSE diverged
    BY <1>2, <1>5 DEF WatchedChanged
  <2>. HIDE DEF d
  <2>4. /\ docs' \in [Files -> Document] /\ docs'[f] = d
        /\ \A g \in Files \ {f} : docs'[g] = docs[g]
    BY <2>2, <2>3 DEF TypeOK
  <2>5. /\ shown' \in [Files -> Displayed]
        /\ exited' \in BOOLEAN
        /\ d.ws /\ ~exited' => Belongs(shown'[f], d)
        /\ \A g \in Files \ {f} : shown'[g] = shown[g]
    BY <2>2, <2>3, PublishOne DEF TypeOK, Displayed
  <2>6. versions' \in [Files -> 0..MaxVersion]
    BY <2>3, ConstantsOK DEF TypeOK
  <2>7. TypeOK'
    BY <1>1, <2>3, <2>4, <2>5, <2>6 DEF TypeOK
  <2>8. SourceIsParsed' /\ ShownMatchesIndex'
    <3>1. SourceIsParsed'
      BY <2>2, <2>4 DEF SourceIsParsed
    <3>. SUFFICES ASSUME ~exited', NEW g \in Files PROVE ShownForFile(g)'
      BY <3>1 DEF ShownMatchesIndex, ShownForFile
    <3>2. ShownForFile(g)
      BY <1>1, ShownByFile
    <3>3. CASE g = f
      BY <1>1, <1>5, <2>2, <2>4, <2>5, <3>2, <3>3 DEF ShownForFile, Belongs
    <3>4. CASE g # f
      BY <1>1, <2>4, <2>5, <3>2, <3>4 DEF ShownForFile
    <3>. QED
      BY <3>3, <3>4
  <2>9. (OpenIsCurrent /\ OpenTextIndexed)'
    BY <1>1, <1>5, <2>3, <2>4 DEF OpenIsCurrent, OpenTextIndexed, TypeOK
  <2>10. (SkippedOnlyIfCurrent /\ ClosedFileInSync)'
    BY <1>1, <2>2, <2>3, <2>4 DEF SkippedOnlyIfCurrent, ClosedFileInSync, TypeOK
  <2>. QED
    BY <1>3, <2>7, <2>8, <2>9, <2>10
<1>. QED
  BY <1>4, <1>5

(* A watcher deletion keeps it: the document and its diagnostics go          *)
(* together.                                                                 *)
LEMMA WatchedDeletedStore ==
    ASSUME StoreInv, NEW f \in Files, WatchedDeleted(f)
    PROVE  StoreInv'
<1>. USE DEF StoreInv
<1>1. /\ pending[f] = "deleted" /\ ~exited
      /\ pending' = [pending EXCEPT ![f] = "none"]
      /\ UNCHANGED <<open, folders, ignored, disk, buffer, sent, diverged>>
  BY DEF WatchedDeleted
<1>2. disk[f] = Nil /\ EventsMatchDisk'
  BY <1>1 DEF EventsMatchDisk, TypeOK
<1>3. CASE f \in ignored
  <2>1. UNCHANGED <<docs, shown, exited, versions>>
    BY <1>3 DEF WatchedDeleted
  <2>. QED
    BY <1>1, <1>2, <1>3, <2>1
    DEF TypeOK, SourceIsParsed, OpenIsCurrent, OpenTextIndexed,
        ShownMatchesIndex, SkippedOnlyIfCurrent, ClosedFileInSync
<1>4. CASE f \notin ignored
  <2>1. versions' = [versions EXCEPT ![f] = 0] /\ clearDocument(f, docs)
    BY <1>4 DEF WatchedDeleted
  <2>2. /\ docs' \in [Files -> Document]
        /\ shown' \in [Files -> Displayed]
        /\ docs'[f].src = Nil /\ docs'[f].ast = Nil
        /\ ~docs'[f].fresh /\ ~HasDoc(docs'[f])
        /\ shown'[f] = Nil
        /\ exited' \in BOOLEAN
        /\ \A g \in Files \ {f} : docs'[g] = docs[g] /\ shown'[g] = shown[g]
    BY <1>1, <2>1, ClearDocument DEF TypeOK
  <2>3. versions' \in [Files -> 0..MaxVersion] /\ versions'[f] = 0
        /\ \A g \in Files \ {f} : versions'[g] = versions[g]
    BY <2>1, ConstantsOK DEF TypeOK
  <2>4. TypeOK'
    BY <1>1, <2>2, <2>3 DEF TypeOK
  <2>5. SourceIsParsed' /\ ShownMatchesIndex'
    BY <1>1, <2>2 DEF SourceIsParsed, ShownMatchesIndex
  <2>6. OpenIsCurrent'
    BY <1>1, <2>3 DEF OpenIsCurrent, TypeOK
  <2>7. OpenTextIndexed'
    BY <1>1, <2>2 DEF OpenTextIndexed, TypeOK
  <2>8. (SkippedOnlyIfCurrent /\ ClosedFileInSync)'
    BY <1>1, <1>2, <2>2 DEF SkippedOnlyIfCurrent, ClosedFileInSync, TypeOK
  <2>. QED
    BY <1>2, <2>4, <2>5, <2>6, <2>7, <2>8
<1>. QED
  BY <1>3, <1>4

(* A write to the disk keeps it: the event is pending and the stamp is       *)
(* stale.                                                                    *)
LEMMA WriteStore ==
    ASSUME StoreInv, NEW f \in Files, NEW text \in Texts \cup {Nil}, Write(f, text)
    PROVE  StoreInv'
<1>. USE DEF StoreInv
<1>1. /\ disk' = [disk EXCEPT ![f] = text]
      /\ pending' = [pending EXCEPT ![f] = IF text = Nil THEN "deleted" ELSE "changed"]
      /\ UNCHANGED <<open, versions, shown, exited, folders, ignored, buffer, sent,
                      diverged>>
  BY DEF Write, client
<1>2. /\ docs' \in [Files -> Document]
      /\ \A g \in Files \ {f} : docs'[g] = docs[g]
      /\ docs'[f].src = docs[f].src /\ docs'[f].ast = docs[f].ast
      /\ docs'[f].ws = docs[f].ws /\ docs'[f].fresh = FALSE
  BY DEF Write, TypeOK, Document
<1>3. TypeOK'
  BY <1>1, <1>2 DEF TypeOK
<1>4. (SourceIsParsed /\ ShownMatchesIndex)'
  BY <1>1, <1>2 DEF SourceIsParsed, ShownMatchesIndex, HasDoc
<1>5. (OpenIsCurrent /\ OpenTextIndexed)'
  BY <1>1, <1>2 DEF OpenIsCurrent, OpenTextIndexed, HasDoc, TypeOK
<1>6. EventsMatchDisk'
  BY <1>1 DEF EventsMatchDisk, TypeOK
<1>7. (SkippedOnlyIfCurrent /\ ClosedFileInSync)'
  BY <1>1, <1>2 DEF SkippedOnlyIfCurrent, ClosedFileInSync, TypeOK
<1>. QED
  BY <1>3, <1>4, <1>5, <1>6, <1>7

-----------------------------------------------------------------------------
(* StoreInv is inductive: one case per action.                               *)
LEMMA StepStore == StoreInv /\ [Next]_vars => StoreInv'
<1>. SUFFICES ASSUME StoreInv, [Next]_vars PROVE StoreInv'
  OBVIOUS
<1>1. CASE \E f \in Files, text \in Texts :
             \/ \E v \in 1..MaxVersion : handleDidOpen(f, text, v)
             \/ handleDidChange(f, text)
  BY <1>1, OpenStore, ChangeStore
<1>2. CASE \E f \in Files : handleDidClose(f)
  BY <1>2, CloseStore
<1>3. CASE \E f \in Files : WatchedChanged(f) \/ WatchedDeleted(f)
  BY <1>3, WatchedChangedStore, WatchedDeletedStore
<1>4. CASE Reindexing
  <2>1. folders \in FolderChoices /\ ignored \in IgnoreChoices
    BY DEF StoreInv, TypeOK
  <2>. QED
    BY <1>4, <2>1, RefreshStore
    DEF Reindexing, handleReindex, handleDidChangeConfiguration,
        handleDidChangeWorkspaceFolders
<1>5. CASE \E f \in Files : SaveBuffer(f)
  <2>1. PICK f \in Files : Write(f, buffer[f])
    BY <1>5 DEF SaveBuffer
  <2>2. buffer[f] \in Texts \cup {Nil}
    BY DEF StoreInv, TypeOK
  <2>. QED
    BY <2>1, <2>2, WriteStore
<1>6. CASE \E f \in Files, text \in Texts \cup {Nil} : WriteFile(f, text)
  BY <1>6, WriteStore DEF WriteFile
<1>7. CASE handleDidChangeConfigurationRepublish
  BY <1>7, RepublishStore
<1>8. CASE Exited \/ UNCHANGED vars
  BY <1>8 DEF Exited, vars, StoreInv, TypeOK, SourceIsParsed, OpenIsCurrent, EventsMatchDisk,
              OpenTextIndexed, ShownMatchesIndex, SkippedOnlyIfCurrent, ClosedFileInSync
<1>. QED
  BY <1>1, <1>2, <1>3, <1>4, <1>5, <1>6, <1>7, <1>8 DEF Next

(* Every reachable state of the store satisfies StoreInv.                    *)
THEOREM StoreCorrect == Spec => []StoreInv
  BY InitStore, StepStore, PTL DEF Spec

(* Type correctness: in particular no oversized text is ever indexed.        *)
THEOREM TypeCorrect == Spec => []TypeOK
<1>1. StoreInv => TypeOK
  BY DEF StoreInv
<1>. QED
  BY <1>1, StoreCorrect, PTL

(* What an editor has open is what the server answers from.                  *)
THEOREM OpenTextCorrect == Spec => []OpenTextIndexed
<1>1. StoreInv => OpenTextIndexed
  BY DEF StoreInv
<1>. QED
  BY <1>1, StoreCorrect, PTL

(* Displayed diagnostics belong to the indexed text.                         *)
THEOREM ShownCorrect == Spec => []ShownMatchesIndex
<1>1. StoreInv => ShownMatchesIndex
  BY DEF StoreInv
<1>. QED
  BY <1>1, StoreCorrect, PTL

(* A closed, watched file is indexed from its bytes on the disk.             *)
THEOREM ClosedFileCorrect == Spec => [](ClosedFileInSync /\ SkippedOnlyIfCurrent)
<1>1. StoreInv => ClosedFileInSync /\ SkippedOnlyIfCurrent
  BY DEF StoreInv
<1>. QED
  BY <1>1, StoreCorrect, PTL

(* A re-index, a watcher event or another document's edit never replaces the *)
(* text of an open document.                                                 *)
THEOREM OpenTextProtected == Spec => OpenTextOnlyFromEditor
<1>. DEFINE Kept == \A f \in open \cap open' :
                       docs'[f].ast \in {docs[f].ast, buffer'[f], Nil}
<1>1. ASSUME StoreInv, [Next]_vars PROVE [Kept]_vars
  <2>. USE DEF StoreInv
  <2>. SUFFICES ASSUME Next, NEW f \in Files, f \in open, f \in open'
                PROVE  docs'[f].ast \in {docs[f].ast, buffer'[f], Nil}
    BY <1>1 DEF TypeOK
  <2>1. ASSUME NEW g \in Files, NEW text \in Texts, NEW v \in 1..MaxVersion,
               handleDidOpen(g, text, v)
        PROVE  docs'[f].ast = docs[f].ast
    <3>1. g # f
      BY <1>1, <2>1 DEF handleDidOpen, OpenIsCurrent
    <3>. QED
      BY <1>1, <2>1, <3>1, ApplyText DEF handleDidOpen, server
  <2>2. ASSUME NEW g \in Files, NEW text \in Texts, handleDidChange(g, text)
        PROVE  docs'[f].ast \in {docs[f].ast, buffer'[f], Nil}
    <3>1. buffer'[g] = text
      BY <1>1, <2>2 DEF handleDidChange, TypeOK
    <3>2. CASE g \in ignored
      BY <1>1, <2>2, <3>2, ClearDocument DEF handleDidChange, TypeOK
    <3>3. CASE g \notin ignored
      BY <1>1, <2>2, <3>1, <3>3, ApplyText DEF handleDidChange
    <3>. QED
      BY <3>2, <3>3
  <2>3. ASSUME NEW g \in Files, handleDidClose(g)
        PROVE  docs'[f].ast = docs[f].ast
    <3>1. g # f
      BY <2>3 DEF handleDidClose
    <3>2. docs'[f] = evictClosedDocumentCaches(docs, open')[f]
      BY <2>3, <3>1 DEF handleDidClose, clearDocument, evictClosedDocumentCaches
    <3>. QED
      BY <1>1, <3>2 DEF evictClosedDocumentCaches, TypeOK, Document
  <2>4. ASSUME NEW g \in Files, WatchedChanged(g)
        PROVE  docs'[f].ast = docs[f].ast
    BY <1>1, <2>4 DEF WatchedChanged, TypeOK
  <2>5. ASSUME NEW g \in Files, WatchedDeleted(g)
        PROVE  docs'[f].ast \in {docs[f].ast, Nil}
    BY <1>1, <2>5, ClearDocument DEF WatchedDeleted, TypeOK
  <2>6. ASSUME Reindexing
        PROVE  docs'[f].ast = docs[f].ast
    <3>1. PICK fo, ig : refreshWorkspace(fo, ig)
      BY <2>6 DEF Reindexing, handleReindex, handleDidChangeConfiguration,
                  handleDidChangeWorkspaceFolders
    <3>2. docs'[f] = refreshedDoc(f, docs[f], open, fo, ig)
      BY <3>1 DEF refreshWorkspace
    <3>3. refreshedDoc(f, docs[f], open, fo, ig) = docs[f]
      BY DEF refreshedDoc
    <3>. QED
      BY <3>2, <3>3
  <2>7. ASSUME NEW g \in Files, NEW text, Write(g, text)
        PROVE  docs'[f].ast = docs[f].ast
    BY <1>1, <2>7 DEF Write, TypeOK, Document
  <2>. QED
    BY <2>1, <2>2, <2>3, <2>4, <2>5, <2>6, <2>7
    DEF Next, SaveBuffer, WriteFile, handleDidChangeConfigurationRepublish, Exited,
        vars
<1>. QED
  BY <1>1, StoreCorrect, PTL DEF Spec, OpenTextOnlyFromEditor

-----------------------------------------------------------------------------
(* One handler's effect on the source of a document: it is kept, replaced    *)
(* together with the tree, dropped with the document, or evicted, and only   *)
(* for a document that is neither open nor of a library.                     *)
SourceStep(f) ==
    \/ docs'[f].src = docs[f].src /\ docs'[f].ast = docs[f].ast
    \/ docs'[f].src = docs'[f].ast
    \/ ~HasDoc(docs'[f])
    \/ f \notin LibFiles /\ f \notin open'

(* Every step is such a step for every file.                                 *)
LEMMA SourceSteps ==
    ASSUME StoreInv, [Next]_vars, NEW f \in Files
    PROVE  SourceStep(f)
<1>. USE DEF SourceStep
<1>0. docs \in [Files -> Document] /\ docs[f].src \in {Nil, docs[f].ast}
  BY DEF StoreInv, TypeOK, SourceIsParsed
<1>1. ASSUME NEW g \in Files, NEW text \in Texts, applyText(g, text)
      PROVE  SourceStep(f)
  <2>1. CASE text = Huge
    BY <1>1, <2>1 DEF applyText
  <2>2. CASE text # Huge
    <3>1. docs' = [docs EXCEPT ![g] = updateDocument(g, docs[g], text)]
      BY <1>1, <2>2 DEF applyText
    <3>2. \/ updateDocument(g, docs[g], text) = docs[g]
          \/ updateDocument(g, docs[g], text)
                = finalizeDocumentUpdate(g, docs[g], text, folders)
      BY DEF updateDocument
    <3>. QED
      BY <1>0, <3>1, <3>2 DEF finalizeDocumentUpdate
  <2>. QED
    BY <2>1, <2>2
<1>2. ASSUME NEW g \in Files, NEW ds, ds = docs, clearDocument(g, ds)
      PROVE  SourceStep(f)
  BY <1>0, <1>2 DEF clearDocument, NoDoc, HasDoc
<1>3. ASSUME NEW g \in Files, NEW text \in Texts, NEW v \in 1..MaxVersion,
             handleDidOpen(g, text, v)
      PROVE  SourceStep(f)
  BY <1>1, <1>3 DEF handleDidOpen, server
<1>4. ASSUME NEW g \in Files, NEW text \in Texts, handleDidChange(g, text)
      PROVE  SourceStep(f)
  BY <1>1, <1>2, <1>4 DEF handleDidChange
<1>5. ASSUME NEW g \in Files, handleDidClose(g) PROVE SourceStep(f)
  <2>1. PICK kept : kept = evictClosedDocumentCaches(docs, open')
    OBVIOUS
  <2>2. docs' = kept \/ docs' = [kept EXCEPT ![g] = NoDoc]
    BY <1>5, <2>1 DEF handleDidClose, clearDocument
  <2>3. /\ kept = [h \in Files |-> kept[h]]
        /\ kept[f] = docs[f] \/ (f \notin LibFiles /\ f \notin open')
    BY <2>1 DEF evictClosedDocumentCaches
  <2>. QED
    BY <2>2, <2>3 DEF NoDoc, HasDoc
<1>6. ASSUME NEW g \in Files, WatchedChanged(g) PROVE SourceStep(f)
  <2>1. CASE UNCHANGED docs
    BY <2>1
  <2>2. CASE docs' = [docs EXCEPT ![g] =
                        withModTime(updateDocument(g, docs[g], disk[g]))]
    <3>1. PICK d : /\ d = updateDocument(g, docs[g], disk[g])
                   /\ \/ d = docs[g]
                      \/ d = finalizeDocumentUpdate(g, docs[g], disk[g], folders)
      BY DEF updateDocument
    <3>2. withModTime(d).src = d.src /\ withModTime(d).ast = d.ast
      BY <1>0, <3>1 DEF withModTime, finalizeDocumentUpdate, Document
    <3>3. g = f => docs'[f] = withModTime(d)
      BY <1>0, <2>2, <3>1
    <3>4. g # f => docs'[f] = docs[f]
      BY <1>0, <2>2
    <3>. QED
      BY <3>1, <3>2, <3>3, <3>4 DEF finalizeDocumentUpdate
  <2>. QED
    BY <1>6, <2>1, <2>2 DEF WatchedChanged
<1>7. ASSUME NEW g \in Files, WatchedDeleted(g) PROVE SourceStep(f)
  BY <1>2, <1>7 DEF WatchedDeleted
<1>8. ASSUME Reindexing PROVE SourceStep(f)
  <2>1. PICK fo, ig : refreshWorkspace(fo, ig)
    BY <1>8 DEF Reindexing, handleReindex, handleDidChangeConfiguration,
                handleDidChangeWorkspaceFolders
  <2>2. docs'[f] = refreshedDoc(f, docs[f], open, fo, ig)
    BY <2>1 DEF refreshWorkspace
  <2>3. \/ docs'[f] = docs[f]
        \/ docs'[f] = NoDoc
        \/ docs'[f] = IndexJobResult(f, docs[f], fo)
    BY <2>2 DEF refreshedDoc
  <2>4. CASE docs'[f] = IndexJobResult(f, docs[f], fo)
    <3>1. PICK d : /\ docs'[f] = withModTime(d)
                   /\ \/ d = docs[f]
                      \/ d = finalizeDocumentUpdate(f, docs[f], disk[f], fo)
      BY <2>4 DEF IndexJobResult
    <3>2. withModTime(d).src = d.src /\ withModTime(d).ast = d.ast
      BY <1>0, <3>1 DEF withModTime, finalizeDocumentUpdate, Document
    <3>. QED
      BY <3>1, <3>2 DEF finalizeDocumentUpdate
  <2>. QED
    BY <2>3, <2>4 DEF NoDoc, HasDoc
<1>9. ASSUME NEW g \in Files, NEW text, Write(g, text) PROVE SourceStep(f)
  BY <1>0, <1>9 DEF Write, Document
<1>10. CASE UNCHANGED vars
  BY <1>10 DEF vars
<1>11. CASE handleDidChangeConfigurationRepublish
  BY <1>11 DEF handleDidChangeConfigurationRepublish
<1>. QED
  BY <1>3, <1>4, <1>5, <1>6, <1>7, <1>8, <1>9, <1>10, <1>11
  DEF Next, SaveBuffer, WriteFile, Exited

LibrarySources ==
    \A f \in LibFiles : HasDoc(docs[f]) => docs[f].src = docs[f].ast

(* evictClosedDocumentCaches spares libraries: whatever is closed or         *)
(* re-indexed, a library document keeps the source of its tree.              *)
THEOREM LibrarySourceCorrect == Spec => []LibrarySources
<1>. USE DEF LibrarySources
<1>1. Init => LibrarySources
  <2>. SUFFICES ASSUME Init, NEW f \in LibFiles, HasDoc(docs[f])
                PROVE  docs[f].src = docs[f].ast
    OBVIOUS
  <2>1. f \in Files /\ docs[f] = refreshedDoc(f, NoDoc, {}, folders, ignored)
    BY ConstantsOK DEF Init
  <2>2. docs[f] = IndexJobResult(f, NoDoc, folders) /\ disk[f] # Nil
    BY <2>1 DEF refreshedDoc, HasDoc, NoDoc, Walked
  <2>3. docs[f] = withModTime(finalizeDocumentUpdate(f, NoDoc, disk[f], folders))
    BY <2>2 DEF IndexJobResult, NoDoc
  <2>. QED
    BY <2>3 DEF withModTime, finalizeDocumentUpdate
<1>2. StoreInv /\ LibrarySources /\ [Next]_vars => LibrarySources'
  <2>. SUFFICES ASSUME StoreInv, LibrarySources, [Next]_vars,
                       NEW f \in LibFiles, HasDoc(docs'[f])
                PROVE  docs'[f].src = docs'[f].ast
    BY DEF HasDoc
  <2>1. f \in Files /\ docs[f].src \in {Nil, docs[f].ast}
    BY ConstantsOK DEF StoreInv, SourceIsParsed
  <2>2. SourceStep(f)
    BY <2>1, SourceSteps
  <2>. QED
    BY <2>1, <2>2 DEF SourceStep, HasDoc
<1>. QED
  BY <1>1, <1>2, StoreCorrect, PTL DEF Spec

(* Closing a document takes no source that is still read: what an open       *)
(* document has of its text it keeps as long as it stays open, and a library *)
(* document always has the source of its tree.                               *)
THEOREM SourcesProtected == Spec => SourcesKept
<1>. DEFINE OpenKept == \A f \in open \cap open' :
                docs[f].src # Nil /\ HasDoc(docs'[f]) => docs'[f].src # Nil
            LibraryKept == \A f \in LibFiles :
                HasDoc(docs'[f]) => docs'[f].src = docs'[f].ast
<1>1. ASSUME StoreInv, [Next]_vars PROVE OpenKept
  <2>. SUFFICES ASSUME NEW f \in open \cap open',
                       docs[f].src # Nil, HasDoc(docs'[f])
                PROVE  docs'[f].src # Nil
    OBVIOUS
  <2>1. f \in Files
    BY <1>1 DEF StoreInv, TypeOK
  <2>. QED
    BY <1>1, <2>1, SourceSteps DEF SourceStep, HasDoc
<1>2. LibrarySources' => LibraryKept
  BY DEF LibrarySources, HasDoc
<1>3. StoreInv /\ LibrarySources' /\ [Next]_vars => [OpenKept /\ LibraryKept]_vars
  BY <1>1, <1>2
<1>. QED
  BY <1>3, StoreCorrect, LibrarySourceCorrect, PTL DEF Spec, SourcesKept

-----------------------------------------------------------------------------
(* A deleted file that is still indexed has an event on its way, whatever    *)
(* was opened, closed, ignored or re-indexed since; so the one step that     *)
(* DeletedFileForgotten takes on trust is the delivery (handleDidClose,      *)
(* handleDidChangeWatchedFiles, refreshWorkspace).                           *)
Reported(f) ==
    disk[f] = Nil /\ HasDoc(docs[f]) /\ buffer[f] = Nil /\ f \notin ignored =>
        pending[f] = "deleted"
DeletionReported == \A f \in Files : Reported(f)

(* A re-index drops what is neither open nor on the disk.                    *)
LEMMA RefreshForgets ==
    ASSUME StoreInv, NEW fo, NEW ig, refreshWorkspace(fo, ig)
    PROVE  \A f \in Files : disk[f] = Nil /\ buffer[f] = Nil => ~HasDoc(docs'[f])
<1>. SUFFICES ASSUME NEW f \in Files, disk[f] = Nil, buffer[f] = Nil PROVE ~HasDoc(docs'[f])
  OBVIOUS
<1>1. f \notin open
  BY DEF StoreInv, OpenIsCurrent
<1>2. docs'[f] = refreshedDoc(f, docs[f], open, fo, ig)
  BY DEF refreshWorkspace
<1>3. docs'[f] = NoDoc
  BY <1>1, <1>2 DEF refreshedDoc, Walked
<1>. QED
  BY <1>3 DEF NoDoc, HasDoc

(* DeletionReported is inductive.                                            *)
LEMMA ReportedStep ==
    ASSUME StoreInv, DeletionReported, [Next]_vars, NEW f \in Files
    PROVE  Reported(f)'
<1>. USE DEF Reported
<1>0. /\ docs \in [Files -> Document] /\ disk \in [Files -> Texts \cup {Nil}]
      /\ buffer \in [Files -> Texts \cup {Nil}] /\ DOMAIN pending = Files
      /\ Nil \notin Texts
      /\ Reported(f)
  BY ConstantsOK DEF StoreInv, TypeOK, DeletionReported
<1>1. ASSUME NEW g \in Files, NEW text \in Texts, NEW v \in 1..MaxVersion, handleDidOpen(g, text, v)
      PROVE  Reported(f)'
  <2>1. /\ buffer' = [buffer EXCEPT ![g] = text] /\ UNCHANGED <<disk, pending>> /\ ignored' = ignored
        /\ docs' = docs \/ docs' = [docs EXCEPT ![g] = updateDocument(g, docs[g], text)]
    BY <1>1 DEF handleDidOpen, applyText, server
  <2>2. CASE f = g
    BY <1>0, <2>1, <2>2
  <2>3. CASE f # g
    BY <1>0, <2>1, <2>3
  <2>. QED
    BY <2>2, <2>3
<1>2. ASSUME NEW g \in Files, NEW text \in Texts, handleDidChange(g, text)
      PROVE  Reported(f)'
  <2>1. /\ buffer' = [buffer EXCEPT ![g] = text] /\ UNCHANGED <<disk, pending, ignored>>
        /\ \/ docs' = docs \/ docs' = [docs EXCEPT ![g] = NoDoc]
           \/ docs' = [docs EXCEPT ![g] = updateDocument(g, docs[g], text)]
    BY <1>2 DEF handleDidChange, clearDocument, applyText
  <2>2. CASE f = g
    BY <1>0, <2>1, <2>2
  <2>3. CASE f # g
    BY <1>0, <2>1, <2>3
  <2>. QED
    BY <2>2, <2>3
<1>3. ASSUME NEW g \in Files, handleDidClose(g) PROVE Reported(f)'
  <2>. DEFINE kept == evictClosedDocumentCaches(docs, open')
  <2>1. /\ buffer' = [buffer EXCEPT ![g] = Nil] /\ UNCHANGED <<disk, pending, ignored>>
        /\ IF disk[g] = Nil THEN docs' = [kept EXCEPT ![g] = NoDoc] ELSE docs' = kept
    BY <1>3 DEF handleDidClose, clearDocument
  <2>2. /\ DOMAIN kept = Files /\ kept[f].ast = docs[f].ast
    BY <1>0 DEF evictClosedDocumentCaches, Document
  <2>. HIDE DEF kept
  <2>3. CASE f = g
    <3>1. disk[f] = Nil => docs'[f] = NoDoc
      BY <2>1, <2>2, <2>3
    <3>. QED
      BY <2>1, <3>1 DEF NoDoc, HasDoc
  <2>4. CASE f # g
    <3>1. docs'[f] = kept[f] /\ buffer'[f] = buffer[f]
      BY <1>0, <2>1, <2>2, <2>4
    <3>. QED
      BY <1>0, <2>1, <2>2, <3>1 DEF HasDoc
  <2>. QED
    BY <2>3, <2>4
<1>4. ASSUME NEW g \in Files, WatchedChanged(g) PROVE Reported(f)'
  <2>1. /\ pending[g] = "changed" /\ pending' = [pending EXCEPT ![g] = "none"]
        /\ UNCHANGED <<disk, buffer, ignored>> /\ disk[g] # Nil
        /\ \/ docs' = docs
           \/ docs' = [docs EXCEPT ![g] = withModTime(updateDocument(g, docs[g], disk[g]))]
    BY <1>4 DEF WatchedChanged, StoreInv, EventsMatchDisk
  <2>2. CASE f = g
    BY <2>1, <2>2
  <2>3. CASE f # g
    BY <1>0, <2>1, <2>3
  <2>. QED
    BY <2>2, <2>3
<1>5. ASSUME NEW g \in Files, WatchedDeleted(g) PROVE Reported(f)'
  <2>1. /\ pending' = [pending EXCEPT ![g] = "none"] /\ UNCHANGED <<disk, buffer, ignored>>
        /\ IF g \in ignored THEN docs' = docs ELSE docs' = [docs EXCEPT ![g] = NoDoc]
    BY <1>5 DEF WatchedDeleted, clearDocument
  <2>2. CASE f = g
    <3>1. f \notin ignored => docs'[f] = NoDoc
      BY <1>0, <2>1, <2>2
    <3>. QED
      BY <2>1, <3>1 DEF NoDoc, HasDoc
  <2>3. CASE f # g
    BY <1>0, <2>1, <2>3
  <2>. QED
    BY <2>2, <2>3
<1>6. CASE Reindexing
  <2>1. \E fo, ig : refreshWorkspace(fo, ig)
    BY <1>6 DEF Reindexing, handleReindex, handleDidChangeConfiguration,
                handleDidChangeWorkspaceFolders
  <2>2. UNCHANGED <<disk, buffer>>
    BY <2>1 DEF refreshWorkspace
  <2>. QED
    BY <2>1, <2>2, RefreshForgets
<1>7. ASSUME NEW g \in Files, NEW text \in Texts \cup {Nil}, Write(g, text) PROVE Reported(f)'
  <2>1. /\ disk' = [disk EXCEPT ![g] = text] /\ UNCHANGED <<buffer, ignored>>
        /\ docs' = [docs EXCEPT ![g].fresh = FALSE]
        /\ pending' = [pending EXCEPT ![g] = IF text = Nil THEN "deleted" ELSE "changed"]
    BY <1>7 DEF Write, client
  <2>2. CASE f = g
    BY <1>0, <2>1, <2>2
  <2>3. CASE f # g
    BY <1>0, <2>1, <2>3
  <2>. QED
    BY <2>2, <2>3
<1>8. CASE UNCHANGED vars
  BY <1>0, <1>8 DEF vars
<1>9. ASSUME NEW g \in Files, SaveBuffer(g) PROVE Reported(f)'
  BY <1>0, <1>7, <1>9 DEF SaveBuffer
<1>10. CASE handleDidChangeConfigurationRepublish
  BY <1>0, <1>10 DEF handleDidChangeConfigurationRepublish, client
<1>. QED
  BY <1>1, <1>2, <1>3, <1>4, <1>5, <1>6, <1>7, <1>8, <1>9, <1>10
  DEF Next, WriteFile, Exited

(* However openings, closings, globs, folders and re-indexes come between,   *)
(* a deleted file never stays indexed without an event on its way that will  *)
(* have it forgotten.                                                        *)
THEOREM DeletionReportedHolds == Spec => []DeletionReported
<1>1. Init => DeletionReported
  <2>. SUFFICES ASSUME Init, NEW f \in Files, disk[f] = Nil, HasDoc(docs[f]) PROVE FALSE
    BY DEF DeletionReported, Reported
  <2>1. docs[f] = refreshedDoc(f, NoDoc, {}, folders, ignored)
    BY DEF Init
  <2>2. docs[f] = NoDoc
    BY <2>1 DEF refreshedDoc, Walked
  <2>. QED
    BY <2>2 DEF NoDoc, HasDoc
<1>2. StoreInv /\ DeletionReported /\ [Next]_vars => DeletionReported'
  BY ReportedStep DEF DeletionReported
<1>. QED
  BY <1>1, <1>2, StoreCorrect, PTL DEF Spec
=============================================================================
