-------------------- MODULE AccountsAndDocuments_proofs ---------------------
(***************************************************************************)
(* Proofs about Documents and about Accounts.                              *)
(***************************************************************************)
EXTENDS Documents, Accounts, FiniteSetTheorems, TLAPS

-----------------------------------------------------------------------------
(***************************************************************************)
(* Documents. How far an upload has come tells what the database and the   *)
(* object store know of its file; a report under review has no upload      *)
(* under way that the submission did not overtake; and a content that was  *)
(* once called original has been counted.                                  *)
(***************************************************************************)
\* What the phase of an upload tells of its file.
FileInv(f) ==
    /\ upload[f].phase # "new" => upload[f].owner \in Owners /\ upload[f].content \in Contents
    /\ upload[f].phase \in {"new", "checked"} => row[f] = None /\ f \notin stored
    /\ upload[f].phase = "stored" => row[f] = None /\ f \in stored
    /\ upload[f].phase = "indexing" => row[f] = Policy /\ f \in stored /\ upload[f].owner = Policy
    /\ upload[f].phase = "done" =>
            /\ row[f] # None => f \in stored \cup unsure
            /\ f \in stored => row[f] # None \/ f \in stray

\* A receipt that is on its way to a report under review was so before.
LateInv(f) ==
    /\ ~ editable
    /\ upload[f].phase \in {"checked", "stored"}
    /\ upload[f].owner \in Items
    => f \in late

\* A file that was called original is a row, and its content is counted.
CleanInv(f) ==
    f \in clean => upload[f].phase # "new" /\ seen[upload[f].content] > 0

DocumentInv ==
    document # None =>
        /\ row[document] = Policy
        /\ upload[document].phase \in {"indexing", "done"}

DocumentsInv ==
    /\ TypeOK
    /\ \A f \in Files : FileInv(f) /\ LateInv(f) /\ CleanInv(f)
    /\ DocumentInv
    /\ CurrentDocumentIsFound
    /\ OneOriginal

-----------------------------------------------------------------------------
(***************************************************************************)
(* One lemma per action of an upload.                                      *)
(***************************************************************************)
LEMMA StartStep ==
    ASSUME DocumentsInv, NEW f \in Files, NEW o \in Owners, NEW c \in Contents,
           StartUpload(f, o, c)
    PROVE  DocumentsInv'
  <1> DEFINE new == [phase |-> "checked", owner |-> o, content |-> c,
                     read |-> IF o = Policy THEN document ELSE None]
  <1>1. /\ TypeOK
        /\ upload[f].phase = "new"
        /\ FileInv(f)
        /\ o # Policy => editable
        /\ upload' = [upload EXCEPT ![f] = new]
        /\ UNCHANGED <<row, stored, present, editable, document, index, seen, clean, late,
                       stray, unsure, unindexed>>
    BY DEF DocumentsInv, StartUpload, ReceiptAllowed, Is, histories
  <1>2. new \in Upload
    BY <1>1 DEF TypeOK, Upload, Phases
  <1>3. TypeOK'
    BY <1>1, <1>2 DEF TypeOK
  <1>4. \A g \in Files \ {f} : upload'[g] = upload[g]
    BY <1>1 DEF TypeOK
  <1>5. upload'[f].phase = "checked" /\ upload'[f].owner = o /\ upload'[f].content = c
    BY <1>1 DEF TypeOK
  <1>6. document # f /\ f \notin clean
    BY <1>1, DocumentsAssumption DEF DocumentsInv, DocumentInv, CleanInv
  <1>7. ASSUME NEW g \in Files PROVE (FileInv(g) /\ LateInv(g) /\ CleanInv(g))'
    <2>1. CASE g = f
      BY <1>1, <1>5, <1>6, <2>1, DocumentsAssumption DEF FileInv, LateInv, CleanInv, Owners
    <2>2. CASE g # f
      BY <1>1, <1>4, <2>2 DEF DocumentsInv, FileInv, LateInv, CleanInv
    <2> QED BY <2>1, <2>2
  <1>8. DocumentInv' /\ CurrentDocumentIsFound'
    BY <1>1, <1>4, <1>6 DEF DocumentsInv, DocumentInv, CurrentDocumentIsFound, Is, TypeOK
  <1>9. OneOriginal'
    BY <1>1, <1>4, <1>6 DEF DocumentsInv, OneOriginal, TypeOK
  <1> QED BY <1>3, <1>7, <1>8, <1>9 DEF DocumentsInv

\* The handlers that move an upload on and leave its owner, content, the
\* documents and the analyses alone.
LEMMA MoveStep ==
    ASSUME DocumentsInv, NEW f \in Files, NEW phase \in {"stored", "done"},
           upload[f].phase \in {"checked", "stored"}, Moved(f, phase),
           phase = "stored" => upload[f].phase = "checked" /\ f \in stored',
           phase = "done" => (f \in stored' => f \in stray'),
           stored' \in SUBSET Files, stray' \in SUBSET Files,
           \A g \in Files \ {f} : (g \in stored' <=> g \in stored) /\ (g \in stray' <=> g \in stray),
           UNCHANGED <<row, present, editable, document, index, seen, clean, late, unsure,
                       unindexed>>
    PROVE  DocumentsInv'
  <1>1. TypeOK /\ FileInv(f) /\ LateInv(f) /\ CleanInv(f)
    BY DEF DocumentsInv
  <1>2. upload' = [upload EXCEPT ![f].phase = phase]
    BY DEF Moved
  <1>3. TypeOK'
    BY <1>1, <1>2 DEF TypeOK, Upload, Phases
  <1>4. \A g \in Files \ {f} : upload'[g] = upload[g]
    BY <1>1, <1>2 DEF TypeOK
  <1>5. /\ upload'[f].phase = phase
        /\ upload'[f].owner = upload[f].owner
        /\ upload'[f].content = upload[f].content
    BY <1>1, <1>2 DEF TypeOK, Upload
  <1>6. document # f
    BY DocumentsAssumption DEF DocumentsInv, DocumentInv
  <1>7. ASSUME NEW g \in Files PROVE (FileInv(g) /\ LateInv(g) /\ CleanInv(g))'
    <2>1. CASE g = f
      BY <1>1, <1>5, <2>1 DEF FileInv, LateInv, CleanInv
    <2>2. CASE g # f
      <3>1. FileInv(g) /\ LateInv(g) /\ CleanInv(g) /\ upload'[g] = upload[g]
        BY <1>4, <2>2 DEF DocumentsInv
      <3>2. (g \in stored' <=> g \in stored) /\ (g \in stray' <=> g \in stray)
        BY <2>2
      <3> QED BY <3>1, <3>2 DEF FileInv, LateInv, CleanInv
    <2> QED BY <2>1, <2>2
  <1>8. DocumentInv' /\ CurrentDocumentIsFound'
    BY <1>1, <1>4, <1>6 DEF DocumentsInv, DocumentInv, CurrentDocumentIsFound, Is, TypeOK
  <1>9. OneOriginal'
    BY <1>1, <1>4, <1>5 DEF DocumentsInv, OneOriginal, TypeOK
  <1> QED BY <1>3, <1>7, <1>8, <1>9 DEF DocumentsInv

LEMMA PutStep ==
    ASSUME DocumentsInv, NEW f \in Files, PutBytes(f) \/ PutFails(f) \/ RollBackUpload(f)
    PROVE  DocumentsInv'
  <1>1. TypeOK /\ FileInv(f)
    BY DEF DocumentsInv
  <1>2. CASE PutBytes(f)
    BY <1>1, <1>2, MoveStep DEF PutBytes, Is, TypeOK, histories
  <1>3. CASE PutFails(f)
    BY <1>1, <1>3, MoveStep DEF PutFails, Is, TypeOK, FileInv
  <1>4. CASE RollBackUpload(f)
    BY <1>1, <1>4, MoveStep DEF RollBackUpload, BytesDeleted, Is, TypeOK, FileInv
  <1> QED BY <1>2, <1>3, <1>4

\* A row is committed, whether or not the answer says so.
LEMMA CommitStep ==
    ASSUME DocumentsInv, NEW f \in Files, CommitUpload(f) \/ LoseCommitAnswer(f)
    PROVE  DocumentsInv'
  <1> DEFINE next == IF CommitUpload(f) /\ upload[f].owner = Policy THEN "indexing" ELSE "done"
  <1>1. /\ TypeOK /\ FileInv(f) /\ LateInv(f) /\ CleanInv(f)
        /\ upload[f].phase = "stored"
        /\ row[f] = None /\ f \in stored
        /\ upload[f].owner \in Owners
    BY DEF DocumentsInv, CommitUpload, LoseCommitAnswer, Committable, Is, FileInv
  <1>2. /\ row' = [row EXCEPT ![f] = upload[f].owner]
        /\ document' = IF upload[f].owner = Policy THEN f ELSE document
        /\ UNCHANGED <<present, editable, index, seen, clean, late>>
    BY DEF CommitUpload, LoseCommitAnswer, Committed, histories
  <1>3. \/ /\ CommitUpload(f)
           /\ UNCHANGED <<stored, stray, unsure, unindexed>>
        \/ /\ stored' = stored \ {f} \/ stored' = stored
           /\ stray' = stray \/ stray' = stray \cup {f}
           /\ stored' = stored => f \in stray'
           /\ unsure' = unsure \cup {f}
           /\ unindexed' = IF upload[f].owner = Policy THEN unindexed \cup {f} ELSE unindexed
           /\ ~ CommitUpload(f)
    <2>1. CASE CommitUpload(f)
      BY <2>1 DEF CommitUpload, histories
    <2>2. CASE ~ CommitUpload(f)
      BY <1>1, <2>2 DEF LoseCommitAnswer, BytesDeleted
    <2> QED BY <2>1, <2>2
  <1>4. upload' = [upload EXCEPT ![f].phase = next]
    <2>1. CASE CommitUpload(f)
      BY <2>1 DEF CommitUpload, Moved
    <2>2. CASE ~ CommitUpload(f)
      BY <2>2 DEF LoseCommitAnswer, Moved
    <2> QED BY <2>1, <2>2
  <1> HIDE DEF next
  <1>5. next \in {"indexing", "done"} /\ (next = "indexing" => CommitUpload(f) /\ upload[f].owner = Policy)
    BY DEF next
  <1>6. TypeOK'
    <2>1. upload' \in [Files -> Upload]
      BY <1>1, <1>4, <1>5 DEF TypeOK, Upload, Phases
    <2>2. row' \in [Files -> Owners \cup {None}] /\ document' \in Files \cup {None}
      BY <1>1, <1>2 DEF TypeOK
    <2>3. /\ stored' \subseteq Files /\ stray' \subseteq Files
          /\ unsure' \subseteq Files /\ unindexed' \subseteq Files
      BY <1>1, <1>3 DEF TypeOK
    <2> QED BY <1>1, <1>2, <2>1, <2>2, <2>3 DEF TypeOK
  <1>7. /\ upload'[f].phase = next
        /\ upload'[f].owner = upload[f].owner
        /\ upload'[f].content = upload[f].content
    BY <1>1, <1>4 DEF TypeOK, Upload
  <1>8. \A g \in Files \ {f} : upload'[g] = upload[g] /\ row'[g] = row[g]
    BY <1>1, <1>2, <1>4 DEF TypeOK
  <1>9. row'[f] = upload[f].owner
    BY <1>1, <1>2 DEF TypeOK
  <1>10. ASSUME NEW g \in Files PROVE (FileInv(g) /\ LateInv(g) /\ CleanInv(g))'
    <2>1. CASE g = f
      <3>1. next = "indexing" => f \in stored'
        BY <1>1, <1>3, <1>5
      <3>2. f \in stored' \cup unsure'
        BY <1>1, <1>3
      <3>3. upload'[f].owner # None
        BY <1>1, <1>7, DocumentsAssumption DEF Owners
      <3> QED BY <1>1, <1>2, <1>5, <1>7, <1>9, <2>1, <3>1, <3>2, <3>3 DEF FileInv, LateInv, CleanInv
    <2>2. CASE g # f
      <3>1. FileInv(g) /\ LateInv(g) /\ CleanInv(g)
        BY DEF DocumentsInv
      <3>2. /\ g \in stored' <=> g \in stored
            /\ g \in stray' <=> g \in stray
            /\ g \in unsure => g \in unsure'
        BY <1>3, <2>2
      <3> QED BY <1>2, <1>8, <2>2, <3>1, <3>2 DEF FileInv, LateInv, CleanInv
    <2> QED BY <2>1, <2>2
  <1>11. DocumentInv' /\ CurrentDocumentIsFound'
    <2>1. CASE upload[f].owner = Policy
      <3>1. document' = f
        BY <1>2, <2>1
      <3>2. next = "indexing" \/ f \in unindexed'
        BY <1>3, <2>1 DEF next
      <3> QED BY <1>5, <1>7, <1>9, <2>1, <3>1, <3>2 DEF DocumentInv, CurrentDocumentIsFound, Is
    <2>2. CASE upload[f].owner # Policy
      <3>1. document' = document /\ document # f
        BY <1>1, <1>2, <2>2, DocumentsAssumption DEF DocumentsInv, DocumentInv
      <3>2. unindexed \subseteq unindexed' /\ index' = index
        BY <1>2, <1>3
      <3> QED BY <1>1, <1>8, <3>1, <3>2 DEF DocumentsInv, DocumentInv, CurrentDocumentIsFound, Is, TypeOK
    <2> QED BY <2>1, <2>2
  <1>12. OneOriginal'
    BY <1>1, <1>2, <1>7, <1>8 DEF DocumentsInv, OneOriginal, TypeOK
  <1> QED BY <1>6, <1>10, <1>11, <1>12 DEF DocumentsInv

\* The assistant has the document, or says it has not.
LEMMA IndexStep ==
    ASSUME DocumentsInv, NEW f \in Files, IndexDocument(f) \/ IndexUnavailable(f)
    PROVE  DocumentsInv'
  <1>1. /\ TypeOK /\ FileInv(f) /\ LateInv(f) /\ CleanInv(f)
        /\ upload[f].phase = "indexing"
        /\ upload[f].content \in Contents
    BY DEF DocumentsInv, IndexDocument, IndexUnavailable, Is, FileInv
  <1>2. /\ upload' = [upload EXCEPT ![f].phase = "done"]
        /\ UNCHANGED <<row, stored, present, editable, document, seen, clean, late, stray, unsure>>
    BY DEF IndexDocument, IndexUnavailable, Moved, histories
  <1>3. /\ index \subseteq index' /\ index' \subseteq Contents
        /\ unindexed \subseteq unindexed' /\ unindexed' \subseteq Files
        /\ upload[f].content \in index' \/ f \in unindexed'
    BY <1>1 DEF IndexDocument, IndexUnavailable, Replaced, histories, TypeOK
  <1>4. TypeOK'
    BY <1>1, <1>2, <1>3 DEF TypeOK, Upload, Phases
  <1>5. \A g \in Files \ {f} : upload'[g] = upload[g]
    BY <1>1, <1>2 DEF TypeOK
  <1>6. /\ upload'[f].phase = "done"
        /\ upload'[f].owner = upload[f].owner
        /\ upload'[f].content = upload[f].content
    BY <1>1, <1>2 DEF TypeOK, Upload
  <1>7. ASSUME NEW g \in Files PROVE (FileInv(g) /\ LateInv(g) /\ CleanInv(g))'
    <2>1. CASE g = f
      BY <1>1, <1>2, <1>6, <2>1, DocumentsAssumption DEF FileInv, LateInv, CleanInv
    <2>2. CASE g # f
      BY <1>2, <1>5, <2>2 DEF DocumentsInv, FileInv, LateInv, CleanInv
    <2> QED BY <2>1, <2>2
  <1>8. DocumentInv' /\ CurrentDocumentIsFound'
    <2>1. CASE document = f
      BY <1>2, <1>3, <1>6, <2>1 DEF DocumentsInv, DocumentInv, CurrentDocumentIsFound
    <2>2. CASE document # f
      BY <1>1, <1>2, <1>3, <1>5, <2>2
         DEF DocumentsInv, DocumentInv, CurrentDocumentIsFound, Is, TypeOK
    <2> QED BY <2>1, <2>2
  <1>9. OneOriginal'
    BY <1>1, <1>2, <1>5, <1>6 DEF DocumentsInv, OneOriginal, TypeOK
  <1> QED BY <1>4, <1>7, <1>8, <1>9 DEF DocumentsInv

LEMMA UploadStep ==
    ASSUME DocumentsInv, NEW f \in Files, UploadNext(f)
    PROVE  DocumentsInv'
  BY StartStep, PutStep, CommitStep, IndexStep DEF UploadNext

-----------------------------------------------------------------------------
(***************************************************************************)
(* The rest of the system.                                                 *)
(***************************************************************************)

\* Text sent by an administrator, an item deleted, a report sent back.
LEMMA OtherStep ==
    ASSUME DocumentsInv,
           \/ \E c \in Contents : IndexText(c)
           \/ \E i \in Items : DeleteItem(i)
           \/ SendBack
    PROVE  DocumentsInv'
  <1>1. TypeOK
    BY DEF DocumentsInv
  <1>2. /\ UNCHANGED <<upload, row, stored, document, seen, clean, late, stray, unsure, unindexed>>
        /\ present' \subseteq Items
        /\ editable' \in BOOLEAN
        /\ ~ editable' => ~ editable
        /\ index \subseteq index' /\ index' \subseteq Contents
    BY <1>1 DEF IndexText, DeleteItem, SendBack, Replaced, ReceiptAllowed, histories, TypeOK
  <1>3. TypeOK'
    BY <1>1, <1>2 DEF TypeOK
  <1>4. ASSUME NEW g \in Files PROVE (FileInv(g) /\ LateInv(g) /\ CleanInv(g))'
    BY <1>2 DEF DocumentsInv, FileInv, LateInv, CleanInv
  <1>5. DocumentInv' /\ CurrentDocumentIsFound' /\ OneOriginal'
    BY <1>2 DEF DocumentsInv, DocumentInv, CurrentDocumentIsFound, Is, OneOriginal
  <1> QED BY <1>3, <1>4, <1>5 DEF DocumentsInv

LEMMA SubmitStep ==
    ASSUME DocumentsInv, Submit
    PROVE  DocumentsInv'
  <1>1. /\ TypeOK
        /\ UNCHANGED <<upload, row, stored, present, document, index, seen, clean, stray, unsure,
                       unindexed>>
        /\ editable' = FALSE
        /\ late' = late \cup UnderWay
    BY DEF DocumentsInv, Submit
  <1>2. TypeOK'
    BY <1>1 DEF TypeOK, UnderWay
  <1>3. ASSUME NEW g \in Files PROVE (FileInv(g) /\ LateInv(g) /\ CleanInv(g))'
    BY <1>1 DEF DocumentsInv, FileInv, LateInv, CleanInv, UnderWay
  <1>4. DocumentInv' /\ CurrentDocumentIsFound' /\ OneOriginal'
    BY <1>1 DEF DocumentsInv, DocumentInv, CurrentDocumentIsFound, Is, OneOriginal
  <1> QED BY <1>2, <1>3, <1>4 DEF DocumentsInv

\* The count of a content was 0 when a file with it is called original.
LEMMA AnalyzeStep ==
    ASSUME DocumentsInv, NEW f \in Files, NEW answered \in BOOLEAN, AnalyzeReceipt(f, answered)
    PROVE  DocumentsInv'
  <1> DEFINE c == upload[f].content
  <1>1. /\ TypeOK /\ FileInv(f)
        /\ row[f] \in Items
        /\ seen' = [seen EXCEPT ![c] = @ + 1]
        /\ UNCHANGED <<upload, row, stored, present, editable, document, index, late, stray,
                       unsure, unindexed>>
    BY DEF DocumentsInv, AnalyzeReceipt, Analyzable, Observed, TypeOK
  <1>2. upload[f].phase # "new" /\ c \in Contents
    BY <1>1, DocumentsAssumption DEF FileInv
  <1>3. /\ clean' = clean \/ clean' = clean \cup {f}
        /\ clean' # clean => seen[c] = 0
    <2>1. seen[c] \in Nat
      BY <1>1, <1>2 DEF TypeOK
    <2> QED BY <2>1 DEF AnalyzeReceipt, Duplicate
  <1>4. TypeOK'
    BY <1>1, <1>2, <1>3 DEF TypeOK
  <1>5. /\ seen'[c] > 0
        /\ \A d \in Contents : seen[d] > 0 => seen'[d] > 0
    BY <1>1, <1>2 DEF TypeOK
  <1>6. ASSUME NEW g \in Files PROVE (FileInv(g) /\ LateInv(g) /\ CleanInv(g))'
    <2>1. FileInv(g) /\ LateInv(g) /\ CleanInv(g)
      BY DEF DocumentsInv
    <2>2. CleanInv(g)'
      <3>1. CASE g \in clean
        <4>1. upload[g].phase # "new" /\ upload[g].content \in Contents /\ seen[upload[g].content] > 0
          BY <2>1, <3>1 DEF FileInv, CleanInv
        <4>2. seen'[upload[g].content] > 0
          BY <1>5, <4>1
        <4> QED BY <1>1, <4>1, <4>2 DEF CleanInv
      <3>2. CASE g \notin clean
        <4>1. g \in clean' => g = f
          BY <1>3, <3>2
        <4>2. seen'[c] > 0
          BY <1>2, <1>5
        <4> QED BY <1>1, <1>2, <4>1, <4>2 DEF CleanInv
      <3> QED BY <3>1, <3>2
    <2> QED BY <1>1, <2>1, <2>2 DEF FileInv, LateInv
  <1>7. DocumentInv' /\ CurrentDocumentIsFound'
    BY <1>1 DEF DocumentsInv, DocumentInv, CurrentDocumentIsFound, Is
  <1>8. OneOriginal'
    <2>1. CASE clean' = clean
      BY <1>1, <2>1 DEF DocumentsInv, OneOriginal
    <2>2. CASE clean' # clean
      <3>1. ASSUME NEW g \in clean PROVE upload[g].content # c
        <4>1. g \in Files /\ CleanInv(g)
          BY <1>1 DEF DocumentsInv, TypeOK
        <4> QED BY <1>3, <2>2, <4>1 DEF CleanInv
      <3>2. clean' = clean \cup {f}
        BY <1>3, <2>2
      <3> QED BY <1>1, <3>1, <3>2 DEF DocumentsInv, OneOriginal
    <2> QED BY <2>1, <2>2
  <1> QED BY <1>4, <1>6, <1>7, <1>8 DEF DocumentsInv

LEMMA CrashStep ==
    ASSUME DocumentsInv, Crash
    PROVE  DocumentsInv'
  <1>1. /\ TypeOK
        /\ upload' = [f \in Files |-> IF f \in UnderWay THEN [upload[f] EXCEPT !.phase = "done"]
                                      ELSE upload[f]]
        /\ stray' = stray \cup { f \in Files : Is(f, "stored") }
        /\ unindexed' = unindexed \cup { f \in Files : Is(f, "indexing") }
        /\ UNCHANGED <<row, stored, present, editable, document, index, seen, clean, late, unsure>>
    BY DEF DocumentsInv, Crash
  <1>2. TypeOK'
    <2>1. upload' \in [Files -> Upload]
      BY <1>1 DEF TypeOK, Upload, Phases
    <2> QED BY <1>1, <2>1 DEF TypeOK
  <1>3. ASSUME NEW g \in Files
        PROVE  /\ upload'[g].owner = upload[g].owner
               /\ upload'[g].content = upload[g].content
               /\ g \in UnderWay => upload'[g].phase = "done"
               /\ g \notin UnderWay => upload'[g] = upload[g]
    BY <1>1 DEF TypeOK, Upload
  <1>4. ASSUME NEW g \in Files PROVE (FileInv(g) /\ LateInv(g) /\ CleanInv(g))'
    <2>1. FileInv(g) /\ LateInv(g) /\ CleanInv(g)
      BY DEF DocumentsInv
    <2>2. CASE g \in UnderWay
      <3>1. upload[g].phase \in {"checked", "stored", "indexing"}
        BY <2>2 DEF UnderWay
      <3>2. upload[g].phase = "stored" => g \in stray'
        BY <1>1 DEF Is
      <3> QED BY <1>1, <1>3, <2>1, <2>2, <3>1, <3>2, DocumentsAssumption
              DEF FileInv, LateInv, CleanInv
    <2>3. CASE g \notin UnderWay
      <3>1. upload'[g] = upload[g] /\ upload[g].phase # "stored"
        BY <1>3, <2>3 DEF UnderWay
      <3> QED BY <1>1, <2>1, <3>1 DEF FileInv, LateInv, CleanInv
    <2> QED BY <2>2, <2>3
  <1>5. DocumentInv'
    <2>1. ASSUME document # None PROVE DocumentInv'
      <3>1. /\ document \in Files
            /\ row[document] = Policy
            /\ upload[document].phase \in {"indexing", "done"}
        BY <1>1, <2>1 DEF TypeOK, DocumentsInv, DocumentInv
      <3>2. upload'[document].phase = "done"
        BY <1>3, <3>1 DEF UnderWay
      <3> QED BY <1>1, <3>1, <3>2 DEF DocumentInv
    <2> QED BY <1>1, <2>1 DEF DocumentInv
  <1>6. CurrentDocumentIsFound'
    <2>1. ASSUME document # None PROVE CurrentDocumentIsFound'
      <3>1. document \in Files
        BY <1>1, <2>1 DEF TypeOK
      <3>2. upload'[document].content = upload[document].content
        BY <1>3, <3>1
      <3>3. Is(document, "indexing") => document \in unindexed'
        BY <1>1, <3>1
      <3>4. CurrentDocumentIsFound
        BY DEF DocumentsInv
      <3> QED BY <1>1, <2>1, <3>2, <3>3, <3>4 DEF CurrentDocumentIsFound
    <2> QED BY <1>1, <2>1 DEF CurrentDocumentIsFound
  <1>7. OneOriginal'
    BY <1>1, <1>3 DEF DocumentsInv, OneOriginal, TypeOK
  <1> QED BY <1>2, <1>4, <1>5, <1>6, <1>7 DEF DocumentsInv

-----------------------------------------------------------------------------
(***************************************************************************)
(* The invariant, and what it implies.                                     *)
(***************************************************************************)
LEMMA InitInv == Init => DocumentsInv
  <1> SUFFICES ASSUME Init PROVE DocumentsInv
    OBVIOUS
  <1>1. TypeOK
    BY DEF Init, TypeOK, Upload, NewUpload, Phases
  <1>2. ASSUME NEW f \in Files PROVE FileInv(f) /\ LateInv(f) /\ CleanInv(f)
    BY DEF Init, NewUpload, FileInv, LateInv, CleanInv
  <1>3. DocumentInv /\ CurrentDocumentIsFound /\ OneOriginal
    BY DEF Init, DocumentInv, CurrentDocumentIsFound, OneOriginal
  <1> QED BY <1>1, <1>2, <1>3 DEF DocumentsInv

LEMMA NextInv == DocumentsInv /\ [Next]_vars => DocumentsInv'
  <1> SUFFICES ASSUME DocumentsInv, [Next]_vars PROVE DocumentsInv'
    OBVIOUS
  <1>1. CASE Next
    BY <1>1, UploadStep, OtherStep, SubmitStep, AnalyzeStep, CrashStep DEF Next
  <1>2. CASE UNCHANGED vars
    <2>1. TypeOK' /\ DocumentInv' /\ CurrentDocumentIsFound' /\ OneOriginal'
      BY <1>2 DEF vars, DocumentsInv, TypeOK, DocumentInv, CurrentDocumentIsFound, Is, OneOriginal
    <2>2. ASSUME NEW f \in Files PROVE (FileInv(f) /\ LateInv(f) /\ CleanInv(f))'
      BY <1>2 DEF vars, DocumentsInv, FileInv, LateInv, CleanInv
    <2> QED BY <2>1, <2>2 DEF DocumentsInv
  <1> QED BY <1>1, <1>2

LEMMA DocumentsInvariant == Spec => []DocumentsInv
  BY InitInv, NextInv, PTL DEF Spec

\* Every row and every record of a request is of its type.
THEOREM TypeCorrect == Spec => []TypeOK
  <1>1. DocumentsInv => TypeOK
    BY DEF DocumentsInv
  <1> QED BY <1>1, DocumentsInvariant, PTL

\* However many uploads there are: no row names bytes that are gone but after
\* a commit with no answer, and no bytes stay without a row but when the
\* cleaning up did not happen (upload_receipt, upload_policy_document).
THEOREM StoreAgreesWithRows == Spec => []FilesMatchRows
  <1>1. DocumentsInv => FilesMatchRows
    <2> SUFFICES ASSUME DocumentsInv, NEW f \in Files
                 PROVE  /\ row[f] # None => f \in stored \cup unsure
                        /\ f \in stored => row[f] # None \/ Is(f, "stored") \/ f \in stray
      BY DEF FilesMatchRows
    <2>1. FileInv(f) /\ upload[f].phase \in Phases
      BY DEF DocumentsInv, TypeOK, Upload
    <2> QED BY <2>1, DocumentsAssumption DEF FileInv, Phases, Is
  <1> QED BY <1>1, DocumentsInvariant, PTL

\* The assistant knows the document a policy has (upload_policy_document).
THEOREM AssistantHasCurrentDocument == Spec => []CurrentDocumentIsFound
  <1>1. DocumentsInv => CurrentDocumentIsFound
    BY DEF DocumentsInv
  <1> QED BY <1>1, DocumentsInvariant, PTL

\* Of any number of receipts with the same content the service calls at most
\* one original (observe of the receipt store).
THEOREM AtMostOneOriginal == Spec => []OneOriginal
  <1>1. DocumentsInv => OneOriginal
    BY DEF DocumentsInv
  <1> QED BY <1>1, DocumentsInvariant, PTL

\* Under review a report gets only the receipts whose upload a submission
\* overtook (_ensure_item_owner of the attachment routes).
THEOREM ReceiptsAreFrozen == Spec => ReceiptsFrozenUnderReview
  <1> DEFINE Kept == \A f \in Files :
                        row'[f] # row[f] /\ row'[f] \in Items => editable \/ f \in late
  <1>1. DocumentsInv /\ [Next]_vars => [Kept]_vars
    <2> SUFFICES ASSUME DocumentsInv, [Next]_vars,
                        NEW f \in Files, row'[f] # row[f], row'[f] \in Items
                 PROVE  editable \/ f \in late
      OBVIOUS
    <2>1. PICK g \in Files : CommitUpload(g) \/ LoseCommitAnswer(g)
      BY DEF Next, UploadNext, StartUpload, PutBytes, PutFails, RollBackUpload, IndexDocument,
             IndexUnavailable, AnalyzeReceipt, IndexText, DeleteItem, Submit, SendBack, Crash, vars
    <2>2. row' = [row EXCEPT ![g] = upload[g].owner] /\ upload[g].phase = "stored"
      BY <2>1 DEF CommitUpload, LoseCommitAnswer, Committed, Committable, Is
    <2>3. f = g /\ row'[f] = upload[f].owner
      BY <2>2 DEF DocumentsInv, TypeOK
    <2>4. LateInv(f)
      BY DEF DocumentsInv
    <2> QED BY <2>2, <2>3, <2>4 DEF LateInv
  <1> QED BY <1>1, DocumentsInvariant, PTL DEF Spec, ReceiptsFrozenUnderReview

-----------------------------------------------------------------------------
(***************************************************************************)
(* Accounts. What a slow request has read and goes on to rely on is true,  *)
(* or the request is on record as overlapped.                              *)
(***************************************************************************)

\* Of every account: the one subject that has used it, while no two first
\* sign-ins overlap.
SubjectInv ==
    \A a \in Accounts : <<"subject", a>> \notin overlaps =>
        /\ signedIn[a] \subseteq {account[a].subject}
        /\ slow.kind = "link" /\ slow.account = a => account[a].subject = Null

\* The account a slow sign-in has found.
FoundInv ==
    /\ slow.kind \in {"link", "rename"} => account[slow.account].status # "absent"
    /\ slow.kind = "rename" => account[slow.account].subject = slow.subject

\* Until it is decided a request is pending, and only an approval has an
\* account.
DecisionInv ==
    \A e \in Emails : <<"decision", e>> \notin overlaps =>
        /\ request[e].status # "approved" => request[e].account = Null
        /\ slow.kind \in {"approve", "reject"} /\ slow.email = e => request[e].status = "pending"

\* Who has not accepted his invitation has no token and no account.
FreshInv ==
    \A s \in Subjects :
        /\ Known(s) => identity[s].email \in Emails
        /\ identity[s].status \in {"unknown", "invited"} =>
              /\ WithSubject(s) = {}
              /\ \A e \in Emails : <<s, e>> \notin tokens
              /\ slow.kind \in {"link", "rename", "bootstrap"} => slow.subject # s

\* What the creation of an account may rely on while nothing overlaps.
CreationInv ==
    /\ slow.kind \in {"create", "invited"} /\ <<"account", slow.email>> \notin overlaps =>
          WithEmail(slow.email) = {}
    /\ slow.kind = "invited" /\ <<"address", slow.subject>> \notin overlaps =>
          /\ Known(slow.subject)
          /\ identity[slow.subject].email = slow.email
          /\ \A e \in Emails : <<slow.subject, e>> \in tokens => e = slow.email
          /\ WithSubject(slow.subject) # {} => <<"account", slow.email>> \in overlaps

\* InvitationsMatchAccounts, of states.
AnsweredInv == \A s \in Subjects : Answered(s)

AccountsInv ==
    /\ AccountTypeOK
    /\ SubjectInv
    /\ FoundInv
    /\ DecisionInv
    /\ FreshInv
    /\ CreationInv
    /\ AnsweredInv

\* What a commit overlaps with is a fact.
LEMMA MeetTypes ==
    ASSUME AccountTypeOK, NEW facts \in SUBSET Facts, Meet(facts)
    PROVE  overlaps' \subseteq Facts
  BY DEF AccountTypeOK, Meet

\* A new row is an account.
LEMMA InsertTypes ==
    ASSUME AccountTypeOK, NEW a \in Accounts, NEW e \in Emails, NEW s \in Subjects \cup {Null},
           Insert(a, e, s)
    PROVE  account' \in [Accounts -> Account]
  BY DEF AccountTypeOK, Insert, Account

\* Every step keeps the types.
LEMMA TypesStep ==
    ASSUME AccountTypeOK, AccountNext
    PROVE  AccountTypeOK'
  <1> USE DEF AccountTypeOK
  <1>1. ASSUME NEW s \in Subjects, NEW e \in Emails, ProviderNext(s, e)
        PROVE  AccountTypeOK'
    BY <1>1 DEF ProviderNext, Verify, ChangeEmail, Expire, Identity, Meet, Facts
  <1>2. ASSUME NEW s \in Subjects, NEW e \in Emails, NEW a \in Accounts,
               SignIn(a, s, e) \/ SignInRenamed(a, s, e)
        PROVE  AccountTypeOK'
    BY <1>2 DEF SignIn, SignInRenamed, Link, Rename, Awaiting, Held, Account, Meet, Facts
  <1>3. ASSUME NEW s \in Subjects, NEW e \in Emails, NEW a \in Accounts, SignInFirst(a, s, e)
        PROVE  AccountTypeOK'
    BY <1>3, InsertTypes DEF SignInFirst, Meet, Facts
  <1>4. ASSUME NEW s \in Subjects, NEW e \in Emails, ReadSignIn(s, e)
        PROVE  AccountTypeOK'
    BY <1>4 DEF ReadSignIn, Slow
  <1>5. ASSUME NEW e \in Emails,
               CreateAccessRequest(e) \/ RejectRequest(e) \/ ReadRequest(e) \/ ValidateUser(e)
        PROVE  AccountTypeOK'
    BY <1>5 DEF CreateAccessRequest, RejectRequest, ReadRequest, ValidateUser, Request, Slow,
                Meet, Facts
  <1>6. ASSUME NEW e \in Emails, NEW a \in Accounts, ApproveRequest(e, a)
        PROVE  AccountTypeOK'
    BY <1>6, InsertTypes DEF ApproveRequest, Approved, Request, Meet, Facts
  <1>7. ASSUME NEW e \in Emails, NEW s \in Subjects, NEW a \in Accounts, CreateUser(e, s, a)
        PROVE  AccountTypeOK'
    BY <1>7, InsertTypes DEF CreateUser, Invited, Identity, Meet, Facts
  <1>8. ASSUME CommitLink \/ CommitRename
        PROVE  AccountTypeOK'
    <2>1. /\ slow.account \in Accounts /\ slow.subject \in Subjects /\ slow.email \in Emails
          /\ slow' \in Slow
      BY <1>8 DEF CommitLink, CommitRename, Slow, Idle
    <2>2. CASE CommitLink
      BY <2>1, <2>2 DEF CommitLink, Link, Account
    <2>3. CASE CommitRename
      BY <2>1, <2>3 DEF CommitRename, Rename, Awaiting, Held, Account
    <2> QED BY <1>8, <2>2, <2>3
  <1>9. ASSUME CommitBootstrap
        PROVE  AccountTypeOK'
    <2>1. slow.subject \in Subjects /\ slow.email \in Emails /\ slow' = Idle
      BY <1>9 DEF CommitBootstrap, Slow, Idle
    <2>2. account' \in [Accounts -> Account]
      <3>1. PICK a \in Accounts :
              Insert(a, slow.email, slow.subject) \/ Link(a, slow.subject)
        BY <1>9 DEF CommitBootstrap
      <3>2. CASE Insert(a, slow.email, slow.subject)
        BY <2>1, <3>2, InsertTypes
      <3>3. CASE Link(a, slow.subject)
        BY <2>1, <3>3 DEF Link, Account
      <3> QED BY <3>1, <3>2, <3>3
    <2>3. signedIn' \in [Accounts -> SUBSET Subjects]
      BY <1>9, <2>1 DEF CommitBootstrap, Link
    <2> QED BY <1>9, <2>1, <2>2, <2>3 DEF CommitBootstrap, Slow
  <1>10. CASE CommitRejection
    <2>1. slow.email \in Emails /\ slow' \in Slow
      BY <1>10 DEF CommitRejection, Slow, Idle
    <2> QED BY <1>10, <2>1 DEF CommitRejection, Request
  <1>14. CASE RefuseUser \/ Abandon
    <2>1. slow' \in Slow /\ (slow.kind = "invited" => slow.subject \in Subjects)
      BY <1>14 DEF RefuseUser, Abandon, Slow, Idle
    <2> QED BY <1>14, <2>1 DEF RefuseUser, Abandon, InvitationRevoked, Deleted, Identity
  <1>11. ASSUME NEW s \in Subjects, InviteUser(s)
        PROVE  AccountTypeOK'
    BY <1>11 DEF InviteUser, Invited, Identity, Slow, Idle
  <1>12. ASSUME NEW a \in Accounts, CommitApproval(a) \/ FinishUser(a)
        PROVE  AccountTypeOK'
    <2>1. slow.email \in Emails /\ slow' = Idle
      BY <1>12 DEF CommitApproval, FinishUser, Slow, Idle
    <2> QED BY <1>12, <2>1, InsertTypes DEF CommitApproval, FinishUser, Approved, Request, Slow
  <1>13. ASSUME NEW a \in Accounts, DeactivateUser(a)
        PROVE  AccountTypeOK'
    BY <1>13 DEF DeactivateUser, Account
  <1> QED BY <1>1, <1>2, <1>3, <1>4, <1>5, <1>6, <1>7, <1>8, <1>9, <1>10, <1>11, <1>12, <1>13, <1>14
          DEF AccountNext, SignInNext, RequestNext, SlowNext

-----------------------------------------------------------------------------
\* A bound account is not bound again: only the two slow steps of a first
\* sign-in can overlap.
LEMMA SubjectStep ==
    ASSUME AccountsInv, AccountNext
    PROVE  SubjectInv'
  <1> USE DEF AccountsInv, AccountTypeOK, SubjectInv
  <1>1. ASSUME NEW s \in Subjects, NEW e \in Emails, ProviderNext(s, e)
        PROVE  SubjectInv'
    BY <1>1 DEF ProviderNext, Verify, ChangeEmail, Expire, Meet
  <1>2. ASSUME NEW s \in Subjects, NEW e \in Emails, NEW a \in Accounts, SignIn(a, s, e)
        PROVE  SubjectInv'
    BY <1>2, AccountsAssumption DEF SignIn, Linkable, LinkAllowed, Link, Meet, Relied, Account
  <1>3. ASSUME NEW s \in Subjects, NEW e \in Emails, NEW a \in Accounts, SignInRenamed(a, s, e)
        PROVE  SubjectInv'
    BY <1>3 DEF SignInRenamed, Rename, Renamable, WithSubject, Meet, Account
  <1>4. ASSUME NEW s \in Subjects, NEW e \in Emails, NEW a \in Accounts, SignInFirst(a, s, e)
        PROVE  SubjectInv'
    BY <1>4, AccountsAssumption DEF SignInFirst, Insert, NoAccount, FoundInv, Meet
  <1>5. ASSUME NEW s \in Subjects, NEW e \in Emails, ReadSignIn(s, e)
        PROVE  SubjectInv'
    BY <1>5 DEF ReadSignIn
  <1>6. ASSUME NEW e \in Emails, RequestNext(e)
        PROVE  SubjectInv'
    BY <1>6, AccountsAssumption DEF RequestNext, CreateAccessRequest, RejectRequest, ReadRequest, ValidateUser,
            ApproveRequest, CreateUser, Insert, NoAccount, Meet
  <1>7. CASE CommitLink
    BY <1>7, AccountsAssumption DEF CommitLink, Link, Idle, Account
  <1>8. CASE CommitRename
    BY <1>8 DEF CommitRename, Rename, FoundInv, Idle, Account
  <1>9. CASE CommitBootstrap
    BY <1>9, AccountsAssumption DEF CommitBootstrap, Insert, NoAccount, Linkable, LinkAllowed, Link, Idle, Account
  <1>10. CASE CommitRejection \/ RefuseUser \/ Abandon
    BY <1>10 DEF CommitRejection, RefuseUser, Abandon, Idle
  <1>11. ASSUME NEW s \in Subjects, InviteUser(s)
        PROVE  SubjectInv'
    BY <1>11 DEF InviteUser
  <1>12. ASSUME NEW a \in Accounts, CommitApproval(a) \/ FinishUser(a)
        PROVE  SubjectInv'
    BY <1>12, AccountsAssumption DEF CommitApproval, FinishUser, Insert, NoAccount, Idle
  <1>13. ASSUME NEW a \in Accounts, DeactivateUser(a)
        PROVE  SubjectInv'
    BY <1>13 DEF DeactivateUser, Account
  <1> QED BY <1>1, <1>2, <1>3, <1>4, <1>5, <1>6, <1>7, <1>8, <1>9, <1>10, <1>11, <1>12, <1>13
          DEF AccountNext, SignInNext, SlowNext

\* No account is deleted, and a bound one keeps its subject.
LEMMA FoundStep ==
    ASSUME AccountsInv, AccountNext
    PROVE  FoundInv'
  <1> USE DEF AccountsInv, AccountTypeOK, FoundInv
  <1>1. ASSUME NEW s \in Subjects, NEW e \in Emails, ProviderNext(s, e)
        PROVE  FoundInv'
    BY <1>1 DEF ProviderNext, Verify, ChangeEmail, Expire
  <1>2. ASSUME NEW s \in Subjects, NEW e \in Emails, NEW a \in Accounts, SignIn(a, s, e)
        PROVE  FoundInv'
    BY <1>2, AccountsAssumption DEF SignIn, Linkable, LinkAllowed, Link, Account, Slow, Idle
  <1>3. ASSUME NEW s \in Subjects, NEW e \in Emails, NEW a \in Accounts, SignInRenamed(a, s, e)
        PROVE  FoundInv'
    BY <1>3 DEF SignInRenamed, Rename, Account, Slow, Idle
  <1>4. ASSUME NEW s \in Subjects, NEW e \in Emails, NEW a \in Accounts, SignInFirst(a, s, e)
        PROVE  FoundInv'
    BY <1>4 DEF SignInFirst, Insert, NoAccount, Slow, Idle
  <1>5. ASSUME NEW s \in Subjects, NEW e \in Emails, ReadSignIn(s, e)
        PROVE  FoundInv'
    BY <1>5 DEF ReadSignIn, Linkable, Renamable, Active, WithSubject
  <1>6. ASSUME NEW e \in Emails, RequestNext(e)
        PROVE  FoundInv'
    BY <1>6 DEF RequestNext, CreateAccessRequest, RejectRequest, ReadRequest, ValidateUser,
            ApproveRequest, CreateUser, Insert, NoAccount, Slow, Idle
  <1>7. CASE CommitLink \/ CommitRename \/ CommitBootstrap \/ CommitRejection \/ RefuseUser \/ Abandon
    BY <1>7 DEF CommitLink, CommitRename, CommitBootstrap, CommitRejection, RefuseUser, Abandon, Idle
  <1>8. ASSUME NEW s \in Subjects, InviteUser(s)
        PROVE  FoundInv'
    BY <1>8 DEF InviteUser
  <1>9. ASSUME NEW a \in Accounts, CommitApproval(a) \/ FinishUser(a)
        PROVE  FoundInv'
    BY <1>9 DEF CommitApproval, FinishUser, Idle
  <1>10. ASSUME NEW a \in Accounts, DeactivateUser(a)
        PROVE  FoundInv'
    BY <1>10 DEF DeactivateUser, Account, Slow, Idle
  <1> QED BY <1>1, <1>2, <1>3, <1>4, <1>5, <1>6, <1>7, <1>8, <1>9, <1>10
          DEF AccountNext, SignInNext, SlowNext

\* A decision is taken of a pending request, or overlaps with another.
LEMMA DecisionStep ==
    ASSUME AccountsInv, AccountNext
    PROVE  DecisionInv'
  <1> USE DEF AccountsInv, AccountTypeOK, DecisionInv
  <1>1. ASSUME NEW s \in Subjects, NEW e \in Emails, ProviderNext(s, e)
        PROVE  DecisionInv'
    BY <1>1 DEF ProviderNext, Verify, ChangeEmail, Expire, Meet
  <1>2. ASSUME NEW s \in Subjects, NEW e \in Emails, SignInNext(s, e)
        PROVE  DecisionInv'
    BY <1>2 DEF SignInNext, SignIn, SignInRenamed, SignInFirst, ReadSignIn, Meet
  <1>3. ASSUME NEW e \in Emails, CreateAccessRequest(e)
        PROVE  DecisionInv'
    BY <1>3 DEF CreateAccessRequest, Request
  <1>4. ASSUME NEW e \in Emails, NEW a \in Accounts, ApproveRequest(e, a)
        PROVE  DecisionInv'
    BY <1>4 DEF ApproveRequest, Approved, Decidable, Request, Meet, Relied
  <1>5. ASSUME NEW e \in Emails, RejectRequest(e)
        PROVE  DecisionInv'
    BY <1>5 DEF RejectRequest, Decidable, Request, Meet, Relied
  <1>6. ASSUME NEW e \in Emails, ReadRequest(e) \/ ValidateUser(e)
        PROVE  DecisionInv'
    BY <1>6 DEF ReadRequest, ValidateUser, Decidable
  <1>7. ASSUME NEW e \in Emails, NEW s \in Subjects, NEW a \in Accounts, CreateUser(e, s, a)
        PROVE  DecisionInv'
    BY <1>7 DEF CreateUser, Meet
  <1>8. CASE CommitLink \/ CommitRename \/ CommitBootstrap \/ RefuseUser \/ Abandon
    BY <1>8 DEF CommitLink, CommitRename, CommitBootstrap, RefuseUser, Abandon, Idle
  <1>9. CASE CommitRejection
    BY <1>9 DEF CommitRejection, Request, Idle
  <1>10. ASSUME NEW s \in Subjects, InviteUser(s)
        PROVE  DecisionInv'
    BY <1>10 DEF InviteUser
  <1>11. ASSUME NEW a \in Accounts, CommitApproval(a) \/ FinishUser(a)
        PROVE  DecisionInv'
    BY <1>11 DEF CommitApproval, FinishUser, Approved, Request, Idle
  <1>12. ASSUME NEW a \in Accounts, DeactivateUser(a)
        PROVE  DecisionInv'
    BY <1>12 DEF DeactivateUser
  <1> QED BY <1>1, <1>2, <1>3, <1>4, <1>5, <1>6, <1>7, <1>8, <1>9, <1>10, <1>11, <1>12
          DEF AccountNext, RequestNext, SlowNext

-----------------------------------------------------------------------------
\* Who has no token cannot sign in.
LEMMA FreshStep ==
    ASSUME AccountsInv, AccountNext
    PROVE  FreshInv'
  <1> USE DEF AccountsInv, AccountTypeOK, FreshInv, WithSubject
  <1>1. ASSUME NEW s \in Subjects, NEW e \in Emails, Verify(s, e)
        PROVE  FreshInv'
    BY <1>1 DEF Verify, Identity, Known
  <1>2. ASSUME NEW s \in Subjects, NEW e \in Emails, ChangeEmail(s, e) \/ Expire(s, e)
        PROVE  FreshInv'
    BY <1>2 DEF ChangeEmail, Expire, Identity, Known
  <1>3. ASSUME NEW s \in Subjects, NEW e \in Emails, <<s, e>> \in tokens,
               NEW a \in Accounts, SignIn(a, s, e) \/ SignInRenamed(a, s, e)
        PROVE  FreshInv'
    BY <1>3 DEF SignIn, SignInRenamed, Link, Rename, Account, Known
  <1>4. ASSUME NEW s \in Subjects, NEW e \in Emails, <<s, e>> \in tokens,
               NEW a \in Accounts, SignInFirst(a, s, e)
        PROVE  FreshInv'
    BY <1>4 DEF SignInFirst, Insert, Account, Known
  <1>5. ASSUME NEW s \in Subjects, NEW e \in Emails, <<s, e>> \in tokens, ReadSignIn(s, e)
        PROVE  FreshInv'
    BY <1>5 DEF ReadSignIn, Known
  <1>6. ASSUME NEW e \in Emails,
               CreateAccessRequest(e) \/ RejectRequest(e) \/ ReadRequest(e) \/ ValidateUser(e)
        PROVE  FreshInv'
    BY <1>6 DEF CreateAccessRequest, RejectRequest, ReadRequest, ValidateUser, Known
  <1>7. ASSUME NEW e \in Emails, NEW a \in Accounts, ApproveRequest(e, a)
        PROVE  FreshInv'
    BY <1>7, AccountsAssumption DEF ApproveRequest, Insert, Account, Known
  <1>8. ASSUME NEW e \in Emails, NEW s \in Subjects, NEW a \in Accounts, CreateUser(e, s, a)
        PROVE  FreshInv'
    BY <1>8, AccountsAssumption DEF CreateUser, Invitable, Invited, Insert, Account, Identity, Known
  <1>9. CASE CommitLink \/ CommitRename
    BY <1>9 DEF CommitLink, CommitRename, Link, Rename, Account, Known, Idle
  <1>10. CASE CommitBootstrap
    BY <1>10 DEF CommitBootstrap, Insert, Link, Account, Known, Idle
  <1>11. CASE CommitRejection \/ Abandon
    BY <1>11 DEF CommitRejection, Abandon, Known, Idle
  <1>12. CASE RefuseUser
    BY <1>12 DEF RefuseUser, InvitationRevoked, Deleted, Known, Idle
  <1>13. ASSUME NEW s \in Subjects, InviteUser(s)
        PROVE  FreshInv'
    <2>1. slow.email \in Emails
      BY <1>13 DEF InviteUser, Slow, Idle
    <2> QED BY <1>13, <2>1 DEF InviteUser, Invitable, Invited, Identity, Known
  <1>14. ASSUME NEW a \in Accounts, CommitApproval(a) \/ FinishUser(a)
        PROVE  FreshInv'
    BY <1>14, AccountsAssumption DEF CommitApproval, FinishUser, Insert, Account, Known, Idle
  <1>15. ASSUME NEW a \in Accounts, DeactivateUser(a)
        PROVE  FreshInv'
    BY <1>15 DEF DeactivateUser, Account, Known
  <1> QED BY <1>1, <1>2, <1>3, <1>4, <1>5, <1>6, <1>7, <1>8, <1>9, <1>10, <1>11, <1>12, <1>13,
             <1>14, <1>15
          DEF AccountNext, ProviderNext, SignInNext, RequestNext, SlowNext

\* The address that a creation has found free stays free, or the creation is
\* told.
LEMMA CreationStep ==
    ASSUME AccountsInv, AccountNext
    PROVE  CreationInv'
  <1> USE DEF AccountsInv, AccountTypeOK, CreationInv, WithSubject, WithEmail
  <1>1. ASSUME NEW s \in Subjects, NEW e \in Emails, Verify(s, e)
        PROVE  CreationInv'
    BY <1>1 DEF Verify, Held, Identity, Known
  <1>2. ASSUME NEW s \in Subjects, NEW e \in Emails, ChangeEmail(s, e)
        PROVE  CreationInv'
    BY <1>2 DEF ChangeEmail, Identity, Known, Meet, Relied
  <1>3. ASSUME NEW s \in Subjects, NEW e \in Emails, Expire(s, e)
        PROVE  CreationInv'
    BY <1>3 DEF Expire, Known
  <1>4. ASSUME NEW s \in Subjects, NEW e \in Emails, <<s, e>> \in tokens,
               NEW a \in Accounts, SignIn(a, s, e)
        PROVE  CreationInv'
    BY <1>4 DEF SignIn, Linkable, Link, Account, Known, Meet
  <1>5. ASSUME NEW s \in Subjects, NEW e \in Emails, <<s, e>> \in tokens,
               NEW a \in Accounts, SignInRenamed(a, s, e)
        PROVE  CreationInv'
    BY <1>5 DEF SignInRenamed, Rename, Renamable, Account, Known, Meet, Relied
  <1>6. ASSUME NEW s \in Subjects, NEW e \in Emails, <<s, e>> \in tokens,
               NEW a \in Accounts, SignInFirst(a, s, e)
        PROVE  CreationInv'
    BY <1>6 DEF SignInFirst, Insert, Account, Known, Meet, Relied
  <1>7. ASSUME NEW s \in Subjects, NEW e \in Emails, ReadSignIn(s, e)
        PROVE  CreationInv'
    BY <1>7 DEF ReadSignIn
  <1>8. ASSUME NEW e \in Emails,
               CreateAccessRequest(e) \/ RejectRequest(e) \/ ReadRequest(e)
        PROVE  CreationInv'
    BY <1>8 DEF CreateAccessRequest, RejectRequest, ReadRequest, Known, Meet
  <1>9. ASSUME NEW e \in Emails, ValidateUser(e)
        PROVE  CreationInv'
    BY <1>9 DEF ValidateUser, Creatable
  <1>10. ASSUME NEW e \in Emails, NEW a \in Accounts, ApproveRequest(e, a)
        PROVE  CreationInv'
    BY <1>10, AccountsAssumption DEF ApproveRequest, Insert, Account, Known, Meet, Relied, Slow, Idle
  <1>11. ASSUME NEW e \in Emails, NEW s \in Subjects, NEW a \in Accounts, CreateUser(e, s, a)
        PROVE  CreationInv'
    BY <1>11, AccountsAssumption
       DEF CreateUser, Invitable, Invited, Held, Insert, Account, Identity, Known, Meet, Relied, Slow, Idle
  <1>12. CASE CommitLink \/ CommitRename \/ CommitBootstrap \/ CommitRejection \/ RefuseUser \/ Abandon
    BY <1>12 DEF CommitLink, CommitRename, CommitBootstrap, CommitRejection, RefuseUser, Abandon, Idle
  <1>13. ASSUME NEW s \in Subjects, InviteUser(s)
        PROVE  CreationInv'
    BY <1>13 DEF InviteUser, Invitable, Invited, Identity, Known, FreshInv
  <1>14. ASSUME NEW a \in Accounts, CommitApproval(a) \/ FinishUser(a)
        PROVE  CreationInv'
    BY <1>14 DEF CommitApproval, FinishUser, Idle
  <1>15. ASSUME NEW a \in Accounts, DeactivateUser(a)
        PROVE  CreationInv'
    BY <1>15 DEF DeactivateUser, Account, Known
  <1> QED BY <1>1, <1>2, <1>3, <1>4, <1>5, <1>6, <1>7, <1>8, <1>9, <1>10, <1>11, <1>12, <1>13,
             <1>14, <1>15
          DEF AccountNext, ProviderNext, SignInNext, RequestNext, SlowNext

\* An invitation is answered by its account, or is on record.
LEMMA AnsweredStep ==
    ASSUME AccountsInv, AccountNext
    PROVE  AnsweredInv'
  <1> USE DEF AccountsInv, AccountTypeOK, AnsweredInv, Answered, WithEmail
  <1>1. ASSUME NEW s \in Subjects, NEW e \in Emails, ProviderNext(s, e)
        PROVE  AnsweredInv'
    BY <1>1 DEF ProviderNext, Verify, ChangeEmail, Expire, Identity
  <1>2. ASSUME NEW s \in Subjects, NEW e \in Emails, NEW a \in Accounts, SignIn(a, s, e)
        PROVE  AnsweredInv'
    BY <1>2 DEF SignIn, Link, Account
  <1>3. ASSUME NEW s \in Subjects, NEW e \in Emails, NEW a \in Accounts, SignInRenamed(a, s, e)
        PROVE  AnsweredInv'
    BY <1>3 DEF SignInRenamed, Rename, Awaiting, Held, Known, Account
  <1>4. ASSUME NEW s \in Subjects, NEW e \in Emails, NEW a \in Accounts, SignInFirst(a, s, e)
        PROVE  AnsweredInv'
    BY <1>4, AccountsAssumption DEF SignInFirst, Insert, NoAccount, FreshInv, Known
  <1>5. ASSUME NEW s \in Subjects, NEW e \in Emails, ReadSignIn(s, e)
        PROVE  AnsweredInv'
    BY <1>5 DEF ReadSignIn, Idle
  <1>6. ASSUME NEW e \in Emails,
               CreateAccessRequest(e) \/ RejectRequest(e) \/ ReadRequest(e) \/ ValidateUser(e)
        PROVE  AnsweredInv'
    BY <1>6 DEF CreateAccessRequest, RejectRequest, ReadRequest, ValidateUser, Idle
  <1>7. ASSUME NEW e \in Emails, NEW a \in Accounts, ApproveRequest(e, a)
        PROVE  AnsweredInv'
    BY <1>7, AccountsAssumption DEF ApproveRequest, Insert, NoAccount, FreshInv, Known
  <1>8. ASSUME NEW e \in Emails, NEW s \in Subjects, NEW a \in Accounts, CreateUser(e, s, a)
        PROVE  AnsweredInv'
    BY <1>8, AccountsAssumption DEF CreateUser, Invited, Insert, NoAccount, FreshInv, Known
  <1>9. CASE CommitLink \/ CommitRejection \/ Abandon
    BY <1>9 DEF CommitLink, Link, CommitRejection, Abandon, Account, Idle
  <1>10. CASE CommitRename
    BY <1>10 DEF CommitRename, Rename, Awaiting, Held, Known, Account, Idle
  <1>11. CASE CommitBootstrap
    <2>1. slow.kind = "bootstrap" /\ UNCHANGED <<identity, unmatched>>
      BY <1>11 DEF CommitBootstrap
    <2>2. ASSUME NEW a \in Accounts, Insert(a, slow.email, slow.subject)
          PROVE  AnsweredInv'
      BY <2>1, <2>2, AccountsAssumption DEF Insert, NoAccount, FreshInv, Known
    <2>3. ASSUME NEW a \in Accounts, Link(a, slow.subject)
          PROVE  AnsweredInv'
      BY <2>1, <2>3 DEF Link, Account
    <2> QED BY <1>11, <2>2, <2>3 DEF CommitBootstrap
  <1>12. CASE RefuseUser
    BY <1>12 DEF RefuseUser, InvitationRevoked, Deleted, Idle
  <1>13. ASSUME NEW s \in Subjects, InviteUser(s)
        PROVE  AnsweredInv'
    BY <1>13 DEF InviteUser, Invited
  <1>14. ASSUME NEW a \in Accounts, CommitApproval(a) \/ FinishUser(a)
        PROVE  AnsweredInv'
    BY <1>14, AccountsAssumption DEF CommitApproval, FinishUser, Insert, NoAccount, FreshInv, Known, Idle
  <1>15. ASSUME NEW a \in Accounts, DeactivateUser(a)
        PROVE  AnsweredInv'
    BY <1>15 DEF DeactivateUser, Account
  <1> QED BY <1>1, <1>2, <1>3, <1>4, <1>5, <1>6, <1>7, <1>8, <1>9, <1>10, <1>11, <1>12, <1>13,
             <1>14, <1>15
          DEF AccountNext, SignInNext, RequestNext, SlowNext

-----------------------------------------------------------------------------
\* What the theorems below rest on, in every state.
LEMMA AccountsInvariant == AccountSpec => []AccountsInv
  <1>1. AccountInit => AccountsInv
    <2> SUFFICES ASSUME AccountInit PROVE AccountsInv
      OBVIOUS
    <2>1. AccountTypeOK
      BY DEF AccountInit, AccountTypeOK, Account, NoAccount, Request, Identity, Slow
    <2>2. SubjectInv /\ FoundInv /\ DecisionInv /\ CreationInv /\ AnsweredInv
      BY DEF AccountInit, SubjectInv, FoundInv, DecisionInv, CreationInv, AnsweredInv, Answered, Idle
    <2>3. FreshInv
      BY AccountsAssumption DEF AccountInit, FreshInv, NoAccount, Known, WithSubject, Idle
    <2> QED BY <2>1, <2>2, <2>3 DEF AccountsInv
  <1>2. AccountsInv /\ [AccountNext]_accountVars => AccountsInv'
    <2> SUFFICES ASSUME AccountsInv, [AccountNext]_accountVars PROVE AccountsInv'
      OBVIOUS
    <2>1. CASE AccountNext
      BY <2>1, TypesStep, SubjectStep, FoundStep, DecisionStep, FreshStep, CreationStep, AnsweredStep
         DEF AccountsInv
    <2>2. CASE UNCHANGED accountVars
      BY <2>2 DEF accountVars, AccountsInv, AccountTypeOK, SubjectInv, FoundInv, DecisionInv, FreshInv,
                  CreationInv, AnsweredInv, Answered, Known, WithSubject, WithEmail
    <2> QED BY <2>1, <2>2
  <1> QED BY <1>1, <1>2, PTL DEF AccountSpec

\* Every row, request, identity and record of a slow request is of its type.
THEOREM AccountTypes == AccountSpec => []AccountTypeOK
  <1>1. AccountsInv => AccountTypeOK
    BY DEF AccountsInv
  <1> QED BY <1>1, AccountsInvariant, PTL

\* Of any number of subjects and addresses, reused or not, one subject uses an
\* account, unless two first sign-ins to it overlap (link_external_identity).
THEOREM AccountsAreBoundOnce == AccountSpec => []OneSubjectPerAccount
  <1>1. AccountsInv => OneSubjectPerAccount
    <2> SUFFICES ASSUME AccountsInv, NEW a \in Accounts, <<"subject", a>> \notin overlaps
                 PROVE  Cardinality(signedIn[a]) <= 1
      BY DEF OneSubjectPerAccount
    <2> DEFINE only == {account[a].subject}
    <2>1. signedIn[a] \subseteq only
      BY DEF AccountsInv, SubjectInv
    <2>2. IsFiniteSet(only) /\ Cardinality(only) = 1
      BY FS_Singleton
    <2> HIDE DEF only
    <2>3. IsFiniteSet(signedIn[a]) /\ Cardinality(signedIn[a]) <= Cardinality(only)
      BY <2>1, <2>2, FS_Subset
    <2>4. Cardinality(signedIn[a]) \in Nat
      BY <2>3, FS_CardinalityType
    <2> QED BY <2>2, <2>3, <2>4
  <1> QED BY <1>1, AccountsInvariant, PTL

\* What has overlapped is not forgotten.
LEMMA OverlapsGrow ==
    ASSUME AccountNext
    PROVE  overlaps \subseteq overlaps'
  <1>1. ASSUME NEW s \in Subjects, NEW e \in Emails, ProviderNext(s, e) \/ SignInNext(s, e)
        PROVE  overlaps \subseteq overlaps'
    BY <1>1 DEF ProviderNext, Verify, ChangeEmail, Expire, SignInNext, SignIn, SignInRenamed,
                SignInFirst, ReadSignIn, Meet
  <1>2. ASSUME NEW e \in Emails, RequestNext(e)
        PROVE  overlaps \subseteq overlaps'
    BY <1>2 DEF RequestNext, CreateAccessRequest, RejectRequest, ReadRequest, ValidateUser,
                ApproveRequest, CreateUser, Meet
  <1>3. ASSUME SlowNext \/ \E a \in Accounts : DeactivateUser(a)
        PROVE  overlaps \subseteq overlaps'
    BY <1>3 DEF SlowNext, CommitLink, CommitRename, CommitBootstrap, CommitRejection, RefuseUser,
                Abandon, InviteUser, CommitApproval, FinishUser, DeactivateUser
  <1> QED BY <1>1, <1>2, <1>3 DEF AccountNext

\* Whatever is decided at the same time, a decision stands, unless two
\* decisions of one request overlap (approve_request, reject_request).
THEOREM DecisionsAreFinal == AccountSpec => DecisionsStand
  <1> DEFINE Stands(e) ==
        \/ /\ request[e].status \in {"approved", "rejected"} => request'[e] = request[e]
           /\ request'[e].status = "rejected" => request'[e].account = Null
        \/ <<"decision", e>> \in overlaps'
  <1>1. AccountsInv /\ AccountsInv' /\ [AccountNext]_accountVars
            => [\A e \in Emails : Stands(e)]_accountVars
    <2> SUFFICES ASSUME AccountsInv, AccountsInv', AccountNext, NEW e \in Emails,
                        <<"decision", e>> \notin overlaps'
                 PROVE  /\ request[e].status \in {"approved", "rejected"} => request'[e] = request[e]
                        /\ request'[e].status = "rejected" => request'[e].account = Null
      OBVIOUS
    <2>1. request'[e].status = "rejected" => request'[e].account = Null
      BY DEF AccountsInv, DecisionInv
    <2>2. <<"decision", e>> \notin overlaps
      BY OverlapsGrow
    <2>3. \/ UNCHANGED request
          \/ \E f \in Emails : /\ request[f].status \in {"absent", "pending"}
                               /\ request' = [request EXCEPT ![f] = request'[f]]
          \/ /\ slow.kind \in {"approve", "reject"}
             /\ request' = [request EXCEPT ![slow.email] = request'[slow.email]]
      <3> USE DEF AccountsInv, AccountTypeOK
      <3>1. ASSUME NEW f \in Emails, RequestNext(f)
            PROVE  \/ UNCHANGED request
                   \/ /\ request[f].status \in {"absent", "pending"}
                      /\ request' = [request EXCEPT ![f] = request'[f]]
        BY <3>1 DEF RequestNext, CreateAccessRequest, RejectRequest, ReadRequest, ValidateUser,
                    ApproveRequest, CreateUser, Decidable
      <3>2. ASSUME SlowNext
            PROVE  \/ UNCHANGED request
                   \/ /\ slow.kind \in {"approve", "reject"}
                      /\ request' = [request EXCEPT ![slow.email] = request'[slow.email]]
        <4>1. slow.kind \in {"approve", "reject"} => slow.email \in Emails
          BY DEF Slow, Idle
        <4> QED BY <3>2, <4>1 DEF SlowNext, CommitLink, CommitRename, CommitBootstrap, CommitRejection,
                           RefuseUser, Abandon, InviteUser, CommitApproval, FinishUser
      <3> QED BY <3>1, <3>2 DEF AccountNext, ProviderNext, Verify, ChangeEmail, Expire, SignInNext,
                 SignIn, SignInRenamed, SignInFirst, ReadSignIn, DeactivateUser
    <2>4. slow.kind \in {"approve", "reject"} /\ slow.email = e => request[e].status = "pending"
      BY <2>2 DEF AccountsInv, DecisionInv
    <2> QED BY <2>1, <2>3, <2>4 DEF AccountsInv, AccountTypeOK
  <1> QED BY <1>1, AccountsInvariant, PTL DEF AccountSpec, DecisionsStand

\* Of any number of invitations, slow or not: who was invited has an account
\* waiting or his invitation was left behind, and only an identity that an
\* overlap has bound meanwhile is revoked (_create_user_with_invitation).
THEOREM InvitationsAndAccountsAgree == AccountSpec => InvitationsMatchAccounts
  <1> DEFINE Matches(s) ==
        /\ Answered(s)'
        /\ Known(s) /\ ~ Known(s)' /\ WithSubject(s) # {}
              => {<<"account", slow.email>>, <<"address", s>>} \cap overlaps # {}
  <1>1. AccountsInv /\ AccountsInv' /\ [AccountNext]_accountVars
            => [\A s \in Subjects : Matches(s)]_accountVars
    <2> SUFFICES ASSUME AccountsInv, AccountsInv', AccountNext, NEW s \in Subjects
                 PROVE  Matches(s)
      OBVIOUS
    <2>1. Answered(s)'
      BY DEF AccountsInv, AnsweredInv
    <2>2. Known(s) /\ ~ Known(s)' => slow.kind = "invited" /\ slow.subject = s
      <3> USE DEF AccountsInv, AccountTypeOK, Known
      <3>1. ASSUME NEW t \in Subjects, NEW e \in Emails, ProviderNext(t, e)
            PROVE  Known(s) => Known(s)'
        BY <3>1 DEF ProviderNext, Verify, ChangeEmail, Expire, Identity
      <3>2. ASSUME NEW e \in Emails, RequestNext(e)
            PROVE  Known(s) => Known(s)'
        BY <3>2 DEF RequestNext, CreateAccessRequest, RejectRequest, ReadRequest, ValidateUser,
                    ApproveRequest, CreateUser, Invited
      <3>3. CASE RefuseUser
        BY <3>3 DEF RefuseUser, InvitationRevoked
      <3>4. ASSUME SlowNext, ~ RefuseUser
            PROVE  Known(s) => Known(s)'
        BY <3>4 DEF SlowNext, CommitLink, CommitRename, CommitBootstrap, CommitRejection, Abandon,
                    InviteUser, Invited, CommitApproval, FinishUser
      <3> QED BY <3>1, <3>2, <3>3, <3>4 DEF AccountNext, SignInNext, SignIn, SignInRenamed, SignInFirst,
                 ReadSignIn, DeactivateUser
    <2>3. slow.kind = "invited" /\ slow.subject = s /\ WithSubject(s) # {}
            => {<<"account", slow.email>>, <<"address", s>>} \cap overlaps # {}
      BY DEF AccountsInv, CreationInv
    <2> QED BY <2>1, <2>2, <2>3
  <1> QED BY <1>1, AccountsInvariant, PTL DEF AccountSpec, InvitationsMatchAccounts

=============================================================================
