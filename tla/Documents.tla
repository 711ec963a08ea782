----------------------------- MODULE Documents -----------------------------
(***************************************************************************)
(* Documents: the files of one report's items and of one policy, and the   *)
(* two advisory services that are given their content.                     *)
(*                                                                         *)
(* Sources: backend/app/services/storage_service.py, the routes of         *)
(* attachments, policies and receipt intelligence with their clients, and  *)
(* the stores of policy_assistant_service and receipt_intelligence_service.*)
(* An upload checks its owner, puts the bytes into the object store, and   *)
(* commits a row that names them; a document of a policy is then given to  *)
(* the assistant.  The store, the database and the services fail apart.    *)
(***************************************************************************)
EXTENDS Naturals, FiniteSets

CONSTANTS
    Files,          \* uploads; each makes an attachment of its own
    Items,          \* the items of one report
    Policy,
    Contents,       \* what is in a file, as far as its digest tells
    None,           \* NULL
    MaxAnalyses     \* bound: receipt analyses of one content

ASSUME DocumentsAssumption ==
    /\ Policy \notin Items
    /\ None \notin Files \cup Items \cup {Policy} \cup Contents
    /\ MaxAnalyses \in Nat

VARIABLES
    upload,         \* the requests that upload
    row,            \* attachments: the entity, once the row is committed
    stored,         \* the object store: files whose bytes are there
    present,        \* expense_items that are not deleted
    editable,       \* the report is a draft or sent back
    document,       \* policies.uploaded_document_attachment_id
    index,          \* the assistant's documents of the policy
    seen,           \* receipt_digest_observations: seen_count
    clean,          \* history: files that were called no duplicate
    late,           \* history: uploads that were under way at a submission
    stray,          \* history: files whose cleaning up did not happen
    unsure,         \* history: commits that were reported failed and were not
    unindexed       \* history: documents reported to be not searchable

vars == <<upload, row, stored, present, editable, document, index, seen,
          clean, late, stray, unsure, unindexed>>

histories == <<clean, late, stray, unsure, unindexed>>

files == <<row, stored, stray, unsure>>

-----------------------------------------------------------------------------
Owners == Items \cup {Policy}

Phases == {"new", "checked", "stored", "indexing", "done"}

Upload == [phase : Phases, owner : Owners \cup {None}, content : Contents \cup {None},
           read : Files \cup {None}]

NewUpload == [phase |-> "new", owner |-> None, content |-> None, read |-> None]

Is(f, phase) == upload[f].phase = phase

Moved(f, phase) == upload' = [upload EXCEPT ![f].phase = phase]

UnderWay == { f \in Files : upload[f].phase \in {"checked", "stored", "indexing"} }

-----------------------------------------------------------------------------
(***************************************************************************)
(* An upload.                                                              *)
(***************************************************************************)

\* Fault: the status of the report does not matter.
OwnerOnly(i) == i \in present

\* _expense_item, _ensure_item_owner
ReceiptAllowed(i) == i \in present /\ editable

\* The type, size and signature of the bytes are checked before anything is
\* kept; a policy's row is read with its version.
StartUpload(f, o, c) ==
    /\ Is(f, "new")
    /\ o # Policy => ReceiptAllowed(o)
    /\ upload' = [upload EXCEPT ![f] = [phase |-> "checked", owner |-> o, content |-> c,
                                        read |-> IF o = Policy THEN document ELSE None]]
    /\ UNCHANGED <<row, stored, present, editable, document, index, seen, histories>>

PutBytes(f) ==
    /\ Is(f, "checked")
    /\ stored' = stored \cup {f}
    /\ Moved(f, "stored")
    /\ UNCHANGED <<row, present, editable, document, index, seen, histories>>

\* The store has no answer for us, with or without the bytes.
PutFails(f) ==
    /\ Is(f, "checked")
    /\ \/ UNCHANGED <<stored, stray>>
       \/ stored' = stored \cup {f} /\ stray' = stray \cup {f}
    /\ Moved(f, "done")
    /\ UNCHANGED <<row, present, editable, document, index, seen, clean, late, unsure,
                   unindexed>>

\* policies compares its version, so a document put there since is no longer
\* overwritten.
Committable(f) ==
    /\ Is(f, "stored")
    /\ upload[f].owner = Policy => document = upload[f].read

Committed(f) ==
    /\ row' = [row EXCEPT ![f] = upload[f].owner]
    /\ document' = IF upload[f].owner = Policy THEN f ELSE document

CommitUpload(f) ==
    /\ Committable(f)
    /\ Committed(f)
    /\ Moved(f, IF upload[f].owner = Policy THEN "indexing" ELSE "done")
    /\ UNCHANGED <<stored, present, editable, index, seen, histories>>

\* Fault: the bytes are left where they are.
BytesKept(f) == UNCHANGED <<stored, stray>>

\* delete_storage_path; its failure is ignored.
BytesDeleted(f) ==
    \/ stored' = stored \ {f} /\ UNCHANGED stray
    \/ stray' = stray \cup {f} /\ UNCHANGED stored

RollBackUpload(f) ==
    /\ Is(f, "stored")
    /\ BytesDeleted(f)
    /\ Moved(f, "done")
    /\ UNCHANGED <<row, present, editable, document, index, seen, clean, late, unsure,
                   unindexed>>

\* The commit took place, the answer of the database is lost.
LoseCommitAnswer(f) ==
    /\ Committable(f)
    /\ Committed(f)
    /\ BytesDeleted(f)
    /\ unsure' = unsure \cup {f}
    /\ unindexed' = IF upload[f].owner = Policy THEN unindexed \cup {f} ELSE unindexed
    /\ Moved(f, "done")
    /\ UNCHANGED <<present, editable, index, seen, clean, late>>

-----------------------------------------------------------------------------
(***************************************************************************)
(* The policy assistant.                                                   *)
(***************************************************************************)

\* Fault: a policy's document takes the place of all others.
OnlyThisDocument(c) == {c}

\* replace_document: the reference of a document is made of its content, and
\* only the document of this reference is replaced.  In one transaction, as
\* the SQLite and the PostgreSQL store do it; AppwritePolicyStore, which is for
\* local use and tests, deletes the rows before it creates them again, so that
\* one that fails in between loses a document.
Replaced(c) == index \cup {c}

IndexDocument(f) ==
    /\ Is(f, "indexing")
    /\ index' = Replaced(upload[f].content)
    /\ Moved(f, "done")
    /\ UNCHANGED <<row, stored, present, editable, document, seen, histories>>

\* PolicyAssistantError, PolicyDocumentExtractionError: "unavailable", also
\* when only the answer is late.
IndexUnavailable(f) ==
    /\ Is(f, "indexing")
    /\ \/ UNCHANGED index
       \/ index' = Replaced(upload[f].content)
    /\ unindexed' = unindexed \cup {f}
    /\ Moved(f, "done")
    /\ UNCHANGED <<row, stored, present, editable, document, seen, clean, late, stray,
                   unsure>>

\* index_policy_for_assistant: a text that an administrator sends.
IndexText(c) ==
    /\ c \notin index
    /\ index' = Replaced(c)
    /\ UNCHANGED <<upload, row, stored, present, editable, document, seen, histories>>

-----------------------------------------------------------------------------
(***************************************************************************)
(* Receipt intelligence.                                                   *)
(***************************************************************************)

\* Fault: the first repetition is forgiven.
SeenTwice(n) == n > 1

\* DigestObservation.duplicate, of the count before.
Duplicate(n) == n > 0

\* _receipt_for_item.  A PDF is analysed by its digest, so that its bytes need
\* not be there.
Analyzable(f) == row[f] \in present

\* observe, under a lock or in one statement.
Observed(c) ==
    /\ seen[c] < MaxAnalyses
    /\ seen' = [seen EXCEPT ![c] = @ + 1]

\* analyze warns of a duplicate; the answer may not reach the caller.
AnalyzeReceipt(f, answered) ==
    /\ Analyzable(f)
    /\ Observed(upload[f].content)
    /\ clean' = IF answered /\ ~ Duplicate(seen[upload[f].content])
                THEN clean \cup {f} ELSE clean
    /\ UNCHANGED <<upload, row, stored, present, editable, document, index, late, stray,
                   unsure, unindexed>>

-----------------------------------------------------------------------------
(***************************************************************************)
(* The report, and a crash.                                                *)
(***************************************************************************)
DeleteItem(i) ==
    /\ ReceiptAllowed(i)
    /\ present' = present \ {i}
    /\ UNCHANGED <<upload, row, stored, editable, document, index, seen, histories>>

Submit ==
    /\ editable
    /\ present # {}
    /\ editable' = FALSE
    /\ late' = late \cup UnderWay
    /\ UNCHANGED <<upload, row, stored, present, document, index, seen, clean, stray,
                   unsure, unindexed>>

SendBack ==
    /\ ~ editable
    /\ editable' = TRUE
    /\ UNCHANGED <<upload, row, stored, present, document, index, seen, histories>>

Crash ==
    /\ UnderWay # {}
    /\ upload' = [f \in Files |-> IF f \in UnderWay THEN [upload[f] EXCEPT !.phase = "done"]
                                  ELSE upload[f]]
    /\ stray' = stray \cup { f \in Files : Is(f, "stored") }
    /\ unindexed' = unindexed \cup { f \in Files : Is(f, "indexing") }
    /\ UNCHANGED <<row, stored, present, editable, document, index, seen, clean, late, unsure>>

Init ==
    /\ upload = [f \in Files |-> NewUpload]
    /\ row = [f \in Files |-> None]
    /\ stored = {}
    /\ present = Items
    /\ editable = TRUE
    /\ document = None
    /\ index = {}
    /\ seen = [c \in Contents |-> 0]
    /\ clean = {}
    /\ late = {}
    /\ stray = {}
    /\ unsure = {}
    /\ unindexed = {}

UploadNext(f) ==
    \/ \E o \in Owners, c \in Contents : StartUpload(f, o, c)
    \/ PutBytes(f)
    \/ PutFails(f)
    \/ CommitUpload(f)
    \/ RollBackUpload(f)
    \/ LoseCommitAnswer(f)
    \/ IndexDocument(f)
    \/ IndexUnavailable(f)

Next ==
    \/ \E f \in Files : UploadNext(f)
    \/ \E f \in Files, answered \in BOOLEAN : AnalyzeReceipt(f, answered)
    \/ \E c \in Contents : IndexText(c)
    \/ \E i \in Items : DeleteItem(i)
    \/ Submit
    \/ SendBack
    \/ Crash

Spec == Init /\ [][Next]_vars

-----------------------------------------------------------------------------
\* The uploads, the attachment rows and the two services keep their types.
TypeOK ==
    /\ upload \in [Files -> Upload]
    /\ row \in [Files -> Owners \cup {None}]
    /\ stored \subseteq Files
    /\ present \subseteq Items
    /\ editable \in BOOLEAN
    /\ document \in Files \cup {None}
    /\ index \subseteq Contents
    /\ seen \in [Contents -> Nat]
    /\ clean \subseteq Files
    /\ late \subseteq Files
    /\ stray \subseteq Files
    /\ unsure \subseteq Files
    /\ unindexed \subseteq Files

\* upload_receipt, upload_policy_document: the rows and the object store agree.
\* No row names bytes that are gone, unless the answer to its commit was lost;
\* no bytes are left that no row names, unless an upload is under way or the
\* cleaning up did not happen.
FilesMatchRows ==
    \A f \in Files :
        /\ row[f] # None => f \in stored \cup unsure
        /\ f \in stored => row[f] # None \/ Is(f, "stored") \/ f \in stray

\* _ensure_item_owner: a report under review gets no receipts, unless the
\* upload had begun before it was submitted.
ReceiptsFrozenUnderReview ==
    [][\A f \in Files :
         row'[f] # row[f] /\ row'[f] \in Items => editable \/ f \in late]_vars

\* upload_policy_document: the assistant knows the document a policy has, in
\* whatever order uploads were indexed, unless it was said to be unavailable.
CurrentDocumentIsFound ==
    document # None =>
        \/ upload[document].content \in index
        \/ Is(document, "indexing")
        \/ document \in unindexed

\* observe: of the receipts with one content one at most is called original,
\* whatever answers are lost.
OneOriginal ==
    \A f, g \in clean : upload[f].content = upload[g].content => f = g

\* receipt_intelligence's message "The same receipt digest has already been
\* observed in this organization" is about another receipt.
RepeatIsNoDuplicate ==
    [][\A f \in Files, c \in Contents :
         seen'[c] # seen[c] /\ seen[c] > 0
            => Cardinality({ g \in Files : row[g] \in Items /\ upload[g].content = c }) > 1]_vars

\* ask_policy: the evidence of a policy is that of the document it has.
EvidenceIsCurrent ==
    \A f \in Files :
        (row[f] = Policy /\ upload[f].content # upload[document].content)
            => upload[f].content \notin index

=============================================================================
