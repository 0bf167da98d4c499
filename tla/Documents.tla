------------------------------ MODULE Documents ------------------------------
(***************************************************************************)
(* The documents of a matter: services/documents/service.py, with its      *)
(* store of files (storage.py) and the search index's chunks of a document *)
(* (services/search_index/service.py).  An upload, an extraction, a        *)
(* reindexing and a deletion each take several commits and touch files     *)
(* that no transaction covers; the process may die between any two of its  *)
(* steps.  The routes and the background jobs call the same functions.     *)
(*                                                                         *)
(* The pages and entities of a document are one value, what an extraction  *)
(* gave, and so are the columns that describe them, and its chunks.        *)
(***************************************************************************)
EXTENDS Sessions

CONSTANTS
    Docs,      \* ids of documents, one for each upload
    Contents,
    contents,  \* what each upload holds, as good as its sha256
    Extracts,  \* what extractions may give: they run with or without OCR
    Callers    \* requests and jobs open at the same time

ASSUME DocumentsAssumption ==
    /\ contents \in [Docs -> Contents]
    /\ None \notin Docs \cup Extracts

VARIABLES
    doc,   \* documents: processing_status and the columns about the pages
    disk,  \* storage keys with a file
    page,  \* document_pages
    chunk, \* search_index_entries of each document, and whether they are live
    call   \* what each caller is doing

documentsVars == <<doc, disk, page, chunk, call>>

ProcessingStatuses == {"pending", "processing", "ready", "failed"}
Stages == {"idle", "upload", "process", "extract", "reindex", "index", "delete", "unlink"}

-----------------------------------------------------------------------------
NoDoc == [status |-> "absent", text |-> None]
Gone == [status |-> "deleted", text |-> None]
NoChunk == [text |-> None, live |-> FALSE]
NoCall == [at |-> "idle", on |-> None, text |-> None, chunk |-> NoChunk]

DocumentsInit ==
    /\ doc = [d \in Docs |-> NoDoc]
    /\ disk = {}
    /\ page = [d \in Docs |-> None]
    /\ chunk = [d \in Docs |-> NoChunk]
    /\ call = [c \in Callers |-> NoCall]

HasRow(d) == doc[d].status \in ProcessingStatuses
SameFile(d) == {e \in Docs : HasRow(e) /\ contents[e] = contents[d]}

ContentKey(d) == contents[d]                                 \* mutant: a key for each content
storage_key(d) == d

\* A call at a stage, or a new one that begins with it.
Begins(c, d, stage) ==
    \/ call[c].at = stage /\ call[c].on = d
    \/ stage \in {"process", "reindex"} /\ MayOpen(call, NoCall, c)
Goes(c, d, stage) == call' = [call EXCEPT ![c] = [NoCall EXCEPT !.at = stage, !.on = d]]
Returns(c) == call' = [call EXCEPT ![c] = NoCall]

-----------------------------------------------------------------------------
\* upload_document up to promote_upload; a duplicate is refused.
UploadFile(c, d) ==
    /\ MayOpen(call, NoCall, c)
    /\ doc[d] = NoDoc /\ \A b \in Callers : call[b].on # d
    /\ SameFile(d) = {}
    /\ disk' = disk \cup {storage_key(d)}
    /\ Goes(c, d, "upload")
    /\ UNCHANGED <<doc, page, chunk, overlap>>

\* uq_documents_matter_sha256 admits one row.
UploadCommit(c, process_now) ==
    LET d == call[c].on IN
    /\ call[c].at = "upload"
    /\ SameFile(d) = {}
    /\ doc' = [doc EXCEPT ![d] = [NoDoc EXCEPT
           !.status = IF process_now THEN "processing" ELSE "pending"]]
    /\ IF process_now THEN Goes(c, d, "process") ELSE Returns(c)
    /\ UNCHANGED <<disk, page, chunk, overlap>>

\* The insert fails: the except branch removes the file.
UploadRefused(c) ==
    /\ call[c].at = "upload"
    /\ disk' = disk \ {storage_key(call[c].on)}
    /\ Returns(c)
    /\ UNCHANGED <<doc, page, chunk, overlap>>

\* reprocess_document in the background; the job that it queues is another caller.
reprocess_document(c, d) ==
    /\ MayOpen(call, NoCall, c)
    /\ HasRow(d)
    /\ doc' = [doc EXCEPT ![d].status = "pending"]
    /\ UNCHANGED <<disk, page, chunk, call, overlap>>

\* process_document up to the extraction: the row is loaded, its status is committed.
ProcessStart(c, d) ==
    /\ Begins(c, d, "process")
    /\ HasRow(d)
    /\ doc' = [doc EXCEPT ![d].status = "processing"]
    /\ call' = [call EXCEPT ![c] = [NoCall EXCEPT !.at = "extract", !.on = d, !.text = doc[d].text]]
    /\ UNCHANGED <<disk, page, chunk, overlap>>

PagesKept(d, x) == IF page[d] = None THEN x ELSE page[d]     \* mutant: the old pages are not replaced
Replaced(d, x) == x

\* The pages are deleted and inserted, and the row is updated, in one transaction.
\* A call from a job returns, the other ones reindex.
ProcessCommit(c, x, reindex_search) ==
    LET d == call[c].on IN
    /\ call[c].at = "extract"
    /\ storage_key(d) \in disk
    /\ HasRow(d)
    /\ page' = [page EXCEPT ![d] = Replaced(d, x)]
    /\ doc' = [doc EXCEPT ![d] = [status |-> "ready",
                                  text |-> Written(x, call[c].text, doc[d].text)]]
    /\ IF reindex_search THEN Goes(c, d, "reindex") ELSE Returns(c)
    /\ UNCHANGED <<disk, chunk, overlap>>

\* The stored file is missing, the extraction fails, or a page is refused because
\* another extraction inserted that page number: uq_document_pages_document_page.  If
\* the row is gone as well the call just ends.
ProcessFails(c) ==
    LET d == call[c].on IN
    /\ call[c].at = "extract"
    /\ doc' = IF HasRow(d) THEN [doc EXCEPT ![d].status = "failed"] ELSE doc
    /\ Returns(c)
    /\ UNCHANGED <<disk, page, chunk, overlap>>

\* reindex_document, after an extraction, on request or as a job.
IndexRead(c, d) ==
    /\ Begins(c, d, "reindex")
    /\ HasRow(d)
    /\ call' = [call EXCEPT ![c] = [at |-> "index", on |-> d, text |-> page[d], chunk |-> chunk[d]]]
    /\ UNCHANGED <<doc, disk, page, chunk, overlap>>

\* _put sets every column of the chunks, is_deleted among them; without pages the
\* chunks there are become deleted.
Put(c) ==
    LET d == call[c].on
        read == call[c].chunk
        text == IF call[c].text = None THEN read.text ELSE call[c].text
        live == call[c].text # None
    IN  [text |-> Written(text, read.text, chunk[d].text),
         live |-> Written(live, read.live, chunk[d].live)]

\* uq_search_index_entry_source_key refuses chunks that another call inserted.
IndexCommit(c) ==
    /\ call[c].at = "index"
    /\ call[c].chunk = NoChunk => chunk[call[c].on] = NoChunk
    /\ chunk' = [chunk EXCEPT ![call[c].on] = Put(c)]
    /\ Returns(c)
    /\ UNCHANGED <<doc, disk, page, overlap>>

NoTombstone(d) == chunk                                      \* mutant: the chunks stay live
Tombstone(d) == [chunk EXCEPT ![d].live = FALSE]

\* delete_document up to the commit of mark_document_deleted; when that fails, its
\* transaction is aborted and the deletion fails with it.
MarkDeleted(c, d) ==
    /\ MayOpen(call, NoCall, c)
    /\ HasRow(d)
    /\ chunk' = Tombstone(d)
    /\ Goes(c, d, "delete")
    /\ UNCHANGED <<doc, disk, page, overlap>>

\* The pages go with the row, also those that were inserted meanwhile.
DeleteRow(c) ==
    LET d == call[c].on IN
    /\ call[c].at = "delete"
    /\ doc' = [doc EXCEPT ![d] = Gone]
    /\ page' = [page EXCEPT ![d] = None]
    /\ Goes(c, d, "unlink")
    /\ UNCHANGED <<disk, chunk, overlap>>

UnlinkFile(c) ==
    /\ call[c].at = "unlink"
    /\ disk' = disk \ {storage_key(call[c].on)}
    /\ Returns(c)
    /\ UNCHANGED <<doc, page, chunk, overlap>>

\* The process dies, or an error ends the call where no branch handles it.
CallEnds(c) ==
    /\ call[c] # NoCall
    /\ Returns(c)
    /\ UNCHANGED <<doc, disk, page, chunk, overlap>>

DocumentsNext ==
    \E c \in Callers :
        \/ \E d \in Docs :
              \/ UploadFile(c, d) \/ reprocess_document(c, d) \/ ProcessStart(c, d)
              \/ IndexRead(c, d) \/ MarkDeleted(c, d)
        \/ \E process_now \in BOOLEAN : UploadCommit(c, process_now)
        \/ UploadRefused(c)
        \/ \E x \in Extracts, reindex_search \in BOOLEAN : ProcessCommit(c, x, reindex_search)
        \/ ProcessFails(c)
        \/ IndexCommit(c) \/ DeleteRow(c) \/ UnlinkFile(c)
        \/ CallEnds(c)

DocumentsSpec == SessionsInit /\ DocumentsInit /\ [][DocumentsNext]_<<documentsVars, overlap>>

-----------------------------------------------------------------------------
Chunks == [text : Extracts \cup {None}, live : BOOLEAN]
DocumentRows == [status : ProcessingStatuses \cup {"absent", "deleted"}, text : Extracts \cup {None}]
DocumentsTypeOK ==
    /\ doc \in [Docs -> DocumentRows]
    /\ disk \subseteq {storage_key(d) : d \in Docs}
    /\ page \in [Docs -> Extracts \cup {None}]
    /\ chunk \in [Docs -> Chunks]
    /\ call \in [Callers -> [at : Stages, on : Docs \cup {None}, text : Extracts \cup {None},
                             chunk : Chunks]]

\* The file of a document that has a row is in the store, whatever uploads, also of
\* the same file, and deletions overlap, fail or die half-way: the file is there
\* before the row and goes after it, and a refused upload removes only its own
\* (upload_document, delete_document).
StoredFileThere == \A d \in Docs : HasRow(d) => storage_key(d) \in disk

\* A document that says it is ready has pages; and unless calls overlap the columns
\* of a document describe the pages it has, however often it was extracted and
\* wherever an extraction or a deletion stopped (process_document).
ReadyIsExtracted ==
    \A d \in Docs :
        /\ doc[d].status = "ready" => page[d] # None
        /\ ~overlap => doc[d].text = page[d]

\* Unless calls overlap, search finds no document that was deleted, also when a
\* deletion died after the tombstone and the document was indexed again
\* (delete_document, mark_document_deleted, reindex_document).
IndexedExist == ~overlap => \A d \in Docs : chunk[d].live => HasRow(d)
=============================================================================
