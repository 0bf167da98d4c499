------------------------ MODULE CollaborationProofs -------------------------
(***************************************************************************)
(* Documents, their versions, the envelopes in which they are signed and   *)
(* the firm's knowledge, for any number of records and requests.           *)
(***************************************************************************)
EXTENDS Documents, Versions, Envelopes, Knowledge, Maximum, TLAPS

-----------------------------------------------------------------------------
(* The files, pages and search chunks of documents, for any number of      *)
(* documents and of overlapping calls that may die anywhere.               *)
(*                                                                         *)
(* A file is safe because an upload is alone with its document until its   *)
(* row is there, and a call that unlinks has deleted the row (Safe).  When *)
(* calls do not overlap, the one that is open still has what it loaded     *)
(* (Serial).                                                               *)

Calls == [at : Stages, on : Docs \cup {None}, text : Extracts \cup {None}, chunk : Chunks]

\* What holds of every call, whatever overlaps.
Uploading(c) ==
    call[c].at = "upload" =>
        /\ doc[call[c].on] = NoDoc /\ call[c].on \in disk
        /\ \A b \in Callers \ {c} : call[b].on # call[c].on
Safe ==
    /\ StoredFileThere
    /\ \A d \in Docs : doc[d].status = "ready" => page[d] # None
    /\ \A c \in Callers :
          /\ call[c] = NoCall \/ (call[c].at # "idle" /\ call[c].on \in Docs)
          /\ Uploading(c)
          /\ call[c].at = "unlink" => doc[call[c].on].status = "deleted"

\* What holds of the only open call.
OnlyCall(c) == \A b \in Callers \ {c} : call[b] = NoCall
Serial ==
    ~overlap =>
        /\ \A d \in Docs : doc[d].text = page[d] /\ (chunk[d].live => HasRow(d))
        /\ \A c \in Callers :
              /\ call[c] # NoCall => OnlyCall(c)
              /\ call[c].at = "extract" => call[c].text = doc[call[c].on].text
              /\ call[c].at = "delete" => ~chunk[call[c].on].live
              /\ call[c].at = "index" => HasRow(call[c].on)

DocumentsInv == DocumentsTypeOK /\ overlap \in BOOLEAN /\ Safe /\ Serial

-----------------------------------------------------------------------------
\* Before the first upload there is nothing (DocumentsInit).
LEMMA DocumentsStart == SessionsInit /\ DocumentsInit => DocumentsInv
  BY DocumentsAssumption
  DEF DocumentsAssumption, SessionsInit, DocumentsInit, DocumentsInv, DocumentsTypeOK, Safe, Serial,
      StoredFileThere, HasRow, Uploading, OnlyCall, NoDoc, NoChunk, NoCall, Chunks, DocumentRows,
      ProcessingStatuses, Stages

\* A step of call c about document d: the rows, the file and the call that it leaves.
Touches(c, d, row, p, k, v) ==
    /\ row \in DocumentRows /\ p \in Extracts \cup {None} /\ k \in Chunks /\ v \in Calls
    /\ v = NoCall \/ (v.at # "idle" /\ v.on = d)
    /\ doc' = [doc EXCEPT ![d] = row]
    /\ page' = [page EXCEPT ![d] = p]
    /\ chunk' = [chunk EXCEPT ![d] = k]
    /\ call' = [call EXCEPT ![c] = v]
    /\ disk' \subseteq Docs /\ disk' \ {d} = disk \ {d}
    /\ UNCHANGED overlap

\* What such a step has to respect, whatever overlaps ...
KeepsSafe(c, d, row, p, v) ==
    /\ row.status \in ProcessingStatuses => d \in disk'
    /\ row.status = "ready" => p # None
    /\ v.at = "upload" => row = NoDoc /\ d \in disk' /\ \A b \in Callers \ {c} : call[b].on # d
    /\ v.at = "unlink" => row.status = "deleted"
    /\ doc[d].status = "deleted" => row.status = "deleted"
    /\ \A b \in Callers \ {c} : call[b].on = d => call[b].at # "upload"

\* ... and when nothing overlaps.
KeepsSerial(c, row, p, k, v) ==
    ~overlap =>
        /\ OnlyCall(c)
        /\ row.text = p
        /\ k.live => row.status \in ProcessingStatuses
        /\ v.at = "extract" => v.text = row.text
        /\ v.at = "delete" => ~k.live
        /\ v.at = "index" => row.status \in ProcessingStatuses

-----------------------------------------------------------------------------
\* Such a step keeps all that is known of the documents.
LEMMA Touch ==
    ASSUME DocumentsInv, NEW c \in Callers, NEW d \in Docs, NEW row, NEW p, NEW k, NEW v,
           Touches(c, d, row, p, k, v), KeepsSafe(c, d, row, p, v), KeepsSerial(c, row, p, k, v)
    PROVE  DocumentsInv'
<1>1. /\ doc'[d] = row /\ page'[d] = p /\ chunk'[d] = k /\ call'[c] = v
      /\ \A e \in Docs \ {d} : doc'[e] = doc[e] /\ page'[e] = page[e] /\ chunk'[e] = chunk[e]
                               /\ (e \in disk' <=> e \in disk)
      /\ \A b \in Callers \ {c} : call'[b] = call[b]
      /\ overlap' = overlap
  BY DEF Touches, DocumentsInv, DocumentsTypeOK
<1>2. DocumentsTypeOK' /\ overlap' \in BOOLEAN
  BY DEF Touches, DocumentsInv, DocumentsTypeOK, Calls, storage_key
<1>3. v = NoCall \/ (v.at # "idle" /\ v.on = d)
  BY DEF Touches
<1>4. Safe'
  <2>1. StoredFileThere'
    BY <1>1 DEF DocumentsInv, Safe, StoredFileThere, HasRow, KeepsSafe, storage_key
  <2>2. \A e \in Docs : doc'[e].status = "ready" => page'[e] # None
    BY <1>1 DEF DocumentsInv, Safe, KeepsSafe
  <2>3. ASSUME NEW b \in Callers
        PROVE  (/\ call[b] = NoCall \/ (call[b].at # "idle" /\ call[b].on \in Docs)
                /\ Uploading(b)
                /\ call[b].at = "unlink" => doc[call[b].on].status = "deleted")'
    <3>1. CASE b = c
      BY <3>1, <1>1, <1>3 DEF KeepsSafe, Uploading, NoCall
    <3>2. CASE b # c
      <4>1. /\ call[b] = NoCall \/ (call[b].at # "idle" /\ call[b].on \in Docs)
            /\ Uploading(b)
            /\ call[b].at = "unlink" => doc[call[b].on].status = "deleted"
        BY DEF DocumentsInv, Safe
      <4>2. call[b].at = "upload" => call[b].on # d /\ call[b].on \in Docs
        BY <3>2, <4>1 DEF KeepsSafe, NoCall
      <4>3. Uploading(b)'
        BY <3>2, <4>1, <4>2, <1>1, <1>3, DocumentsAssumption
        DEF Uploading, NoCall, DocumentsAssumption
      <4>4. call'[b].at = "unlink" => doc'[call'[b].on].status = "deleted"
        BY <3>2, <4>1, <1>1 DEF KeepsSafe, NoCall
      <4> QED
        BY <3>2, <4>1, <4>3, <4>4, <1>1
    <3> QED
      BY <3>1, <3>2
  <2> QED
    BY <2>1, <2>2, <2>3 DEF Safe
<1>5. Serial'
  <2> SUFFICES ASSUME ~overlap
               PROVE (/\ \A e \in Docs : doc[e].text = page[e] /\ (chunk[e].live => HasRow(e))
                      /\ \A b \in Callers :
                            /\ call[b] # NoCall => OnlyCall(b)
                            /\ call[b].at = "extract" => call[b].text = doc[call[b].on].text
                            /\ call[b].at = "delete" => ~chunk[call[b].on].live
                            /\ call[b].at = "index" => HasRow(call[b].on))'
    BY <1>1 DEF Serial
  <2>1. \A b \in Callers \ {c} : call'[b] = NoCall
    BY <1>1 DEF KeepsSerial, OnlyCall
  <2>2. \A e \in Docs : doc'[e].text = page'[e] /\ (chunk'[e].live => HasRow(e)')
    BY <1>1 DEF DocumentsInv, Serial, KeepsSerial, HasRow
  <2>3. ASSUME NEW b \in Callers
        PROVE  (/\ call[b] # NoCall => OnlyCall(b)
                /\ call[b].at = "extract" => call[b].text = doc[call[b].on].text
                /\ call[b].at = "delete" => ~chunk[call[b].on].live
                /\ call[b].at = "index" => HasRow(call[b].on))'
    <3>1. CASE b = c
      BY <3>1, <1>1, <1>3, <2>1 DEF KeepsSerial, OnlyCall, HasRow, NoCall
    <3>2. CASE b # c
      BY <3>2, <2>1 DEF NoCall
    <3> QED
      BY <3>1, <3>2
  <2> QED
    BY <2>2, <2>3
<1> QED
  BY <1>2, <1>4, <1>5 DEF DocumentsInv

\* A document that a call is about, or that has a row, is not being uploaded by another.
LEMMA NotUploaded ==
    ASSUME DocumentsInv, NEW c \in Callers, NEW d \in Docs, call[c].on = d \/ HasRow(d)
    PROVE  \A b \in Callers \ {c} : call[b].on = d => call[b].at # "upload"
  BY DEF DocumentsInv, Safe, Uploading, HasRow, NoDoc, ProcessingStatuses

\* An open call is alone, and so is one that may open, unless calls overlap.
LEMMA OpenIsAlone ==
    ASSUME DocumentsInv, NEW c \in Callers, call[c] # NoCall \/ MayOpen(call, NoCall, c)
    PROVE  ~overlap => OnlyCall(c)
  BY DEF DocumentsInv, Serial, MayOpen, OnlyCall, DocumentsTypeOK

\* The call that is left is one (Goes, Returns).
LEMMA NextCall ==
    ASSUME NEW d \in Docs, NEW stage \in Stages
    PROVE  /\ NoCall \in Calls
           /\ [NoCall EXCEPT !.at = stage, !.on = d] \in Calls
           /\ [NoCall EXCEPT !.at = stage, !.on = d].at = stage
           /\ [NoCall EXCEPT !.at = stage, !.on = d].on = d
  BY DEF NoCall, NoChunk, Calls, Chunks, Stages

\* The rows of one document as a step finds them.
Consistent(d) ==
    /\ doc[d] \in DocumentRows /\ page[d] \in Extracts \cup {None} /\ chunk[d] \in Chunks
    /\ disk \subseteq Docs /\ (HasRow(d) => d \in disk)
    /\ doc = [doc EXCEPT ![d] = doc[d]] /\ page = [page EXCEPT ![d] = page[d]]
    /\ chunk = [chunk EXCEPT ![d] = chunk[d]]
    /\ doc[d].status = "ready" => page[d] # None
    /\ ~overlap => doc[d].text = page[d] /\ (chunk[d].live => HasRow(d))

\* They are consistent.
LEMMA RowsConsistent == ASSUME DocumentsInv, NEW d \in Docs PROVE Consistent(d)
  BY DEF DocumentsInv, DocumentsTypeOK, Safe, Serial, StoredFileThere, storage_key, Consistent

\* An upload stores its file before there is a row (UploadFile).
LEMMA Keeps_UploadFile ==
    ASSUME DocumentsInv, NEW c \in Callers, NEW d \in Docs,
           UploadFile(c, d)
    PROVE  DocumentsInv'
<1> DEFINE v == [NoCall EXCEPT !.at = "upload", !.on = d]
<1>1. d \in Docs
  OBVIOUS
<1>2. /\ ~overlap => OnlyCall(c)
      /\ \A b \in Callers \ {c} : call[b].on = d => call[b].at # "upload"
  BY <1>1, NotUploaded, OpenIsAlone DEF UploadFile
<1>3. Consistent(d)
  BY <1>1, RowsConsistent
<1>4. /\ doc[d] = NoDoc /\ disk' = disk \cup {d}
      /\ \A b \in Callers : call[b].on # d
  BY <1>1, DocumentsAssumption DEF UploadFile, storage_key
<1>5. v \in Calls /\ v.at = "upload" /\ v.on = d
  BY <1>1, <1>3, NextCall DEF Stages
<1>6. /\ doc' = [doc EXCEPT ![d] = doc[d]] /\ page' = [page EXCEPT ![d] = page[d]]
      /\ chunk' = [chunk EXCEPT ![d] = chunk[d]] /\ call' = [call EXCEPT ![c] = v]
      /\ disk' \subseteq Docs /\ disk' \ {d} = disk \ {d} /\ UNCHANGED overlap
  BY <1>1, <1>3, <1>4 DEF UploadFile, Consistent, Goes, Returns, storage_key, Tombstone, Replaced
<1> HIDE DEF v
<1>7. Touches(c, d, doc[d], page[d], chunk[d], v)
  BY <1>1, <1>2, <1>3, <1>4, <1>5, <1>6 DEF Touches, Consistent
<1>8. KeepsSafe(c, d, doc[d], page[d], v)
  BY <1>1, <1>2, <1>3, <1>4, <1>5, <1>6 DEF KeepsSafe, Consistent, NoDoc, Gone, HasRow, ProcessingStatuses
<1>9. KeepsSerial(c, doc[d], page[d], chunk[d], v)
  BY <1>1, <1>2, <1>3, <1>4, <1>5, <1>6 DEF KeepsSerial, Consistent, NoDoc, HasRow, ProcessingStatuses
<1> QED
  BY <1>1, <1>7, <1>8, <1>9, Touch

\* The row of an upload comes after its file (UploadCommit).
LEMMA Keeps_UploadCommit ==
    ASSUME DocumentsInv, NEW c \in Callers, NEW process_now \in BOOLEAN,
           UploadCommit(c, process_now)
    PROVE  DocumentsInv'
<1> DEFINE d == call[c].on
           row == [NoDoc EXCEPT !.status = IF process_now THEN "processing" ELSE "pending"]
           v == IF process_now THEN [NoCall EXCEPT !.at = "process", !.on = d] ELSE NoCall
<1>1. d \in Docs /\ call[c] # NoCall
  BY DEF UploadCommit, DocumentsInv, Safe, NoCall
<1>2. /\ ~overlap => OnlyCall(c)
      /\ \A b \in Callers \ {c} : call[b].on = d => call[b].at # "upload"
  BY <1>1, NotUploaded, OpenIsAlone DEF UploadCommit
<1>3. Consistent(d)
  BY <1>1, RowsConsistent
<1>4. doc[d] = NoDoc /\ d \in disk /\ disk' = disk
  BY <1>1, DocumentsAssumption DEF UploadCommit, DocumentsInv, Safe, Uploading
<1>5. row \in DocumentRows /\ row.status \in {"pending", "processing"} /\ row.text = None
  BY <1>1, <1>3, <1>4 DEF Consistent, DocumentRows, ProcessingStatuses, NoDoc, Gone, HasRow, NoCall, Calls,
              Chunks
<1>6. v \in Calls /\ (v = NoCall \/ (v.at = "process" /\ v.on = d)) /\ NoCall.at = "idle"
  BY <1>1, <1>3, NextCall DEF Stages, NoCall
<1>7. /\ doc' = [doc EXCEPT ![d] = row] /\ page' = [page EXCEPT ![d] = page[d]]
      /\ chunk' = [chunk EXCEPT ![d] = chunk[d]] /\ call' = [call EXCEPT ![c] = v]
      /\ disk' \subseteq Docs /\ disk' \ {d} = disk \ {d} /\ UNCHANGED overlap
  BY <1>1, <1>3, <1>4 DEF UploadCommit, Consistent, Goes, Returns, storage_key, Tombstone, Replaced
<1> HIDE DEF row, v, d
<1>8. Touches(c, d, row, page[d], chunk[d], v)
  BY <1>1, <1>2, <1>3, <1>4, <1>5, <1>6, <1>7 DEF Touches, Consistent
<1>9. KeepsSafe(c, d, row, page[d], v)
  BY <1>1, <1>2, <1>3, <1>4, <1>5, <1>6, <1>7 DEF KeepsSafe, Consistent, NoDoc, Gone, HasRow, ProcessingStatuses
<1>10. KeepsSerial(c, row, page[d], chunk[d], v)
  BY <1>1, <1>2, <1>3, <1>4, <1>5, <1>6, <1>7 DEF KeepsSerial, Consistent, NoDoc, HasRow, ProcessingStatuses
<1> QED
  BY <1>1, <1>8, <1>9, <1>10, Touch

\* A refused upload removes the file of its own (UploadRefused).
LEMMA Keeps_UploadRefused ==
    ASSUME DocumentsInv, NEW c \in Callers,
           UploadRefused(c)
    PROVE  DocumentsInv'
<1> DEFINE d == call[c].on
<1>1. d \in Docs /\ call[c] # NoCall
  BY DEF UploadRefused, DocumentsInv, Safe, NoCall
<1>2. /\ ~overlap => OnlyCall(c)
      /\ \A b \in Callers \ {c} : call[b].on = d => call[b].at # "upload"
  BY <1>1, NotUploaded, OpenIsAlone DEF UploadRefused
<1>3. Consistent(d)
  BY <1>1, RowsConsistent
<1>4. doc[d] = NoDoc /\ disk' = disk \ {d}
  BY <1>1, DocumentsAssumption DEF UploadRefused, storage_key, DocumentsInv, Safe, Uploading
<1>5. NoCall \in Calls /\ NoCall.at = "idle"
  BY DEF NoCall, NoChunk, Calls, Chunks, Stages
<1>6. /\ doc' = [doc EXCEPT ![d] = doc[d]] /\ page' = [page EXCEPT ![d] = page[d]]
      /\ chunk' = [chunk EXCEPT ![d] = chunk[d]] /\ call' = [call EXCEPT ![c] = NoCall]
      /\ disk' \subseteq Docs /\ disk' \ {d} = disk \ {d} /\ UNCHANGED overlap
  BY <1>1, <1>3, <1>4 DEF UploadRefused, Consistent, Goes, Returns, storage_key, Tombstone, Replaced
<1> HIDE DEF d
<1>7. Touches(c, d, doc[d], page[d], chunk[d], NoCall)
  BY <1>1, <1>2, <1>3, <1>4, <1>5, <1>6 DEF Touches, Consistent
<1>8. KeepsSafe(c, d, doc[d], page[d], NoCall)
  BY <1>1, <1>2, <1>3, <1>4, <1>5, <1>6 DEF KeepsSafe, Consistent, NoDoc, Gone, HasRow, ProcessingStatuses
<1>9. KeepsSerial(c, doc[d], page[d], chunk[d], NoCall)
  BY <1>1, <1>2, <1>3, <1>4, <1>5, <1>6 DEF KeepsSerial, Consistent, NoDoc, HasRow, ProcessingStatuses
<1> QED
  BY <1>1, <1>7, <1>8, <1>9, Touch

\* An extraction in the background is queued (reprocess_document).
LEMMA Keeps_reprocess_document ==
    ASSUME DocumentsInv, NEW c \in Callers, NEW d \in Docs,
           reprocess_document(c, d)
    PROVE  DocumentsInv'
<1> DEFINE row == [doc[d] EXCEPT !.status = "pending"]
<1>1. d \in Docs
  OBVIOUS
<1>2. /\ ~overlap => OnlyCall(c)
      /\ \A b \in Callers \ {c} : call[b].on = d => call[b].at # "upload"
  BY <1>1, NotUploaded, OpenIsAlone DEF reprocess_document
<1>3. Consistent(d)
  BY <1>1, RowsConsistent
<1>4. HasRow(d) /\ disk' = disk /\ call = [call EXCEPT ![c] = NoCall]
  BY <1>1, DocumentsAssumption DEF reprocess_document, MayOpen, DocumentsInv, DocumentsTypeOK
<1>5. row \in DocumentRows /\ row.status = "pending" /\ row.text = doc[d].text
  BY <1>1, <1>3, <1>4 DEF Consistent, DocumentRows, ProcessingStatuses, NoDoc, Gone, HasRow, NoCall, Calls,
              Chunks
<1>6. NoCall \in Calls /\ NoCall.at = "idle"
  BY DEF NoCall, NoChunk, Calls, Chunks, Stages
<1>7. /\ doc' = [doc EXCEPT ![d] = row] /\ page' = [page EXCEPT ![d] = page[d]]
      /\ chunk' = [chunk EXCEPT ![d] = chunk[d]] /\ call' = [call EXCEPT ![c] = NoCall]
      /\ disk' \subseteq Docs /\ disk' \ {d} = disk \ {d} /\ UNCHANGED overlap
  BY <1>1, <1>3, <1>4 DEF reprocess_document, Consistent, Goes, Returns, storage_key, Tombstone, Replaced
<1> HIDE DEF row
<1>8. Touches(c, d, row, page[d], chunk[d], NoCall)
  BY <1>1, <1>2, <1>3, <1>4, <1>5, <1>6, <1>7 DEF Touches, Consistent
<1>9. KeepsSafe(c, d, row, page[d], NoCall)
  BY <1>1, <1>2, <1>3, <1>4, <1>5, <1>6, <1>7 DEF KeepsSafe, Consistent, NoDoc, Gone, HasRow, ProcessingStatuses
<1>10. KeepsSerial(c, row, page[d], chunk[d], NoCall)
  BY <1>1, <1>2, <1>3, <1>4, <1>5, <1>6, <1>7 DEF KeepsSerial, Consistent, NoDoc, HasRow, ProcessingStatuses
<1> QED
  BY <1>1, <1>8, <1>9, <1>10, Touch

\* An extraction begins (ProcessStart).
LEMMA Keeps_ProcessStart ==
    ASSUME DocumentsInv, NEW c \in Callers, NEW d \in Docs,
           ProcessStart(c, d)
    PROVE  DocumentsInv'
<1> DEFINE row == [doc[d] EXCEPT !.status = "processing"]
           v == [NoCall EXCEPT !.at = "extract", !.on = d, !.text = doc[d].text]
<1>1. d \in Docs
  OBVIOUS
<1>2. /\ ~overlap => OnlyCall(c)
      /\ \A b \in Callers \ {c} : call[b].on = d => call[b].at # "upload"
  BY <1>1, NotUploaded, OpenIsAlone DEF ProcessStart, Begins, NoCall
<1>3. Consistent(d)
  BY <1>1, RowsConsistent
<1>4. HasRow(d) /\ disk' = disk
  BY <1>1, DocumentsAssumption DEF ProcessStart
<1>5. row \in DocumentRows /\ row.status = "processing" /\ row.text = doc[d].text
  BY <1>1, <1>3, <1>4 DEF Consistent, DocumentRows, ProcessingStatuses, NoDoc, Gone, HasRow, NoCall, Calls,
              Chunks
<1>6. v \in Calls /\ v.at = "extract" /\ v.on = d /\ v.text = doc[d].text
  BY <1>1, <1>3 DEF Consistent, NoCall, NoChunk, Calls, Chunks, Stages, DocumentRows
<1>7. /\ doc' = [doc EXCEPT ![d] = row] /\ page' = [page EXCEPT ![d] = page[d]]
      /\ chunk' = [chunk EXCEPT ![d] = chunk[d]] /\ call' = [call EXCEPT ![c] = v]
      /\ disk' \subseteq Docs /\ disk' \ {d} = disk \ {d} /\ UNCHANGED overlap
  BY <1>1, <1>3, <1>4 DEF ProcessStart, Consistent, Goes, Returns, storage_key, Tombstone, Replaced
<1> HIDE DEF row, v
<1>8. Touches(c, d, row, page[d], chunk[d], v)
  BY <1>1, <1>2, <1>3, <1>4, <1>5, <1>6, <1>7 DEF Touches, Consistent
<1>9. KeepsSafe(c, d, row, page[d], v)
  BY <1>1, <1>2, <1>3, <1>4, <1>5, <1>6, <1>7 DEF KeepsSafe, Consistent, NoDoc, Gone, HasRow, ProcessingStatuses
<1>10. KeepsSerial(c, row, page[d], chunk[d], v)
  BY <1>1, <1>2, <1>3, <1>4, <1>5, <1>6, <1>7 DEF KeepsSerial, Consistent, NoDoc, HasRow, ProcessingStatuses
<1> QED
  BY <1>1, <1>8, <1>9, <1>10, Touch

\* What an extraction gave is written (ProcessCommit).
LEMMA Keeps_ProcessCommit ==
    ASSUME DocumentsInv, NEW c \in Callers, NEW x \in Extracts, NEW reindex_search \in BOOLEAN,
           ProcessCommit(c, x, reindex_search)
    PROVE  DocumentsInv'
<1> DEFINE d == call[c].on
           row == [status |-> "ready", text |-> Written(x, call[c].text, doc[d].text)]
           v == IF reindex_search THEN [NoCall EXCEPT !.at = "reindex", !.on = d] ELSE NoCall
<1>1. d \in Docs /\ call[c] # NoCall
  BY DEF ProcessCommit, DocumentsInv, Safe, NoCall
<1>2. /\ ~overlap => OnlyCall(c)
      /\ \A b \in Callers \ {c} : call[b].on = d => call[b].at # "upload"
  BY <1>1, NotUploaded, OpenIsAlone DEF ProcessCommit
<1>3. Consistent(d)
  BY <1>1, RowsConsistent
<1>4. /\ HasRow(d) /\ x # None /\ disk' = disk
      /\ ~overlap => call[c].text = doc[d].text
  BY <1>1, DocumentsAssumption DEF ProcessCommit, DocumentsInv, Serial
<1>5. row \in DocumentRows /\ row.status = "ready" /\ (~overlap => row.text = x)
  BY <1>1, <1>3, <1>4 DEF Consistent, DocumentRows, ProcessingStatuses, NoDoc, Gone, HasRow, NoCall, Calls,
              Chunks, Written
<1>6. v \in Calls /\ (v = NoCall \/ (v.at = "reindex" /\ v.on = d)) /\ NoCall.at = "idle"
  BY <1>1, <1>3, NextCall DEF Stages, NoCall
<1>7. /\ doc' = [doc EXCEPT ![d] = row] /\ page' = [page EXCEPT ![d] = x]
      /\ chunk' = [chunk EXCEPT ![d] = chunk[d]] /\ call' = [call EXCEPT ![c] = v]
      /\ disk' \subseteq Docs /\ disk' \ {d} = disk \ {d} /\ UNCHANGED overlap
  BY <1>1, <1>3, <1>4 DEF ProcessCommit, Consistent, Goes, Returns, storage_key, Tombstone, Replaced
<1> HIDE DEF row, v, d
<1>8. Touches(c, d, row, x, chunk[d], v)
  BY <1>1, <1>2, <1>3, <1>4, <1>5, <1>6, <1>7 DEF Touches, Consistent
<1>9. KeepsSafe(c, d, row, x, v)
  BY <1>1, <1>2, <1>3, <1>4, <1>5, <1>6, <1>7 DEF KeepsSafe, Consistent, NoDoc, Gone, HasRow, ProcessingStatuses
<1>10. KeepsSerial(c, row, x, chunk[d], v)
  BY <1>1, <1>2, <1>3, <1>4, <1>5, <1>6, <1>7 DEF KeepsSerial, Consistent, NoDoc, HasRow, ProcessingStatuses
<1> QED
  BY <1>1, <1>8, <1>9, <1>10, Touch

\* An extraction fails (ProcessFails).
LEMMA Keeps_ProcessFails ==
    ASSUME DocumentsInv, NEW c \in Callers,
           ProcessFails(c)
    PROVE  DocumentsInv'
<1> DEFINE d == call[c].on
           row == IF HasRow(d) THEN [doc[d] EXCEPT !.status = "failed"] ELSE doc[d]
<1>1. d \in Docs /\ call[c] # NoCall
  BY DEF ProcessFails, DocumentsInv, Safe, NoCall
<1>2. /\ ~overlap => OnlyCall(c)
      /\ \A b \in Callers \ {c} : call[b].on = d => call[b].at # "upload"
  BY <1>1, NotUploaded, OpenIsAlone DEF ProcessFails
<1>3. Consistent(d)
  BY <1>1, RowsConsistent
<1>4. disk' = disk
  BY <1>1, DocumentsAssumption DEF ProcessFails
<1>5. /\ row \in DocumentRows /\ row.text = doc[d].text
      /\ HasRow(d) => row.status = "failed"
      /\ ~HasRow(d) => row = doc[d]
  BY <1>1, <1>3, <1>4 DEF Consistent, DocumentRows, ProcessingStatuses, NoDoc, Gone, HasRow, NoCall, Calls,
              Chunks
<1>6. NoCall \in Calls /\ NoCall.at = "idle"
  BY DEF NoCall, NoChunk, Calls, Chunks, Stages
<1>7. /\ doc' = [doc EXCEPT ![d] = row] /\ page' = [page EXCEPT ![d] = page[d]]
      /\ chunk' = [chunk EXCEPT ![d] = chunk[d]] /\ call' = [call EXCEPT ![c] = NoCall]
      /\ disk' \subseteq Docs /\ disk' \ {d} = disk \ {d} /\ UNCHANGED overlap
  BY <1>1, <1>3, <1>4 DEF ProcessFails, Consistent, Goes, Returns, storage_key, Tombstone, Replaced
<1> HIDE DEF row, d
<1>8. Touches(c, d, row, page[d], chunk[d], NoCall)
  BY <1>1, <1>2, <1>3, <1>4, <1>5, <1>6, <1>7 DEF Touches, Consistent
<1>9. KeepsSafe(c, d, row, page[d], NoCall)
  BY <1>1, <1>2, <1>3, <1>4, <1>5, <1>6, <1>7 DEF KeepsSafe, Consistent, NoDoc, Gone, HasRow, ProcessingStatuses
<1>10. KeepsSerial(c, row, page[d], chunk[d], NoCall)
  BY <1>1, <1>2, <1>3, <1>4, <1>5, <1>6, <1>7 DEF KeepsSerial, Consistent, NoDoc, HasRow, ProcessingStatuses
<1> QED
  BY <1>1, <1>8, <1>9, <1>10, Touch

\* Indexing reads the pages and the chunks (IndexRead).
LEMMA Keeps_IndexRead ==
    ASSUME DocumentsInv, NEW c \in Callers, NEW d \in Docs,
           IndexRead(c, d)
    PROVE  DocumentsInv'
<1> DEFINE v == [at |-> "index", on |-> d, text |-> page[d], chunk |-> chunk[d]]
<1>1. d \in Docs
  OBVIOUS
<1>2. /\ ~overlap => OnlyCall(c)
      /\ \A b \in Callers \ {c} : call[b].on = d => call[b].at # "upload"
  BY <1>1, NotUploaded, OpenIsAlone DEF IndexRead, Begins, NoCall
<1>3. Consistent(d)
  BY <1>1, RowsConsistent
<1>4. HasRow(d) /\ disk' = disk
  BY <1>1, DocumentsAssumption DEF IndexRead
<1>5. v \in Calls /\ v.at = "index" /\ v.on = d
  BY <1>1, <1>3 DEF Consistent, Calls, Stages
<1>6. /\ doc' = [doc EXCEPT ![d] = doc[d]] /\ page' = [page EXCEPT ![d] = page[d]]
      /\ chunk' = [chunk EXCEPT ![d] = chunk[d]] /\ call' = [call EXCEPT ![c] = v]
      /\ disk' \subseteq Docs /\ disk' \ {d} = disk \ {d} /\ UNCHANGED overlap
  BY <1>1, <1>3, <1>4 DEF IndexRead, Consistent, Goes, Returns, storage_key, Tombstone, Replaced
<1> HIDE DEF v
<1>7. Touches(c, d, doc[d], page[d], chunk[d], v)
  BY <1>1, <1>2, <1>3, <1>4, <1>5, <1>6 DEF Touches, Consistent
<1>8. KeepsSafe(c, d, doc[d], page[d], v)
  BY <1>1, <1>2, <1>3, <1>4, <1>5, <1>6 DEF KeepsSafe, Consistent, NoDoc, Gone, HasRow, ProcessingStatuses
<1>9. KeepsSerial(c, doc[d], page[d], chunk[d], v)
  BY <1>1, <1>2, <1>3, <1>4, <1>5, <1>6 DEF KeepsSerial, Consistent, NoDoc, HasRow, ProcessingStatuses
<1> QED
  BY <1>1, <1>7, <1>8, <1>9, Touch

\* Indexing writes the chunks (IndexCommit).
LEMMA Keeps_IndexCommit ==
    ASSUME DocumentsInv, NEW c \in Callers,
           IndexCommit(c)
    PROVE  DocumentsInv'
<1> DEFINE d == call[c].on
           k == Put(c)
<1>1. d \in Docs /\ call[c] # NoCall
  BY DEF IndexCommit, DocumentsInv, Safe, NoCall
<1>2. /\ ~overlap => OnlyCall(c)
      /\ \A b \in Callers \ {c} : call[b].on = d => call[b].at # "upload"
  BY <1>1, NotUploaded, OpenIsAlone DEF IndexCommit
<1>3. Consistent(d)
  BY <1>1, RowsConsistent
<1>4. /\ disk' = disk /\ (~overlap => HasRow(d))
      /\ call[c].text \in Extracts \cup {None} /\ call[c].chunk \in Chunks
  BY <1>1, DocumentsAssumption DEF IndexCommit, DocumentsInv, Serial, DocumentsTypeOK
<1>5. k \in Chunks
  BY <1>1, <1>3, <1>4 DEF Consistent, Put, Written, Chunks
<1>6. NoCall \in Calls /\ NoCall.at = "idle"
  BY DEF NoCall, NoChunk, Calls, Chunks, Stages
<1>7. /\ doc' = [doc EXCEPT ![d] = doc[d]] /\ page' = [page EXCEPT ![d] = page[d]]
      /\ chunk' = [chunk EXCEPT ![d] = k] /\ call' = [call EXCEPT ![c] = NoCall]
      /\ disk' \subseteq Docs /\ disk' \ {d} = disk \ {d} /\ UNCHANGED overlap
  BY <1>1, <1>3, <1>4 DEF IndexCommit, Consistent, Goes, Returns, storage_key, Tombstone, Replaced
<1> HIDE DEF k, d
<1>8. Touches(c, d, doc[d], page[d], k, NoCall)
  BY <1>1, <1>2, <1>3, <1>4, <1>5, <1>6, <1>7 DEF Touches, Consistent
<1>9. KeepsSafe(c, d, doc[d], page[d], NoCall)
  BY <1>1, <1>2, <1>3, <1>4, <1>5, <1>6, <1>7 DEF KeepsSafe, Consistent, NoDoc, Gone, HasRow, ProcessingStatuses
<1>10. KeepsSerial(c, doc[d], page[d], k, NoCall)
  BY <1>1, <1>2, <1>3, <1>4, <1>5, <1>6, <1>7 DEF KeepsSerial, Consistent, NoDoc, HasRow, ProcessingStatuses
<1> QED
  BY <1>1, <1>8, <1>9, <1>10, Touch

\* A deletion marks the chunks (MarkDeleted).
LEMMA Keeps_MarkDeleted ==
    ASSUME DocumentsInv, NEW c \in Callers, NEW d \in Docs,
           MarkDeleted(c, d)
    PROVE  DocumentsInv'
<1> DEFINE k == [chunk[d] EXCEPT !.live = FALSE]
           v == [NoCall EXCEPT !.at = "delete", !.on = d]
<1>1. d \in Docs
  OBVIOUS
<1>2. /\ ~overlap => OnlyCall(c)
      /\ \A b \in Callers \ {c} : call[b].on = d => call[b].at # "upload"
  BY <1>1, NotUploaded, OpenIsAlone DEF MarkDeleted
<1>3. Consistent(d)
  BY <1>1, RowsConsistent
<1>4. HasRow(d) /\ disk' = disk
  BY <1>1, DocumentsAssumption DEF MarkDeleted
<1>5. k \in Chunks /\ ~k.live
  BY <1>1, <1>3, <1>4 DEF Consistent, Chunks
<1>6. v \in Calls /\ v.at = "delete" /\ v.on = d
  BY <1>1, <1>3, NextCall DEF Stages
<1>7. /\ doc' = [doc EXCEPT ![d] = doc[d]] /\ page' = [page EXCEPT ![d] = page[d]]
      /\ chunk' = [chunk EXCEPT ![d] = k] /\ call' = [call EXCEPT ![c] = v]
      /\ disk' \subseteq Docs /\ disk' \ {d} = disk \ {d} /\ UNCHANGED overlap
  BY <1>1, <1>3, <1>4 DEF MarkDeleted, Consistent, Goes, Returns, storage_key, Tombstone, Replaced
<1> HIDE DEF k, v
<1>8. Touches(c, d, doc[d], page[d], k, v)
  BY <1>1, <1>2, <1>3, <1>4, <1>5, <1>6, <1>7 DEF Touches, Consistent
<1>9. KeepsSafe(c, d, doc[d], page[d], v)
  BY <1>1, <1>2, <1>3, <1>4, <1>5, <1>6, <1>7 DEF KeepsSafe, Consistent, NoDoc, Gone, HasRow, ProcessingStatuses
<1>10. KeepsSerial(c, doc[d], page[d], k, v)
  BY <1>1, <1>2, <1>3, <1>4, <1>5, <1>6, <1>7 DEF KeepsSerial, Consistent, NoDoc, HasRow, ProcessingStatuses
<1> QED
  BY <1>1, <1>8, <1>9, <1>10, Touch

\* A deletion deletes the row and the pages (DeleteRow).
LEMMA Keeps_DeleteRow ==
    ASSUME DocumentsInv, NEW c \in Callers,
           DeleteRow(c)
    PROVE  DocumentsInv'
<1> DEFINE d == call[c].on
           row == Gone
           v == [NoCall EXCEPT !.at = "unlink", !.on = d]
<1>1. d \in Docs /\ call[c] # NoCall
  BY DEF DeleteRow, DocumentsInv, Safe, NoCall
<1>2. /\ ~overlap => OnlyCall(c)
      /\ \A b \in Callers \ {c} : call[b].on = d => call[b].at # "upload"
  BY <1>1, NotUploaded, OpenIsAlone DEF DeleteRow
<1>3. Consistent(d)
  BY <1>1, RowsConsistent
<1>4. disk' = disk /\ (~overlap => ~chunk[d].live)
  BY <1>1, DocumentsAssumption DEF DeleteRow, DocumentsInv, Serial
<1>5. row \in DocumentRows /\ row.status = "deleted" /\ row.text = None
  BY <1>1, <1>3, <1>4 DEF Consistent, DocumentRows, ProcessingStatuses, NoDoc, Gone, HasRow, NoCall, Calls,
              Chunks
<1>6. v \in Calls /\ v.at = "unlink" /\ v.on = d
  BY <1>1, <1>3, NextCall DEF Stages
<1>7. /\ doc' = [doc EXCEPT ![d] = row] /\ page' = [page EXCEPT ![d] = None]
      /\ chunk' = [chunk EXCEPT ![d] = chunk[d]] /\ call' = [call EXCEPT ![c] = v]
      /\ disk' \subseteq Docs /\ disk' \ {d} = disk \ {d} /\ UNCHANGED overlap
  BY <1>1, <1>3, <1>4 DEF DeleteRow, Consistent, Goes, Returns, storage_key, Tombstone, Replaced
<1> HIDE DEF row, v, d
<1>8. Touches(c, d, row, None, chunk[d], v)
  BY <1>1, <1>2, <1>3, <1>4, <1>5, <1>6, <1>7 DEF Touches, Consistent
<1>9. KeepsSafe(c, d, row, None, v)
  BY <1>1, <1>2, <1>3, <1>4, <1>5, <1>6, <1>7 DEF KeepsSafe, Consistent, NoDoc, Gone, HasRow, ProcessingStatuses
<1>10. KeepsSerial(c, row, None, chunk[d], v)
  BY <1>1, <1>2, <1>3, <1>4, <1>5, <1>6, <1>7 DEF KeepsSerial, Consistent, NoDoc, HasRow, ProcessingStatuses
<1> QED
  BY <1>1, <1>8, <1>9, <1>10, Touch

\* A deletion removes the file after the row (UnlinkFile).
LEMMA Keeps_UnlinkFile ==
    ASSUME DocumentsInv, NEW c \in Callers,
           UnlinkFile(c)
    PROVE  DocumentsInv'
<1> DEFINE d == call[c].on
<1>1. d \in Docs /\ call[c] # NoCall
  BY DEF UnlinkFile, DocumentsInv, Safe, NoCall
<1>2. /\ ~overlap => OnlyCall(c)
      /\ \A b \in Callers \ {c} : call[b].on = d => call[b].at # "upload"
  BY <1>1, NotUploaded, OpenIsAlone DEF UnlinkFile
<1>3. Consistent(d)
  BY <1>1, RowsConsistent
<1>4. disk' = disk \ {d} /\ doc[d].status = "deleted"
  BY <1>1, DocumentsAssumption DEF UnlinkFile, storage_key, DocumentsInv, Safe
<1>5. NoCall \in Calls /\ NoCall.at = "idle"
  BY DEF NoCall, NoChunk, Calls, Chunks, Stages
<1>6. /\ doc' = [doc EXCEPT ![d] = doc[d]] /\ page' = [page EXCEPT ![d] = page[d]]
      /\ chunk' = [chunk EXCEPT ![d] = chunk[d]] /\ call' = [call EXCEPT ![c] = NoCall]
      /\ disk' \subseteq Docs /\ disk' \ {d} = disk \ {d} /\ UNCHANGED overlap
  BY <1>1, <1>3, <1>4 DEF UnlinkFile, Consistent, Goes, Returns, storage_key, Tombstone, Replaced
<1> HIDE DEF d
<1>7. Touches(c, d, doc[d], page[d], chunk[d], NoCall)
  BY <1>1, <1>2, <1>3, <1>4, <1>5, <1>6 DEF Touches, Consistent
<1>8. KeepsSafe(c, d, doc[d], page[d], NoCall)
  BY <1>1, <1>2, <1>3, <1>4, <1>5, <1>6 DEF KeepsSafe, Consistent, NoDoc, Gone, HasRow, ProcessingStatuses
<1>9. KeepsSerial(c, doc[d], page[d], chunk[d], NoCall)
  BY <1>1, <1>2, <1>3, <1>4, <1>5, <1>6 DEF KeepsSerial, Consistent, NoDoc, HasRow, ProcessingStatuses
<1> QED
  BY <1>1, <1>7, <1>8, <1>9, Touch

\* A call is lost (CallEnds).
LEMMA Keeps_CallEnds ==
    ASSUME DocumentsInv, NEW c \in Callers,
           CallEnds(c)
    PROVE  DocumentsInv'
<1> DEFINE d == call[c].on
<1>1. d \in Docs /\ call[c] # NoCall
  BY DEF CallEnds, DocumentsInv, Safe, NoCall
<1>2. /\ ~overlap => OnlyCall(c)
      /\ \A b \in Callers \ {c} : call[b].on = d => call[b].at # "upload"
  BY <1>1, NotUploaded, OpenIsAlone DEF CallEnds
<1>3. Consistent(d)
  BY <1>1, RowsConsistent
<1>4. disk' = disk
  BY <1>1, DocumentsAssumption DEF CallEnds
<1>5. NoCall \in Calls /\ NoCall.at = "idle"
  BY DEF NoCall, NoChunk, Calls, Chunks, Stages
<1>6. /\ doc' = [doc EXCEPT ![d] = doc[d]] /\ page' = [page EXCEPT ![d] = page[d]]
      /\ chunk' = [chunk EXCEPT ![d] = chunk[d]] /\ call' = [call EXCEPT ![c] = NoCall]
      /\ disk' \subseteq Docs /\ disk' \ {d} = disk \ {d} /\ UNCHANGED overlap
  BY <1>1, <1>3, <1>4 DEF CallEnds, Consistent, Goes, Returns, storage_key, Tombstone, Replaced
<1> HIDE DEF d
<1>7. Touches(c, d, doc[d], page[d], chunk[d], NoCall)
  BY <1>1, <1>2, <1>3, <1>4, <1>5, <1>6 DEF Touches, Consistent
<1>8. KeepsSafe(c, d, doc[d], page[d], NoCall)
  BY <1>1, <1>2, <1>3, <1>4, <1>5, <1>6 DEF KeepsSafe, Consistent, NoDoc, Gone, HasRow, ProcessingStatuses
<1>9. KeepsSerial(c, doc[d], page[d], chunk[d], NoCall)
  BY <1>1, <1>2, <1>3, <1>4, <1>5, <1>6 DEF KeepsSerial, Consistent, NoDoc, HasRow, ProcessingStatuses
<1> QED
  BY <1>1, <1>7, <1>8, <1>9, Touch

-----------------------------------------------------------------------------
\* Every step of every caller keeps what is known of the documents.
LEMMA DocumentsStep == DocumentsInv /\ [DocumentsNext]_<<documentsVars, overlap>> => DocumentsInv'
<1> SUFFICES ASSUME DocumentsInv, [DocumentsNext]_<<documentsVars, overlap>> PROVE DocumentsInv'
  OBVIOUS
<1>1. CASE UNCHANGED <<documentsVars, overlap>>
  BY <1>1 DEF documentsVars, DocumentsInv, DocumentsTypeOK, Safe, Serial, StoredFileThere, HasRow,
              Uploading, OnlyCall
<1>2. CASE DocumentsNext
  BY <1>2, Keeps_UploadFile, Keeps_UploadCommit, Keeps_UploadRefused, Keeps_reprocess_document,
     Keeps_ProcessStart, Keeps_ProcessCommit, Keeps_ProcessFails, Keeps_IndexRead, Keeps_IndexCommit,
     Keeps_MarkDeleted, Keeps_DeleteRow, Keeps_UnlinkFile, Keeps_CallEnds
  DEF DocumentsNext
<1> QED
  BY <1>1, <1>2

-----------------------------------------------------------------------------
\* The rows, pages, files, chunks and calls keep their types.
THEOREM DocumentsTypeCorrect == DocumentsSpec => []DocumentsTypeOK
<1>1. DocumentsInv => DocumentsTypeOK
  BY DEF DocumentsInv
<1> QED
  BY DocumentsStart, DocumentsStep, <1>1, PTL DEF DocumentsSpec

\* The file of a document with a row is in the store, whatever uploads and deletions
\* overlap, fail or die half-way (upload_document, delete_document).
THEOREM StoredFileAlwaysThere == DocumentsSpec => []StoredFileThere
<1>1. DocumentsInv => StoredFileThere
  BY DEF DocumentsInv, Safe
<1> QED
  BY DocumentsStart, DocumentsStep, <1>1, PTL DEF DocumentsSpec

\* A ready document has pages, and without overlapping calls its columns describe them
\* (process_document).
THEOREM ReadyIsAlwaysExtracted == DocumentsSpec => []ReadyIsExtracted
<1>1. DocumentsInv => ReadyIsExtracted
  BY DEF DocumentsInv, Safe, Serial, ReadyIsExtracted
<1> QED
  BY DocumentsStart, DocumentsStep, <1>1, PTL DEF DocumentsSpec

\* Without overlapping calls no chunk of a deleted document is live (delete_document,
\* mark_document_deleted, reindex_document).
THEOREM IndexedAlwaysExist == DocumentsSpec => []IndexedExist
<1>1. DocumentsInv => IndexedExist
  BY DEF DocumentsInv, Serial, IndexedExist
<1> QED
  BY DocumentsStart, DocumentsStep, <1>1, PTL DEF DocumentsSpec

-----------------------------------------------------------------------------
(* The versions of a document.  What an upload has stored is still there   *)
(* when its row is inserted, unless another that is open may store under   *)
(* the same name; and no upload takes a number that a row has.             *)

UploadRow == [number : Numbers \cup {0}, sha256 : Files \cup {None}]
Protected(name) == ~overlap \/ OnlyUploader(name)

\* An open upload has stored its file, which is there as long as its name is its own.
StoredUploads ==
    \A u \in Uploaders : upload[u] # NoUpload =>
        /\ upload[u].number \in Numbers
        /\ Protected(filename[u]) =>
              stored[<<upload[u].number, filename[u]>>] = upload[u].sha256

OneUpload ==
    ~overlap => \A u \in Uploaders : upload[u] # NoUpload =>
                    \A t \in Uploaders \ {u} : upload[t] = NoUpload

VersionsInv == VersionsTypeOK /\ StoredUploads /\ OneUpload /\ VersionsImmutable

\* Nothing is uploaded at first (VersionsInit).
LEMMA VersionsStart == SessionsInit /\ VersionsInit => VersionsInv
  BY VersionsAssumption
  DEF VersionsInit, VersionsInv, VersionsTypeOK, StoredUploads, OneUpload, VersionsImmutable,
      NoVersion, NoUpload, Rows

\* The number of a new version is above that of every row (_next_version).
LEMMA NextIsNew == _next_version \in Int /\ \A n \in Rows : n < _next_version
<1>1. PICK S : S = Rows \cup {0}
  OBVIOUS
<1>2. S \in SUBSET (0..MaxNumber)
  BY <1>1, VersionsAssumption DEF Rows, Numbers
<1>3. IsFiniteSet(S)
  <2>1. 0 \in Int /\ MaxNumber \in Int
    BY VersionsAssumption
  <2>2. IsFiniteSet(0..MaxNumber)
    BY <2>1, FS_Interval
  <2> QED BY <1>2, <2>2, FS_Subset
<1>4. Max(S) \in S /\ \A x \in S : x <= Max(S)
  <2>1. S \in SUBSET Int /\ S # {}
    BY <1>1, <1>2
  <2> QED BY <1>3, <2>1, Greatest
<1>5. Max(S) \in Int
  <2>1. \A x \in S : x \in Int
    BY <1>2
  <2> QED BY <1>4, <2>1
<1>6. _next_version = Max(S) + 1
  BY <1>1 DEF _next_version
<1>7. \A n \in Rows : n \in S /\ n \in Int
  BY <1>1, <1>2
<1> QED BY <1>4, <1>5, <1>6, <1>7

\* An upload stores its file where no row and no upload that is protected has one
\* (AddVersion).
LEMMA KeepsVersions_AddVersion ==
    ASSUME VersionsInv, NEW u \in Uploaders, NEW file \in Files, AddVersion(u, file)
    PROVE  VersionsInv'
<1> USE VersionsAssumption
<1>1. PICK next : next = _next_version
  OBVIOUS
<1>2. PICK place : place = <<next, filename[u]>>
  OBVIOUS
<1>3. PICK row : row = [number |-> next, sha256 |-> file]
  OBVIOUS
<1>4. /\ MayOpen(upload, NoUpload, u) /\ next \in Numbers
      /\ stored' = [stored EXCEPT ![place] = file]
      /\ upload' = [upload EXCEPT ![u] = row]
      /\ UNCHANGED <<version, overlap>>
  BY <1>1, <1>2, <1>3 DEF AddVersion
<1>5. next \notin Rows
  BY <1>1, NextIsNew
<1>6. /\ upload \in [Uploaders -> UploadRow] /\ stored \in [Numbers \X FileNames -> Files \cup {None}]
      /\ row \in UploadRow /\ place \in Numbers \X FileNames
  BY <1>2, <1>3, <1>4 DEF VersionsInv, VersionsTypeOK, UploadRow
<1>7. \A t \in Uploaders : upload'[t] = IF t = u THEN row ELSE upload[t]
  BY <1>4, <1>6
<1>8. \A p \in Numbers \X FileNames : stored'[p] = IF p = place THEN file ELSE stored[p]
  BY <1>4, <1>6
<1>9. VersionsTypeOK'
  <2>1. upload' \in [Uploaders -> UploadRow] /\ stored' \in [Numbers \X FileNames -> Files \cup {None}]
    BY <1>4, <1>6
  <2> QED BY <1>4, <2>1 DEF VersionsInv, VersionsTypeOK, UploadRow
<1>10. OneUpload'
  BY <1>4, <1>6, <1>7 DEF OneUpload, MayOpen
<1>11. StoredUploads'
  <2>1. ASSUME NEW t \in Uploaders, upload'[t] # NoUpload
        PROVE  /\ upload'[t].number \in Numbers
               /\ Protected(filename[t])' =>
                     stored'[<<upload'[t].number, filename[t]>>] = upload'[t].sha256
    <3>1. CASE t = u
      BY <1>2, <1>3, <1>4, <1>6, <1>7, <1>8, <3>1
    <3>2. CASE t # u
      <4>1. /\ upload'[t] = upload[t] /\ upload[t].number \in Numbers
            /\ Protected(filename[t]) => stored[<<upload[t].number, filename[t]>>] = upload[t].sha256
        BY <1>7, <2>1, <3>2 DEF VersionsInv, StoredUploads
      <4>2. Protected(filename[t])' => Protected(filename[t]) /\ filename[t] # filename[u]
        BY <1>4, <1>6, <1>7, <2>1, <3>2 DEF Protected, OnlyUploader, MayOpen
      <4>3. <<upload[t].number, filename[t]>> \in Numbers \X FileNames
        BY <4>1
      <4> QED BY <1>2, <1>8, <4>1, <4>2, <4>3
    <3> QED BY <3>1, <3>2
  <2> QED BY <2>1 DEF StoredUploads, Protected, OnlyUploader
<1>12. VersionsImmutable'
  <2>1. Rows' = Rows
    BY <1>4 DEF Rows
  <2>2. ASSUME NEW n \in Rows PROVE stored'[<<n, version[n].filename>>] = stored[<<n, version[n].filename>>]
    BY <1>2, <1>4, <1>5, <1>8
  <2> QED BY <1>4, <2>1, <2>2 DEF VersionsInv, VersionsImmutable, OnlyUploader
<1> QED BY <1>9, <1>10, <1>11, <1>12 DEF VersionsInv

\* The row records the file that the upload stored (VersionCommit).
LEMMA KeepsVersions_VersionCommit ==
    ASSUME VersionsInv, NEW u \in Uploaders, VersionCommit(u)
    PROVE  VersionsInv'
<1> USE VersionsAssumption
<1>1. PICK n, row : n = upload[u].number /\ row = [filename |-> filename[u], sha256 |-> upload[u].sha256]
  OBVIOUS
<1>2. /\ n # 0
      /\ version' = [version EXCEPT ![n] = row]
      /\ upload' = [upload EXCEPT ![u] = NoUpload]
      /\ UNCHANGED <<stored, overlap>>
  BY <1>1 DEF VersionCommit
<1>3. /\ upload \in [Uploaders -> UploadRow] /\ NoUpload \in UploadRow
      /\ version \in [Numbers -> [filename : FileNames \cup {None}, sha256 : Files \cup {None}]]
  BY DEF VersionsInv, VersionsTypeOK, UploadRow, NoUpload
<1>4. upload[u] # NoUpload /\ n \in Numbers
  BY <1>1, <1>2, <1>3 DEF NoUpload, UploadRow
<1>5. row \in [filename : FileNames \cup {None}, sha256 : Files \cup {None}]
  BY <1>1, <1>3 DEF UploadRow
<1>6. \A t \in Uploaders : upload'[t] = IF t = u THEN NoUpload ELSE upload[t]
  BY <1>2, <1>3
<1>7. \A k \in Numbers : version'[k] = IF k = n THEN row ELSE version[k]
  BY <1>2, <1>3
<1>8. VersionsTypeOK'
  BY <1>2, <1>3, <1>4, <1>5 DEF VersionsInv, VersionsTypeOK, UploadRow
<1>9. StoredUploads' /\ OneUpload'
  BY <1>2, <1>6 DEF VersionsInv, StoredUploads, OneUpload, Protected, OnlyUploader
<1>10. VersionsImmutable'
  <2> SUFFICES ASSUME NEW k \in Rows', Protected(version'[k].filename)
               PROVE  stored[<<k, version'[k].filename>>] = version'[k].sha256
    BY <1>2 DEF VersionsImmutable, Protected, OnlyUploader
  <2>1. k \in Numbers /\ version'[k] # NoVersion
    BY DEF Rows
  <2>2. CASE k = n
    BY <1>1, <1>4, <1>7, <2>1, <2>2 DEF VersionsInv, StoredUploads
  <2>3. CASE k # n
    BY <1>7, <2>1, <2>3 DEF VersionsInv, VersionsImmutable, Rows, Protected
  <2> QED BY <2>2, <2>3
<1> QED BY <1>8, <1>9, <1>10 DEF VersionsInv

\* An upload that is refused leaves its file (VersionRefused).
LEMMA KeepsVersions_VersionRefused ==
    ASSUME VersionsInv, NEW u \in Uploaders, VersionRefused(u)
    PROVE  VersionsInv'
<1>1. upload \in [Uploaders -> UploadRow] /\ NoUpload \in UploadRow
  BY DEF VersionsInv, VersionsTypeOK, UploadRow, NoUpload
<1>2. upload' = [upload EXCEPT ![u] = NoUpload] /\ UNCHANGED <<version, stored, overlap>>
  BY DEF VersionRefused
<1>3. \A t \in Uploaders : upload'[t] = IF t = u THEN NoUpload ELSE upload[t]
  BY <1>1, <1>2
<1>4. VersionsTypeOK' /\ VersionsImmutable'
  BY <1>1, <1>2
  DEF VersionsInv, VersionsTypeOK, VersionsImmutable, UploadRow, OnlyUploader, Rows
<1>5. StoredUploads' /\ OneUpload'
  BY <1>2, <1>3 DEF VersionsInv, StoredUploads, OneUpload, Protected, OnlyUploader
<1> QED BY <1>4, <1>5 DEF VersionsInv

\* Every step of the uploads keeps what is known of them.
LEMMA VersionsStep == VersionsInv /\ [VersionsNext]_<<versionsVars, overlap>> => VersionsInv'
<1> SUFFICES ASSUME VersionsInv, [VersionsNext]_<<versionsVars, overlap>> PROVE VersionsInv'
  OBVIOUS
<1>1. CASE UNCHANGED <<versionsVars, overlap>>
  BY <1>1 DEF versionsVars, VersionsInv, VersionsTypeOK, StoredUploads, OneUpload, Protected,
              OnlyUploader, VersionsImmutable, Rows
<1>2. CASE VersionsNext
  BY <1>2, KeepsVersions_AddVersion, KeepsVersions_VersionCommit, KeepsVersions_VersionRefused
     DEF VersionsNext
<1> QED BY <1>1, <1>2

\* Every variable of the versions keeps its type.
THEOREM VersionsTypeCorrect == VersionsSpec => []VersionsTypeOK
  BY VersionsStart, VersionsStep, PTL DEF VersionsSpec, VersionsInv

\* For any number of uploads, names and failures, the file of a version is the one whose
\* sha256 its row has, if its name is not given to another upload that overlaps.
THEOREM VersionsAlwaysImmutable == VersionsSpec => []VersionsImmutable
  BY VersionsStart, VersionsStep, PTL DEF VersionsSpec, VersionsInv

-----------------------------------------------------------------------------
\* What DocuSign's statuses become here (Mapping).
LEMMA MappingValues ==
    /\ DOMAIN Mapping = {"sent", "delivered", "completed", "declined", "voided"}
    /\ \A e \in DOMAIN Mapping : /\ Mapping[e] \in {"sent", "viewed", "completed", "declined", "voided"}
                                 /\ Mapping[e] = "completed" => e = "completed"
<1>1. DOMAIN Mapping = {"sent", "delivered", "completed", "declined", "voided"}
  BY DEF Mapping
<1>2. /\ Mapping["sent"] = "sent" /\ Mapping["delivered"] = "viewed"
      /\ Mapping["completed"] = "completed" /\ Mapping["declined"] = "declined"
      /\ Mapping["voided"] = "voided"
  BY DEF Mapping
<1> QED BY <1>1, <1>2

\* The order of DocuSign's statuses (Rank).
LEMMA RankValues == \A e : Rank(e) \in 0..3 /\ (e \in DOMAIN Mapping => Rank(e) # 0)
                           /\ (e = "created" => Rank(e) = 0)
  BY MappingValues DEF Rank

\* What DocuSign reported has at most the rank of its last report (Reported).
LEMMA ReportedIsLast ==
    ASSUME posted # {}
    PROVE  Reported \in Int /\ \A e \in posted : Rank(e) <= Reported
<1>1. PICK S : S = {Rank(e) : e \in posted}
  OBVIOUS
<1>2. S \in SUBSET (0..3) /\ S # {}
  BY <1>1, RankValues
<1>3. IsFiniteSet(S)
  <2>1. 0 \in Int /\ 3 \in Int
    OBVIOUS
  <2>2. IsFiniteSet(0..3)
    BY <2>1, FS_Interval
  <2> QED BY <1>2, <2>2, FS_Subset
<1>4. S \in SUBSET Int
  BY <1>2
<1>5. Max(S) \in S /\ \A x \in S : x <= Max(S)
  BY <1>2, <1>3, <1>4, Greatest
<1>6. Reported = Max(S)
  BY <1>1 DEF Reported
<1> QED BY <1>1, <1>4, <1>5, <1>6

(* One envelope.  While requests do not overlap, the one that is open has  *)
(* loaded the envelope and its signers as they are.  If DocuSign's         *)
(* deliveries come in order and under ids of their own, the events that    *)
(* were received are the first ones of those that were posted.             *)

EnvelopeRow == [provider : {None, "manual", "docusign"}, status : EnvelopeStatuses \cup {"absent"},
                reference : References]
ClerkRow == [kind : {None, "create", "send", "mark"}, on : Signers \cup {None},
             status : EnvelopeStatuses \cup {"absent", None},
             loaded : EnvelopeStatuses \cup {"absent", None} \cup [Signers -> SignerStatuses]]
HookRow == [event : Events \cup {None}, id : {None} \cup ((Events \cup {"envelope"}) \X {0}),
            loaded : {None} \cup EnvelopeRow]

Orderly == channel = "orderly" /\ eventIds /\ ~overlap
Received(e) == <<e, 0>> \in received

EnvelopesRowsOK ==
    /\ envelope \in EnvelopeRow /\ signer \in [Signers -> SignerStatuses]
    /\ clerk \in [Clerks -> ClerkRow] /\ hook \in [Deliveries -> HookRow]
    /\ posted \subseteq Events /\ applied \in Events \cup {None}

\* What holds of open requests, whatever overlaps.
RequestsMean ==
    /\ \A c \in Clerks : /\ clerk[c].kind = "create" => clerk[c].status \in {"draft", "sent"}
                                                        /\ posted # {}
                         /\ clerk[c].kind = "mark" => clerk[c].on \in Signers
                                                      /\ clerk[c].status \in EnvelopeStatuses \cup {"absent"}
    /\ \A d \in Deliveries : hook[d] # NoDelivery =>
          posted # {} /\ hook[d].event \in posted \cup {None} /\ hook[d].loaded \in EnvelopeRow
    /\ envelope.provider = "manual" => posted = {}

\* Requests that do not overlap are open one at a time, and what they read is so.
OneRequest ==
    /\ \A c \in Clerks : clerk[c] # NoRequest => NoHook /\ \A q \in Clerks \ {c} : clerk[q] = NoRequest
    /\ \A d \in Deliveries : hook[d] # NoDelivery => \A g \in Deliveries \ {d} : hook[g] = NoDelivery
ClerkCurrent(q) ==
    /\ q.kind = "create" => envelope = NoEnvelope
    /\ q.kind = "send" => envelope.status = "draft" /\ q.loaded = signer
    /\ q.kind = "mark" => /\ envelope # NoEnvelope /\ q.loaded = envelope.status
                          /\ q.status = IF NoneRemains(q.on) THEN "completed" ELSE envelope.status
RequestsCurrent ==
    /\ \A c \in Clerks : ClerkCurrent(clerk[c])
    /\ \A d \in Deliveries : hook[d] # NoDelivery => hook[d].loaded = envelope
NothingYet ==
    /\ envelope = NoEnvelope => \A s \in Signers : signer[s] = "pending"
    /\ applied # None => applied \in DOMAIN Mapping /\ envelope.status \notin {"draft", "absent"}
Calm == ~overlap => OneRequest /\ RequestsCurrent /\ NothingYet

\* The status is what DocuSign reported last, as long as nobody was marked by hand.
StatusFollows ==
    ~overlap /\ applied # None /\ (\A s \in Signers : signer[s] # "signed")
        => envelope.status = Mapping[applied]

\* Deliveries in order.
ReceivedFirst ==
    /\ \A x \in received : \E e \in posted : x = <<e, 0>>
    /\ \A e, f \in posted : Rank(e) < Rank(f) /\ Received(f) => Received(e)
\* What was received was applied, if it was found by DocuSign's reference.
FoundIsApplied ==
    /\ envelope = NoEnvelope => received = {}
    /\ envelope.reference = "theirs" => \A e \in posted \ {"created"} : Received(e) => Applied(e)
HookInOrder(h) ==
    /\ h.event \in posted /\ h.id = <<h.event, 0>> /\ h.loaded # NoEnvelope
    /\ \A f \in posted : Rank(f) < Rank(h.event) => Received(f)
InOrderOnly ==
    Orderly => ReceivedFirst /\ FoundIsApplied /\ \A d \in Deliveries : hook[d] # NoDelivery => HookInOrder(hook[d])

EnvelopesInv ==
    /\ EnvelopesRowsOK /\ RequestsMean /\ Calm /\ CompletedWhenSigned /\ StatusFollows /\ InOrderOnly

\* The closed requests and the missing envelope are rows.
LEMMA EmptyRows ==
    /\ NoEnvelope \in EnvelopeRow /\ NoRequest \in ClerkRow /\ NoDelivery \in HookRow
    /\ NoRequest.kind \notin {"create", "send", "mark"}
  BY EnvelopesAssumption DEF NoEnvelope, NoRequest, NoDelivery, EnvelopeRow, References, ClerkRow, HookRow

\* At first there is no envelope (EnvelopesInit).
LEMMA EnvelopesStart == SessionsInit /\ EnvelopesInit => EnvelopesInv
<1> SUFFICES ASSUME SessionsInit, EnvelopesInit PROVE EnvelopesInv
  OBVIOUS
<1>1. EnvelopesRowsOK
  BY EmptyRows DEF EnvelopesInit, EnvelopesRowsOK, SignerStatuses
<1>2. RequestsMean
  BY EmptyRows, EnvelopesAssumption DEF EnvelopesInit, RequestsMean, NoEnvelope
<1>3. Calm /\ StatusFollows
  BY EmptyRows DEF EnvelopesInit, Calm, OneRequest, NoHook, RequestsCurrent, ClerkCurrent, NothingYet,
                   StatusFollows
<1>4. CompletedWhenSigned
  BY EnvelopesAssumption DEF EnvelopesInit, CompletedWhenSigned, NoEnvelope
<1>5. InOrderOnly
  BY DEF EnvelopesInit, InOrderOnly, ReceivedFirst, FoundIsApplied, Received
<1> QED BY <1>1, <1>2, <1>3, <1>4, <1>5 DEF EnvelopesInv

\* What the requests of the office leave of the deliveries.
LEMMA OfficeLeaves ==
    ASSUME EnvelopesInv, UNCHANGED <<providerVars, hookVars, overlap>>, Orderly => FoundIsApplied'
    PROVE  InOrderOnly'
  BY DEF EnvelopesInv, InOrderOnly, Orderly, ReceivedFirst, HookInOrder, Received, providerVars, hookVars

\* A request of the office opens: SendRead, MarkRead.
LEMMA ClerkOpens ==
    ASSUME EnvelopesInv, NEW c \in Clerks, NEW q \in ClerkRow, Turn(c),
           clerk' = [clerk EXCEPT ![c] = q],
           UNCHANGED <<envelope, signer, providerVars, hookVars, overlap>>,
           q.kind \in {"send", "mark"}, ClerkCurrent(q),
           q.kind = "mark" => q.on \in Signers /\ q.status \in EnvelopeStatuses \cup {"absent"}
    PROVE  EnvelopesInv'
<1>1. \A x \in Clerks : clerk'[x] = IF x = c THEN q ELSE clerk[x]
  BY DEF EnvelopesInv, EnvelopesRowsOK
<1>2. UNCHANGED <<envelope, signer, channel, eventIds, posted, hook, received, applied, overlap>>
  BY DEF providerVars, hookVars
<1>3. EnvelopesRowsOK'
  BY <1>2 DEF EnvelopesInv, EnvelopesRowsOK
<1>4. RequestsMean'
  BY <1>1, <1>2 DEF EnvelopesInv, RequestsMean
<1>5. ~overlap => OneRequest'
  BY <1>1, <1>2 DEF OneRequest, Turn, MayOpen, NoHook, EnvelopesInv, EnvelopesRowsOK
<1>6. ~overlap => RequestsCurrent'
  BY <1>1, <1>2 DEF EnvelopesInv, Calm, RequestsCurrent, ClerkCurrent, NoneRemains
<1>7. CompletedWhenSigned' /\ StatusFollows' /\ InOrderOnly' /\ (NothingYet => NothingYet')
  BY <1>2 DEF EnvelopesInv, CompletedWhenSigned, AllSigned, StatusFollows, InOrderOnly, Orderly,
              ReceivedFirst, FoundIsApplied, Applied, HookInOrder, Received, NothingYet
<1> QED BY <1>2, <1>3, <1>4, <1>5, <1>6, <1>7 DEF EnvelopesInv, Calm

\* SendRead and MarkRead.
LEMMA KeepsEnvelope_Reads ==
    ASSUME EnvelopesInv, NEW c \in Clerks, SendRead(c) \/ \E s \in Signers : MarkRead(c, s)
    PROVE  EnvelopesInv'
<1>1. CASE SendRead(c)
  <2>1. PICK q : q = [NoRequest EXCEPT !.kind = "send", !.loaded = signer]
    OBVIOUS
  <2>2. /\ Turn(c) /\ envelope.status = "draft" /\ clerk' = [clerk EXCEPT ![c] = q]
        /\ UNCHANGED <<envelope, signer, providerVars, hookVars, overlap>>
    BY <1>1, <2>1 DEF SendRead
  <2>3. q = [kind |-> "send", on |-> None, status |-> None, loaded |-> signer]
    BY <2>1 DEF NoRequest
  <2>4. q \in ClerkRow /\ q.kind = "send" /\ q.loaded = signer
    BY <2>3 DEF ClerkRow, EnvelopesInv, EnvelopesRowsOK
  <2>5. ClerkCurrent(q)
    BY <2>2, <2>4 DEF ClerkCurrent
  <2> QED BY <2>2, <2>4, <2>5, ClerkOpens
<1>2. ASSUME NEW s \in Signers, MarkRead(c, s) PROVE EnvelopesInv'
  <2>1. PICK q : q = [kind |-> "mark", on |-> s, loaded |-> envelope.status,
                      status |-> IF NoneRemains(s) THEN "completed" ELSE envelope.status]
    OBVIOUS
  <2>2. /\ Turn(c) /\ envelope # NoEnvelope /\ clerk' = [clerk EXCEPT ![c] = q]
        /\ UNCHANGED <<envelope, signer, providerVars, hookVars, overlap>>
    BY <1>2, <2>1 DEF MarkRead
  <2>3. envelope.status \in EnvelopeStatuses \cup {"absent"}
    BY DEF EnvelopesInv, EnvelopesRowsOK, EnvelopeRow
  <2>4. q \in ClerkRow /\ q.kind = "mark" /\ q.on = s
    BY <2>1, <2>3 DEF ClerkRow, EnvelopeStatuses
  <2>5. ClerkCurrent(q) /\ q.status \in EnvelopeStatuses \cup {"absent"}
    BY <2>1, <2>2, <2>3 DEF ClerkCurrent, EnvelopeStatuses
  <2> QED BY <2>2, <2>4, <2>5, ClerkOpens
<1> QED BY <1>1, <1>2

\* A manual envelope is drafted while its signers are all pending (create_envelope).
LEMMA KeepsEnvelope_create_envelope ==
    ASSUME EnvelopesInv, NEW c \in Clerks, create_envelope(c)
    PROVE  EnvelopesInv'
<1>1. /\ envelope = NoEnvelope /\ posted = {} /\ \A q \in Clerks : clerk[q] = NoRequest
      /\ envelope' = [provider |-> "manual", status |-> "draft", reference |-> None]
      /\ UNCHANGED <<signer, clerk, channel, eventIds, posted, hook, received, applied, overlap>>
  BY DEF create_envelope, providerVars, hookVars
<1>2. envelope' \in EnvelopeRow /\ envelope' # NoEnvelope
  BY <1>1 DEF EnvelopeRow, EnvelopeStatuses, References, NoEnvelope
<1>3. \A d \in Deliveries : hook[d] = NoDelivery
  BY <1>1 DEF EnvelopesInv, RequestsMean
<1>4. EnvelopesRowsOK' /\ RequestsMean'
  BY <1>1, <1>2, <1>3 DEF EnvelopesInv, EnvelopesRowsOK, RequestsMean
<1>5. ~overlap => applied = None
  BY <1>1 DEF EnvelopesInv, Calm, NothingYet, NoEnvelope
<1>6. Calm'
  BY <1>1, <1>2, <1>3, <1>5, EmptyRows
  DEF EnvelopesInv, Calm, OneRequest, NoHook, RequestsCurrent, ClerkCurrent, NothingYet
<1>7. CompletedWhenSigned'
  BY <1>1, EnvelopesAssumption DEF EnvelopesInv, Calm, NothingYet, CompletedWhenSigned, AllSigned
<1>8. StatusFollows'
  BY <1>1, <1>5 DEF StatusFollows
<1>9. InOrderOnly'
  BY <1>1, <1>2, <1>3, EnvelopesAssumption
  DEF EnvelopesInv, InOrderOnly, Orderly, ReceivedFirst, FoundIsApplied, Received
<1> QED BY <1>4, <1>6, <1>7, <1>8, <1>9 DEF EnvelopesInv

\* DocuSign has the envelope first (DocusignCreates).
LEMMA KeepsEnvelope_DocusignCreates ==
    ASSUME EnvelopesInv, NEW c \in Clerks, NEW status \in {"draft", "sent"},
           DocusignCreates(c, status)
    PROVE  EnvelopesInv'
<1>1. PICK q : q = [NoRequest EXCEPT !.kind = "create", !.status = status]
  OBVIOUS
<1>2. /\ Turn(c) /\ envelope = NoEnvelope /\ posted = {} /\ posted' # {} /\ posted' \subseteq Events
      /\ clerk' = [clerk EXCEPT ![c] = q]
      /\ UNCHANGED <<envelope, signer, channel, eventIds, hook, received, applied, overlap>>
  BY <1>1, EnvelopesAssumption DEF DocusignCreates, hookVars
<1>3. q = [kind |-> "create", on |-> None, status |-> status, loaded |-> None]
  BY <1>1 DEF NoRequest
<1>4. q \in ClerkRow /\ q.kind = "create" /\ q.status \in {"draft", "sent"}
  BY <1>3 DEF ClerkRow, EnvelopeStatuses
<1>5. \A x \in Clerks : clerk'[x] = IF x = c THEN q ELSE clerk[x]
  BY <1>2 DEF EnvelopesInv, EnvelopesRowsOK
<1>6. \A d \in Deliveries : hook[d] = NoDelivery
  BY <1>2 DEF EnvelopesInv, RequestsMean
<1>7. EnvelopesRowsOK'
  BY <1>2, <1>4 DEF EnvelopesInv, EnvelopesRowsOK
<1>8. RequestsMean'
  BY <1>2, <1>4, <1>5, <1>6, EnvelopesAssumption DEF EnvelopesInv, RequestsMean, NoEnvelope
<1>9. ~overlap => OneRequest'
  BY <1>2, <1>5, <1>6 DEF OneRequest, Turn, MayOpen, NoHook, EnvelopesInv, EnvelopesRowsOK
<1>10. ~overlap => RequestsCurrent'
  BY <1>2, <1>4, <1>5, <1>6 DEF EnvelopesInv, Calm, RequestsCurrent, ClerkCurrent, NoneRemains
<1>11. StatusFollows' /\ (NothingYet => NothingYet')
  BY <1>2 DEF EnvelopesInv, StatusFollows, NothingYet
<1>12. CompletedWhenSigned'
  BY <1>2 DEF EnvelopesInv, CompletedWhenSigned, AllSigned
<1>13. InOrderOnly'
  BY <1>2, <1>6, EnvelopesAssumption
  DEF EnvelopesInv, InOrderOnly, Orderly, ReceivedFirst, FoundIsApplied, NoEnvelope, Received
<1> QED BY <1>2, <1>7, <1>8, <1>9, <1>10, <1>11, <1>12, <1>13 DEF EnvelopesInv, Calm

\* What remains when a request of the office ends: its commit, or its failure.
LEMMA ClerkEnds ==
    ASSUME EnvelopesInv, NEW c \in Clerks, clerk[c] # NoRequest, Answered(c),
           UNCHANGED <<providerVars, hookVars, overlap>>,
           envelope' \in EnvelopeRow, signer' \in [Signers -> SignerStatuses],
           envelope'.provider = "manual" => envelope.provider = "manual",
           ~overlap => NothingYet' /\ StatusFollows', CompletedWhenSigned',
           Orderly => FoundIsApplied'
    PROVE  EnvelopesInv'
<1>1. UNCHANGED <<channel, eventIds, posted, hook, received, applied, overlap>>
  BY DEF providerVars, hookVars
<1>2. clerk' = [clerk EXCEPT ![c] = NoRequest] /\ clerk \in [Clerks -> ClerkRow]
  BY DEF Answered, EnvelopesInv, EnvelopesRowsOK
<1>3. \A x \in Clerks : clerk'[x] = IF x = c THEN NoRequest ELSE clerk[x]
  BY <1>2
<1>4. EnvelopesRowsOK'
  BY <1>1, <1>2, EmptyRows DEF EnvelopesInv, EnvelopesRowsOK
<1>5. RequestsMean'
  BY <1>1, <1>3, EmptyRows DEF EnvelopesInv, RequestsMean
<1>6. ~overlap => /\ \A d \in Deliveries : hook[d] = NoDelivery
                  /\ \A x \in Clerks : clerk'[x] = NoRequest
  BY <1>3 DEF EnvelopesInv, Calm, OneRequest, NoHook
<1>7. ~overlap => OneRequest' /\ RequestsCurrent'
  BY <1>1, <1>6, EmptyRows DEF OneRequest, NoHook, RequestsCurrent, ClerkCurrent
<1>8. InOrderOnly'
  BY OfficeLeaves
<1>9. StatusFollows'
  BY <1>1 DEF StatusFollows
<1> QED BY <1>1, <1>4, <1>5, <1>7, <1>8, <1>9 DEF EnvelopesInv, Calm

\* A request that fails leaves what was there (ClerkFails).
LEMMA KeepsEnvelope_ClerkFails ==
    ASSUME EnvelopesInv, NEW c \in Clerks, ClerkFails(c)
    PROVE  EnvelopesInv'
<1>1. /\ clerk[c] # NoRequest /\ Answered(c)
      /\ UNCHANGED <<envelope, signer, providerVars, hookVars, overlap>>
  BY DEF ClerkFails
<1>2. UNCHANGED <<posted, applied, overlap>>
  BY <1>1 DEF providerVars, hookVars
<1>3. envelope' \in EnvelopeRow /\ signer' \in [Signers -> SignerStatuses]
  BY <1>1 DEF EnvelopesInv, EnvelopesRowsOK
<1>4. (~overlap => NothingYet' /\ StatusFollows') /\ CompletedWhenSigned'
  BY <1>1, <1>2 DEF EnvelopesInv, Calm, NothingYet, StatusFollows, CompletedWhenSigned, AllSigned
<1>5. Orderly => FoundIsApplied'
  BY <1>1 DEF EnvelopesInv, InOrderOnly, FoundIsApplied, Applied, Received, hookVars, providerVars
<1> QED BY <1>1, <1>3, <1>4, <1>5, ClerkEnds

\* The database has DocuSign's envelope, too (DocusignCreateCommit).
LEMMA KeepsEnvelope_DocusignCreateCommit ==
    ASSUME EnvelopesInv, NEW c \in Clerks, DocusignCreateCommit(c)
    PROVE  EnvelopesInv'
<1>1. PICK q : q = clerk[c]
  OBVIOUS
<1>2. /\ q.kind = "create" /\ Answered(c)
      /\ envelope' = [provider |-> "docusign", status |-> q.status, reference |-> "theirs"]
      /\ signer' = [s \in Signers |-> IF q.status = "sent" THEN "sent" ELSE "pending"]
      /\ UNCHANGED <<providerVars, hookVars, overlap>>
  BY <1>1 DEF DocusignCreateCommit
<1>3. UNCHANGED <<posted, applied, overlap>>
  BY <1>2 DEF providerVars, hookVars
<1>4. clerk[c] # NoRequest /\ q.status \in {"draft", "sent"}
  BY <1>1, <1>2, EmptyRows DEF EnvelopesInv, RequestsMean
<1>5. /\ envelope' \in EnvelopeRow /\ envelope' # NoEnvelope
      /\ envelope'.provider # "manual" /\ envelope'.status # "completed"
  BY <1>2, <1>4 DEF EnvelopeRow, EnvelopeStatuses, References, NoEnvelope
<1>6. signer' \in [Signers -> SignerStatuses]
  BY <1>2 DEF SignerStatuses
<1>7. ~overlap => applied = None
  BY <1>1, <1>2 DEF EnvelopesInv, Calm, RequestsCurrent, ClerkCurrent, NothingYet, NoEnvelope
<1>8. ~overlap => NothingYet' /\ StatusFollows'
  BY <1>3, <1>5, <1>7 DEF NothingYet, StatusFollows
<1>9. CompletedWhenSigned'
  BY <1>5 DEF CompletedWhenSigned
<1>10. Orderly => FoundIsApplied'
  <2>1. Orderly => envelope = NoEnvelope /\ received' = {}
    BY <1>1, <1>2 DEF EnvelopesInv, Calm, RequestsCurrent, ClerkCurrent, InOrderOnly, FoundIsApplied,
                      Orderly, hookVars
  <2> QED BY <1>5, <2>1 DEF FoundIsApplied, Received
<1> QED BY <1>2, <1>4, <1>5, <1>6, <1>8, <1>9, <1>10, ClerkEnds

\* Sending a draft takes back the marks of its signers (SendCommit).
LEMMA KeepsEnvelope_SendCommit ==
    ASSUME EnvelopesInv, NEW c \in Clerks, SendCommit(c)
    PROVE  EnvelopesInv'
<1>1. PICK q : q = clerk[c]
  OBVIOUS
<1>2. /\ q.kind = "send" /\ Answered(c)
      /\ envelope' = [envelope EXCEPT !.status = "sent", !.reference = "ours"]
      /\ signer' = [s \in Signers |-> Written("sent", q.loaded[s], signer[s])]
      /\ UNCHANGED <<providerVars, hookVars, overlap>>
  BY <1>1 DEF SendCommit
<1>3. UNCHANGED <<posted, applied, overlap>>
  BY <1>2 DEF providerVars, hookVars
<1>4. clerk[c] # NoRequest /\ envelope \in EnvelopeRow /\ signer \in [Signers -> SignerStatuses]
  BY <1>1, <1>2, EmptyRows DEF EnvelopesInv, EnvelopesRowsOK
<1>5. /\ envelope' \in EnvelopeRow /\ envelope' # NoEnvelope
      /\ envelope'.provider = envelope.provider /\ envelope'.status = "sent"
      /\ envelope'.reference = "ours"
  BY <1>2, <1>4 DEF EnvelopeRow, EnvelopeStatuses, References, NoEnvelope
<1>6. signer' \in [Signers -> SignerStatuses]
  BY <1>2, <1>4 DEF SignerStatuses, Written
<1>7. ~overlap => applied = None /\ \A s \in Signers : signer'[s] = "sent"
  <2>1. ~overlap => q.loaded = signer /\ envelope.status = "draft"
    BY <1>1, <1>2 DEF EnvelopesInv, Calm, RequestsCurrent, ClerkCurrent
  <2> QED BY <1>2, <2>1 DEF EnvelopesInv, Calm, NothingYet, Written
<1>8. ~overlap => NothingYet' /\ StatusFollows'
  BY <1>3, <1>5, <1>7 DEF NothingYet, StatusFollows
<1>9. CompletedWhenSigned'
  BY <1>3, <1>5, <1>7, EnvelopesAssumption DEF CompletedWhenSigned, AllSigned
<1>10. FoundIsApplied'
  BY <1>5 DEF FoundIsApplied
<1> QED BY <1>2, <1>4, <1>5, <1>6, <1>8, <1>9, <1>10, ClerkEnds

\* A mark completes the envelope if it is the last one (MarkCommit).
LEMMA KeepsEnvelope_MarkCommit ==
    ASSUME EnvelopesInv, NEW c \in Clerks, MarkCommit(c)
    PROVE  EnvelopesInv'
<1>1. PICK q, status : q = clerk[c] /\ status = Written(q.status, q.loaded, envelope.status)
  OBVIOUS
<1>2. /\ q.kind = "mark" /\ Answered(c)
      /\ envelope' = [envelope EXCEPT !.status = status]
      /\ signer' = [signer EXCEPT ![q.on] = "signed"]
      /\ UNCHANGED <<providerVars, hookVars, overlap>>
  BY <1>1 DEF MarkCommit
<1>3. UNCHANGED <<posted, applied, overlap>>
  BY <1>2 DEF providerVars, hookVars
<1>4. /\ clerk[c] # NoRequest /\ envelope \in EnvelopeRow /\ signer \in [Signers -> SignerStatuses]
      /\ q.on \in Signers /\ q.status \in EnvelopeStatuses \cup {"absent"}
  BY <1>1, <1>2, EmptyRows DEF EnvelopesInv, EnvelopesRowsOK, RequestsMean
<1>5. status \in EnvelopeStatuses \cup {"absent"}
  BY <1>1, <1>4 DEF Written, EnvelopeRow
<1>6. /\ envelope' \in EnvelopeRow /\ envelope'.provider = envelope.provider
      /\ envelope'.status = status /\ envelope'.reference = envelope.reference
  BY <1>2, <1>4, <1>5 DEF EnvelopeRow
<1>7. /\ signer' \in [Signers -> SignerStatuses] /\ signer'[q.on] = "signed"
      /\ \A s \in Signers : s # q.on => signer'[s] = signer[s]
  BY <1>2, <1>4 DEF SignerStatuses
<1>8. ~overlap => /\ envelope # NoEnvelope
                  /\ status = IF NoneRemains(q.on) THEN "completed" ELSE envelope.status
  BY <1>1, <1>2 DEF EnvelopesInv, Calm, RequestsCurrent, ClerkCurrent, Written
<1>9. NoneRemains(q.on) <=> AllSigned'
  BY <1>4, <1>7 DEF NoneRemains, AllSigned
<1>10. AllSigned => NoneRemains(q.on)
  BY DEF AllSigned, NoneRemains
<1>11. CompletedWhenSigned'
  <2> SUFFICES ASSUME ~overlap
               PROVE  /\ envelope.provider = "manual" => (status = "completed" <=> AllSigned')
                      /\ status = "completed" => AllSigned' \/ "completed" \in posted
    BY <1>3, <1>6 DEF CompletedWhenSigned
  <2>1. /\ envelope.provider = "manual" => (envelope.status = "completed" <=> AllSigned)
        /\ envelope.status = "completed" => AllSigned \/ "completed" \in posted
    BY DEF EnvelopesInv, CompletedWhenSigned
  <2> QED BY <1>8, <1>9, <1>10, <2>1
<1>12. ~overlap => NothingYet' /\ StatusFollows'
  <2>1. ~overlap => envelope' # NoEnvelope
    BY <1>4, <1>6, <1>8 DEF NoEnvelope, EnvelopeRow
  <2>2. ~overlap => NothingYet'
    BY <1>3, <1>6, <1>8, <2>1 DEF EnvelopesInv, Calm, NothingYet
  <2> QED BY <1>4, <1>7, <2>2 DEF StatusFollows
<1>13. Orderly => FoundIsApplied'
  <2>1. Orderly => envelope' # NoEnvelope
    BY <1>4, <1>6, <1>8 DEF NoEnvelope, EnvelopeRow, Orderly
  <2> QED BY <1>2, <1>6, <2>1
          DEF EnvelopesInv, InOrderOnly, FoundIsApplied, Applied, Received, hookVars, providerVars
<1> QED BY <1>2, <1>4, <1>6, <1>7, <1>11, <1>12, <1>13, ClerkEnds

\* DocuSign reports a status after the others (ProviderPosts).
LEMMA KeepsEnvelope_ProviderPosts ==
    ASSUME EnvelopesInv, NEW e \in Events, ProviderPosts(e)
    PROVE  EnvelopesInv'
<1>1. /\ posted # {} /\ Rank(e) > Reported /\ posted' = posted \cup {e}
      /\ UNCHANGED <<envelope, signer, clerk, channel, eventIds, hook, received, applied, overlap>>
  BY DEF ProviderPosts, officeVars, hookVars
<1>2. \A f \in posted : Rank(f) < Rank(e)
  BY <1>1, ReportedIsLast, RankValues
<1>3. EnvelopesRowsOK' /\ RequestsMean'
  BY <1>1 DEF EnvelopesInv, EnvelopesRowsOK, RequestsMean
<1>4. Calm' /\ CompletedWhenSigned' /\ StatusFollows'
  BY <1>1 DEF EnvelopesInv, Calm, OneRequest, NoHook, RequestsCurrent, ClerkCurrent, NoneRemains,
              NothingYet, CompletedWhenSigned, AllSigned, StatusFollows
<1>5. InOrderOnly'
  <2> SUFFICES ASSUME Orderly PROVE InOrderOnly'
    BY <1>1 DEF InOrderOnly, Orderly
  <2>1. /\ ReceivedFirst /\ FoundIsApplied
        /\ \A d \in Deliveries : hook[d] # NoDelivery => HookInOrder(hook[d])
    BY DEF EnvelopesInv, InOrderOnly
  <2>2. e \notin posted /\ ~Received(e)
    <3>1. e \notin posted
      BY <1>2, RankValues
    <3> QED BY <2>1, <3>1 DEF ReceivedFirst, Received
  <2>3. ReceivedFirst'
    <3>1. \A x \in received' : \E f \in posted' : x = <<f, 0>>
      BY <1>1, <2>1 DEF ReceivedFirst
    <3>2. ASSUME NEW g \in posted', NEW f \in posted', Rank(g) < Rank(f), Received(f)
          PROVE  Received(g)
      <4>1. f \in posted
        BY <1>1, <2>2, <3>2
      <4>2. g \in posted
        <5>1. Rank(f) < Rank(e)
          BY <1>2, <4>1
        <5>2. g # e
          BY <3>2, <5>1, RankValues
        <5> QED BY <1>1, <5>2
      <4> QED BY <2>1, <3>2, <4>1, <4>2 DEF ReceivedFirst
    <3> QED BY <1>1, <3>1, <3>2 DEF ReceivedFirst, Received
  <2>5. FoundIsApplied'
    BY <1>1, <2>1, <2>2 DEF FoundIsApplied, Applied, Received
  <2>4. ASSUME NEW d \in Deliveries, hook[d] # NoDelivery
        PROVE  /\ hook[d].event \in posted' /\ hook[d].id = <<hook[d].event, 0>>
               /\ hook[d].loaded # NoEnvelope
               /\ \A f \in posted' : Rank(f) < Rank(hook[d].event) => Received(f)
    <3>1. HookInOrder(hook[d])
      BY <2>1, <2>4
    <3>2. Rank(hook[d].event) < Rank(e)
      BY <1>2, <3>1 DEF HookInOrder
    <3>3. ~(Rank(e) < Rank(hook[d].event))
      BY <3>2, RankValues
    <3> QED BY <1>1, <3>1, <3>3 DEF HookInOrder
  <2> QED BY <1>1, <2>3, <2>4, <2>5 DEF InOrderOnly, HookInOrder, Received
<1> QED BY <1>3, <1>4, <1>5 DEF EnvelopesInv

\* A delivery that is read in order comes after those that were received (WebhookRead).
LEMMA KeepsEnvelope_WebhookRead ==
    ASSUME EnvelopesInv, NEW d \in Deliveries, NEW e \in Events, NEW attempt,
           NEW valid \in BOOLEAN, WebhookRead(d, e, attempt, valid)
    PROVE  EnvelopesInv'
<1>1. PICK h : h = [event |-> IF valid THEN e ELSE None, id |-> external_id(e, attempt),
                    loaded |-> envelope]
  OBVIOUS
<1>2. /\ MayOpen(hook, NoDelivery, d) /\ (overlap \/ \A c \in Clerks : clerk[c] = NoRequest)
      /\ e \in posted /\ (channel = "orderly" => InOrder(e) /\ valid)
      /\ hook' = [hook EXCEPT ![d] = h]
      /\ UNCHANGED <<envelope, signer, clerk, channel, eventIds, posted, received, applied, overlap>>
  BY <1>1 DEF WebhookRead, officeVars, providerVars
<1>3. h \in HookRow /\ h.event \in {e, None} /\ h.loaded = envelope /\ envelope \in EnvelopeRow
  <2>1. external_id(e, attempt) \in (Events \cup {"envelope"}) \X {0}
    BY DEF external_id
  <2>2. envelope \in EnvelopeRow
    BY DEF EnvelopesInv, EnvelopesRowsOK
  <2> QED BY <1>1, <2>1, <2>2 DEF HookRow
<1>4. \A g \in Deliveries : hook'[g] = IF g = d THEN h ELSE hook[g]
  BY <1>2 DEF EnvelopesInv, EnvelopesRowsOK
<1>5. EnvelopesRowsOK'
  BY <1>2, <1>3 DEF EnvelopesInv, EnvelopesRowsOK
<1>6. RequestsMean'
  BY <1>2, <1>3, <1>4 DEF EnvelopesInv, RequestsMean
<1>7. ~overlap => OneRequest'
  <2>1. ~overlap => \A g \in Deliveries : hook[g] = NoDelivery
    BY <1>2 DEF MayOpen, EnvelopesInv, EnvelopesRowsOK
  <2> QED BY <1>2, <1>4, <2>1 DEF OneRequest, NoHook
<1>8. ~overlap => RequestsCurrent' /\ NothingYet'
  BY <1>2, <1>3, <1>4
  DEF EnvelopesInv, Calm, RequestsCurrent, ClerkCurrent, NoneRemains, NothingYet
<1>9. CompletedWhenSigned' /\ StatusFollows'
  BY <1>2 DEF EnvelopesInv, CompletedWhenSigned, AllSigned, StatusFollows
<1>10. InOrderOnly'
  <2> SUFFICES ASSUME Orderly
               PROVE  /\ ReceivedFirst' /\ FoundIsApplied'
                      /\ \A g \in Deliveries : hook'[g] # NoDelivery => HookInOrder(hook[g])'
    BY <1>2 DEF InOrderOnly, Orderly
  <2>1. ReceivedFirst /\ FoundIsApplied /\ \A g \in Deliveries : hook[g] # NoDelivery => HookInOrder(hook[g])
    BY DEF EnvelopesInv, InOrderOnly
  <2>2. ReceivedFirst' /\ FoundIsApplied'
    BY <1>2, <2>1 DEF ReceivedFirst, FoundIsApplied, Applied, Received
  <2>3. h.event = e /\ h.id = <<e, 0>> /\ h.loaded # NoEnvelope
    BY <1>1, <1>2 DEF Orderly, InOrder, external_id
  <2>4. \A f \in posted : Rank(f) < Rank(e) => Received(f)
    BY <1>2 DEF Orderly, InOrder, external_id, Received
  <2>5. ASSUME NEW g \in Deliveries, hook'[g] # NoDelivery PROVE HookInOrder(hook[g])'
    BY <1>2, <1>4, <2>1, <2>3, <2>4, <2>5 DEF HookInOrder, Received
  <2> QED BY <2>2, <2>5
<1> QED BY <1>2, <1>5, <1>6, <1>7, <1>8, <1>9, <1>10 DEF EnvelopesInv, Calm

\* A delivery that was received meanwhile changes nothing (WebhookRefused).
LEMMA KeepsEnvelope_WebhookRefused ==
    ASSUME EnvelopesInv, NEW d \in Deliveries, WebhookRefused(d)
    PROVE  EnvelopesInv'
<1>1. /\ hook' = [hook EXCEPT ![d] = NoDelivery]
      /\ UNCHANGED <<envelope, signer, clerk, channel, eventIds, posted, received, applied, overlap>>
  BY DEF WebhookRefused, officeVars, providerVars
<1>2. \A g \in Deliveries : hook'[g] = IF g = d THEN NoDelivery ELSE hook[g]
  BY <1>1 DEF EnvelopesInv, EnvelopesRowsOK
<1>3. EnvelopesRowsOK' /\ RequestsMean'
  BY <1>1, <1>2, EmptyRows DEF EnvelopesInv, EnvelopesRowsOK, RequestsMean
<1>4. Calm' /\ CompletedWhenSigned' /\ StatusFollows'
  BY <1>1, <1>2 DEF EnvelopesInv, Calm, OneRequest, NoHook, RequestsCurrent, ClerkCurrent, NoneRemains,
              NothingYet, CompletedWhenSigned, AllSigned, StatusFollows
<1>5. InOrderOnly'
  BY <1>1, <1>2
  DEF EnvelopesInv, InOrderOnly, Orderly, ReceivedFirst, FoundIsApplied, Applied, HookInOrder, Received
<1> QED BY <1>3, <1>4, <1>5 DEF EnvelopesInv

\* A delivery is applied to the envelope that it loaded (WebhookCommit).
LEMMA KeepsEnvelope_WebhookCommit ==
    ASSUME EnvelopesInv, NEW d \in Deliveries, WebhookCommit(d)
    PROVE  EnvelopesInv'
<1>1. PICK h, status : h = hook[d] /\ status = Written(Mapping[h.event], h.loaded.status, envelope.status)
  OBVIOUS
<1>2. /\ h # NoDelivery /\ h.id \notin received /\ received' = received \cup {h.id}
      /\ envelope' = IF Applies(d) THEN [envelope EXCEPT !.status = status] ELSE envelope
      /\ applied' = IF Applies(d) THEN h.event ELSE applied
      /\ hook' = [hook EXCEPT ![d] = NoDelivery]
      /\ UNCHANGED <<signer, clerk, channel, eventIds, posted, overlap>>
  BY <1>1 DEF WebhookCommit, providerVars
<1>3. /\ envelope \in EnvelopeRow /\ hook \in [Deliveries -> HookRow] /\ posted \subseteq Events
      /\ posted # {} /\ h.event \in posted \cup {None} /\ h.loaded \in EnvelopeRow
      /\ envelope.provider # "manual"
  BY <1>1, <1>2 DEF EnvelopesInv, EnvelopesRowsOK, RequestsMean
<1>4. Applies(d) <=> h.event \in DOMAIN Mapping /\ h.loaded.reference = "theirs"
  BY <1>1 DEF Applies
<1>5. Applies(d) => /\ h.event \in posted /\ status \in EnvelopeStatuses \cup {"absent"}
                    /\ envelope' \in EnvelopeRow /\ envelope'.provider = envelope.provider
                    /\ envelope'.status = status
  <2>1. Applies(d) => h.event \in posted
    BY <1>3, <1>4, EnvelopesAssumption
  <2>2. Applies(d) => status \in EnvelopeStatuses \cup {"absent"}
    BY <1>1, <1>3, <1>4, MappingValues DEF Written, EnvelopeRow, EnvelopeStatuses
  <2>3. ASSUME Applies(d)
        PROVE  /\ envelope' \in EnvelopeRow /\ envelope'.provider = envelope.provider
               /\ envelope'.status = status
    BY <1>2, <1>3, <2>2, <2>3 DEF EnvelopeRow
  <2> QED BY <2>1, <2>2, <2>3
<1>6. \A g \in Deliveries : hook'[g] = IF g = d THEN NoDelivery ELSE hook[g]
  BY <1>2, <1>3
<1>7. ~overlap => h.loaded = envelope /\ (Applies(d) => status = Mapping[h.event])
  BY <1>1, <1>2 DEF EnvelopesInv, Calm, RequestsCurrent, Written
<1>8. EnvelopesRowsOK'
  BY <1>2, <1>3, <1>5, EmptyRows DEF EnvelopesInv, EnvelopesRowsOK
<1>9. RequestsMean'
  BY <1>2, <1>3, <1>5, <1>6 DEF EnvelopesInv, RequestsMean
<1>10. ~overlap => /\ \A c \in Clerks : clerk[c] = NoRequest
                   /\ \A g \in Deliveries : hook'[g] = NoDelivery
  BY <1>1, <1>2, <1>6 DEF EnvelopesInv, Calm, OneRequest, NoHook
<1>11. ~overlap => OneRequest' /\ RequestsCurrent'
  BY <1>2, <1>10, EmptyRows DEF OneRequest, NoHook, RequestsCurrent, ClerkCurrent
<1>12. ~overlap => NothingYet'
  <2>1. ASSUME ~overlap, Applies(d)
        PROVE  /\ applied' = h.event /\ h.event \in DOMAIN Mapping
               /\ envelope'.status \notin {"draft", "absent"} /\ envelope' # NoEnvelope
    BY <1>2, <1>4, <1>5, <1>7, <2>1, MappingValues DEF NoEnvelope
  <2> QED BY <1>2, <2>1 DEF EnvelopesInv, Calm, NothingYet
<1>13. CompletedWhenSigned'
  <2> SUFFICES ASSUME ~overlap, envelope'.status = "completed"
               PROVE  AllSigned \/ "completed" \in posted
    BY <1>2, <1>3, <1>5 DEF CompletedWhenSigned, AllSigned
  <2>1. CASE Applies(d)
    BY <1>4, <1>5, <1>7, <2>1, MappingValues
  <2>2. CASE ~Applies(d)
    BY <1>2, <2>2 DEF EnvelopesInv, CompletedWhenSigned
  <2> QED BY <2>1, <2>2
<1>14. StatusFollows'
  <2>1. CASE Applies(d)
    BY <1>2, <1>5, <1>7, <2>1 DEF StatusFollows
  <2>2. CASE ~Applies(d)
    BY <1>2, <2>2 DEF EnvelopesInv, StatusFollows
  <2> QED BY <2>1, <2>2
<1>15. ASSUME Orderly
       PROVE  ReceivedFirst' /\ FoundIsApplied' /\ \A g \in Deliveries : hook'[g] = NoDelivery
  <2>1. PICK e : e = h.event
    OBVIOUS
  <2>2. /\ ReceivedFirst /\ FoundIsApplied /\ e \in posted /\ h.id = <<e, 0>> /\ h.loaded # NoEnvelope /\ ~Received(e)
        /\ \A f \in posted : Rank(f) < Rank(e) => Received(f)
    BY <1>1, <1>2, <1>15, <2>1 DEF EnvelopesInv, InOrderOnly, HookInOrder, Received
  <2>3. \A f \in posted : Received(f) => Rank(f) <= Rank(e)
    BY <2>2, RankValues DEF ReceivedFirst
  <2>4. \A f : Received(f)' <=> Received(f) \/ f = e
    BY <1>2, <2>2 DEF Received
  <2>5. \A x \in received' : \E f \in posted : x = <<f, 0>>
    BY <1>2, <2>2 DEF ReceivedFirst
  <2>6. \A g, f \in posted : Rank(g) < Rank(f) /\ Received(f)' => Received(g)'
    BY <2>2, <2>4 DEF ReceivedFirst
  <2>7. h.loaded = envelope /\ envelope # NoEnvelope /\ envelope'.reference = envelope.reference
    BY <1>2, <1>3, <1>7, <1>15, <2>2 DEF Orderly, EnvelopeRow
  <2>8. ASSUME envelope.reference = "theirs", NEW f \in posted \ {"created"}, Received(f)'
        PROVE  Applied(f)'
    <3>1. CASE Applies(d)
      <4>1. applied' = e /\ e # None
        BY <1>2, <1>3, <2>1, <2>2, <3>1, EnvelopesAssumption
      <4>2. Rank(f) <= Rank(e)
        <5>1. CASE f = e
          BY <5>1, RankValues
        <5>2. CASE f # e
          BY <2>3, <2>4, <2>8, <5>2
        <5> QED BY <5>1, <5>2
      <4> QED BY <4>1, <4>2 DEF Applied
    <3>2. CASE ~Applies(d)
      <4>1. e = "created"
        BY <1>4, <2>1, <2>2, <2>7, <2>8, <3>2, <1>3, EnvelopesAssumption
      <4> QED BY <1>2, <2>2, <2>4, <2>8, <3>2, <4>1 DEF FoundIsApplied, Applied
    <3> QED BY <3>1, <3>2
  <2>9. envelope' # NoEnvelope
    <3>1. CASE Applies(d)
      BY <1>4, <2>7, <3>1, EnvelopesAssumption DEF NoEnvelope
    <3>2. CASE ~Applies(d)
      BY <1>2, <2>7, <3>2
    <3> QED BY <3>1, <3>2
  <2>10. FoundIsApplied'
    BY <1>2, <2>7, <2>8, <2>9 DEF FoundIsApplied
  <2>11. ReceivedFirst'
    BY <1>2, <2>5, <2>6 DEF ReceivedFirst, Received
  <2> QED BY <1>10, <1>15, <2>10, <2>11 DEF Orderly
<1>16. InOrderOnly'
  BY <1>2, <1>15 DEF InOrderOnly, Orderly
<1> QED BY <1>2, <1>8, <1>9, <1>11, <1>12, <1>13, <1>14, <1>16 DEF EnvelopesInv, Calm

\* Every step of an envelope keeps what is known of it.
LEMMA EnvelopesStep == EnvelopesInv /\ [EnvelopesNext]_<<envelopesVars, overlap>> => EnvelopesInv'
<1> SUFFICES ASSUME EnvelopesInv, [EnvelopesNext]_<<envelopesVars, overlap>> PROVE EnvelopesInv'
  OBVIOUS
<1>1. CASE UNCHANGED <<envelopesVars, overlap>>
  <2>1. UNCHANGED <<envelope, signer, clerk, channel, eventIds, posted, hook, received, applied, overlap>>
    BY <1>1 DEF envelopesVars
  <2>2. EnvelopesRowsOK' /\ RequestsMean'
    BY <2>1 DEF EnvelopesInv, EnvelopesRowsOK, RequestsMean
  <2>3. Calm' /\ CompletedWhenSigned' /\ StatusFollows'
    BY <2>1 DEF EnvelopesInv, Calm, OneRequest, NoHook, RequestsCurrent, ClerkCurrent, NoneRemains,
                NothingYet, CompletedWhenSigned, AllSigned, StatusFollows
  <2>4. InOrderOnly'
    BY <2>1 DEF EnvelopesInv, InOrderOnly, Orderly, ReceivedFirst, FoundIsApplied, Applied, HookInOrder,
                Received
  <2> QED BY <2>2, <2>3, <2>4 DEF EnvelopesInv
<1>2. CASE EnvelopesNext
  BY <1>2, KeepsEnvelope_create_envelope, KeepsEnvelope_DocusignCreates,
     KeepsEnvelope_DocusignCreateCommit, KeepsEnvelope_Reads, KeepsEnvelope_SendCommit,
     KeepsEnvelope_ClerkFails, KeepsEnvelope_MarkCommit, KeepsEnvelope_ProviderPosts,
     KeepsEnvelope_WebhookRead, KeepsEnvelope_WebhookRefused, KeepsEnvelope_WebhookCommit
     DEF EnvelopesNext
<1> QED BY <1>1, <1>2

\* Every variable of the envelope keeps its type.
THEOREM EnvelopesTypeCorrect == EnvelopesSpec => []EnvelopesTypeOK
<1>1. EnvelopesInv => EnvelopesTypeOK
  BY DEF EnvelopesInv, EnvelopesRowsOK, EnvelopesTypeOK, EnvelopeRow, ClerkRow, HookRow
<1> QED BY <1>1, EnvelopesStart, EnvelopesStep, PTL DEF EnvelopesSpec

\* For any signers, requests and deliveries that do not overlap, a manual envelope is
\* completed exactly when all have signed, and one of DocuSign only then or if DocuSign
\* said so.
THEOREM AlwaysCompletedWhenSigned == EnvelopesSpec => []CompletedWhenSigned
  BY EnvelopesStart, EnvelopesStep, PTL DEF EnvelopesSpec, EnvelopesInv

\* For any number of redeliveries, deliveries in order with ids of their own leave an
\* envelope that keeps DocuSign's reference at the last status that was received.
THEOREM AlwaysFollowsProvider == EnvelopesSpec => []FollowsProvider
<1>1. EnvelopesInv => FollowsProvider
  BY DEF EnvelopesInv, FollowsProvider, Ordinary, ReceivedApplied, StatusFollows, InOrderOnly, Orderly,
         FoundIsApplied, Received, external_id
<1> QED BY <1>1, EnvelopesStart, EnvelopesStep, PTL DEF EnvelopesSpec

-----------------------------------------------------------------------------
(* An asset of the firm's knowledge.  The versions have no gaps, and a     *)
(* number that an edit read is at most one more than the last; so an edit  *)
(* whose number is still free adds the newest version, and with it the     *)
(* hash that it writes into the asset, whatever others wrote meanwhile.    *)

Assets == [status : AssetStatuses, title : Bodies, body : Bodies, hash : Hashes]
ReviewRow == [step : {"idle", "edit", "numbered", "status"}, loaded : AssetRows, new : AssetRows,
              number : Revisions \cup {0}]
Editing(q) == q.step \in {"edit", "numbered"}

NoGaps == \A k, n \in Revisions : k < n /\ revision[n] # None => revision[k] # None
NewestIsHash == \A n \in Revisions : Newest(n) => asset.hash = revision[n]
EmptyHistory == asset = NoAsset => /\ \A n \in Revisions : revision[n] = None
                            /\ \A r \in Readers : review[r] = NoReview

\* What is known of an open request: an edit changes the hash to that of what it
\* wrote, the other requests change the status alone.
Asks(q) ==
    /\ q.step # "idle" /\ q.loaded \in Assets /\ q.new \in Assets
    /\ Editing(q) => /\ q.new.hash # q.loaded.hash
                     /\ q.new.hash = content_hash(q.new.title, q.new.body)
    /\ q.step = "status" => q.new = [q.loaded EXCEPT !.status = q.new.status]
    /\ q.step = "numbered" => q.number \in Revisions
                                /\ \A k \in Revisions : k < q.number => revision[k] # None

\* What is known while requests do not overlap: the open one has loaded the asset as
\* it still is, and an edit takes the approval back.
IsLooked == asset # NoAsset => /\ asset.hash = content_hash(asset.title, asset.body)
                               /\ asset.status = "approved" => approved = asset.hash
Solo(q) == q.loaded = asset /\ (Editing(q) => q.new.status # "approved")

Asked == \A r \in Readers : review[r] # NoReview => Asks(review[r])
ReviewAlone == \A r \in Readers : review[r] # NoReview =>
            Solo(review[r]) /\ \A s \in Readers \ {r} : review[s] = NoReview

KnowledgeInv ==
    /\ KnowledgeTypeOK
    /\ NoGaps /\ NewestIsHash /\ EmptyHistory /\ Asked
    /\ ~overlap => IsLooked /\ ReviewAlone

\* There is no asset at first (KnowledgeInit).
LEMMA KnowledgeStart == SessionsInit /\ KnowledgeInit => KnowledgeInv
  BY KnowledgeAssumption
  DEF KnowledgeInit, KnowledgeInv, KnowledgeTypeOK, AssetRows, NoReview, NoGaps, NewestIsHash,
      Newest, EmptyHistory, Asked, IsLooked, ReviewAlone, Revisions

\* The first version (create_asset).
LEMMA KeepsAsset_create_asset ==
    ASSUME KnowledgeInv, NEW title \in Bodies, NEW body \in Bodies, create_asset(title, body)
    PROVE  KnowledgeInv'
<1> USE KnowledgeAssumption
<1>1. PICK hash : hash = content_hash(title, body)
  OBVIOUS
<1>2. /\ asset = NoAsset /\ UNCHANGED <<approved, review, overlap>>
      /\ asset' = [status |-> "draft", title |-> title, body |-> body, hash |-> hash]
      /\ revision' = [revision EXCEPT ![1] = hash]
  BY <1>1 DEF create_asset
<1>3. hash \in Hashes /\ hash # None
  BY <1>1 DEF content_hash, Hashes
<1>4. 1 \in Revisions /\ asset' \in Assets
  BY <1>2, <1>3 DEF Revisions, Assets, AssetStatuses
<1>5. /\ \A r \in Readers : review[r] = NoReview
      /\ revision'[1] = hash /\ \A n \in Revisions : n # 1 => revision'[n] = None
      /\ revision' \in [Revisions -> Hashes \cup {None}]
  BY <1>2, <1>3, <1>4 DEF KnowledgeInv, EmptyHistory, KnowledgeTypeOK
<1>6. KnowledgeTypeOK'
  BY <1>2, <1>4, <1>5 DEF KnowledgeInv, KnowledgeTypeOK, AssetRows, Assets
<1>7. NoGaps' /\ NewestIsHash' /\ EmptyHistory'
  BY <1>2, <1>3, <1>4, <1>5 DEF NoGaps, NewestIsHash, Newest, EmptyHistory, Revisions, NoAsset
<1>8. IsLooked'
  BY <1>1, <1>2 DEF IsLooked
<1>9. Asked' /\ ReviewAlone'
  BY <1>2, <1>5 DEF Asked, ReviewAlone
<1> QED BY <1>2, <1>6, <1>7, <1>8, <1>9 DEF KnowledgeInv

\* What a request asks for when it opens.
ReviewOpens(step, new) ==
    \/ step = "edit" /\ new.hash # asset.hash /\ new.status # "approved"
                     /\ new.hash = content_hash(new.title, new.body)
    \/ step = "status" /\ new = [asset EXCEPT !.status = new.status]

\* A request opens (Loads).
LEMMA RequestOpens ==
    ASSUME KnowledgeInv, NEW r \in Readers, NEW step, NEW new \in Assets, Loads(r, step, new),
           ReviewOpens(step, new)
    PROVE  KnowledgeInv'
<1>0. PICK q : q = [step |-> step, loaded |-> asset, new |-> new, number |-> 0]
  OBVIOUS
<1>1. /\ MayOpen(review, NoReview, r) /\ asset # NoAsset
      /\ review' = [review EXCEPT ![r] = q]
      /\ UNCHANGED <<asset, revision, approved, overlap>>
  BY <1>0 DEF Loads
<1>2. asset \in Assets /\ review \in [Readers -> ReviewRow]
  BY <1>1 DEF KnowledgeInv, KnowledgeTypeOK, AssetRows, Assets, ReviewRow
<1>3. q \in ReviewRow
  BY <1>0, <1>2 DEF ReviewRow, AssetRows, Assets, ReviewOpens
<1>4. Asks(q)
  BY <1>0, <1>2 DEF Asks, Editing, ReviewOpens
<1>5. Solo(q)
  BY <1>0 DEF Solo, Editing, ReviewOpens
<1>6. \A s \in Readers : review'[s] = IF s = r THEN q ELSE review[s]
  BY <1>1, <1>2
<1>7. KnowledgeTypeOK'
  BY <1>1, <1>2, <1>3 DEF KnowledgeInv, KnowledgeTypeOK, ReviewRow
<1>8. NoGaps' /\ NewestIsHash' /\ EmptyHistory' /\ (IsLooked => IsLooked')
  BY <1>1 DEF KnowledgeInv, NoGaps, NewestIsHash, Newest, EmptyHistory, IsLooked
<1>9. Asked'
  BY <1>1, <1>4, <1>6 DEF KnowledgeInv, Asked, Asks, Editing
<1>10. ~overlap => ReviewAlone'
  <2>1. ~overlap => \A s \in Readers \ {r} : review'[s] = NoReview
    BY <1>1, <1>2, <1>6 DEF MayOpen
  <2> QED BY <1>1, <1>5, <1>6, <2>1 DEF ReviewAlone, Solo, Editing
<1> QED BY <1>1, <1>6, <1>7, <1>8, <1>9, <1>10 DEF KnowledgeInv

\* Both reads open a request (EditRead, StatusRead).
LEMMA KeepsAsset_Reads ==
    ASSUME KnowledgeInv, NEW r \in Readers,
           \/ \E title, body \in Bodies : EditRead(r, title, body)
           \/ \E status \in AssetStatuses \ {"draft"} : StatusRead(r, status)
    PROVE  KnowledgeInv'
<1>1. asset # NoAsset => asset \in Assets
  BY DEF KnowledgeInv, KnowledgeTypeOK, AssetRows, Assets
<1>2. ASSUME NEW title \in Bodies, NEW body \in Bodies, EditRead(r, title, body)
      PROVE  KnowledgeInv'
  <2>1. PICK new : new = [status |-> AfterEdit(asset.status), title |-> title, body |-> body,
                          hash |-> content_hash(title, body)]
    OBVIOUS
  <2>2. Loads(r, "edit", new) /\ new.hash # asset.hash
    BY <1>2, <2>1 DEF EditRead
  <2>3. new \in Assets /\ new.status # "approved"
    BY <1>1, <2>1, <2>2 DEF Loads, Assets, AfterEdit, AssetStatuses, content_hash, Hashes
  <2>4. ReviewOpens("edit", new)
    BY <2>1, <2>2, <2>3 DEF ReviewOpens
  <2> QED BY <2>2, <2>3, <2>4, RequestOpens
<1>3. ASSUME NEW status \in AssetStatuses \ {"draft"}, StatusRead(r, status) PROVE KnowledgeInv'
  <2>1. PICK new : new = [asset EXCEPT !.status = status]
    OBVIOUS
  <2>2. Loads(r, "status", new)
    BY <1>3, <2>1 DEF StatusRead
  <2>3. new \in Assets /\ ReviewOpens("status", new)
    BY <1>1, <2>1, <2>2 DEF Loads, Assets, ReviewOpens
  <2> QED BY <2>2, <2>3, RequestOpens
<1> QED BY <1>2, <1>3

\* What remains when a request goes on or ends and only its own row changes.
LEMMA RequestGoesOn ==
    ASSUME KnowledgeInv, NEW r \in Readers, review[r] # NoReview, NEW q \in ReviewRow,
           review' = [review EXCEPT ![r] = q], UNCHANGED <<asset, revision, approved, overlap>>,
           q = NoReview \/ (Asks(q) /\ (Solo(review[r]) => Solo(q)))
    PROVE  KnowledgeInv'
<1>1. \A s \in Readers : review'[s] = IF s = r THEN q ELSE review[s]
  BY DEF KnowledgeInv, KnowledgeTypeOK
<1>2. KnowledgeTypeOK'
  BY DEF KnowledgeInv, KnowledgeTypeOK, ReviewRow
<1>3. NoGaps' /\ NewestIsHash' /\ EmptyHistory' /\ (IsLooked => IsLooked')
  BY DEF KnowledgeInv, NoGaps, NewestIsHash, Newest, EmptyHistory, IsLooked
<1>4. Asked'
  BY <1>1 DEF KnowledgeInv, Asked, Asks, Editing
<1>5. ReviewAlone => ReviewAlone'
  BY <1>1 DEF ReviewAlone, Solo, Editing
<1> QED BY <1>2, <1>3, <1>4, <1>5 DEF KnowledgeInv

\* The number of an edit leaves no gap below it (EditNumber), and a request that fails
\* leaves nothing (RequestFails).
LEMMA KeepsAsset_NumberFails ==
    ASSUME KnowledgeInv, NEW r \in Readers, EditNumber(r) \/ RequestFails(r)
    PROVE  KnowledgeInv'
<1>1. review \in [Readers -> ReviewRow] /\ NoReview \in ReviewRow
  BY DEF KnowledgeInv, KnowledgeTypeOK, ReviewRow, NoReview, AssetRows
<1>2. CASE EditNumber(r)
  <2>1. PICK n \in Revisions :
            /\ \A k \in Revisions : revision[k] = None <=> k >= n
            /\ review' = [review EXCEPT ![r].step = "numbered", ![r].number = n]
            /\ UNCHANGED <<asset, revision, approved, overlap>>
    BY <1>2 DEF EditNumber
  <2>2. review[r].step = "edit" /\ review[r] # NoReview /\ Asks(review[r])
    BY <1>2 DEF EditNumber, NoReview, KnowledgeInv, Asked
  <2>3. PICK q : q = [review[r] EXCEPT !.step = "numbered", !.number = n]
    OBVIOUS
  <2>4. q \in ReviewRow /\ review' = [review EXCEPT ![r] = q]
    BY <1>1, <2>1, <2>3 DEF ReviewRow
  <2>5. /\ q.step = "numbered" /\ q.number = n
        /\ q.loaded = review[r].loaded /\ q.new = review[r].new
    BY <1>1, <2>3 DEF ReviewRow
  <2>6. \A k \in Revisions : k < n => revision[k] # None
    BY <2>1 DEF Revisions
  <2>7. Asks(q)
    BY <2>2, <2>5, <2>6 DEF Asks, Editing
  <2>8. Solo(review[r]) => Solo(q)
    BY <2>2, <2>5 DEF Solo, Editing
  <2>9. q = NoReview \/ (Asks(q) /\ (Solo(review[r]) => Solo(q)))
    BY <2>7, <2>8
  <2> QED BY <2>1, <2>2, <2>4, <2>9, RequestGoesOn
<1>3. CASE RequestFails(r)
  <2>1. PICK q : q = NoReview
    OBVIOUS
  <2>2. review[r] # NoReview
    BY <1>3 DEF RequestFails
  <2>3. review' = [review EXCEPT ![r] = q] /\ UNCHANGED <<asset, revision, approved, overlap>>
    BY <1>3, <2>1 DEF RequestFails
  <2>4. q = NoReview \/ (Asks(q) /\ (Solo(review[r]) => Solo(q)))
    BY <2>1
  <2>5. q \in ReviewRow
    BY <1>1, <2>1
  <2> QED BY <2>2, <2>3, <2>4, <2>5, RequestGoesOn
<1> QED BY <1>2, <1>3

\* The columns that a request leaves (Merged): the ones that it changed are its own.
LEMMA MergedRow ==
    ASSUME asset \in Assets, NEW loaded \in Assets, NEW new \in Assets
    PROVE  /\ Merged(loaded, new) \in Assets
           /\ Merged(loaded, new).hash = IF new.hash = loaded.hash THEN asset.hash ELSE new.hash
           /\ loaded = asset => Merged(loaded, new) = new
  BY DEF Merged, Assets, Written

\* An edit whose number is free adds the newest version, with the hash that the asset
\* has from then on (EditCommit).
LEMMA KeepsAsset_EditCommit ==
    ASSUME KnowledgeInv, NEW r \in Readers, EditCommit(r)
    PROVE  KnowledgeInv'
<1>0. PICK q : q = review[r]
  OBVIOUS
<1>1. /\ q.step = "numbered" /\ revision[q.number] = None
      /\ asset' = Merged(q.loaded, q.new)
      /\ revision' = [revision EXCEPT ![q.number] = q.new.hash]
      /\ review' = [review EXCEPT ![r] = NoReview]
      /\ UNCHANGED <<approved, overlap>>
  BY <1>0 DEF EditCommit
<1>2. q # NoReview /\ Asks(q) /\ Editing(q)
  BY <1>0, <1>1 DEF NoReview, KnowledgeInv, Asked, Editing
<1>3. /\ review \in [Readers -> ReviewRow] /\ revision \in [Revisions -> Hashes \cup {None}]
      /\ NoReview \in ReviewRow /\ approved \in Hashes \cup {None}
  BY DEF KnowledgeInv, KnowledgeTypeOK, ReviewRow, NoReview, AssetRows
<1>4. asset \in Assets
  BY <1>0, <1>2 DEF KnowledgeInv, KnowledgeTypeOK, AssetRows, Assets, EmptyHistory
<1>5. /\ q.number \in Revisions /\ q.new \in Assets /\ q.loaded \in Assets
      /\ \A k \in Revisions : k < q.number => revision[k] # None
  BY <1>1, <1>2 DEF Asks
<1>6. asset' \in Assets /\ asset'.hash = q.new.hash /\ (q.loaded = asset => asset' = q.new)
  BY <1>1, <1>2, <1>4, <1>5, MergedRow DEF Asks
<1>7. q.new.hash \in Hashes /\ q.new.hash # None
  BY <1>5, KnowledgeAssumption DEF Assets, Hashes
<1>8. \A k \in Revisions : /\ revision'[k] = IF k = q.number THEN q.new.hash ELSE revision[k]
                           /\ revision'[k] = None <=> k > q.number
  <2>1. ASSUME NEW k \in Revisions
        PROVE  revision'[k] = IF k = q.number THEN q.new.hash ELSE revision[k]
    BY <1>1, <1>3, <1>5
  <2>2. ASSUME NEW k \in Revisions, k > q.number PROVE revision[k] = None
    BY <1>1, <1>5, <2>2 DEF KnowledgeInv, NoGaps
  <2> QED BY <1>5, <1>7, <2>1, <2>2 DEF Revisions
<1>9. NoGaps' /\ NewestIsHash'
  BY <1>5, <1>6, <1>8 DEF NoGaps, NewestIsHash, Newest, Revisions
<1>10. /\ asset' # NoAsset /\ revision' \in [Revisions -> Hashes \cup {None}]
       /\ review' \in [Readers -> ReviewRow]
  BY <1>1, <1>3, <1>5, <1>6, <1>7 DEF Assets, NoAsset, AssetStatuses
<1>11. KnowledgeTypeOK' /\ EmptyHistory'
  BY <1>1, <1>3, <1>6, <1>10 DEF KnowledgeTypeOK, EmptyHistory, AssetRows, Assets, ReviewRow
<1>12. \A s \in Readers : review'[s] # NoReview => s # r /\ review'[s] = review[s]
  BY <1>1, <1>3
<1>13. Asked'
  <2>1. \A k \in Revisions : revision[k] # None => revision'[k] # None
    BY <1>7, <1>8
  <2> QED BY <1>12, <2>1 DEF KnowledgeInv, Asked, Asks, Editing
<1>14. ~overlap => IsLooked' /\ ReviewAlone'
  <2>1. ASSUME ~overlap PROVE q.loaded = asset /\ q.new.status # "approved"
    BY <1>0, <1>2, <2>1 DEF KnowledgeInv, ReviewAlone, Solo
  <2>2. ASSUME ~overlap PROVE \A s \in Readers : review'[s] = NoReview
    BY <1>0, <1>2, <1>12, <2>2 DEF KnowledgeInv, ReviewAlone
  <2> QED BY <1>2, <1>6, <2>1, <2>2 DEF IsLooked, ReviewAlone, Asks
<1> QED BY <1>1, <1>9, <1>11, <1>13, <1>14 DEF KnowledgeInv

\* A change of the status leaves the hash, and an approval approves what it had loaded
\* (StatusCommit).
LEMMA KeepsAsset_StatusCommit ==
    ASSUME KnowledgeInv, NEW r \in Readers, StatusCommit(r)
    PROVE  KnowledgeInv'
<1>0. PICK q : q = review[r]
  OBVIOUS
<1>1. /\ q.step = "status"
      /\ asset' = Merged(q.loaded, q.new)
      /\ approved' = IF q.new.status = "approved"
                     THEN content_hash(q.loaded.title, q.loaded.body) ELSE approved
      /\ review' = [review EXCEPT ![r] = NoReview]
      /\ UNCHANGED <<revision, overlap>>
  BY <1>0 DEF StatusCommit
<1>2. q # NoReview /\ Asks(q)
  BY <1>0, <1>1 DEF NoReview, KnowledgeInv, Asked
<1>3. /\ review \in [Readers -> ReviewRow] /\ NoReview \in ReviewRow
      /\ approved \in Hashes \cup {None} /\ revision \in [Revisions -> Hashes \cup {None}]
  BY DEF KnowledgeInv, KnowledgeTypeOK, ReviewRow, NoReview, AssetRows
<1>4. asset \in Assets
  BY <1>0, <1>2 DEF KnowledgeInv, KnowledgeTypeOK, AssetRows, Assets, EmptyHistory
<1>5. /\ q.new \in Assets /\ q.loaded \in Assets
      /\ q.new.hash = q.loaded.hash /\ q.new.title = q.loaded.title /\ q.new.body = q.loaded.body
  BY <1>1, <1>2 DEF Asks, Assets
<1>6. asset' \in Assets /\ asset'.hash = asset.hash /\ (q.loaded = asset => asset' = q.new)
  BY <1>1, <1>4, <1>5, MergedRow
<1>7. content_hash(q.loaded.title, q.loaded.body) \in Hashes
  BY <1>5 DEF Assets, content_hash, Hashes
<1>8. asset # NoAsset /\ asset' # NoAsset
  BY <1>4, <1>6 DEF Assets, NoAsset, AssetStatuses
<1>9. approved' \in Hashes \cup {None} /\ review' \in [Readers -> ReviewRow]
  BY <1>1, <1>3, <1>7
<1>10. KnowledgeTypeOK' /\ EmptyHistory'
  BY <1>1, <1>3, <1>6, <1>8, <1>9 DEF KnowledgeTypeOK, EmptyHistory, AssetRows, Assets, ReviewRow
<1>11. NoGaps' /\ NewestIsHash'
  BY <1>1, <1>6 DEF KnowledgeInv, NoGaps, NewestIsHash, Newest
<1>12. \A s \in Readers : review'[s] # NoReview => s # r /\ review'[s] = review[s]
  BY <1>1, <1>3
<1>13. Asked'
  BY <1>1, <1>12 DEF KnowledgeInv, Asked, Asks, Editing
<1>14. ASSUME ~overlap PROVE IsLooked' /\ ReviewAlone'
  <2>1. q.loaded = asset /\ IsLooked /\ \A s \in Readers \ {r} : review[s] = NoReview
    BY <1>0, <1>2, <1>14 DEF KnowledgeInv, ReviewAlone, Solo
  <2>2. \A s \in Readers : review'[s] = NoReview
    BY <1>12, <2>1
  <2>3. asset'.hash = content_hash(asset'.title, asset'.body)
    BY <1>5, <1>6, <1>8, <2>1 DEF IsLooked
  <2>4. asset'.status = "approved" => approved' = asset'.hash
    BY <1>1, <1>5, <1>6, <1>8, <2>1 DEF IsLooked
  <2> QED BY <2>2, <2>3, <2>4 DEF IsLooked, ReviewAlone
<1> QED BY <1>1, <1>10, <1>11, <1>13, <1>14 DEF KnowledgeInv

\* Every step of the asset keeps what is known of it.
LEMMA KnowledgeStep == KnowledgeInv /\ [KnowledgeNext]_<<knowledgeVars, overlap>> => KnowledgeInv'
<1> SUFFICES ASSUME KnowledgeInv, [KnowledgeNext]_<<knowledgeVars, overlap>> PROVE KnowledgeInv'
  OBVIOUS
<1>1. CASE UNCHANGED <<knowledgeVars, overlap>>
  BY <1>1 DEF knowledgeVars, KnowledgeInv, KnowledgeTypeOK, NoGaps, NewestIsHash, Newest, EmptyHistory,
              Asked, Asks, Editing, IsLooked, ReviewAlone, Solo
<1>2. CASE KnowledgeNext
  BY <1>2, KeepsAsset_create_asset, KeepsAsset_Reads, KeepsAsset_NumberFails,
     KeepsAsset_EditCommit, KeepsAsset_StatusCommit
     DEF KnowledgeNext
<1> QED BY <1>1, <1>2

\* Every variable of the asset keeps its type.
THEOREM KnowledgeTypeCorrect == KnowledgeSpec => []KnowledgeTypeOK
  BY KnowledgeStart, KnowledgeStep, PTL DEF KnowledgeSpec, KnowledgeInv

\* For any number of requests that overlap and fail the newest version is what the hash
\* of the asset says; with separate requests that is the hash of its content, and what
\* is approved is what the approval looked at.
THEOREM HistoryAlwaysAgrees == KnowledgeSpec => []HistoryAgrees
<1>1. KnowledgeInv => HistoryAgrees
  BY DEF KnowledgeInv, HistoryAgrees, NewestIsHash, IsLooked
<1> QED BY <1>1, KnowledgeStart, KnowledgeStep, PTL DEF KnowledgeSpec
=============================================================================
