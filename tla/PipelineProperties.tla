------------------------- MODULE PipelineProperties -------------------------
(***************************************************************************)
(* What the pipeline of kaufbot is expected to keep true.                  *)
(***************************************************************************)
EXTENDS Pipeline, FiniteSets

\* Type invariant of the pipeline's state.
TypeOK ==
  /\ files \subseteq FileRow /\ receipts \subseteq ReceiptRow
  /\ lastId \in 0..MaxRows
  /\ originals \in [Name -> Cell] /\ texts \in [Stamps -> Cell]
  /\ clock \in 0..MaxStamp
  /\ pc \in PCs /\ job \in Job
  /\ reply \in [kind : Replies, id : Ids \cup {0}]
  /\ advice \in [Ids -> Advices]
  /\ asked \subseteq Ids
  /\ faults \in 0..MaxFaults

-----------------------------------------------------------------------------
(* Safety that no fault may break.                                         *)

\* Ids, hashes and saved names each name at most one row, and a receipt
\* belongs to a row that exists: whatever find_by_hash mistakes for "not
\* found", whenever the process dies, and however often files come and go.
TablesSound ==
  /\ \A r, q \in files : r # q => r.id # q.id /\ r.hash # q.hash /\ r.name # q.name
  /\ \A p, q \in receipts : p # q => p.file # q.file
  /\ \A p \in receipts : \E r \in files : r.id = p.file
  /\ \A r \in files : r.id <= lastId

Own(row) == {row.hash, Damaged, Blank}

\* The receipt stored for a file was parsed from that file, never from
\* another one, although retries read back by name what an earlier request
\* (possibly cut short) saved.
NoForeignReceipt ==
  \A p \in receipts, r \in files : p.file = r.id => p.from \in Own(r)

\* As long as nobody asked to delete a file, its original is in storage
\* under the row's name, and is not another file's.
OriginalKept ==
  \A r \in files : /\ originals[r.name] \in Own(r) \cup {None}
                   /\ r.id \notin asked => originals[r.name] # None

\* Files in storage that no row leads to.
LostOriginals == {n \in Name : originals[n] # None /\ \A r \in files : r.name # n}
LostTexts     == {s \in Stamps : texts[s] # None /\ \A r \in files : r.ocr # s}

\* A fault loses track of at most one stored file, and without a fault none
\* is lost; only a file between its save and its row is on the way.
LeaksBoundedByFaults ==
  Cardinality(LostOriginals) + Cardinality(LostTexts)
    <= faults + (IF pc \in {"insert", "mark_ocr"} THEN 1 ELSE 0)

\* What a row says never changes but for its OCR text's name, which once set
\* stays; and ids grow, so an id a user was given never names another file.
RowsKeepIdentity ==
  [][/\ lastId' >= lastId
     /\ \A q \in files' :
          IF \E r \in files : r.id = q.id
          THEN \E r \in files : /\ r.id = q.id /\ r.hash = q.hash /\ r.name = q.name
                                /\ r.ocr # None => q.ocr = r.ocr
          ELSE q.id > lastId]_vars

-----------------------------------------------------------------------------
(* What holds as long as no call fails and the process is not killed.      *)

\* Between requests storage and tables tell the same story: an original for
\* each row, a text for each row marked as processed, nothing else, and
\* only processed files have receipts.
StorageMatchesTables ==
  pc = "idle" /\ faults = 0 =>
    /\ LostOriginals = {} /\ LostTexts = {}
    /\ \A r \in files : /\ originals[r.name] = r.hash
                        /\ r.ocr # None => r.ocr = r.name.at /\ texts[r.ocr] \in {r.hash, Blank}
    /\ \A p \in receipts : \E r \in files : r.id = p.file /\ r.ocr # None

\* The answer the user reads is what the tables and the storage say.
AnswerIsTrue ==
  pc = "idle" /\ faults = 0 =>
    LET row == ById(files, reply.id)
        got == {p \in receipts : p.file = reply.id} IN
    /\ reply.kind = "parsed" => \E p \in got : p.ok
    /\ reply.kind = "deleted" => row = {} /\ got = {}
    /\ reply.kind \in {"duplicate", "ocr_failed", "parse_failed", "retry_failed"} => row # {}
    /\ reply.kind \in {"parse_failed", "retry_failed", "text_missing"}
         => \E r \in row : r.ocr # None
    /\ reply.kind \notin {"save_failed", "db_error", "original_missing", "delete_failed"}

\* "OCR data is saved, parsing can be retried later": a retry that was promised
\* finds the text, but for an empty text, whose file reads as missing.
PromisedRetryFindsText ==
  [][\A i \in Ids :
       faults' = 0 /\ reply' \in [kind : {"no_ocr_text", "text_missing"}, id : {i}]
         => \/ advice[i] # "retry_later"
            \/ \E r \in ById(files, i) : r.ocr # None /\ texts[r.ocr] = Blank]_vars

\* Every request comes to its end, which is an answer unless the process is
\* killed in it, or waits for ever in a call of PostgreSQL, whatever else fails
\* in it and has failed before it: no retry goes on for ever.
EveryRequestEnds == pc # "idle" ~> (pc = "idle" \/ []~Returns)

-----------------------------------------------------------------------------
(* What the answers tell the user to do, and what then happens.            *)

\* "Please re-upload the file."
ReUploadIsTaken ==
  [][\A i \in Ids : reply # reply' /\ reply' = [kind |-> "duplicate", id |-> i]
                      => advice[i] # "re_upload"]_vars

\* "Re-run OCR with a specific model, re-extracting text from the original file."
ReextractsOwnOriginal ==
  pc = "extract" /\ job.op = "retry_with_model" =>
    \A r \in ById(files, job.id) : job.data \in Own(r)
=============================================================================
