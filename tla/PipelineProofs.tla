--------------------------- MODULE PipelineProofs ---------------------------
(***************************************************************************)
(* Proofs about the pipeline, for every value of the constants: types, the *)
(* tables, the storage, and that it implements the ledger.                 *)
(***************************************************************************)
EXTENDS PipelineInvariants, TLAPS

-----------------------------------------------------------------------------
(* What the calls of the backends may leave behind.                        *)

\* An insert adds the row to a table that has neither its hash nor its name,
\* or changes nothing; only a row that is there is reported as inserted.
LEMMA InsertOutcomes ==
  ASSUME NEW t, NEW row, NEW o \in RepoInsert(t, row)
  PROVE  /\ o.left = t \/ (o.left = t \cup {row} /\ Unique(t, row))
         /\ o.ok => o.left = t \cup {row}
         /\ o.cost \in {0, 1}
BY DEF RepoInsert, SqliteInsert, PostgresInsert, Done, Failed, Refused

\* Marking a row as processed sets its OCR text's name or changes nothing.
LEMMA MarkOcrOutcomes ==
  ASSUME NEW t, NEW i, NEW ocr, NEW o \in RepoMarkOcrComplete(t, i, ocr)
  PROVE  /\ o.left \in {t, WithOcr(t, i, ocr)}
         /\ o.cost \in {0, 1}
BY DEF RepoMarkOcrComplete, SqliteMarkOcrDone, PostgresMarkOcrDone, Done, Failed

\* Recording a receipt replaces the file's receipt or changes nothing.
LEMMA MarkParsingOutcomes ==
  ASSUME NEW t, NEW p, NEW o \in RepoMarkParsingComplete(t, p)
  PROVE  /\ o.left \in {t, Upsert(t, p)}
         /\ o.cost \in {0, 1}
BY DEF RepoMarkParsingComplete, SqliteMarkParsingDone, PostgresMarkParsingDone,
       Done, Failed, Refused

\* Deleting a row takes it out or changes nothing.
LEMMA DeleteOutcomes ==
  ASSUME NEW t, NEW i, NEW o \in BackendDelete(t, i)
  PROVE  /\ o.left \in {t, Without(t, i)}
         /\ o.cost \in {0, 1}
BY DEF BackendDelete, SqliteDelete, PostgresDelete, Done, Failed, Refused

\* Saving a file leaves the new data, the old data or a damaged file, and the
\* old data is never reported as saved.
LEMMA SaveOutcomes ==
  ASSUME NEW old, NEW new, NEW o \in SaveFile(old, new)
  PROVE  /\ o.left \in {old, new, Damaged, Blank}
         /\ o.ok => o.left \in {new, Damaged, Blank}
         /\ o.cost \in {0, 1}
BY DEF SaveFile, LocalSave, SupabaseSave, Done, Failed

\* Removing a file removes it or leaves it as it was.
LEMMA DeleteFileOutcomes ==
  ASSUME NEW old, NEW o \in DeleteFile(old)
  PROVE  /\ o.left \in {old, None}
         /\ o.cost \in {0, 1}
BY DEF DeleteFile, LocalDelete, SupabaseDelete, Done, Failed, Refused

LEMMA TornWriteOutcomes == TornWrite \subseteq {Damaged, Blank}
BY DEF TornWrite

\* A sequence of ids moves on by at most one, and does for a stored row.
LEMMA LastIdOutcomes ==
  ASSUME NEW last, NEW stored, NEW n \in LastIdAfter(last, stored)
  PROVE  n \in {last, last + 1} /\ (stored => n = last + 1)
BY DEF LastIdAfter

-----------------------------------------------------------------------------
(* Types.                                                                  *)

\* The shape of a job is kept by setting its fields to values of their types.
LEMMA NoJobType == NoJob \in Job
BY DEF NoJob, Job, Ops, Cell

\* An answer ends the request with a well-typed reply.
LEMMA AnswerType ==
  ASSUME advice \in [Ids -> Advices], NEW kind \in Replies, NEW id \in Ids \cup {0},
         Answer(kind, id)
  PROVE  /\ pc' = "idle" /\ job' = NoJob
         /\ reply' \in [kind : Replies, id : Ids \cup {0}]
         /\ advice' \in [Ids -> Advices]
<1>1. id # 0 => AdviceOf(kind, id) \in Advices
  BY DEF AdviceOf, Advices
<1> QED
  BY <1>1 DEF Answer

\* Faults are counted up to their bound.
LEMMA ChargeType ==
  ASSUME faults \in 0..MaxFaults, NEW n \in {0, 1}, Charge(n)
  PROVE  faults' \in 0..MaxFaults
BY PipelineAssumption DEF Charge

\* Every row of a marked table is a row, with the same ids.
LEMMA WithOcrType ==
  ASSUME NEW t \in SUBSET FileRow, NEW i, NEW ocr \in Stamps
  PROVE  WithOcr(t, i, ocr) \in SUBSET FileRow
BY DEF WithOcr, FileRow

LEMMA OcrNameType == ASSUME NEW n \in Name PROVE OcrName(n) \in Stamps
BY DEF OcrName, Name

\* The initial state has the types.
LEMMA TypeInit == Init => TypeInv
<1> SUFFICES ASSUME Init PROVE TypeInv
  OBVIOUS
<1>1. NoJob \in Job
  BY NoJobType
<1>2. 0 \in 0..MaxRows /\ 0 \in 0..MaxStamp /\ 0 \in 0..MaxFaults
  BY TablesAssumption, PipelineAssumption
<1> QED
  BY <1>1, <1>2 DEF Init, TypeInv, TypeOK, JobTyped, Cell, PCs, NoReply, Replies, Advices,
     BeforeRow, WithRow, WithText

LEMMA StartUploadType ==
  ASSUME TypeInv, NEW c \in Contents, NEW e \in Exts, Upload(c, e)
  PROVE  TypeInv'
<1> DEFINE j == [NoJob EXCEPT !.op = "upload", !.hash = c, !.ext = e, !.data = c]
<1>1. j \in Job /\ j.hash = c /\ j.ext = e /\ j.data = c
  BY NoJobType DEF NoJob, Job, Ops, Cell, Data
<1>2. lastId < MaxRows
  BY DEF Upload
<1> QED
  BY <1>1, <1>2 DEF Upload, StartJob, TypeInv, TypeOK, JobTyped, PCs, NoReply, Replies,
     BeforeRow, WithRow, WithText, tables, storage, Advices

\* The part of TypeOK about the tables, the storage and the counters.
StoreTyped ==
  /\ files \subseteq FileRow /\ receipts \subseteq ReceiptRow
  /\ lastId \in 0..MaxRows
  /\ originals \in [Name -> Cell] /\ texts \in [Stamps -> Cell]
  /\ clock \in 0..MaxStamp
  /\ asked \subseteq Ids
  /\ faults \in 0..MaxFaults

\* A step that ends the request keeps the types if it keeps the store's.
LEMMA AnswerKeepsTypes ==
  ASSUME TypeInv, StoreTyped', NEW kind \in Replies, NEW id \in Ids \cup {0}, Answer(kind, id)
  PROVE  TypeInv'
<1>1. advice \in [Ids -> Advices]
  BY DEF TypeInv, TypeOK
<1>2. /\ pc' = "idle" /\ job' = NoJob
      /\ reply' \in [kind : Replies, id : Ids \cup {0}]
      /\ advice' \in [Ids -> Advices]
  BY <1>1, AnswerType
<1>3. job' \in Job /\ pc' \in PCs
  BY <1>2, NoJobType DEF PCs
<1>4. TypeOK'
  BY <1>2, <1>3 DEF TypeOK, StoreTyped
<1>5. JobTyped'
  BY <1>2 DEF JobTyped, BeforeRow, WithRow, WithText
<1> QED
  BY <1>4, <1>5 DEF TypeInv

\* So does a step to the next call of the request, if what that call uses
\* of the local variables is set.
LEMMA ContinueKeepsTypes ==
  ASSUME TypeInv, StoreTyped', NEW next \in PCs, NEW j \in Job, Continue(next, j),
         JobTyped'
  PROVE  TypeInv'
BY DEF Continue, TypeInv, TypeOK, StoreTyped

\* A step that leaves the store alone, faults counted, keeps its types.
LEMMA StoreUnchanged ==
  ASSUME TypeInv, UNCHANGED <<tables, storage, clock, asked>>, faults' \in 0..MaxFaults
  PROVE  StoreTyped'
BY DEF TypeInv, TypeOK, StoreTyped, tables, storage

LEMMA FaultsType == ASSUME TypeInv, UNCHANGED faults PROVE faults' \in 0..MaxFaults
BY DEF TypeInv, TypeOK

LEMMA ChargeKeepsType ==
  ASSUME TypeInv, NEW n \in {0, 1}, Charge(n) PROVE faults' \in 0..MaxFaults
BY ChargeType DEF TypeInv, TypeOK

LEMMA TypeFindByHash == ASSUME TypeInv, FindByHash PROVE TypeInv'
<1>1. StoreTyped'
  BY StoreUnchanged, ChargeKeepsType DEF FindByHash
<1>2. CASE \E r \in ByHash(files, job.hash) : Answer("duplicate", r.id)
  <2>1. PICK r \in ByHash(files, job.hash) : Answer("duplicate", r.id)
    BY <1>2
  <2>2. r.id \in Ids
    BY DEF ByHash, TypeInv, TypeOK, FileRow
  <2> QED
    BY <1>1, <2>1, <2>2, AnswerKeepsTypes DEF Replies
<1>3. CASE Continue("save_file", job)
  <2>1. JobTyped'
    BY <1>3 DEF FindByHash, Continue, TypeInv, JobTyped, BeforeRow, WithRow, WithText, tables
  <2>2. job \in Job /\ "save_file" \in PCs
    BY DEF TypeInv, TypeOK, PCs
  <2> QED
    BY <1>1, <1>3, <2>1, <2>2, ContinueKeepsTypes
<1> QED
  BY <1>2, <1>3 DEF FindByHash

LEMMA TypeSaveOriginal == ASSUME TypeInv, SaveOriginal PROVE TypeInv'
<1> DEFINE name(s) == [at |-> s, ext |-> job.ext]
<1>0. PICK s \in Stamps :
        /\ clock' = s
        /\ \E o \in SaveFile(originals[name(s)], job.data) :
             /\ Charge(o.cost)
             /\ originals' = [originals EXCEPT ![name(s)] = o.left]
             /\ IF o.ok THEN Continue("insert", [job EXCEPT !.name = name(s)])
                        ELSE Answer("save_failed", 0)
  BY DEF SaveOriginal
<1>1. PICK o \in SaveFile(originals[name(s)], job.data) :
        /\ Charge(o.cost)
        /\ originals' = [originals EXCEPT ![name(s)] = o.left]
        /\ IF o.ok THEN Continue("insert", [job EXCEPT !.name = name(s)])
                   ELSE Answer("save_failed", 0)
  BY <1>0
<1>2. name(s) \in Name
  BY DEF SaveOriginal, TypeInv, JobTyped, BeforeRow, Name
<1>3. o.left \in Cell /\ o.cost \in {0, 1}
  BY <1>2, SaveOutcomes DEF SaveOriginal, TypeInv, TypeOK, JobTyped, BeforeRow, Cell, Data
<1>4. StoreTyped'
  <2>1. originals' \in [Name -> Cell]
    BY <1>1, <1>3 DEF TypeInv, TypeOK
  <2>2. clock' \in 0..MaxStamp
    BY <1>0 DEF Stamps
  <2>3. faults' \in 0..MaxFaults
    BY <1>1, <1>3, ChargeKeepsType
  <2> QED
    BY <2>1, <2>2, <2>3 DEF SaveOriginal, TypeInv, TypeOK, StoreTyped, tables
<1>5. CASE o.ok
  <2> DEFINE j == [job EXCEPT !.name = name(s)]
  <2>1. j \in Job /\ j.name = name(s) /\ j.hash = job.hash /\ j.ext = job.ext
        /\ j.data = job.data
    BY <1>2 DEF TypeInv, TypeOK, Job
  <2>2. JobTyped'
    BY <1>1, <1>2, <1>5, <2>1
       DEF SaveOriginal, Continue, TypeInv, JobTyped, BeforeRow, WithRow, WithText, tables
  <2> QED
    BY <1>1, <1>4, <1>5, <2>1, <2>2, ContinueKeepsTypes DEF PCs
<1>6. CASE ~o.ok
  BY <1>1, <1>4, <1>6, AnswerKeepsTypes DEF Replies
<1> QED
  BY <1>5, <1>6

LEMMA TypeInsertRow == ASSUME TypeInv, InsertRow PROVE TypeInv'
<1> DEFINE row == [id |-> lastId + 1, hash |-> job.hash, name |-> job.name, ocr |-> None]
<1>1. PICK o \in RepoInsert(files, row) :
        /\ Charge(o.cost)
        /\ files' = o.left
        /\ lastId' \in LastIdAfter(lastId, row \in o.left)
        /\ IF o.ok THEN Continue("extract", [job EXCEPT !.id = row.id])
                   ELSE Answer("db_error", 0)
  BY DEF InsertRow
<1>2. lastId + 1 \in Ids
  BY TablesAssumption DEF InsertRow, TypeInv, TypeOK, JobTyped, BeforeRow, Ids
<1>3. row \in FileRow
  BY <1>2 DEF InsertRow, TypeInv, JobTyped, BeforeRow, FileRow
<1>4. StoreTyped'
  <2>1. files' \subseteq FileRow
    BY <1>1, <1>3, InsertOutcomes DEF TypeInv, TypeOK
  <2>2. lastId' \in 0..MaxRows
    BY <1>1, <1>2, LastIdOutcomes, TablesAssumption DEF TypeInv, TypeOK, Ids
  <2>3. faults' \in 0..MaxFaults
    BY <1>1, InsertOutcomes, ChargeKeepsType
  <2> QED
    BY <2>1, <2>2, <2>3 DEF InsertRow, TypeInv, TypeOK, StoreTyped, storage
<1>5. CASE o.ok
  <2> DEFINE j == [job EXCEPT !.id = row.id]
  <2>1. j \in Job /\ j.id = row.id /\ j.name = job.name /\ j.data = job.data
    BY <1>2 DEF TypeInv, TypeOK, Job
  <2>2. job.name \in Name /\ job.data \in Data
    BY DEF InsertRow, TypeInv, JobTyped, BeforeRow, Data
  <2>3. JobTyped'
    BY <1>1, <1>2, <1>5, <2>1, <2>2 DEF Continue, JobTyped, BeforeRow, WithRow, WithText
  <2> QED
    BY <1>1, <1>4, <1>5, <2>1, <2>3, ContinueKeepsTypes DEF PCs
<1>6. CASE ~o.ok
  BY <1>1, <1>4, <1>6, AnswerKeepsTypes DEF Replies
<1> QED
  BY <1>5, <1>6

\* The OCR answer is data, the text is not lost before it is parsed.
LEMMA TypeExtract ==
  ASSUME TypeInv, pc = "extract", NEW kind \in Replies,
         Extracted \/ Answer(kind, job.id),
         UNCHANGED <<tables, storage, clock, asked, faults>>
  PROVE  TypeInv'
<1>1. StoreTyped'
  BY StoreUnchanged, FaultsType
<1>2. job.id \in Ids /\ job.name \in Name /\ job.data \in Data
  BY DEF TypeInv, JobTyped, WithRow
<1>3. CASE Answer(kind, job.id)
  BY <1>1, <1>2, <1>3, AnswerKeepsTypes
<1>4. CASE Extracted
  <2>1. PICK t \in {job.data, Blank} :
          Continue("save_text", [job EXCEPT !.data = None, !.text = t])
    BY <1>4 DEF Extracted
  <2> DEFINE j == [job EXCEPT !.data = None, !.text = t]
  <2>2. t \in Data
    BY <1>2, <2>1 DEF Data
  <2>3. j \in Job /\ j.id = job.id /\ j.name = job.name /\ j.text = t
    BY <2>2 DEF TypeInv, TypeOK, Job, Cell
  <2>4. JobTyped'
    BY <1>2, <2>1, <2>2, <2>3 DEF Continue, JobTyped, BeforeRow, WithRow, WithText
  <2> QED
    BY <1>1, <2>1, <2>3, <2>4, ContinueKeepsTypes DEF PCs
<1> QED
  BY <1>3, <1>4

LEMMA TypeSaveText == ASSUME TypeInv, SaveText PROVE TypeInv'
<1> DEFINE s == OcrName(job.name)
<1>1. PICK o \in SaveFile(texts[s], job.text) :
        Charge(o.cost) /\ texts' = [texts EXCEPT ![s] = o.left]
  BY DEF SaveText
<1>2. s \in Stamps /\ job.text \in Data
  BY OcrNameType DEF SaveText, TypeInv, JobTyped, WithRow, WithText
<1>3. o.left \in Cell /\ o.cost \in {0, 1}
  BY <1>2, SaveOutcomes DEF TypeInv, TypeOK, Cell, Data
<1>4. StoreTyped'
  <2>1. texts' \in [Stamps -> Cell]
    BY <1>1, <1>3 DEF TypeInv, TypeOK
  <2> QED
    BY <1>1, <1>3, <2>1, ChargeKeepsType DEF SaveText, TypeInv, TypeOK, StoreTyped, tables
<1>5. JobTyped' /\ job \in Job
  BY DEF SaveText, Continue, TypeInv, TypeOK, JobTyped, BeforeRow, WithRow, WithText
<1> QED
  BY <1>4, <1>5, ContinueKeepsTypes DEF SaveText, PCs

LEMMA TypeMarkOcr == ASSUME TypeInv, MarkOcr PROVE TypeInv'
<1>1. PICK o \in RepoMarkOcrComplete(files, job.id, OcrName(job.name)) :
        Charge(o.cost) /\ files' = o.left
  BY DEF MarkOcr
<1>2. OcrName(job.name) \in Stamps
  BY OcrNameType DEF MarkOcr, TypeInv, JobTyped, WithRow
<1>3. files' \subseteq FileRow
  BY <1>1, <1>2, MarkOcrOutcomes, WithOcrType DEF TypeInv, TypeOK
<1>4. StoreTyped'
  BY <1>1, <1>3, MarkOcrOutcomes, ChargeKeepsType
     DEF MarkOcr, TypeInv, TypeOK, StoreTyped, storage
<1>5. JobTyped' /\ job \in Job
  BY DEF MarkOcr, Continue, TypeInv, TypeOK, JobTyped, BeforeRow, WithRow, WithText
<1> QED
  BY <1>4, <1>5, ContinueKeepsTypes DEF MarkOcr, PCs

LEMMA TypeParse ==
  ASSUME TypeInv, pc = "parse", NEW kind \in Replies,
         Parsed \/ Answer(kind, job.id),
         UNCHANGED <<tables, storage, clock, asked, faults>>
  PROVE  TypeInv'
<1>1. StoreTyped'
  BY StoreUnchanged, FaultsType
<1>2. job.id \in Ids /\ job.name \in Name /\ job.text \in Data
  BY DEF TypeInv, JobTyped, WithRow, WithText
<1>3. CASE Answer(kind, job.id)
  BY <1>1, <1>2, <1>3, AnswerKeepsTypes
<1>4. CASE Parsed
  <2>1. PICK ok \in BOOLEAN : Continue("mark_parsing", [job EXCEPT !.ok = ok])
    BY <1>4 DEF Parsed
  <2> DEFINE j == [job EXCEPT !.ok = ok]
  <2>2. j \in Job /\ j.id = job.id /\ j.name = job.name /\ j.text = job.text
    BY DEF TypeInv, TypeOK, Job
  <2>3. JobTyped'
    BY <1>2, <2>1, <2>2 DEF Continue, JobTyped, BeforeRow, WithRow, WithText
  <2> QED
    BY <1>1, <2>1, <2>2, <2>3, ContinueKeepsTypes DEF PCs
<1> QED
  BY <1>3, <1>4

LEMMA TypeRecord == ASSUME TypeInv, pc = "mark_parsing", Record PROVE TypeInv'
<1> DEFINE p == [file |-> job.id, from |-> job.text, ok |-> job.ok]
<1>1. PICK o \in RepoMarkParsingComplete(receipts, p) : Charge(o.cost) /\ receipts' = o.left
  BY DEF Record
<1>2. job.id \in Ids /\ job.text \in Data /\ job.ok \in BOOLEAN
  BY DEF TypeInv, TypeOK, JobTyped, WithRow, WithText, Job
<1>3. receipts' \subseteq ReceiptRow
  BY <1>1, <1>2, MarkParsingOutcomes DEF TypeInv, TypeOK, Upsert, ReceiptRow
<1>4. StoreTyped'
  BY <1>1, <1>3, MarkParsingOutcomes, ChargeKeepsType
     DEF Record, TypeInv, TypeOK, StoreTyped, storage
<1>5. Answer("parsed", job.id) \/ Answer("bad_json", job.id)
  BY DEF Record
<1> QED
  BY <1>2, <1>4, <1>5, AnswerKeepsTypes DEF Replies

LEMMA TypeRequest ==
  ASSUME TypeInv, NEW op \in Ops, NEW i \in Ids, Request(op, i), asked' \in SUBSET Ids
  PROVE  TypeInv'
<1> DEFINE j == [NoJob EXCEPT !.op = op, !.id = i]
<1>1. j \in Job /\ j.id = i
  BY NoJobType DEF NoJob, Job
<1> QED
  BY <1>1 DEF Request, StartJob, TypeInv, TypeOK, JobTyped, PCs, NoReply, Replies,
     BeforeRow, WithRow, WithText, tables, storage

LEMMA TypeNotFound == ASSUME TypeInv, NotFound PROVE TypeInv'
<1>1. StoreTyped'
  BY StoreUnchanged, ChargeKeepsType DEF NotFound
<1>2. job.id \in Ids
  BY DEF NotFound, TypeInv, JobTyped
<1> QED
  BY <1>1, <1>2, AnswerKeepsTypes DEF NotFound, Replies

\* Copying the names of a row into the job, for a call that needs no more.
LEMMA TypeFound ==
  ASSUME TypeInv, pc = "find_by_id", NEW r \in ById(files, job.id),
         NEW next \in {"read_text", "read_binary", "unlink_original"},
         next = "read_text" => r.ocr # None,
         Continue(next, [job EXCEPT !.name = r.name, !.ocr = r.ocr]),
         UNCHANGED <<tables, storage, clock, asked, faults>>
  PROVE  TypeInv'
<1> DEFINE j == [job EXCEPT !.name = r.name, !.ocr = r.ocr]
<1>1. StoreTyped'
  BY StoreUnchanged, FaultsType
<1>2. r.name \in Name /\ r.ocr \in Stamps \cup {None} /\ job.id \in Ids
  BY DEF ById, TypeInv, TypeOK, JobTyped, FileRow
<1>3. j \in Job /\ j.id = job.id /\ j.name = r.name /\ j.ocr = r.ocr
  BY <1>2 DEF TypeInv, TypeOK, Job
<1>4. JobTyped'
  BY <1>2, <1>3 DEF Continue, JobTyped, BeforeRow, WithRow, WithText
<1> QED
  BY <1>1, <1>3, <1>4, ContinueKeepsTypes DEF PCs

LEMMA TypeFindForRetry == ASSUME TypeInv, FindForRetry PROVE TypeInv'
<1>1. PICK r \in ById(files, job.id) :
        IF r.ocr = None
        THEN Answer("no_ocr_text", job.id)
        ELSE Continue("read_text", [job EXCEPT !.name = r.name, !.ocr = r.ocr])
  BY DEF FindForRetry
<1>2. CASE r.ocr = None
  <2>1. StoreTyped' /\ job.id \in Ids
    BY StoreUnchanged, FaultsType DEF FindForRetry, TypeInv, JobTyped
  <2> QED
    BY <1>1, <1>2, <2>1, AnswerKeepsTypes DEF Replies
<1>3. CASE r.ocr # None
  BY <1>1, <1>3, TypeFound DEF FindForRetry
<1> QED
  BY <1>2, <1>3

\* Reading a file into a buffer of the job: only what is readable gets there.
LEMMA ReadableIsData == ASSUME NEW c \in Cell, Readable(c) PROVE c \in Data
BY DEF Readable, LocalReads, SupabaseReads, Cell

LEMMA TypeReadText == ASSUME TypeInv, ReadText PROVE TypeInv'
<1>1. StoreTyped'
  BY StoreUnchanged, ChargeKeepsType DEF ReadText
<1>2. job.id \in Ids /\ job.name \in Name /\ texts[job.ocr] \in Cell
  BY DEF ReadText, TypeInv, TypeOK, JobTyped, WithRow
<1>3. CASE Answer("text_missing", job.id)
  BY <1>1, <1>2, <1>3, AnswerKeepsTypes DEF Replies
<1>4. CASE Readable(texts[job.ocr]) /\ Continue("parse", [job EXCEPT !.text = texts[job.ocr]])
  <2> DEFINE j == [job EXCEPT !.text = texts[job.ocr]]
  <2>1. texts[job.ocr] \in Data
    BY <1>2, <1>4, ReadableIsData
  <2>2. j \in Job /\ j.id = job.id /\ j.name = job.name /\ j.text = texts[job.ocr]
    BY <1>2 DEF TypeInv, TypeOK, Job
  <2>3. JobTyped'
    BY <1>2, <1>4, <2>1, <2>2 DEF Continue, JobTyped, BeforeRow, WithRow, WithText
  <2> QED
    BY <1>1, <1>4, <2>2, <2>3, ContinueKeepsTypes DEF PCs
<1> QED
  BY <1>3, <1>4 DEF ReadText

LEMMA TypeReadOriginal == ASSUME TypeInv, ReadOriginal PROVE TypeInv'
<1>1. StoreTyped'
  BY StoreUnchanged, ChargeKeepsType DEF ReadOriginal
<1>2. job.id \in Ids /\ job.name \in Name /\ originals[job.name] \in Cell
  BY DEF ReadOriginal, TypeInv, TypeOK, JobTyped, WithRow
<1>3. CASE Answer("original_missing", job.id)
  BY <1>1, <1>2, <1>3, AnswerKeepsTypes DEF Replies
<1>4. CASE /\ Readable(originals[job.name])
           /\ Continue("extract", [job EXCEPT !.data = originals[job.name]])
  <2> DEFINE j == [job EXCEPT !.data = originals[job.name]]
  <2>1. originals[job.name] \in Data
    BY <1>2, <1>4, ReadableIsData
  <2>2. j \in Job /\ j.id = job.id /\ j.name = job.name /\ j.data = originals[job.name]
    BY <1>2 DEF TypeInv, TypeOK, Job
  <2>3. JobTyped'
    BY <1>2, <1>4, <2>1, <2>2 DEF Continue, JobTyped, BeforeRow, WithRow, WithText
  <2> QED
    BY <1>1, <1>4, <2>2, <2>3, ContinueKeepsTypes DEF PCs
<1> QED
  BY <1>3, <1>4 DEF ReadOriginal

LEMMA TypeUnlinkOriginal == ASSUME TypeInv, UnlinkOriginal PROVE TypeInv'
<1>1. PICK o \in DeleteFile(originals[job.name]) :
        Charge(o.cost) /\ originals' = [originals EXCEPT ![job.name] = o.left]
  BY DEF UnlinkOriginal
<1>2. job.id \in Ids /\ job.name \in Name /\ originals[job.name] \in Cell
  BY DEF UnlinkOriginal, TypeInv, TypeOK, JobTyped, WithRow
<1>3. originals' \in [Name -> Cell]
  BY <1>1, <1>2, DeleteFileOutcomes DEF TypeInv, TypeOK, Cell
<1>4. StoreTyped'
  BY <1>1, <1>3, DeleteFileOutcomes, ChargeKeepsType
     DEF UnlinkOriginal, TypeInv, TypeOK, StoreTyped, tables
<1>5. job \in Job
  BY DEF TypeInv, TypeOK
<1>6. CASE job.ocr = None
  <2>1. JobTyped' /\ Continue("delete_row", job)
    BY <1>2, <1>6 DEF UnlinkOriginal, Continue, JobTyped, BeforeRow, WithRow, WithText
  <2> QED
    BY <1>4, <1>5, <2>1, ContinueKeepsTypes DEF PCs
<1>7. CASE job.ocr # None
  <2>1. job.ocr \in Stamps
    BY <1>5, <1>7 DEF Job
  <2>2. JobTyped' /\ Continue("unlink_text", job)
    BY <1>2, <1>7, <2>1 DEF UnlinkOriginal, Continue, JobTyped, BeforeRow, WithRow, WithText
  <2> QED
    BY <1>4, <1>5, <2>2, ContinueKeepsTypes DEF PCs
<1> QED
  BY <1>6, <1>7

LEMMA TypeUnlinkText == ASSUME TypeInv, UnlinkText PROVE TypeInv'
<1>1. PICK o \in DeleteFile(texts[job.ocr]) :
        Charge(o.cost) /\ texts' = [texts EXCEPT ![job.ocr] = o.left]
  BY DEF UnlinkText
<1>2. job.id \in Ids /\ job.name \in Name /\ texts[job.ocr] \in Cell
  BY DEF UnlinkText, TypeInv, TypeOK, JobTyped, WithRow
<1>3. texts' \in [Stamps -> Cell]
  BY <1>1, <1>2, DeleteFileOutcomes DEF TypeInv, TypeOK, Cell
<1>4. StoreTyped'
  BY <1>1, <1>3, DeleteFileOutcomes, ChargeKeepsType
     DEF UnlinkText, TypeInv, TypeOK, StoreTyped, tables
<1>5. JobTyped' /\ job \in Job
  BY <1>2 DEF UnlinkText, Continue, TypeInv, TypeOK, JobTyped, BeforeRow, WithRow, WithText
<1> QED
  BY <1>4, <1>5, ContinueKeepsTypes DEF UnlinkText, PCs

LEMMA TypeDeleteRow == ASSUME TypeInv, DeleteRow PROVE TypeInv'
<1>1. PICK o \in BackendDelete(files, job.id) :
        /\ Charge(o.cost)
        /\ files' = o.left
        /\ receipts' = Cascade(receipts, o.left)
        /\ Answer(IF o.ok THEN "deleted" ELSE "delete_failed", job.id)
  BY DEF DeleteRow
<1>2. files' \subseteq FileRow /\ receipts' \subseteq ReceiptRow
  BY <1>1, DeleteOutcomes DEF Without, Cascade, TypeInv, TypeOK
<1>3. StoreTyped'
  BY <1>1, <1>2, DeleteOutcomes, ChargeKeepsType
     DEF DeleteRow, TypeInv, TypeOK, StoreTyped, storage
<1>4. job.id \in Ids
  BY DEF DeleteRow, TypeInv, JobTyped, WithRow
<1>5. Answer("deleted", job.id) \/ Answer("delete_failed", job.id)
  BY <1>1
<1> QED
  BY <1>3, <1>4, <1>5, AnswerKeepsTypes DEF Replies

LEMMA TypeCrash == ASSUME TypeInv, Crash PROVE TypeInv'
<1>1. Kill
  BY DEF Crash
<1>2. /\ pc' = "idle" /\ job' = NoJob /\ job' \in Job
      /\ faults' \in 0..MaxFaults
  BY <1>1, NoJobType, ChargeKeepsType DEF Kill
<1>3. JobTyped'
  BY <1>2 DEF JobTyped, BeforeRow, WithRow, WithText
<1>4. originals' \in [Name -> Cell] /\ texts' \in [Stamps -> Cell] /\ clock' \in 0..MaxStamp
  <2>1. CASE UNCHANGED <<storage, clock>>
    BY <2>1 DEF storage, TypeInv, TypeOK
  <2>2. CASE /\ UNCHANGED texts
             /\ \E s \in Stamps, d \in TornWrite :
                  /\ clock' = s
                  /\ originals' = [originals EXCEPT ![[at |-> s, ext |-> job.ext]] = d]
    <3>1. clock' \in 0..MaxStamp
      BY <2>2 DEF Stamps
    <3> QED
      BY <2>2, <3>1, TornWriteOutcomes DEF TypeInv, TypeOK, Cell, Data
  <2>3. CASE /\ UNCHANGED <<originals, clock>>
             /\ \E d \in TornWrite : texts' = [texts EXCEPT ![OcrName(job.name)] = d]
    BY <2>3, TornWriteOutcomes DEF TypeInv, TypeOK, Cell, Data
  <2> QED
    BY <2>1, <2>2, <2>3 DEF Crash
<1> QED
  BY <1>1, <1>2, <1>3, <1>4 DEF Kill, TypeInv, TypeOK, PCs, tables

\* Every step keeps the types.
LEMMA TypeStep == TypeInv /\ [Next]_vars => TypeInv'
<1> SUFFICES ASSUME TypeInv, [Next]_vars PROVE TypeInv'
  OBVIOUS
<1>1. CASE UNCHANGED vars
  BY <1>1 DEF vars, TypeInv, TypeOK, JobTyped
<1>2. CASE Arrive
  <2>1. asked' \in SUBSET Ids
    BY <1>2 DEF Arrive, Upload, Retry, RetryWithModel, Delete, TypeInv, TypeOK
  <2> QED
    BY <1>2, <2>1, StartUploadType, TypeRequest
       DEF Arrive, Retry, RetryWithModel, Delete, Ops
<1>3. CASE Step
  <2>1. CASE RunOcr \/ ExtractWithModel
    BY <2>1, TypeExtract DEF RunOcr, ExtractWithModel, Replies
  <2>2. CASE ParseReceipt \/ ParseAgain \/ ParseWithModel
    BY <2>2, TypeParse DEF ParseReceipt, ParseAgain, ParseWithModel, Replies
  <2>3. CASE RecordReceipt \/ RecordRetry \/ RecordWithModel
    BY <2>3, TypeRecord DEF RecordReceipt, RecordRetry, RecordWithModel
  <2>4. CASE FindForModel
    BY <2>4, TypeFound DEF FindForModel
  <2>5. CASE FindForDelete
    BY <2>5, TypeFound DEF FindForDelete
  <2>6. CASE FindByHash \/ SaveOriginal \/ InsertRow \/ SaveText \/ MarkOcr
    BY <2>6, TypeFindByHash, TypeSaveOriginal, TypeInsertRow, TypeSaveText, TypeMarkOcr
  <2>7. CASE NotFound \/ FindForRetry \/ ReadText \/ ReadOriginal
    BY <2>7, TypeNotFound, TypeFindForRetry, TypeReadText, TypeReadOriginal
  <2>8. CASE UnlinkOriginal \/ UnlinkText \/ DeleteRow
    BY <2>8, TypeUnlinkOriginal, TypeUnlinkText, TypeDeleteRow
  <2> QED
    BY <1>3, <2>1, <2>2, <2>3, <2>4, <2>5, <2>6, <2>7, <2>8 DEF Step
<1>4. CASE Crash
  BY <1>4, TypeCrash
<1> QED
  BY <1>1, <1>2, <1>3, <1>4 DEF Next

\* The state of the pipeline always has its types, and a request never uses a
\* local variable its earlier calls have not set.
THEOREM TypeCorrect == Spec => []TypeInv
BY TypeInit, TypeStep, PTL DEF Spec

\* In particular the state always has its types.
THEOREM TypeOKCorrect == Spec => []TypeOK
<1>1. TypeInv => TypeOK
  BY DEF TypeInv
<1> QED
  BY <1>1, TypeCorrect, PTL

-----------------------------------------------------------------------------
(* The tables.                                                             *)

\* Marking a row as processed leaves every other field of every row alone.
LEMMA WithOcrKeeps ==
  ASSUME NEW t \in SUBSET FileRow, NEW i, NEW ocr \in Stamps
  PROVE  /\ \A q \in WithOcr(t, i, ocr) :
              \E r \in t : /\ r.id = q.id /\ r.hash = q.hash /\ r.name = q.name
                          /\ q.ocr = (IF r.id = i THEN ocr ELSE r.ocr)
         /\ \A r \in t : \E q \in WithOcr(t, i, ocr) :
              /\ r.id = q.id /\ r.hash = q.hash /\ r.name = q.name
              /\ q.ocr = (IF r.id = i THEN ocr ELSE r.ocr)
<1> DEFINE f(r) == IF r.id = i THEN [r EXCEPT !.ocr = ocr] ELSE r
<1>1. ASSUME NEW r \in t
      PROVE  /\ f(r).id = r.id /\ f(r).hash = r.hash /\ f(r).name = r.name
             /\ f(r).ocr = (IF r.id = i THEN ocr ELSE r.ocr)
  BY DEF FileRow
<1>2. WithOcr(t, i, ocr) = {f(r) : r \in t}
  BY DEF WithOcr
<1> HIDE DEF f
<1> QED
  BY <1>1, <1>2

\* Both tables start empty.
LEMMA TablesInit == Init => TablesInv
<1> SUFFICES ASSUME Init PROVE TablesInv
  OBVIOUS
<1>1. TypeInv
  BY TypeInit
<1> QED
  BY <1>1 DEF Init, TablesInv, TablesSound, WithRow

\* Steps that leave the tables alone keep them sound.
LEMMA TablesUntouched ==
  ASSUME TablesInv, UNCHANGED tables PROVE TablesSound'
BY DEF TablesInv, TablesSound, tables

LEMMA TablesInsertRow == ASSUME TablesInv, TypeInv', InsertRow PROVE TablesInv'
<1> DEFINE row == [id |-> lastId + 1, hash |-> job.hash, name |-> job.name, ocr |-> None]
<1>1. PICK o \in RepoInsert(files, row) :
        /\ files' = o.left
        /\ lastId' \in LastIdAfter(lastId, row \in o.left)
        /\ IF o.ok THEN Continue("extract", [job EXCEPT !.id = row.id])
                   ELSE Answer("db_error", 0)
  BY DEF InsertRow
<1>2. lastId \in Int /\ \A r \in files : r.id \in Int /\ r.id <= lastId
  BY DEF TablesInv, TablesSound, TypeInv, TypeOK, FileRow, Ids
<1>3. files' = files \/ (files' = files \cup {row} /\ Unique(files, row))
  BY <1>1, InsertOutcomes
<1>4. lastId' \in {lastId, lastId + 1} /\ (row \in files' => lastId' = lastId + 1)
  BY <1>1, LastIdOutcomes
<1>5. TablesSound'
  <2>1. CASE files' = files
    BY <1>2, <1>4, <2>1 DEF InsertRow, TablesInv, TablesSound
  <2>2. CASE files' = files \cup {row} /\ Unique(files, row)
    <3>1. \A r \in files : r.id # row.id /\ r.hash # row.hash /\ r.name # row.name
      BY <1>2, <2>2 DEF Unique
    <3>2. \A r \in files' : r.id <= lastId'
      BY <1>2, <1>4, <2>2
    <3> QED
      BY <2>2, <3>1, <3>2 DEF InsertRow, TablesInv, TablesSound
  <2> QED
    BY <1>3, <2>1, <2>2
<1>6. CASE o.ok
  <2>1. row \in files'
    BY <1>1, <1>6, InsertOutcomes
  <2>2. job'.id = row.id
    BY <1>1, <1>6 DEF Continue, TablesInv, TypeInv, TypeOK, Job
  <2> QED
    BY <1>5, <2>1, <2>2 DEF TablesInv
<1>7. CASE ~o.ok
  BY <1>1, <1>5, <1>7 DEF Answer, TablesInv, WithRow
<1> QED
  BY <1>6, <1>7

LEMMA TablesMarkOcr == ASSUME TablesInv, TypeInv', MarkOcr PROVE TablesInv'
<1> DEFINE ocr == OcrName(job.name)
           Marked(r) == IF r.id = job.id THEN ocr ELSE r.ocr
<1>1. files' \in {files, WithOcr(files, job.id, ocr)}
  BY MarkOcrOutcomes DEF MarkOcr
<1>2. ocr \in Stamps /\ files \in SUBSET FileRow /\ files' \in SUBSET FileRow
  BY OcrNameType DEF MarkOcr, TablesInv, TypeInv, TypeOK, JobTyped, WithRow
<1>3. CASE files' = files
  BY <1>3 DEF MarkOcr, Continue, TablesInv, TablesSound, WithRow
<1>4. CASE files' = WithOcr(files, job.id, ocr)
  <2>1. ASSUME NEW q \in files'
        PROVE  \E r \in files : /\ r.id = q.id /\ r.hash = q.hash /\ r.name = q.name
                                /\ q.ocr = Marked(r)
    BY <1>2, <1>4, WithOcrKeeps
  <2>2. ASSUME NEW r \in files PROVE \E q \in files' : r.id = q.id
    BY <1>2, <1>4, WithOcrKeeps
  <2> HIDE DEF Marked, ocr
  <2>3. ASSUME NEW q \in files', NEW t \in files',
               q.id = t.id \/ q.hash = t.hash \/ q.name = t.name
        PROVE  q = t
    <3>1. PICK r \in files : /\ r.id = q.id /\ r.hash = q.hash /\ r.name = q.name
                             /\ q.ocr = Marked(r)
      BY <2>1
    <3>2. PICK u \in files : /\ u.id = t.id /\ u.hash = t.hash /\ u.name = t.name
                             /\ t.ocr = Marked(u)
      BY <2>1
    <3>3. r = u
      BY <2>3, <3>1, <3>2 DEF TablesInv, TablesSound
    <3>4. q.id = t.id /\ q.hash = t.hash /\ q.name = t.name /\ q.ocr = t.ocr
      BY <3>1, <3>2, <3>3
    <3> QED
      BY <1>2, <3>4 DEF FileRow
  <2>4. \A q \in files' : q.id <= lastId'
    BY <2>1 DEF MarkOcr, TablesInv, TablesSound
  <2>5. TablesSound'
    BY <2>2, <2>3, <2>4 DEF MarkOcr, TablesInv, TablesSound
  <2>6. \E q \in files' : q.id = job'.id
    BY <2>2 DEF MarkOcr, Continue, TablesInv, WithRow
  <2> QED
    BY <2>5, <2>6 DEF TablesInv
<1> QED
  BY <1>1, <1>3, <1>4

LEMMA TablesRecord ==
  ASSUME TablesInv, TypeInv', pc = "mark_parsing", Record PROVE TablesInv'
<1> DEFINE p == [file |-> job.id, from |-> job.text, ok |-> job.ok]
<1>1. receipts' \in {receipts, Upsert(receipts, p)}
  BY MarkParsingOutcomes DEF Record
<1>2. \E r \in files : r.id = p.file
  BY DEF TablesInv, WithRow
<1>3. TablesSound'
  BY <1>1, <1>2 DEF Record, TablesInv, TablesSound, Upsert
<1> QED
  BY <1>3 DEF Record, Answer, TablesInv, WithRow

LEMMA TablesDeleteRow == ASSUME TablesInv, TypeInv', DeleteRow PROVE TablesInv'
<1>1. files' \in {files, Without(files, job.id)} /\ receipts' = Cascade(receipts, files')
  BY DeleteOutcomes DEF DeleteRow
<1>2. TablesSound'
  BY <1>1 DEF DeleteRow, TablesInv, TablesSound, Without, Cascade
<1> QED
  BY <1>2 DEF DeleteRow, Answer, TablesInv, WithRow

\* Every step keeps the tables sound.
LEMMA TablesStep == TablesInv /\ [Next]_vars => TablesInv'
<1> SUFFICES ASSUME TablesInv, [Next]_vars PROVE TablesInv'
  OBVIOUS
<1>1. TypeInv'
  BY TypeStep DEF TablesInv
<1>2. CASE UNCHANGED vars
  BY <1>1, <1>2 DEF vars, TablesInv, TablesSound
<1>3. CASE Arrive \/ Crash
  <2>1. UNCHANGED tables /\ pc' \notin WithRow
    BY <1>3 DEF Arrive, Upload, Retry, RetryWithModel, Delete, Request, StartJob, Crash, Kill,
       WithRow
  <2> QED
    BY <1>1, <2>1, TablesUntouched DEF TablesInv
<1>4. CASE Step
  <2>1. CASE InsertRow
    BY <1>1, <2>1, TablesInsertRow
  <2>2. CASE MarkOcr
    BY <1>1, <2>2, TablesMarkOcr
  <2>3. CASE RecordReceipt \/ RecordRetry \/ RecordWithModel
    BY <1>1, <2>3, TablesRecord DEF RecordReceipt, RecordRetry, RecordWithModel
  <2>4. CASE DeleteRow
    BY <1>1, <2>4, TablesDeleteRow
  <2>5. CASE FindByHash \/ SaveOriginal \/ NotFound
    <3>1. UNCHANGED tables /\ pc' \notin WithRow
      BY <2>5 DEF FindByHash, SaveOriginal, NotFound, Continue, Answer, WithRow
    <3> QED
      BY <1>1, <3>1, TablesUntouched DEF TablesInv
  <2>6. CASE RunOcr \/ SaveText \/ ParseReceipt \/ ReadText \/ ParseAgain \/ ReadOriginal
               \/ ExtractWithModel \/ ParseWithModel \/ UnlinkOriginal \/ UnlinkText
    <3>1. UNCHANGED tables /\ pc \in WithRow /\ (pc' = "idle" \/ job'.id = job.id)
      BY <2>6 DEF RunOcr, SaveText, ParseReceipt, ReadText, ParseAgain, ReadOriginal,
         ExtractWithModel, ParseWithModel, UnlinkOriginal, UnlinkText, Extracted, Parsed,
         Continue, Answer, WithRow, TablesInv, TypeInv, TypeOK, Job
    <3> QED
      BY <1>1, <3>1, TablesUntouched DEF TablesInv, tables, WithRow
  <2>7. CASE FindForRetry \/ FindForModel \/ FindForDelete
    <3>1. /\ UNCHANGED tables
          /\ pc' = "idle" \/ (job'.id = job.id /\ \E r \in files : r.id = job.id)
      BY <2>7 DEF FindForRetry, FindForModel, FindForDelete, Continue, Answer, ById,
         TablesInv, TypeInv, TypeOK, Job
    <3> QED
      BY <1>1, <3>1, TablesUntouched DEF TablesInv, tables, WithRow
  <2> QED
    BY <1>4, <2>1, <2>2, <2>3, <2>4, <2>5, <2>6, <2>7 DEF Step
<1> QED
  BY <1>2, <1>3, <1>4 DEF Next

\* Ids, hashes and saved names each name one row and every receipt has its
\* row, also when seconds repeat and whatever calls fail.
THEOREM TablesSoundCorrect == Spec => []TablesSound
<1>1. TablesInv => TablesSound
  BY DEF TablesInv
<1> QED
  BY <1>1, TablesInit, TablesStep, PTL DEF Spec

-----------------------------------------------------------------------------
(* The storage, when no two uploads get the same second.                   *)

LEMMA StorageInit == Init => StorageInv
<1> SUFFICES ASSUME Init PROVE StorageInv
  OBVIOUS
<1>1. TablesInv
  BY TablesInit
<1> QED
  BY <1>1 DEF Init, StorageInv, SecondsInv, OwnBlobs, OwnReceipts, NoForeignReceipt, NewUpload,
     OwnBuffers, BeforeRow, WithRow, Deleting

\* Nothing stored changes: what was the row's own still is.
LEMMA StoreKept ==
  ASSUME StorageInv, UNCHANGED <<tables, storage, clock>>, asked \subseteq asked'
  PROVE  SecondsInv' /\ OwnBlobs' /\ OwnReceipts'
BY DEF StorageInv, SecondsInv, OwnBlobs, OwnReceipts, NoForeignReceipt, Own, tables, storage

\* Between requests the local variables are of no account.
LEMMA IdleBuffers == ASSUME pc' = "idle" PROVE NewUpload' /\ OwnBuffers'
BY DEF NewUpload, OwnBuffers, BeforeRow, WithRow, Deleting

\* The row of the running request, and what its buffers hold.
LEMMA RowOfJob ==
  ASSUME StorageInv, pc \in WithRow
  PROVE  \E r \in files : /\ r.id = job.id /\ r.name = job.name
                          /\ job.ocr \in {None, r.name.at}
                          /\ pc = "extract" => job.data \in Own(r)
                          /\ pc \in WithText => job.text \in Own(r)
BY DEF StorageInv, OwnBuffers

\* A step of a request from one call on its row to another keeps the buffers
\* the row's own if the row stays and the new buffers are.
LEMMA BuffersKept ==
  ASSUME NEW r \in files', pc' \in WithRow, pc' \notin Deleting,
         r.id = job'.id, r.name = job'.name, job'.ocr \in {None, r.name.at},
         pc' = "extract" => job'.data \in Own(r),
         pc' \in WithText => job'.text \in Own(r)
  PROVE  NewUpload' /\ OwnBuffers'
BY DEF NewUpload, OwnBuffers, BeforeRow, WithRow, Own

LEMMA StorageFindByHash == ASSUME StorageInv, TablesInv', FindByHash PROVE StorageInv'
<1>1. SecondsInv' /\ OwnBlobs' /\ OwnReceipts'
  BY StoreKept DEF FindByHash
<1>2. NewUpload' /\ OwnBuffers'
  <2>1. CASE pc' = "idle"
    BY <2>1, IdleBuffers
  <2>2. CASE Continue("save_file", job)
    BY <2>2 DEF FindByHash, Continue, StorageInv, NewUpload, OwnBuffers, BeforeRow, WithRow,
       Deleting
  <2> QED
    BY <2>1, <2>2 DEF FindByHash, Answer
<1> QED
  BY <1>1, <1>2 DEF StorageInv

\* A file under a second to come disturbs no row.
LEMMA NewSecond ==
  ASSUME StorageInv, NEW s \in Stamps, s > clock, NEW e, NEW d,
         originals' = [originals EXCEPT ![[at |-> s, ext |-> e]] = d],
         clock' = s, UNCHANGED <<tables, texts, asked>>
  PROVE  SecondsInv' /\ OwnBlobs' /\ OwnReceipts'
<1> DEFINE name == [at |-> s, ext |-> e]
<1>0. clock \in Int /\ s \in Int /\ \A r \in files : r.name \in Name /\ r.name.at \in Int
  BY DEF StorageInv, TablesInv, TypeInv, TypeOK, FileRow, Name, Stamps
<1>1. \A r \in files : r.name.at <= clock /\ r.name # name
  BY <1>0 DEF StorageInv, SecondsInv
<1>2. \A n \in Name : n # name => originals'[n] = originals[n]
  BY DEF StorageInv, TablesInv, TypeInv, TypeOK
<1>3. \A n \in Name : n.at > s => n # name /\ n.at > clock
  BY <1>0 DEF Name, Stamps
<1>4. \A t \in Stamps : t > s => t > clock
  BY <1>0 DEF Stamps
<1>5. SecondsInv'
  BY <1>0, <1>1, <1>2, <1>3, <1>4 DEF StorageInv, SecondsInv, tables
<1>6. OwnBlobs'
  BY <1>0, <1>1, <1>2 DEF StorageInv, OwnBlobs, Own, tables
<1>7. OwnReceipts'
  BY DEF StorageInv, OwnReceipts, NoForeignReceipt, Own, tables
<1> QED
  BY <1>5, <1>6, <1>7

LEMMA StorageSaveOriginal ==
  ASSUME ~SecondsRepeat, StorageInv, TablesInv', SaveOriginal PROVE StorageInv'
<1> DEFINE name(s) == [at |-> s, ext |-> job.ext]
<1>1. PICK s \in Stamps :
        /\ s > clock
        /\ clock' = s
        /\ \E o \in SaveFile(originals[name(s)], job.data) :
             /\ originals' = [originals EXCEPT ![name(s)] = o.left]
             /\ IF o.ok THEN Continue("insert", [job EXCEPT !.name = name(s)])
                        ELSE Answer("save_failed", 0)
  BY DEF SaveOriginal
<1>2. PICK o \in SaveFile(originals[name(s)], job.data) :
        /\ originals' = [originals EXCEPT ![name(s)] = o.left]
        /\ IF o.ok THEN Continue("insert", [job EXCEPT !.name = name(s)])
                   ELSE Answer("save_failed", 0)
  BY <1>1
<1>3. SecondsInv' /\ OwnBlobs' /\ OwnReceipts'
  BY <1>1, <1>2, NewSecond DEF SaveOriginal
<1>4. CASE o.ok
  <2>1. /\ job \in Job /\ job.data = job.hash /\ job.ocr = None
        /\ name(s) \in Name
    BY DEF SaveOriginal, StorageInv, OwnBuffers, TablesInv, TypeInv, TypeOK, JobTyped,
       BeforeRow, Name
  <2>2. /\ pc' = "insert" /\ job'.name = name(s) /\ job'.hash = job.hash /\ job'.ocr = None
    BY <1>2, <1>4, <2>1 DEF Continue, Job
  <2>3. originals'[name(s)] \in {job.hash, Damaged, Blank}
    BY <1>2, <1>4, <2>1, SaveOutcomes DEF StorageInv, TablesInv, TypeInv, TypeOK
  <2>4. texts'[s] = None
    BY <1>1 DEF SaveOriginal, StorageInv, SecondsInv
  <2>5. \A r \in files' : r.name.at # s
    <3>1. clock \in Int /\ s \in Int /\ \A r \in files : r.name.at \in Int /\ r.name.at <= clock
      BY DEF StorageInv, SecondsInv, TablesInv, TypeInv, TypeOK, FileRow, Name, Stamps
    <3> QED
      BY <1>1, <3>1 DEF SaveOriginal, tables
  <2>6. NewUpload'
    BY <1>1, <2>2, <2>3, <2>4, <2>5 DEF NewUpload
  <2>7. OwnBuffers'
    BY <2>2 DEF OwnBuffers, WithRow, Deleting
  <2> QED
    BY <1>3, <2>6, <2>7 DEF StorageInv
<1>5. CASE ~o.ok
  BY <1>2, <1>3, <1>5, IdleBuffers DEF Answer, StorageInv
<1> QED
  BY <1>4, <1>5

LEMMA StorageInsertRow == ASSUME StorageInv, TablesInv', InsertRow PROVE StorageInv'
<1> DEFINE row == [id |-> lastId + 1, hash |-> job.hash, name |-> job.name, ocr |-> None]
<1>1. PICK o \in RepoInsert(files, row) :
        /\ files' = o.left
        /\ IF o.ok THEN Continue("extract", [job EXCEPT !.id = row.id])
                   ELSE Answer("db_error", 0)
  BY DEF InsertRow
<1>2. /\ job \in Job /\ job.data = job.hash /\ job.hash \in Contents
      /\ job.name \in Name /\ job.name.at = clock /\ job.ocr = None
  BY DEF InsertRow, StorageInv, NewUpload, OwnBuffers, TablesInv, TypeInv, TypeOK, JobTyped,
     BeforeRow
<1>3. /\ originals[row.name] \in Own(row) /\ originals[row.name] # None
      /\ texts[row.name.at] = None
      /\ \A r \in files : r.name.at # row.name.at
  BY <1>2, TablesAssumption DEF InsertRow, StorageInv, NewUpload, Own
<1>4. files' \in {files, files \cup {row}}
  BY <1>1, InsertOutcomes
<1>5. SecondsInv'
  <2>1. clock \in Int
    BY DEF StorageInv, TablesInv, TypeInv, TypeOK
  <2> QED
    BY <1>2, <1>3, <1>4, <2>1 DEF InsertRow, StorageInv, SecondsInv, storage
<1>6. OwnBlobs'
  BY <1>3, <1>4 DEF InsertRow, StorageInv, OwnBlobs, Own, storage
<1>7. OwnReceipts'
  <2>1. \A p \in receipts : p.file # row.id
    BY DEF StorageInv, TablesInv, TypeInv, TypeOK, TablesSound, FileRow, Ids
  <2> QED
    BY <1>4, <2>1 DEF InsertRow, StorageInv, OwnReceipts, NoForeignReceipt, Own
<1>8. CASE o.ok
  <2>1. row \in files'
    BY <1>1, <1>8, InsertOutcomes
  <2>2. /\ pc' = "extract" /\ job'.id = row.id /\ job'.name = job.name /\ job'.ocr = None
        /\ job'.data = job.hash
    BY <1>1, <1>2, <1>8 DEF Continue, Job
  <2>3. job'.data \in Own(row)
    BY <2>2 DEF Own
  <2>4. NewUpload' /\ OwnBuffers'
    BY <2>1, <2>2, <2>3, BuffersKept DEF WithRow, WithText, Deleting
  <2> QED
    BY <1>5, <1>6, <1>7, <2>4 DEF StorageInv
<1>9. CASE ~o.ok
  BY <1>1, <1>5, <1>6, <1>7, <1>9, IdleBuffers DEF Answer, StorageInv
<1> QED
  BY <1>8, <1>9

LEMMA StorageExtract ==
  ASSUME StorageInv, TablesInv', pc = "extract", NEW kind,
         Extracted \/ Answer(kind, job.id),
         UNCHANGED <<tables, storage, clock, asked, faults>>
  PROVE  StorageInv'
<1>1. SecondsInv' /\ OwnBlobs' /\ OwnReceipts'
  BY StoreKept
<1>2. CASE Answer(kind, job.id)
  BY <1>1, <1>2, IdleBuffers DEF Answer, StorageInv
<1>3. CASE Extracted
  <2>1. PICK t \in {job.data, Blank} :
          Continue("save_text", [job EXCEPT !.data = None, !.text = t])
    BY <1>3 DEF Extracted
  <2>2. PICK r \in files : /\ r.id = job.id /\ r.name = job.name
                           /\ job.ocr \in {None, r.name.at} /\ job.data \in Own(r)
    BY RowOfJob DEF WithRow
  <2>3. /\ pc' = "save_text" /\ job'.id = job.id /\ job'.name = job.name
        /\ job'.ocr = job.ocr /\ job'.text = t
    BY <2>1 DEF Continue, StorageInv, TablesInv, TypeInv, TypeOK, Job
  <2>4. t \in Own(r) /\ r \in files'
    BY <2>1, <2>2 DEF Own, tables
  <2>5. NewUpload' /\ OwnBuffers'
    BY <2>2, <2>3, <2>4, BuffersKept DEF WithRow, WithText, Deleting
  <2> QED
    BY <1>1, <2>5 DEF StorageInv
<1> QED
  BY <1>2, <1>3

\* Writing a text of the row's own, or a damaged one, under its OCR name.
LEMMA OwnTextWritten ==
  ASSUME StorageInv, NEW r \in files, NEW d \in Own(r) \cup {None},
         texts' = [texts EXCEPT ![r.name.at] = d],
         UNCHANGED <<tables, originals, clock, asked>>
  PROVE  SecondsInv' /\ OwnBlobs' /\ OwnReceipts'
<1>1. /\ r.name.at \in Stamps /\ clock \in Int /\ r.name.at <= clock
      /\ texts \in [Stamps -> Cell]
      /\ \A q \in files : q.name.at \in Stamps
  BY DEF StorageInv, SecondsInv, TablesInv, TypeInv, TypeOK, FileRow, Name
<1>2. \A t \in Stamps : t > clock => t # r.name.at
  BY <1>1 DEF Stamps
<1>3. SecondsInv'
  BY <1>1, <1>2 DEF StorageInv, SecondsInv, tables
<1>4. \A q \in files : q.name.at = r.name.at => q = r
  BY DEF StorageInv, SecondsInv
<1>5. OwnBlobs'
  BY <1>1, <1>4 DEF StorageInv, OwnBlobs, Own, tables
<1>6. OwnReceipts'
  BY DEF StorageInv, OwnReceipts, NoForeignReceipt, Own, tables
<1> QED
  BY <1>3, <1>5, <1>6

LEMMA StorageSaveText == ASSUME StorageInv, TablesInv', SaveText PROVE StorageInv'
<1>1. PICK r \in files : /\ r.id = job.id /\ r.name = job.name
                         /\ job.ocr \in {None, r.name.at} /\ job.text \in Own(r)
  BY RowOfJob DEF SaveText, WithRow, WithText
<1>2. PICK o \in SaveFile(texts[r.name.at], job.text) :
        texts' = [texts EXCEPT ![r.name.at] = o.left]
  BY <1>1 DEF SaveText, OcrName
<1>3. o.left \in Own(r) \cup {None}
  BY <1>1, <1>2, SaveOutcomes DEF StorageInv, OwnBlobs, Own
<1>4. SecondsInv' /\ OwnBlobs' /\ OwnReceipts'
  BY <1>2, <1>3, OwnTextWritten DEF SaveText
<1>5. NewUpload' /\ OwnBuffers'
  BY <1>1, BuffersKept DEF SaveText, Continue, WithRow, WithText, Deleting, tables
<1> QED
  BY <1>4, <1>5 DEF StorageInv

LEMMA StorageMarkOcr == ASSUME StorageInv, TablesInv', MarkOcr PROVE StorageInv'
<1>1. PICK r \in files : /\ r.id = job.id /\ r.name = job.name
                         /\ job.ocr \in {None, r.name.at} /\ job.text \in Own(r)
  BY RowOfJob DEF MarkOcr, WithRow, WithText
<1> DEFINE ocr == OcrName(job.name)
           Marked(q) == IF q.id = job.id THEN ocr ELSE q.ocr
<1>2. files' \in {files, WithOcr(files, job.id, ocr)}
  BY MarkOcrOutcomes DEF MarkOcr
<1>3. ocr = r.name.at /\ ocr \in Stamps /\ files \in SUBSET FileRow /\ files' \in SUBSET FileRow
  BY <1>1, OcrNameType
     DEF StorageInv, TablesInv, TypeInv, TypeOK, FileRow, OcrName
<1>4. ASSUME NEW q \in files'
      PROVE  \E u \in files : /\ u.id = q.id /\ u.hash = q.hash /\ u.name = q.name
                              /\ q.ocr \in {u.ocr, Marked(u)}
  BY <1>2, <1>3, WithOcrKeeps
<1>5. \E q \in files' : q.id = r.id /\ q.hash = r.hash /\ q.name = r.name
  BY <1>2, <1>3, WithOcrKeeps
<1>6. \A u \in files : u.id = job.id => u = r
  BY <1>1 DEF StorageInv, TablesInv, TablesSound
<1>7. \A u \in files : Marked(u) \in {None, u.name.at}
  BY <1>3, <1>6 DEF StorageInv, OwnBlobs
<1> HIDE DEF Marked, ocr
<1>8. SecondsInv'
  <2>1. \A q, t \in files' : q.name.at = t.name.at => q = t
    <3> SUFFICES ASSUME NEW q \in files', NEW t \in files', q.name.at = t.name.at PROVE q = t
      OBVIOUS
    <3>1. PICK u \in files : u.id = q.id /\ u.name = q.name
      BY <1>4
    <3>2. PICK v \in files : v.id = t.id /\ v.name = t.name
      BY <1>4
    <3>3. u = v
      BY <3>1, <3>2 DEF StorageInv, SecondsInv
    <3> QED
      BY <3>1, <3>2, <3>3 DEF TablesInv, TablesSound
  <2> QED
    BY <1>4, <2>1 DEF MarkOcr, StorageInv, SecondsInv, storage
<1>9. OwnBlobs'
  BY <1>4, <1>7 DEF MarkOcr, StorageInv, OwnBlobs, Own, storage
<1>10. OwnReceipts'
  BY <1>4 DEF MarkOcr, StorageInv, OwnReceipts, NoForeignReceipt, Own
<1>11. NewUpload' /\ OwnBuffers'
  BY <1>1, <1>5, BuffersKept DEF MarkOcr, Continue, WithRow, WithText, Deleting, Own
<1> QED
  BY <1>8, <1>9, <1>10, <1>11 DEF StorageInv

LEMMA StorageParse ==
  ASSUME StorageInv, TablesInv', pc = "parse", NEW kind,
         Parsed \/ Answer(kind, job.id),
         UNCHANGED <<tables, storage, clock, asked, faults>>
  PROVE  StorageInv'
<1>1. SecondsInv' /\ OwnBlobs' /\ OwnReceipts'
  BY StoreKept
<1>2. CASE Answer(kind, job.id)
  BY <1>1, <1>2, IdleBuffers DEF Answer, StorageInv
<1>3. CASE Parsed
  <2>1. PICK r \in files : /\ r.id = job.id /\ r.name = job.name
                           /\ job.ocr \in {None, r.name.at} /\ job.text \in Own(r)
    BY RowOfJob DEF WithRow, WithText
  <2>2. /\ pc' = "mark_parsing" /\ job'.id = job.id /\ job'.name = job.name
        /\ job'.ocr = job.ocr /\ job'.text = job.text
    BY <1>3 DEF Parsed, Continue, StorageInv, TablesInv, TypeInv, TypeOK, Job
  <2>3. NewUpload' /\ OwnBuffers'
    BY <2>1, <2>2, BuffersKept DEF WithRow, WithText, Deleting, tables
  <2> QED
    BY <1>1, <2>3 DEF StorageInv
<1> QED
  BY <1>2, <1>3

LEMMA StorageRecord ==
  ASSUME StorageInv, TablesInv', pc = "mark_parsing", Record PROVE StorageInv'
<1>1. PICK r \in files : r.id = job.id /\ job.text \in Own(r)
  BY RowOfJob DEF WithRow, WithText
<1>2. \A q \in files : q.id = job.id => q = r
  BY <1>1 DEF StorageInv, TablesInv, TablesSound
<1> DEFINE p == [file |-> job.id, from |-> job.text, ok |-> job.ok]
<1>3. receipts' \in {receipts, Upsert(receipts, p)}
  BY MarkParsingOutcomes DEF Record
<1>4. OwnReceipts'
  BY <1>1, <1>2, <1>3 DEF Record, StorageInv, OwnReceipts, NoForeignReceipt, Own, Upsert
<1>5. SecondsInv' /\ OwnBlobs'
  BY DEF Record, StorageInv, SecondsInv, OwnBlobs, Own, storage
<1>6. NewUpload' /\ OwnBuffers'
  BY IdleBuffers DEF Record, Answer
<1> QED
  BY <1>4, <1>5, <1>6 DEF StorageInv

LEMMA StorageRequest ==
  ASSUME StorageInv, TablesInv', NEW op, NEW i, Request(op, i),
         asked \subseteq asked', op = "delete" => i \in asked'
  PROVE  StorageInv'
<1>1. SecondsInv' /\ OwnBlobs' /\ OwnReceipts'
  BY StoreKept DEF Request, StartJob
<1>2. pc' = "find_by_id" /\ job'.op = op /\ job'.id = i
  BY DEF Request, StartJob, NoJob
<1>3. NewUpload' /\ OwnBuffers'
  BY <1>2 DEF NewUpload, OwnBuffers, BeforeRow, WithRow, Deleting
<1> QED
  BY <1>1, <1>3 DEF StorageInv

LEMMA StorageUpload ==
  ASSUME StorageInv, TablesInv', NEW c \in Contents, NEW e \in Exts, Upload(c, e)
  PROVE  StorageInv'
<1>1. SecondsInv' /\ OwnBlobs' /\ OwnReceipts'
  BY StoreKept DEF Upload, StartJob
<1>2. pc' = "find_by_hash" /\ job'.ocr = None
  BY DEF Upload, StartJob, NoJob
<1>3. NewUpload' /\ OwnBuffers'
  BY <1>2 DEF NewUpload, OwnBuffers, BeforeRow, WithRow, Deleting
<1> QED
  BY <1>1, <1>3 DEF StorageInv

\* A row that was looked up has names that are its own.
LEMMA StorageFound ==
  ASSUME StorageInv, TablesInv', pc = "find_by_id", NEW r \in ById(files, job.id),
         NEW next \in {"read_text", "read_binary", "unlink_original"},
         next = "unlink_original" => job.op = "delete",
         Continue(next, [job EXCEPT !.name = r.name, !.ocr = r.ocr]),
         UNCHANGED <<tables, storage, clock, asked, faults>>
  PROVE  StorageInv'
<1>1. SecondsInv' /\ OwnBlobs' /\ OwnReceipts'
  BY StoreKept
<1>2. r \in files /\ r.id = job.id /\ r.ocr \in {None, r.name.at}
  BY DEF ById, StorageInv, OwnBlobs
<1>3. pc' = next /\ job'.id = job.id /\ job'.name = r.name /\ job'.ocr = r.ocr
  BY DEF Continue, StorageInv, TablesInv, TypeInv, TypeOK, Job
<1>4. next = "unlink_original" => job.id \in asked
  BY DEF StorageInv, OwnBuffers
<1>5. NewUpload' /\ OwnBuffers'
  BY <1>2, <1>3, <1>4
     DEF NewUpload, OwnBuffers, BeforeRow, WithRow, WithText, Deleting, Own, tables
<1> QED
  BY <1>1, <1>5 DEF StorageInv

LEMMA StorageFindForRetry == ASSUME StorageInv, TablesInv', FindForRetry PROVE StorageInv'
<1>1. CASE pc' = "idle"
  BY <1>1, StoreKept, IdleBuffers DEF FindForRetry, StorageInv
<1>2. CASE \E r \in ById(files, job.id) :
             Continue("read_text", [job EXCEPT !.name = r.name, !.ocr = r.ocr])
  BY <1>2, StorageFound DEF FindForRetry
<1> QED
  BY <1>1, <1>2 DEF FindForRetry, Answer

\* Steps that answer and leave tables and storage alone.
LEMMA StorageAnswered ==
  ASSUME StorageInv, TablesInv', pc' = "idle", UNCHANGED <<tables, storage, clock, asked>>
  PROVE  StorageInv'
BY StoreKept, IdleBuffers DEF StorageInv

LEMMA StorageReadText == ASSUME StorageInv, TablesInv', ReadText PROVE StorageInv'
<1>1. CASE pc' = "idle"
  BY <1>1, StorageAnswered DEF ReadText
<1>2. CASE Readable(texts[job.ocr]) /\ Continue("parse", [job EXCEPT !.text = texts[job.ocr]])
  <2>1. PICK r \in files : r.id = job.id /\ r.name = job.name /\ job.ocr \in {None, r.name.at}
    BY RowOfJob DEF ReadText, WithRow
  <2>2. job.ocr \in Stamps /\ job.ocr = r.name.at
    BY <2>1, TablesAssumption
       DEF ReadText, StorageInv, TablesInv, TypeInv, JobTyped, Stamps
  <2>3. texts[job.ocr] \in Own(r)
    BY <1>2, <2>2 DEF StorageInv, OwnBlobs, Readable, LocalReads, SupabaseReads
  <2>4. /\ pc' = "parse" /\ job'.id = job.id /\ job'.name = job.name /\ job'.ocr = job.ocr
        /\ job'.text = texts[job.ocr]
    BY <1>2 DEF Continue, StorageInv, TablesInv, TypeInv, TypeOK, Job
  <2>5. r \in files'
    BY <2>1 DEF ReadText, tables
  <2>6. NewUpload' /\ OwnBuffers'
    BY <2>1, <2>3, <2>4, <2>5, BuffersKept DEF WithRow, WithText, Deleting
  <2> QED
    BY <2>6, StoreKept DEF ReadText, StorageInv
<1> QED
  BY <1>1, <1>2 DEF ReadText, Answer

LEMMA StorageReadOriginal == ASSUME StorageInv, TablesInv', ReadOriginal PROVE StorageInv'
<1>1. CASE pc' = "idle"
  BY <1>1, StorageAnswered DEF ReadOriginal
<1>2. CASE /\ Readable(originals[job.name])
           /\ Continue("extract", [job EXCEPT !.data = originals[job.name]])
  <2>1. PICK r \in files : r.id = job.id /\ r.name = job.name /\ job.ocr \in {None, r.name.at}
    BY RowOfJob DEF ReadOriginal, WithRow
  <2>2. originals[job.name] \in Own(r)
    BY <1>2, <2>1 DEF StorageInv, OwnBlobs, Readable, LocalReads, SupabaseReads
  <2>3. /\ pc' = "extract" /\ job'.id = job.id /\ job'.name = job.name /\ job'.ocr = job.ocr
        /\ job'.data = originals[job.name]
    BY <1>2 DEF Continue, StorageInv, TablesInv, TypeInv, TypeOK, Job
  <2>4. r \in files'
    BY <2>1 DEF ReadOriginal, tables
  <2>5. NewUpload' /\ OwnBuffers'
    BY <2>1, <2>2, <2>3, <2>4, BuffersKept DEF WithRow, WithText, Deleting
  <2> QED
    BY <2>5, StoreKept DEF ReadOriginal, StorageInv
<1> QED
  BY <1>1, <1>2 DEF ReadOriginal, Answer

\* The calls of a deletion know that it was asked for.
LEMMA DeletingKept ==
  ASSUME StorageInv, UNCHANGED <<files, asked>>, job' = job,
         pc \in Deleting, pc' \in Deleting
  PROVE  NewUpload' /\ OwnBuffers'
BY DEF StorageInv, NewUpload, OwnBuffers, BeforeRow, WithRow, WithText, Deleting

LEMMA StorageUnlinkOriginal == ASSUME StorageInv, TablesInv', UnlinkOriginal PROVE StorageInv'
<1>1. PICK r \in files : r.id = job.id /\ r.name = job.name
  BY RowOfJob DEF UnlinkOriginal, WithRow
<1>2. job.id \in asked
  BY DEF UnlinkOriginal, StorageInv, OwnBuffers, Deleting
<1>3. PICK o \in DeleteFile(originals[r.name]) : originals' = [originals EXCEPT ![r.name] = o.left]
  BY <1>1 DEF UnlinkOriginal
<1>4. o.left \in {originals[r.name], None}
  BY DeleteFileOutcomes
<1>5. originals \in [Name -> Cell] /\ r.name \in Name
  BY DEF StorageInv, TablesInv, TypeInv, TypeOK, FileRow
<1>6. SecondsInv'
  BY <1>3, <1>4, <1>5 DEF UnlinkOriginal, StorageInv, SecondsInv, tables
<1>7. \A q \in files : q.name = r.name => q = r
  BY DEF StorageInv, TablesInv, TablesSound
<1>8. OwnBlobs'
  BY <1>1, <1>2, <1>3, <1>4, <1>5, <1>7
     DEF UnlinkOriginal, StorageInv, OwnBlobs, Own, tables
<1>9. OwnReceipts'
  BY DEF UnlinkOriginal, StorageInv, OwnReceipts, NoForeignReceipt, Own, tables
<1>10. NewUpload' /\ OwnBuffers'
  BY DeletingKept DEF UnlinkOriginal, Continue, Deleting, tables
<1> QED
  BY <1>6, <1>8, <1>9, <1>10 DEF StorageInv

LEMMA StorageUnlinkText == ASSUME StorageInv, TablesInv', UnlinkText PROVE StorageInv'
<1>1. PICK r \in files : r.id = job.id /\ r.name = job.name /\ job.ocr \in {None, r.name.at}
  BY RowOfJob DEF UnlinkText, WithRow
<1>2. job.ocr = r.name.at
  BY <1>1, TablesAssumption DEF UnlinkText, StorageInv, TablesInv, TypeInv, JobTyped, Stamps
<1>3. PICK o \in DeleteFile(texts[r.name.at]) : texts' = [texts EXCEPT ![r.name.at] = o.left]
  BY <1>2 DEF UnlinkText
<1>4. o.left \in Own(r) \cup {None}
  BY DeleteFileOutcomes DEF StorageInv, OwnBlobs, Own
<1>5. SecondsInv' /\ OwnBlobs' /\ OwnReceipts'
  BY <1>3, <1>4, OwnTextWritten DEF UnlinkText
<1>6. NewUpload' /\ OwnBuffers'
  BY DeletingKept DEF UnlinkText, Continue, Deleting, tables
<1> QED
  BY <1>5, <1>6 DEF StorageInv

LEMMA StorageDeleteRow == ASSUME StorageInv, TablesInv', DeleteRow PROVE StorageInv'
<1>1. files' \subseteq files /\ receipts' \subseteq receipts
  BY DeleteOutcomes DEF DeleteRow, Without, Cascade
<1>2. SecondsInv' /\ OwnBlobs' /\ OwnReceipts'
  BY <1>1 DEF DeleteRow, StorageInv, SecondsInv, OwnBlobs, OwnReceipts, NoForeignReceipt,
     Own, storage
<1>3. NewUpload' /\ OwnBuffers'
  BY IdleBuffers DEF DeleteRow, Answer
<1> QED
  BY <1>2, <1>3 DEF StorageInv

LEMMA StorageCrash == ASSUME ~SecondsRepeat, StorageInv, TablesInv', Crash PROVE StorageInv'
<1>1. pc' = "idle" /\ UNCHANGED <<tables, asked>>
  BY DEF Crash, Kill
<1>2. CASE UNCHANGED <<storage, clock>>
  BY <1>1, <1>2, StorageAnswered
<1>3. CASE /\ UNCHANGED texts
           /\ \E s \in Stamps, d \in TornWrite :
                /\ s > clock
                /\ clock' = s
                /\ originals' = [originals EXCEPT ![[at |-> s, ext |-> job.ext]] = d]
  BY <1>1, <1>3, NewSecond, IdleBuffers DEF StorageInv
<1>4. CASE /\ pc = "save_text" /\ UNCHANGED <<originals, clock>>
           /\ \E d \in TornWrite : texts' = [texts EXCEPT ![OcrName(job.name)] = d]
  <2>1. PICK r \in files : r.name = job.name
    BY <1>4, RowOfJob DEF WithRow
  <2>2. PICK d \in TornWrite : texts' = [texts EXCEPT ![r.name.at] = d]
    BY <1>4, <2>1 DEF OcrName
  <2>3. d \in Own(r) \cup {None}
    BY TornWriteOutcomes DEF Own
  <2>4. SecondsInv' /\ OwnBlobs' /\ OwnReceipts'
    BY <1>1, <1>4, <2>2, <2>3, OwnTextWritten
  <2> QED
    BY <1>1, <2>4, IdleBuffers DEF StorageInv
<1> QED
  BY <1>2, <1>3, <1>4 DEF Crash

\* Every step keeps what is stored under a row's names the row's own.
LEMMA StorageStep ==
  ASSUME ~SecondsRepeat PROVE StorageInv /\ [Next]_vars => StorageInv'
<1> SUFFICES ASSUME StorageInv, [Next]_vars PROVE StorageInv'
  OBVIOUS
<1>1. TablesInv'
  BY TablesStep DEF StorageInv
<1>2. CASE UNCHANGED vars
  BY <1>1, <1>2 DEF vars, StorageInv, SecondsInv, OwnBlobs, OwnReceipts, NoForeignReceipt,
     NewUpload, OwnBuffers, Own
<1>3. CASE Arrive
  <2>1. CASE \E c \in Contents, e \in Exts : Upload(c, e)
    BY <1>1, <2>1, StorageUpload
  <2>2. CASE \E i \in Ids : Retry(i) \/ RetryWithModel(i)
    BY <1>1, <2>2, StorageRequest DEF Retry, RetryWithModel
  <2>3. CASE \E i \in Ids : Delete(i)
    BY <1>1, <2>3, StorageRequest DEF Delete
  <2> QED
    BY <1>3, <2>1, <2>2, <2>3 DEF Arrive
<1>4. CASE Step
  <2>1. CASE RunOcr \/ ExtractWithModel
    BY <1>1, <2>1, StorageExtract DEF RunOcr, ExtractWithModel
  <2>2. CASE ParseReceipt \/ ParseAgain \/ ParseWithModel
    BY <1>1, <2>2, StorageParse DEF ParseReceipt, ParseAgain, ParseWithModel
  <2>3. CASE RecordReceipt \/ RecordRetry \/ RecordWithModel
    BY <1>1, <2>3, StorageRecord DEF RecordReceipt, RecordRetry, RecordWithModel
  <2>4. CASE FindForModel
    BY <1>1, <2>4, StorageFound DEF FindForModel
  <2>5. CASE FindForDelete
    BY <1>1, <2>5, StorageFound DEF FindForDelete
  <2>6. CASE FindByHash \/ SaveOriginal \/ InsertRow \/ SaveText \/ MarkOcr
    BY <1>1, <2>6, StorageFindByHash, StorageSaveOriginal, StorageInsertRow, StorageSaveText,
       StorageMarkOcr
  <2>7. CASE NotFound
    BY <1>1, <2>7, StorageAnswered DEF NotFound, Answer
  <2>8. CASE FindForRetry \/ ReadText \/ ReadOriginal
    BY <1>1, <2>8, StorageFindForRetry, StorageReadText, StorageReadOriginal
  <2>9. CASE UnlinkOriginal \/ UnlinkText \/ DeleteRow
    BY <1>1, <2>9, StorageUnlinkOriginal, StorageUnlinkText, StorageDeleteRow
  <2> QED
    BY <1>4, <2>1, <2>2, <2>3, <2>4, <2>5, <2>6, <2>7, <2>8, <2>9 DEF Step
<1>5. CASE Crash
  BY <1>1, <1>5, StorageCrash
<1> QED
  BY <1>2, <1>3, <1>4, <1>5 DEF Next

\* When no two uploads get the same second, no file ever gets a receipt that
\* was parsed from another file: not after kills, half-written files, failed
\* calls, deletions and retries in any order.
THEOREM NoForeignReceiptCorrect ==
  ASSUME ~SecondsRepeat PROVE Spec => []NoForeignReceipt
<1>1. StorageInv => NoForeignReceipt
  BY DEF StorageInv, OwnReceipts
<1>2. StorageInv /\ [Next]_vars => StorageInv'
  BY StorageStep
<1> QED
  BY <1>1, <1>2, StorageInit, PTL DEF Spec

\* And the original of a file nobody asked to delete stays in storage.
THEOREM OriginalKeptCorrect ==
  ASSUME ~SecondsRepeat PROVE Spec => []OriginalKept
<1>1. StorageInv => OriginalKept
  BY DEF StorageInv, OwnBlobs, OriginalKept
<1>2. StorageInv /\ [Next]_vars => StorageInv'
  BY StorageStep
<1> QED
  BY <1>1, <1>2, StorageInit, PTL DEF Spec

-----------------------------------------------------------------------------
(* Rows keep their identity, also when seconds repeat.                     *)

LEMMA NamesInit == Init => NamesInv
<1> SUFFICES ASSUME Init PROVE NamesInv
  OBVIOUS
<1>1. TablesInv
  BY TablesInit
<1> QED
  BY <1>1 DEF Init, NamesInv, WithRow

\* What one step may do to a table of files: nothing, add the row of a fresh
\* id, mark the row of the running request, or take a row out.
FilesStep ==
  \/ files' = files /\ lastId' \in {lastId, lastId + 1}
  \/ \E row \in FileRow : /\ row.id = lastId + 1 /\ row.ocr = None
                          /\ files' = files \cup {row}
                          /\ lastId' = lastId + 1
  \/ /\ pc = "mark_ocr"
     /\ files' = WithOcr(files, job.id, OcrName(job.name)) /\ lastId' = lastId
  \/ files' = Without(files, job.id) /\ lastId' = lastId

LEMMA FilesStepInsert == ASSUME TablesInv, InsertRow PROVE FilesStep
<1> DEFINE row == [id |-> lastId + 1, hash |-> job.hash, name |-> job.name, ocr |-> None]
<1>1. PICK o \in RepoInsert(files, row) :
        files' = o.left /\ lastId' \in LastIdAfter(lastId, row \in o.left)
  BY DEF InsertRow
<1>2. lastId + 1 \in Ids
  BY TablesAssumption DEF InsertRow, TablesInv, TypeInv, TypeOK, JobTyped, BeforeRow, Ids
<1>3. row \in FileRow /\ row.id = lastId + 1 /\ row.ocr = None
  BY <1>2 DEF InsertRow, TablesInv, TypeInv, JobTyped, BeforeRow, FileRow
<1>4. lastId' \in {lastId, lastId + 1} /\ (row \in files' => lastId' = lastId + 1)
  BY <1>1, LastIdOutcomes
<1>5. files' = files \/ files' = files \cup {row}
  BY <1>1, InsertOutcomes
<1> HIDE DEF row
<1> QED
  BY <1>3, <1>4, <1>5 DEF FilesStep

\* Every step is one of these.
LEMMA FilesSteps == ASSUME TablesInv, [Next]_vars PROVE FilesStep
<1>1. CASE UNCHANGED tables
  BY <1>1 DEF FilesStep, tables
<1>2. CASE InsertRow
  BY <1>2, FilesStepInsert
<1>3. CASE MarkOcr
  BY <1>3, MarkOcrOutcomes DEF MarkOcr, FilesStep
<1>4. CASE Record
  BY <1>4 DEF Record, FilesStep
<1>5. CASE DeleteRow
  BY <1>5, DeleteOutcomes DEF DeleteRow, FilesStep
<1>6. CASE UNCHANGED vars
  BY <1>1, <1>6 DEF vars, tables
<1>7. CASE Arrive \/ Crash
  BY <1>1, <1>7 DEF Arrive, Upload, Retry, RetryWithModel, Delete, Request, StartJob, Crash, Kill
<1>8. CASE Step
  <2>1. CASE RecordReceipt \/ RecordRetry \/ RecordWithModel
    BY <1>4, <2>1 DEF RecordReceipt, RecordRetry, RecordWithModel
  <2>2. CASE FindByHash \/ SaveOriginal \/ RunOcr \/ SaveText \/ ParseReceipt \/ NotFound
               \/ FindForRetry \/ ReadText \/ ParseAgain
    BY <1>1, <2>2 DEF FindByHash, SaveOriginal, RunOcr, SaveText, ParseReceipt, NotFound,
       FindForRetry, ReadText, ParseAgain
  <2>3. CASE FindForModel \/ ReadOriginal \/ ExtractWithModel \/ ParseWithModel
               \/ FindForDelete \/ UnlinkOriginal \/ UnlinkText
    BY <1>1, <2>3 DEF FindForModel, ReadOriginal, ExtractWithModel, ParseWithModel,
       FindForDelete, UnlinkOriginal, UnlinkText
  <2> QED
    BY <1>2, <1>3, <1>5, <1>8, <2>1, <2>2, <2>3 DEF Step
<1> QED
  BY <1>6, <1>7, <1>8 DEF Next

\* Rows of a marked table: the row of the id alone gets the name.
LEMMA MarkedRows ==
  ASSUME NamesInv, pc = "mark_ocr", files' = WithOcr(files, job.id, OcrName(job.name))
  PROVE  \A q \in files' :
           \E r \in files : /\ r.id = q.id /\ r.hash = q.hash /\ r.name = q.name
                            /\ q.ocr = r.ocr \/ (q.ocr = OcrName(r.name) /\ r.id = job.id)
<1>1. PICK u \in files : u.id = job.id /\ u.name = job.name
  BY DEF NamesInv, WithRow
<1>2. \A r \in files : r.id = job.id => r = u
  BY <1>1 DEF NamesInv, TablesInv, TablesSound
<1>3. files \in SUBSET FileRow /\ OcrName(job.name) \in Stamps
  BY OcrNameType DEF NamesInv, TablesInv, TypeInv, TypeOK, JobTyped, WithRow
<1> SUFFICES ASSUME NEW q \in files'
             PROVE  \E r \in files :
                      /\ r.id = q.id /\ r.hash = q.hash /\ r.name = q.name
                      /\ q.ocr = r.ocr \/ (q.ocr = OcrName(r.name) /\ r.id = job.id)
  OBVIOUS
<1>4. PICK r \in files : /\ r.id = q.id /\ r.hash = q.hash /\ r.name = q.name
                         /\ q.ocr = (IF r.id = job.id THEN OcrName(job.name) ELSE r.ocr)
  BY <1>3, WithOcrKeeps
<1>5. r.id = job.id => r.name = job.name
  BY <1>1, <1>2
<1> QED
  BY <1>4, <1>5

\* A row's OCR text is the one its name gives.
LEMMA OcrNamesStep ==
  ASSUME NamesInv, [Next]_vars
  PROVE  \A q \in files' : q.ocr \in {None, OcrName(q.name)}
<1>1. FilesStep
  BY FilesSteps DEF NamesInv
<1>2. \A r \in files : r.ocr \in {None, OcrName(r.name)}
  BY DEF NamesInv
<1>3. CASE /\ pc = "mark_ocr"
           /\ files' = WithOcr(files, job.id, OcrName(job.name))
  <2> SUFFICES ASSUME NEW q \in files' PROVE q.ocr \in {None, OcrName(q.name)}
    OBVIOUS
  <2>1. PICK r \in files : r.name = q.name /\ (q.ocr = r.ocr \/ q.ocr = OcrName(r.name))
    BY <1>3, MarkedRows
  <2> QED
    BY <1>2, <2>1
<1>4. CASE files' = files \/ files' = Without(files, job.id)
  BY <1>2, <1>4 DEF Without
<1>5. CASE \E row \in FileRow : row.ocr = None /\ files' = files \cup {row}
  BY <1>2, <1>5
<1> QED
  BY <1>1, <1>3, <1>4, <1>5 DEF FilesStep

\* A request works under the name of its row.
LEMMA RowNameStep ==
  ASSUME NamesInv, [Next]_vars, pc' \in WithRow
  PROVE  \E q \in files' : q.id = job'.id /\ q.name = job'.name
<1> USE DEF WithRow
<1>0. job \in Job
  BY DEF NamesInv, TablesInv, TypeInv, TypeOK
<1>1. CASE UNCHANGED vars
  BY <1>1 DEF vars, NamesInv
<1>2. CASE InsertRow
  <2> DEFINE row == [id |-> lastId + 1, hash |-> job.hash, name |-> job.name, ocr |-> None]
  <2>1. PICK o \in RepoInsert(files, row) :
          /\ files' = o.left
          /\ IF o.ok THEN Continue("extract", [job EXCEPT !.id = row.id])
                     ELSE Answer("db_error", 0)
    BY <1>2 DEF InsertRow
  <2>2. o.ok
    BY <2>1 DEF Answer
  <2>3. row \in files'
    BY <2>1, <2>2, InsertOutcomes
  <2>4. job'.id = row.id /\ job'.name = row.name
    BY <1>0, <2>1, <2>2 DEF Continue, Job
  <2> QED
    BY <2>3, <2>4
<1>3. CASE MarkOcr
  <2>1. job' = job /\ pc = "mark_ocr"
    BY <1>3 DEF MarkOcr, Continue
  <2>2. PICK r \in files : r.id = job.id /\ r.name = job.name
    BY <2>1 DEF NamesInv
  <2>3. files' \in {files, WithOcr(files, job.id, OcrName(job.name))}
    BY <1>3, MarkOcrOutcomes DEF MarkOcr
  <2>4. files \in SUBSET FileRow /\ OcrName(job.name) \in Stamps
    BY <2>1, OcrNameType DEF NamesInv, TablesInv, TypeInv, TypeOK, JobTyped
  <2>5. \E q \in files' : r.id = q.id /\ r.name = q.name
    BY <2>3, <2>4, WithOcrKeeps
  <2> QED
    BY <2>1, <2>2, <2>5
<1>4. CASE Record \/ DeleteRow
  BY <1>4 DEF Record, DeleteRow, Answer
<1>5. CASE Arrive \/ Crash
  BY <1>5 DEF Arrive, Upload, Retry, RetryWithModel, Delete, Request, StartJob, Crash, Kill
<1>6. CASE FindByHash \/ SaveOriginal \/ NotFound
  BY <1>6 DEF FindByHash, SaveOriginal, NotFound, Continue, Answer
<1>7. CASE RunOcr \/ SaveText \/ ParseReceipt \/ ReadText \/ ParseAgain \/ ReadOriginal
             \/ ExtractWithModel \/ ParseWithModel \/ UnlinkOriginal \/ UnlinkText
  <2>1. UNCHANGED files /\ pc \in WithRow /\ job'.id = job.id /\ job'.name = job.name
    BY <1>0, <1>7 DEF RunOcr, SaveText, ParseReceipt, ReadText, ParseAgain, ReadOriginal,
       ExtractWithModel, ParseWithModel, UnlinkOriginal, UnlinkText, Extracted, Parsed,
       Continue, Answer, tables, Job
  <2> QED
    BY <2>1 DEF NamesInv
<1>8. CASE FindForRetry \/ FindForModel \/ FindForDelete
  <2>1. PICK r \in ById(files, job.id) : job'.id = job.id /\ job'.name = r.name
    BY <1>0, <1>8 DEF FindForRetry, FindForModel, FindForDelete, Continue, Answer, Job
  <2> QED
    BY <1>8, <2>1 DEF FindForRetry, FindForModel, FindForDelete, ById, tables
<1> QED
  BY <1>1, <1>2, <1>3, <1>4, <1>5, <1>6, <1>7, <1>8
     DEF Next, Step, RecordReceipt, RecordRetry, RecordWithModel

LEMMA NamesStep == NamesInv /\ [Next]_vars => NamesInv'
<1>1. NamesInv /\ [Next]_vars => TablesInv'
  BY TablesStep DEF NamesInv
<1> QED
  BY <1>1, OcrNamesStep, RowNameStep DEF NamesInv

\* What one step may do to a row, and to the ids.
LEMMA IdentityStep ==
  ASSUME NamesInv, [Next]_vars
  PROVE  /\ lastId' >= lastId
         /\ \A q \in files' :
              IF \E r \in files : r.id = q.id
              THEN \E r \in files : /\ r.id = q.id /\ r.hash = q.hash /\ r.name = q.name
                                    /\ r.ocr # None => q.ocr = r.ocr
              ELSE q.id > lastId
<1>1. FilesStep
  BY FilesSteps DEF NamesInv
<1>2. lastId \in Int /\ lastId' >= lastId
  BY <1>1 DEF FilesStep, NamesInv, TablesInv, TypeInv, TypeOK
<1>3. \A r \in files : r.ocr \in {None, OcrName(r.name)}
  BY DEF NamesInv
<1> DEFINE Same(r, q) == /\ r.id = q.id /\ r.hash = q.hash /\ r.name = q.name
                         /\ r.ocr # None => q.ocr = r.ocr
<1> SUFFICES ASSUME NEW q \in files'
             PROVE  (\E r \in files : Same(r, q)) \/ (q.id > lastId /\ \A r \in files : r.id # q.id)
  BY <1>2
<1>4. CASE /\ pc = "mark_ocr"
           /\ files' = WithOcr(files, job.id, OcrName(job.name))
  <2>1. PICK r \in files : /\ r.id = q.id /\ r.hash = q.hash /\ r.name = q.name
                           /\ q.ocr = r.ocr \/ (q.ocr = OcrName(r.name) /\ r.id = job.id)
    BY <1>4, MarkedRows
  <2> QED
    BY <1>3, <2>1
<1>5. CASE files' = files \/ files' = Without(files, job.id)
  BY <1>5 DEF Without
<1>6. CASE \E row \in FileRow : row.id = lastId + 1 /\ files' = files \cup {row}
  <2>1. \A r \in files : r.id # lastId + 1
    BY <1>2 DEF NamesInv, TablesInv, TablesSound, TypeInv, TypeOK, FileRow, Ids
  <2> QED
    BY <1>2, <1>6, <2>1
<1> QED
  BY <1>1, <1>4, <1>5, <1>6 DEF FilesStep

\* What a row says never changes but for the name of its OCR text, which is
\* set once, and a new row has an id no row ever had: also when seconds
\* repeat, and whatever calls fail.
THEOREM RowsKeepIdentityCorrect == Spec => RowsKeepIdentity
<1>1. NamesInv /\ [Next]_vars =>
        [/\ lastId' >= lastId
         /\ \A q \in files' :
              IF \E r \in files : r.id = q.id
              THEN \E r \in files : /\ r.id = q.id /\ r.hash = q.hash /\ r.name = q.name
                                    /\ r.ocr # None => q.ocr = r.ocr
              ELSE q.id > lastId]_vars
  BY IdentityStep
<1> QED
  BY <1>1, NamesInit, NamesStep, PTL DEF Spec, RowsKeepIdentity

\* When no two uploads get the same second, what a row's names lead to is the
\* row's own, and the running request holds nothing that is not its row's.
THEOREM StorageInvCorrect == ASSUME ~SecondsRepeat PROVE Spec => []StorageInv
<1>1. StorageInv /\ [Next]_vars => StorageInv'
  BY StorageStep
<1> QED
  BY <1>1, StorageInit, PTL DEF Spec

-----------------------------------------------------------------------------
(* The pipeline implements the ledger, when no two uploads get the same    *)
(* second.                                                                 *)

\* The ledger's entry of a row.
EntryOf(r) == [id |-> r.id, hash |-> r.hash, read |-> r.ocr # None, receipt |-> ReceiptOf(r)]

LEMMA EntriesAreOfRows ==
  /\ Entries = {EntryOf(r) : r \in files}
  /\ Entries' = {EntryOf(r)' : r \in files'}
BY DEF Entries, EntryOf

\* With own receipts only, the ledger sees whether a row has a receipt.
LEMMA OwnReceiptOf ==
  ASSUME OwnReceipts, NEW r \in files
  PROVE  ReceiptOf(r) = IF \E p \in receipts : p.file = r.id THEN "own" ELSE "none"
BY DEF OwnReceipts, NoForeignReceipt, ReceiptOf

\* A row that keeps its id and its content, and its receipts, keeps its
\* receipt in the ledger.
LEMMA ReceiptKept ==
  ASSUME NEW r, NEW q, q.id = r.id, q.hash = r.hash,
         \A p \in receipts \cup receipts' : p.file = r.id => p \in receipts \cap receipts'
  PROVE  ReceiptOf(q)' = ReceiptOf(r)
BY DEF ReceiptOf, Own

\* A step that leaves the tables alone leaves the ledger alone.
LEMMA LedgerUntouched == ASSUME UNCHANGED tables PROVE UNCHANGED <<Entries, lastId>>
BY DEF tables, Entries, ReceiptOf, Own

\* An insert registers the content under the next id, or uses up an id, or
\* changes nothing.
LEMMA LedgerInsert ==
  ASSUME StorageInv, InsertRow PROVE [L!LedgerNext]_<<Entries, lastId>>
<1>0. PICK row : row = [id |-> lastId + 1, hash |-> job.hash, name |-> job.name, ocr |-> None]
  OBVIOUS
<1>1. PICK o \in RepoInsert(files, row) :
        files' = o.left /\ lastId' \in LastIdAfter(lastId, row \in o.left)
  BY <1>0 DEF InsertRow
<1>2. lastId + 1 \in Ids /\ job.hash \in Contents
  BY TablesAssumption
     DEF InsertRow, StorageInv, TablesInv, TypeInv, TypeOK, JobTyped, BeforeRow, Ids
<1>3. /\ lastId' \in {lastId, lastId + 1} /\ (row \in files' => lastId' = lastId + 1)
      /\ receipts' = receipts
  BY <1>1, LastIdOutcomes DEF InsertRow
<1>4. CASE files' = files
  <2>1. Entries' = Entries
    BY <1>3, <1>4 DEF Entries, ReceiptOf, Own
  <2>2. lastId' = lastId \/ L!SkipId
    BY <1>2, <1>3, <2>1 DEF L!SkipId
  <2> QED
    BY <2>1, <2>2 DEF L!LedgerNext
<1>5. CASE files' = files \cup {row} /\ Unique(files, row)
  <2>1. \A e \in Entries : e.hash # job.hash
    BY <1>0, <1>5, EntriesAreOfRows DEF Unique, EntryOf
  <2>2. \A r \in files : EntryOf(r)' = EntryOf(r)
    BY <1>3 DEF EntryOf, ReceiptOf, Own
  <2>3. \A p \in receipts : p.file # lastId + 1
    BY DEF StorageInv, TablesInv, TablesSound, TypeInv, TypeOK, FileRow, Ids
  <2>4. EntryOf(row)' = [id |-> lastId + 1, hash |-> job.hash, read |-> FALSE, receipt |-> "none"]
    <3>1. ReceiptOf(row)' = "none"
      BY <1>0, <1>3, <2>3 DEF ReceiptOf
    <3> QED
      BY <1>0, <3>1 DEF EntryOf
  <2>5. Entries' = Entries \cup {EntryOf(row)'}
    BY <1>5, <2>2, EntriesAreOfRows
  <2>6. lastId' = lastId + 1
    BY <1>3, <1>5
  <2>7. L!Register(job.hash)
    BY <1>2, <2>1, <2>4, <2>5, <2>6 DEF L!Register
  <2> QED
    BY <1>2, <2>7 DEF L!LedgerNext
<1> QED
  BY <1>1, <1>4, <1>5, InsertOutcomes

\* Marking a row as processed marks its entry as read.
LEMMA LedgerMarkOcr ==
  ASSUME StorageInv, MarkOcr PROVE [L!LedgerNext]_<<Entries, lastId>>
<1> DEFINE ocr == OcrName(job.name)
<1>1. PICK u \in files : u.id = job.id
  BY RowOfJob DEF MarkOcr, WithRow
<1>2. \A r \in files : r.id = job.id => r = u
  BY <1>1 DEF StorageInv, TablesInv, TablesSound
<1>3. files \in SUBSET FileRow /\ ocr \in Stamps /\ ocr # None
  BY OcrNameType, TablesAssumption
     DEF MarkOcr, StorageInv, TablesInv, TypeInv, TypeOK, JobTyped, WithRow, Stamps
<1>4. receipts' = receipts /\ lastId' = lastId /\ files' \in {files, WithOcr(files, job.id, ocr)}
  BY MarkOcrOutcomes DEF MarkOcr
<1>5. CASE files' = files
  BY <1>4, <1>5, LedgerUntouched DEF tables
<1>6. CASE files' = WithOcr(files, job.id, ocr)
  <2> DEFINE e == EntryOf(u)
             f == [e EXCEPT !.read = TRUE]
  <2> HIDE DEF ocr
  <2>1. ASSUME NEW r \in files, NEW q \in files', r.id = q.id, r.hash = q.hash,
               q.ocr = IF r.id = job.id THEN ocr ELSE r.ocr
        PROVE  EntryOf(q)' = IF r = u THEN f ELSE EntryOf(r)
    <3>1. ReceiptOf(q)' = ReceiptOf(r)
      BY <1>4, <2>1, ReceiptKept
    <3> QED
      BY <1>1, <1>2, <1>3, <2>1, <3>1 DEF EntryOf
  <2>2. \A q \in files' : \E r \in files : EntryOf(q)' = IF r = u THEN f ELSE EntryOf(r)
    <3> SUFFICES ASSUME NEW q \in files'
                 PROVE  \E r \in files : EntryOf(q)' = IF r = u THEN f ELSE EntryOf(r)
      OBVIOUS
    <3>1. PICK r \in files : /\ r.id = q.id /\ r.hash = q.hash
                             /\ q.ocr = (IF r.id = job.id THEN ocr ELSE r.ocr)
      BY <1>3, <1>6, WithOcrKeeps
    <3> QED
      BY <2>1, <3>1
  <2>3. \A r \in files : \E q \in files' : EntryOf(q)' = IF r = u THEN f ELSE EntryOf(r)
    <3> SUFFICES ASSUME NEW r \in files
                 PROVE  \E q \in files' : EntryOf(q)' = IF r = u THEN f ELSE EntryOf(r)
      OBVIOUS
    <3>1. PICK q \in files' : /\ r.id = q.id /\ r.hash = q.hash
                              /\ q.ocr = (IF r.id = job.id THEN ocr ELSE r.ocr)
      BY <1>3, <1>6, WithOcrKeeps
    <3> QED
      BY <2>1, <3>1
  <2>4. \A r \in files : r # u => EntryOf(r) # e
    BY <1>1, <1>2 DEF EntryOf
  <2> HIDE DEF e, f
  <2>5. Entries' = (Entries \ {e}) \cup {f} /\ e \in Entries
    <3>1. e \in Entries
      BY EntriesAreOfRows DEF e
    <3>2. \A x : x \in Entries' => x \in (Entries \ {e}) \cup {f}
      BY <2>2, <2>4, EntriesAreOfRows
    <3>3. \A x : x \in (Entries \ {e}) \cup {f} => x \in Entries'
      BY <2>3, EntriesAreOfRows DEF e
    <3> QED
      BY <3>1, <3>2, <3>3
  <2>6. L!MarkRead(e)
    BY <1>4, <2>5 DEF L!MarkRead, L!Replace, f
  <2> QED
    BY <2>5, <2>6 DEF L!LedgerNext
<1> QED
  BY <1>4, <1>5, <1>6

\* Recording a receipt puts the entry's own receipt in the ledger.
LEMMA LedgerRecord ==
  ASSUME StorageInv, StorageInv', pc = "mark_parsing", Record
  PROVE  [L!LedgerNext]_<<Entries, lastId>>
<1>0. PICK p : p = [file |-> job.id, from |-> job.text, ok |-> job.ok]
  OBVIOUS
<1>1. PICK u \in files : u.id = job.id
  BY RowOfJob DEF WithRow
<1>2. \A r \in files : r.id = job.id => r = u
  BY <1>1 DEF StorageInv, TablesInv, TablesSound
<1>3. receipts' \in {receipts, Upsert(receipts, p)} /\ files' = files /\ lastId' = lastId
  BY <1>0, MarkParsingOutcomes DEF Record
<1>4. CASE receipts' = receipts
  BY <1>3, <1>4, LedgerUntouched DEF tables
<1>5. CASE receipts' = Upsert(receipts, p)
  <2> DEFINE e == EntryOf(u)
             f == [e EXCEPT !.receipt = "own"]
  <2>1. ReceiptOf(u)' = "own"
    <3>1. p \in receipts' /\ p.file = u.id
      BY <1>0, <1>1, <1>5 DEF Upsert
    <3>2. (OwnReceipts)' /\ u \in files'
      BY <1>3 DEF StorageInv
    <3> QED
      BY <3>1, <3>2 DEF ReceiptOf, OwnReceipts, NoForeignReceipt, Own
  <2>2. EntryOf(u)' = f
    BY <2>1 DEF EntryOf
  <2>3. ASSUME NEW r \in files, r # u PROVE EntryOf(r)' = EntryOf(r) /\ EntryOf(r) # e
    <3>1. r.id # p.file
      BY <1>0, <1>2, <2>3
    <3>2. ReceiptOf(r)' = ReceiptOf(r)
      BY <1>5, <3>1, ReceiptKept DEF Upsert
    <3> QED
      BY <1>1, <1>2, <2>3, <3>2 DEF EntryOf
  <2> HIDE DEF e, f
  <2>4. Entries' = (Entries \ {e}) \cup {f} /\ e \in Entries
    BY <1>3, <2>2, <2>3, EntriesAreOfRows DEF e
  <2>5. L!PutReceipt(e)
    BY <1>3, <2>4 DEF L!PutReceipt, L!Replace, f
  <2> QED
    BY <2>4, <2>5 DEF L!LedgerNext
<1> QED
  BY <1>3, <1>4, <1>5

\* Deleting a row takes its entry out of the ledger, with its receipt.
LEMMA LedgerDeleteRow ==
  ASSUME StorageInv, DeleteRow PROVE [L!LedgerNext]_<<Entries, lastId>>
<1>1. PICK u \in files : u.id = job.id
  BY RowOfJob DEF DeleteRow, WithRow
<1>2. \A r \in files : r.id = job.id => r = u
  BY <1>1 DEF StorageInv, TablesInv, TablesSound
<1>3. /\ files' \in {files, Without(files, job.id)} /\ lastId' = lastId
      /\ receipts' = Cascade(receipts, files')
  BY DeleteOutcomes DEF DeleteRow
<1>4. CASE files' = files
  <2>1. receipts' = receipts
    BY <1>3, <1>4 DEF Cascade, StorageInv, TablesInv, TablesSound
  <2> QED
    BY <1>3, <1>4, <2>1, LedgerUntouched DEF tables
<1>5. CASE files' = Without(files, job.id)
  <2>1. files' = files \ {u}
    BY <1>1, <1>2, <1>5 DEF Without
  <2>2. ASSUME NEW r \in files'
        PROVE  EntryOf(r)' = EntryOf(r) /\ EntryOf(r) # EntryOf(u)
    <3>1. \A p \in receipts : p.file = r.id => p \in receipts'
      BY <1>3 DEF Cascade
    <3>2. receipts' \subseteq receipts
      BY <1>3 DEF Cascade
    <3>3. ReceiptOf(r)' = ReceiptOf(r)
      BY <3>1, <3>2, ReceiptKept
    <3> QED
      BY <1>1, <1>2, <2>1, <3>3 DEF EntryOf
  <2>3. Entries' = Entries \ {EntryOf(u)} /\ EntryOf(u) \in Entries
    BY <2>1, <2>2, EntriesAreOfRows
  <2>4. L!Remove(EntryOf(u))
    BY <1>3, <2>3 DEF L!Remove
  <2> QED
    BY <2>3, <2>4 DEF L!LedgerNext
<1> QED
  BY <1>3, <1>4, <1>5

\* Every step of the pipeline is one step of the ledger, or none.
LEMMA LedgerStep ==
  ASSUME StorageInv, StorageInv', [Next]_vars
  PROVE  [L!LedgerNext]_<<Entries, lastId>>
<1>1. CASE UNCHANGED tables
  BY <1>1, LedgerUntouched
<1>2. CASE UNCHANGED vars
  BY <1>1, <1>2 DEF vars, tables
<1>3. CASE Arrive \/ Crash
  BY <1>1, <1>3 DEF Arrive, Upload, Retry, RetryWithModel, Delete, Request, StartJob, Crash, Kill
<1>4. CASE Step
  <2>1. CASE RecordReceipt \/ RecordRetry \/ RecordWithModel
    BY <2>1, LedgerRecord DEF RecordReceipt, RecordRetry, RecordWithModel
  <2>2. CASE InsertRow \/ MarkOcr \/ DeleteRow
    BY <2>2, LedgerInsert, LedgerMarkOcr, LedgerDeleteRow
  <2>3. CASE FindByHash \/ SaveOriginal \/ RunOcr \/ SaveText \/ ParseReceipt \/ NotFound
               \/ FindForRetry \/ ReadText \/ ParseAgain
    BY <1>1, <2>3 DEF FindByHash, SaveOriginal, RunOcr, SaveText, ParseReceipt, NotFound,
       FindForRetry, ReadText, ParseAgain
  <2>4. CASE FindForModel \/ ReadOriginal \/ ExtractWithModel \/ ParseWithModel
               \/ FindForDelete \/ UnlinkOriginal \/ UnlinkText
    BY <1>1, <2>4 DEF FindForModel, ReadOriginal, ExtractWithModel, ParseWithModel,
       FindForDelete, UnlinkOriginal, UnlinkText
  <2> QED
    BY <1>4, <2>1, <2>2, <2>3, <2>4 DEF Step
<1> QED
  BY <1>2, <1>3, <1>4 DEF Next

LEMMA LedgerStart == Init => L!LedgerInit
BY DEF Init, L!LedgerInit, Entries

\* Whatever calls fail and whenever the process is killed, the tables change
\* only as the ledger may: a content is entered once and under a fresh id, is
\* marked as read, gets its own receipt, and is taken out whole.
THEOREM ImplementsLedgerCorrect == ASSUME ~SecondsRepeat PROVE Spec => ImplementsLedger
<1>1. StorageInv /\ [Next]_vars => StorageInv'
  BY StorageStep
<1>2. StorageInv /\ StorageInv' /\ [Next]_vars => [L!LedgerNext]_<<Entries, lastId>>
  BY LedgerStep
<1> QED
  BY <1>1, <1>2, StorageInit, LedgerStart, PTL DEF Spec, ImplementsLedger, L!LedgerSpec
=============================================================================
