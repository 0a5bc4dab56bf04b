------------------------------ MODULE Pipeline ------------------------------
(***************************************************************************)
(* The receipt pipeline of kaufbot: processor.c and the deletion handler   *)
(* of bot_commands.c over the two tables and the file storage.             *)
(*                                                                         *)
(* The bot has one thread and finishes a user's request before it looks at *)
(* the next, so there is one job.  Each action is one external call of the *)
(* job (database, storage, OCR service) with the code up to the next call; *)
(* between two actions the process may be killed, and every call may fail. *)
(***************************************************************************)
EXTENDS Blobs

CONSTANTS
  SecondsRepeat,  \* may an upload get a second an earlier upload already had?
  MaxFaults       \* bound: faults of the environment, kills included

ASSUME PipelineAssumption == SecondsRepeat \in BOOLEAN /\ MaxFaults \in Nat

VARIABLES
  files, receipts,   \* the tables
  lastId,            \* the id sequence of files
  originals, texts,  \* the storage: name -> data
  clock,             \* the last second that named an upload
  pc, job,           \* the running request: the next call, its local variables
  reply,             \* the answer to the last request
  advice,            \* id -> what the last answer told the user to do about it
  asked,             \* ids whose deletion was requested
  faults             \* faults so far

tables  == <<files, receipts, lastId>>
storage == <<originals, texts>>
vars    == <<files, receipts, lastId, originals, texts, clock, pc, job, reply,
             advice, asked, faults>>

Ops == {"none", "upload", "retry", "retry_with_model", "delete"}

PCs == {"idle", "find_by_hash", "save_file", "insert", "extract", "save_text", "mark_ocr",
        "parse", "mark_parsing", "find_by_id", "read_text", "read_binary",
        "unlink_original", "unlink_text", "delete_row"}

Replies == {"none", "duplicate", "save_failed", "db_error", "ocr_failed", "parse_failed",
            "parsed", "bad_json", "not_found", "no_ocr_text", "text_missing", "retry_failed",
            "original_missing", "model_ocr_failed", "model_parse_failed", "deleted",
            "delete_failed"}

Advices == {"none", "retry_later", "re_upload"}

\* "id" is 0 until it is known; name and ocr are copied from the row that was
\* looked up; data and text are the buffers in memory.
Job == [op : Ops, id : Ids \cup {0}, hash : Contents \cup {None}, ext : Exts \cup {None},
        name : Name \cup {None}, ocr : Stamps \cup {None},
        data : Cell, text : Cell, ok : BOOLEAN]

NoJob == [op |-> "none", id |-> 0, hash |-> None, ext |-> None, name |-> None, ocr |-> None,
          data |-> None, text |-> None, ok |-> FALSE]

NoReply == [kind |-> "none", id |-> 0]

Init ==
  /\ files = {} /\ receipts = {} /\ lastId = 0
  /\ originals = [n \in Name |-> None]
  /\ texts = [s \in Stamps |-> None]
  /\ clock = 0
  /\ pc = "idle" /\ job = NoJob /\ reply = NoReply
  /\ advice = [i \in Ids |-> "none"]
  /\ asked = {}
  /\ faults = 0

-----------------------------------------------------------------------------
Charge(n) == /\ faults + n <= MaxFaults
             /\ faults' = faults + n

\* What the text of an answer tells the user to do about the file.
AdviceOf(kind, id) ==
  CASE kind = "parse_failed"                      -> "retry_later"
    [] kind \in {"no_ocr_text", "text_missing"}   -> "re_upload"
    [] kind \in {"duplicate", "not_found"}        -> advice[id]
    [] OTHER                                      -> "none"

Answer(kind, id) ==
  /\ pc' = "idle" /\ job' = NoJob
  /\ reply' = [kind |-> kind, id |-> id]
  /\ advice' = IF id = 0 THEN advice ELSE [advice EXCEPT ![id] = AdviceOf(kind, id)]

Continue(next, j) == /\ pc' = next /\ job' = j
                     /\ UNCHANGED <<reply, advice>>

StartJob(next, j) == /\ pc = "idle"
                     /\ pc' = next /\ job' = j /\ reply' = NoReply
                     /\ UNCHANGED <<tables, storage, clock, advice, faults>>

-----------------------------------------------------------------------------
(* processor_handle_file                                                   *)

Upload(c, e) ==
  /\ lastId < MaxRows
  /\ SecondsRepeat \/ clock < MaxStamp
  /\ MaxStamp > 0
  /\ StartJob("find_by_hash",
              [NoJob EXCEPT !.op = "upload", !.hash = c, !.ext = e, !.data = c])
  /\ UNCHANGED asked

\* db_repo_find_by_hash reports a failed query as "not found".
FindByHash ==
  /\ pc = "find_by_hash"
  /\ \/ \E r \in ByHash(files, job.hash) :
          Answer("duplicate", r.id) /\ Charge(0)
     \/ /\ ByHash(files, job.hash) = {}
        /\ Continue("save_file", job) /\ Charge(0)
     \/ Continue("save_file", job) /\ Charge(1)
  /\ UNCHANGED <<tables, storage, clock, asked>>

SaveOriginal ==
  /\ pc = "save_file"
  /\ \E s \in Stamps :
       LET name == [at |-> s, ext |-> job.ext] IN
       /\ SecondsRepeat \/ s > clock
       /\ clock' = s
       /\ \E o \in SaveFile(originals[name], job.data) :
            /\ Charge(o.cost)
            /\ originals' = [originals EXCEPT ![name] = o.left]
            /\ IF o.ok THEN Continue("insert", [job EXCEPT !.name = name])
                       ELSE Answer("save_failed", 0)
  /\ UNCHANGED <<tables, texts, asked>>

InsertRow ==
  /\ pc = "insert"
  /\ LET row == [id |-> lastId + 1, hash |-> job.hash, name |-> job.name, ocr |-> None] IN
     \E o \in RepoInsert(files, row) :
       /\ Charge(o.cost)
       /\ files' = o.left
       /\ lastId' \in LastIdAfter(lastId, row \in o.left)
       /\ IF o.ok THEN Continue("extract", [job EXCEPT !.id = row.id])
                  ELSE Answer("db_error", 0)
  /\ UNCHANGED <<receipts, storage, clock, asked>>

\* The service answers with the text of the data, or with an empty text; a
\* [NO TEXT FOUND] answer and a failed request are the same to the caller.
Extracted == \E t \in {job.data, Blank} :
               Continue("save_text", [job EXCEPT !.data = None, !.text = t])

RunOcr ==
  /\ pc = "extract" /\ job.op = "upload"
  /\ Extracted \/ Answer("ocr_failed", job.id)
  /\ UNCHANGED <<tables, storage, clock, asked, faults>>

\* A failure to save the text, or to mark the row, is logged and no more.
SaveText ==
  /\ pc = "save_text"
  /\ \E o \in SaveFile(texts[OcrName(job.name)], job.text) :
       /\ Charge(o.cost)
       /\ texts' = [texts EXCEPT ![OcrName(job.name)] = o.left]
  /\ Continue("mark_ocr", job)
  /\ UNCHANGED <<tables, originals, clock, asked>>

MarkOcr ==
  /\ pc = "mark_ocr"
  /\ \E o \in RepoMarkOcrComplete(files, job.id, OcrName(job.name)) :
       Charge(o.cost) /\ files' = o.left
  /\ Continue("parse", job)
  /\ UNCHANGED <<receipts, lastId, storage, clock, asked>>

Parsed == \E ok \in BOOLEAN : Continue("mark_parsing", [job EXCEPT !.ok = ok])

ParseReceipt ==
  /\ pc = "parse" /\ job.op = "upload"
  /\ Parsed \/ Answer("parse_failed", job.id)
  /\ UNCHANGED <<tables, storage, clock, asked, faults>>

\* A failure to record the receipt is logged and the answer is the same.
Record ==
  /\ \E o \in RepoMarkParsingComplete(receipts,
                                      [file |-> job.id, from |-> job.text, ok |-> job.ok]) :
       Charge(o.cost) /\ receipts' = o.left
  /\ Answer(IF job.ok THEN "parsed" ELSE "bad_json", job.id)
  /\ UNCHANGED <<files, lastId, storage, clock, asked>>

RecordReceipt == pc = "mark_parsing" /\ job.op = "upload" /\ Record

-----------------------------------------------------------------------------
(* The requests that name a file by its id, and their common look-up; a    *)
(* failed query is "not found" to all of them.                             *)

Request(op, i) == StartJob("find_by_id", [NoJob EXCEPT !.op = op, !.id = i])

NotFound ==
  /\ pc = "find_by_id"
  /\ IF ById(files, job.id) = {} THEN Charge(0) ELSE Charge(1)
  /\ Answer("not_found", job.id)
  /\ UNCHANGED <<tables, storage, clock, asked>>

Retry(i) == Request("retry", i) /\ UNCHANGED asked

FindForRetry ==
  /\ pc = "find_by_id" /\ job.op = "retry"
  /\ \E r \in ById(files, job.id) :
       IF r.ocr = None
       THEN Answer("no_ocr_text", job.id)
       ELSE Continue("read_text", [job EXCEPT !.name = r.name, !.ocr = r.ocr])
  /\ UNCHANGED <<tables, storage, clock, asked, faults>>

ReadText ==
  /\ pc = "read_text"
  /\ \/ /\ Readable(texts[job.ocr]) /\ Charge(0)
        /\ Continue("parse", [job EXCEPT !.text = texts[job.ocr]])
     \/ /\ IF Readable(texts[job.ocr]) THEN Charge(1) ELSE Charge(0)
        /\ Answer("text_missing", job.id)
  /\ UNCHANGED <<tables, storage, clock, asked>>

\* Mutant: the retry starts over until parsing succeeds.
ParseAgain_UntilParsed ==
  /\ pc = "parse" /\ job.op = "retry"
  /\ Parsed \/ Continue("find_by_id", job)
  /\ UNCHANGED <<tables, storage, clock, asked, faults>>

ParseAgain ==
  /\ pc = "parse" /\ job.op = "retry"
  /\ Parsed \/ Answer("retry_failed", job.id)
  /\ UNCHANGED <<tables, storage, clock, asked, faults>>

RecordRetry == pc = "mark_parsing" /\ job.op = "retry" /\ Record

-----------------------------------------------------------------------------
(* processor_retry_ocr_with_model: SaveText and MarkOcr are the same calls *)

RetryWithModel(i) == Request("retry_with_model", i) /\ UNCHANGED asked

FindForModel ==
  /\ pc = "find_by_id" /\ job.op = "retry_with_model"
  /\ \E r \in ById(files, job.id) :
       Continue("read_binary", [job EXCEPT !.name = r.name, !.ocr = r.ocr])
  /\ UNCHANGED <<tables, storage, clock, asked, faults>>

ReadOriginal ==
  /\ pc = "read_binary"
  /\ \/ /\ Readable(originals[job.name]) /\ Charge(0)
        /\ Continue("extract", [job EXCEPT !.data = originals[job.name]])
     \/ /\ IF Readable(originals[job.name]) THEN Charge(1) ELSE Charge(0)
        /\ Answer("original_missing", job.id)
  /\ UNCHANGED <<tables, storage, clock, asked>>

ExtractWithModel ==
  /\ pc = "extract" /\ job.op = "retry_with_model"
  /\ Extracted \/ Answer("model_ocr_failed", job.id)
  /\ UNCHANGED <<tables, storage, clock, asked, faults>>

ParseWithModel ==
  /\ pc = "parse" /\ job.op = "retry_with_model"
  /\ Parsed \/ Answer("model_parse_failed", job.id)
  /\ UNCHANGED <<tables, storage, clock, asked, faults>>

RecordWithModel == pc = "mark_parsing" /\ job.op = "retry_with_model" /\ Record

-----------------------------------------------------------------------------
(* do_delete_file                                                          *)

Delete(i) == Request("delete", i) /\ asked' = asked \cup {i}

FindForDelete ==
  /\ pc = "find_by_id" /\ job.op = "delete"
  /\ \E r \in ById(files, job.id) :
       Continue("unlink_original", [job EXCEPT !.name = r.name, !.ocr = r.ocr])
  /\ UNCHANGED <<tables, storage, clock, asked, faults>>

\* Mutant: the OCR text is left in storage.
UnlinkOriginal_TextForgotten ==
  /\ pc = "unlink_original"
  /\ \E o \in DeleteFile(originals[job.name]) :
       Charge(o.cost) /\ originals' = [originals EXCEPT ![job.name] = o.left]
  /\ Continue("delete_row", job)
  /\ UNCHANGED <<tables, texts, clock, asked>>

\* What a storage deletion reports is ignored.
UnlinkOriginal ==
  /\ pc = "unlink_original"
  /\ \E o \in DeleteFile(originals[job.name]) :
       Charge(o.cost) /\ originals' = [originals EXCEPT ![job.name] = o.left]
  /\ Continue(IF job.ocr = None THEN "delete_row" ELSE "unlink_text", job)
  /\ UNCHANGED <<tables, texts, clock, asked>>

UnlinkText ==
  /\ pc = "unlink_text"
  /\ \E o \in DeleteFile(texts[job.ocr]) :
       Charge(o.cost) /\ texts' = [texts EXCEPT ![job.ocr] = o.left]
  /\ Continue("delete_row", job)
  /\ UNCHANGED <<tables, originals, clock, asked>>

\* Mutant: the id column is not AUTOINCREMENT, the last id is given again.
DeleteRow_IdReused ==
  /\ pc = "delete_row"
  /\ \E o \in BackendDelete(files, job.id) :
       /\ Charge(o.cost)
       /\ files' = o.left
       /\ receipts' = Cascade(receipts, o.left)
       /\ Answer(IF o.ok THEN "deleted" ELSE "delete_failed", job.id)
  /\ lastId' = IF job.id = lastId THEN lastId - 1 ELSE lastId
  /\ UNCHANGED <<storage, clock, asked>>

DeleteRow ==
  /\ pc = "delete_row"
  /\ \E o \in BackendDelete(files, job.id) :
       /\ Charge(o.cost)
       /\ files' = o.left
       /\ receipts' = Cascade(receipts, o.left)
       /\ Answer(IF o.ok THEN "deleted" ELSE "delete_failed", job.id)
  /\ UNCHANGED <<lastId, storage, clock, asked>>

-----------------------------------------------------------------------------
(* The process is killed, and restarted: what was in memory is gone, the   *)
(* file that was being written is torn.                                    *)

Kill ==
  /\ pc # "idle"
  /\ Charge(1)
  /\ pc' = "idle" /\ job' = NoJob
  /\ UNCHANGED <<reply, advice, asked, tables>>

Crash ==
  \/ Kill /\ UNCHANGED <<storage, clock>>
  \/ /\ pc = "save_file" /\ Kill
     /\ \E s \in Stamps, d \in TornWrite :
          /\ SecondsRepeat \/ s > clock
          /\ clock' = s
          /\ originals' = [originals EXCEPT ![[at |-> s, ext |-> job.ext]] = d]
     /\ UNCHANGED texts
  \/ /\ pc = "save_text" /\ Kill
     /\ \E d \in TornWrite : texts' = [texts EXCEPT ![OcrName(job.name)] = d]
     /\ UNCHANGED <<originals, clock>>

Step ==
  \/ FindByHash \/ SaveOriginal \/ InsertRow \/ RunOcr \/ SaveText \/ MarkOcr
  \/ ParseReceipt \/ RecordReceipt
  \/ NotFound \/ FindForRetry \/ ReadText \/ ParseAgain \/ RecordRetry
  \/ FindForModel \/ ReadOriginal \/ ExtractWithModel \/ ParseWithModel \/ RecordWithModel
  \/ FindForDelete \/ UnlinkOriginal \/ UnlinkText \/ DeleteRow

Arrive ==
  \/ \E c \in Contents, e \in Exts : Upload(c, e)
  \/ \E i \in Ids : Retry(i) \/ RetryWithModel(i) \/ Delete(i)

Next == Arrive \/ Step \/ Crash

Spec == Init /\ [][Next]_vars

\* Calls of the database.
DatabaseCalls == {"find_by_hash", "insert", "mark_ocr", "mark_parsing", "find_by_id", "delete_row"}

\* Files, HTTP requests (with their timeouts) and SQLite come back; libpq is
\* given no timeout, so a call of PostgreSQL may never do.
Returns == Database = "sqlite" \/ pc \notin DatabaseCalls

\* The thread that serves a request keeps running as long as its calls return.
\* Requests and kills are never owed.
FairSpec == Spec /\ WF_vars(Step /\ Returns)
=============================================================================
