------------------------- MODULE PipelineInvariants -------------------------
(***************************************************************************)
(* The inductive invariants behind the pipeline's safety properties: what  *)
(* the local variables of the running request know of the tables and the   *)
(* storage, at each of its calls.                                          *)
(***************************************************************************)
EXTENDS PipelineRefinement

\* The calls of an upload before its row exists, and the calls of any request
\* that work on a row that was looked up or just inserted.
BeforeRow == {"find_by_hash", "save_file", "insert"}
WithRow   == {"extract", "save_text", "mark_ocr", "parse", "mark_parsing", "read_text",
              "read_binary", "unlink_original", "unlink_text", "delete_row"}
WithText  == {"save_text", "mark_ocr", "parse", "mark_parsing"}
Deleting  == {"unlink_original", "unlink_text", "delete_row"}

\* The local variables are set before they are used.
JobTyped ==
  /\ pc \in BeforeRow =>
       /\ job.hash \in Contents /\ job.ext \in Exts /\ job.data = job.hash
       /\ lastId < MaxRows
  /\ pc = "insert" => job.name \in Name
  /\ pc = "find_by_id" => job.id \in Ids
  /\ pc \in WithRow => job.id \in Ids /\ job.name \in Name
  /\ pc = "extract" => job.data \in Data
  /\ pc \in WithText => job.text \in Data
  /\ pc \in {"read_text", "unlink_text"} => job.ocr \in Stamps

TypeInv == TypeOK /\ JobTyped

\* The row a request works on exists until the request deletes it.
TablesInv ==
  /\ TypeInv
  /\ TablesSound
  /\ pc \in WithRow => \E r \in files : r.id = job.id

\* Also when seconds repeat: a row leads to no text but the one its name
\* gives, and a request works under the name of its row.
NamesInv ==
  /\ TablesInv
  /\ \A r \in files : r.ocr \in {None, OcrName(r.name)}
  /\ pc \in WithRow => \E r \in files : r.id = job.id /\ r.name = job.name

-----------------------------------------------------------------------------
(* What holds when no two uploads get the same second.                     *)

\* A second names at most one row, and nothing is stored under the seconds
\* to come.
SecondsInv ==
  /\ \A r, q \in files : r.name.at = q.name.at => r = q
  /\ \A r \in files : r.name.at <= clock
  /\ \A n \in Name : n.at > clock => originals[n] = None
  /\ \A s \in Stamps : s > clock => texts[s] = None

\* What is stored under a row's names is the row's own, or damaged, or gone.
OwnBlobs ==
  \A r \in files : /\ originals[r.name] \in Own(r) \cup {None}
                   /\ texts[r.name.at] \in Own(r) \cup {None}
                   /\ r.ocr \in {None, r.name.at}
                   /\ r.id \notin asked => originals[r.name] # None

OwnReceipts == NoForeignReceipt

\* The upload on its way to a row: its second is the latest, its original is
\* there, and no text of an earlier file waits under the name of its text.
NewUpload ==
  pc = "insert" =>
    /\ job.name.at = clock
    /\ \A r \in files : r.name.at # clock
    /\ originals[job.name] \in {job.hash, Damaged, Blank}
    /\ texts[clock] = None

\* The buffers of a request hold what belongs to the row it works on.
OwnBuffers ==
  /\ pc \in WithRow =>
       \E r \in files : /\ r.id = job.id /\ r.name = job.name
                        /\ job.ocr \in {None, r.name.at}
                        /\ pc = "extract" => job.data \in Own(r)
                        /\ pc \in WithText => job.text \in Own(r)
  /\ pc \in BeforeRow => job.ocr = None
  /\ pc = "find_by_id" /\ job.op = "delete" => job.id \in asked
  /\ pc \in Deleting => job.id \in asked

StorageInv ==
  TablesInv /\ SecondsInv /\ OwnBlobs /\ OwnReceipts /\ NewUpload /\ OwnBuffers

-----------------------------------------------------------------------------
(* How many files are lost, and what holds as long as nothing fails.       *)

\* Until the row may have been marked, its request has its OCR text's name.
LookedUp ==
  pc \in WithRow \ {"parse", "mark_parsing"} =>
    \E r \in files : r.id = job.id /\ r.ocr = job.ocr

\* A file that no row leads to yet, and that the next call links to a row.
OnTheWay ==
  IF \/ pc = "insert" /\ ByHash(files, job.hash) = {}
     \/ pc = "mark_ocr" /\ OcrName(job.name) \in LostTexts
  THEN 1 ELSE 0

\* Files that the request will lose track of with no further fault: those it
\* could not remove before it deletes their row, and the upload of a content
\* that has a row already, which a failed look-up did not tell.
Owed ==
  (IF pc = "save_file" /\ ByHash(files, job.hash) # {} THEN 1 ELSE 0)
  + (IF pc \in {"unlink_text", "delete_row"} /\ originals[job.name] # None THEN 1 ELSE 0)
  + (IF pc = "delete_row" /\ job.ocr # None /\ texts[job.ocr] # None THEN 1 ELSE 0)

LeakBound ==
  /\ IsFiniteSet(LostOriginals)
  /\ Cardinality(LostOriginals) + Cardinality(LostTexts) + Owed <= faults + OnTheWay

LeakInv == StorageInv /\ LookedUp /\ LeakBound

\* Without a fault a row's files are there, whole, until its deletion removes
\* them, and the buffers of a request hold its row's content or an empty text.
QuietRows ==
  /\ \A r \in files :
       \/ pc \in Deleting /\ r.id = job.id
       \/ /\ originals[r.name] = r.hash
          /\ r.ocr # None => texts[r.ocr] \in {r.hash, Blank}
  /\ \A p \in receipts : \E r \in files : r.id = p.file /\ r.ocr # None

QuietJob ==
  /\ pc \in {"save_file", "insert"} => ByHash(files, job.hash) = {}
  /\ pc = "insert" => originals[job.name] = job.hash
  /\ pc \in WithRow =>
       \E r \in files : /\ r.id = job.id
                        /\ pc = "extract" => job.data = r.hash
                        /\ pc \in WithText => job.text \in {r.hash, Blank}
                        /\ pc \in {"read_text", "parse", "mark_parsing"} => r.ocr # None
  /\ pc = "mark_ocr" => texts[OcrName(job.name)] = job.text

QuietInv == LeakInv /\ (faults = 0 => QuietRows /\ QuietJob)

\* A retry is only promised for a file whose text was recorded, and no request
\* starts with an answer.
AdviceInv ==
  /\ QuietInv
  /\ pc # "idle" => reply = NoReply
  /\ faults = 0 => \A i \in Ids : advice[i] = "retry_later" =>
                     i <= lastId /\ \A r \in ById(files, i) : r.ocr # None
=============================================================================
