--------------------------- MODULE MemoryRepository ---------------------------
(***************************************************************************)
(* The in-memory file repository that the tests of kaufbot put in the      *)
(* place of the database, side by side with the repository in front of     *)
(* SQLite: the same calls are made of both, and what they report and what  *)
(* they hold is compared.  The calls of the database do not fail here.     *)
(***************************************************************************)
EXTENDS Tables, SequencesExt

CONSTANTS
  MaxRecords,    \* MAX_MEMORY_RECORDS
  MaxReceipts    \* MAX_MEMORY_RECEIPTS

ASSUME MemoryAssumption ==
  MaxRecords \in Nat /\ MaxReceipts \in Nat /\ Database = "sqlite"

VARIABLES
  records,   \* the used part of the array of records, the oldest first
  kept,      \* the used part of the array of receipts
  nextId,
  rows,      \* the files table of the database
  stored,    \* the parsed_receipts table
  lastId,    \* the last id the database gave out
  created,   \* id -> the second its row was inserted in (created_at)
  apart,     \* did the last call succeed of one of the two only?
  odd        \* that call

memoryVars == <<records, kept, nextId, rows, stored, lastId, created, apart, odd>>

NoCall == [op |-> "none", id |-> 0, name |-> None]

MemoryInit ==
  /\ records = <<>> /\ kept = <<>> /\ nextId = 1
  /\ rows = {} /\ stored = {} /\ lastId = 0 /\ created = <<>>
  /\ apart = FALSE /\ odd = NoCall

-----------------------------------------------------------------------------
PlacesOf(i) == {k \in DOMAIN records : records[k].id = i}

Known(i) == PlacesOf(i) # {}

\* Each loop over the records ends at the first that fits.
FirstAt(places) == IF places = {} THEN {} ELSE {records[Min(places)]}

mem_repo_find_by_hash(h) == FirstAt({k \in DOMAIN records : records[k].hash = h})
mem_repo_find_by_id(i)   == FirstAt(PlacesOf(i))

\* The newest first, not more than the limit; 0 is no limit.
mem_repo_list(limit) ==
  LET most == IF limit > 0 /\ limit < Len(records) THEN limit ELSE Len(records)
  IN [k \in 1..most |-> records[Len(records) + 1 - k]]

\* SELECT ... ORDER BY created_at DESC: rows of one second in any order.
sqlite_list ==
  {list \in SetToSeqs(rows) :
     \A j, k \in DOMAIN list : j < k => created[list[j].id] >= created[list[k].id]}

db_repo_list(limit) ==
  {IF limit > 0 /\ limit < Len(list) THEN SubSeq(list, 1, limit) ELSE list : list \in sqlite_list}

\* The call is made of the database, where nothing goes wrong.
Reliably(outcomes) == CHOOSE o \in outcomes : o.cost = 0

\* Both were called: the comparison ends when only one of them succeeds.
Compare(op, id, name, mem, db) ==
  /\ apart' = (mem # db)
  /\ odd' = IF mem # db THEN [op |-> op, id |-> id, name |-> name] ELSE NoCall

\* Mutant: a record is numbered by its place.
NewId_ByPlace == Len(records) + 1

NewId == nextId

\* The clock that dates the rows does not go back, but may show a second often.
Insert(h, name, second) ==
  LET mem == Len(records) < MaxRecords /\ mem_repo_find_by_hash(h) = {}
      db  == Reliably(RepoInsert(rows, [id |-> lastId + 1, hash |-> h, name |-> name, ocr |-> None]))
  IN /\ ~apart /\ lastId < MaxRows /\ nextId <= MaxRows
     /\ \A i \in DOMAIN created : created[i] <= second
     /\ records' = IF mem
                   THEN Append(records, [id |-> NewId, hash |-> h, name |-> name, ocr |-> None])
                   ELSE records
     /\ nextId' = IF mem THEN nextId + 1 ELSE nextId
     /\ rows' = db.left
     /\ lastId' \in LastIdAfter(lastId, db.ok)
     /\ created' = IF db.ok THEN Append(created, second) ELSE created
     /\ Compare("insert", 0, name, mem, db.ok)
     /\ UNCHANGED <<kept, stored>>

\* Only the memory looks whether there is such a file.
MarkOcrComplete(i, ocr) ==
  LET db == Reliably(RepoMarkOcrComplete(rows, i, ocr))
  IN /\ ~apart
     /\ records' = IF Known(i) THEN [records EXCEPT ![Min(PlacesOf(i))].ocr = ocr] ELSE records
     /\ rows' = db.left
     /\ Compare("mark_ocr", i, None, Known(i), db.ok)
     /\ UNCHANGED <<kept, nextId, stored, lastId, created>>

\* The memory appends a receipt each time.  The database has one of each
\* file, and refuses that of no file (its foreign key).
MarkParsingComplete(p) ==
  LET mem == Known(p.file) /\ Len(kept) < MaxReceipts
      db  == IF ById(rows, p.file) = {} THEN Refused(stored)
             ELSE Reliably(RepoMarkParsingComplete(stored, p))
  IN /\ ~apart
     /\ kept' = IF mem THEN Append(kept, p) ELSE kept
     /\ stored' = db.left
     /\ Compare("mark_parsing", p.file, None, mem, db.ok)
     /\ UNCHANGED <<records, nextId, rows, lastId, created>>

\* The records behind it move down; its receipts stay.
Removed(i) == RemoveAt(records, Min(PlacesOf(i)))

DeleteById(i) ==
  LET db == Reliably(BackendDelete(rows, i))
  IN /\ ~apart
     /\ records' = IF Known(i) THEN Removed(i) ELSE records
     /\ rows' = db.left
     /\ stored' = Cascade(stored, db.left)
     /\ Compare("delete", i, None, Known(i), db.ok)
     /\ UNCHANGED <<kept, nextId, lastId, created>>

\* file_repository_memory_clear; the database is made anew.
Clear == /\ records' = <<>> /\ kept' = <<>> /\ nextId' = 1
         /\ rows' = {} /\ stored' = {} /\ lastId' = 0 /\ created' = <<>>
         /\ apart' = FALSE /\ odd' = NoCall

\* A file has its name before its row is inserted.
MemoryNext ==
  \/ \E h \in Contents, name \in Name, second \in Stamps : name.at <= second /\ Insert(h, name, second)
  \/ \E i \in Ids : \/ \E ocr \in Stamps : MarkOcrComplete(i, ocr)
                    \/ \E d \in Contents : MarkParsingComplete([file |-> i, from |-> d, ok |-> TRUE])
                    \/ DeleteById(i)
  \/ Clear

MemorySpec == MemoryInit /\ [][MemoryNext]_memoryVars

-----------------------------------------------------------------------------
\* The receipt of a file that was appended last.
Latest(i) == LET mine == {k \in DOMAIN kept : kept[k].file = i}
             IN IF mine = {} THEN {} ELSE {kept[Max(mine)]}

Before(list, q, r) == \E j, k \in DOMAIN list : j < k /\ list[j] = q /\ list[k] = r

\* What the memory lists is what the database may list, and the database puts
\* no two rows of different seconds in another order.
SameLists ==
  /\ \A limit \in 0..MaxRecords : mem_repo_list(limit) \in db_repo_list(limit)
  /\ \A list \in db_repo_list(0) : \A q, r \in rows :
       Before(list, q, r) /\ created[q.id] # created[r.id] => Before(mem_repo_list(0), q, r)

\* Every question a caller can ask is answered alike.
SameAnswers ==
  /\ \A i \in Ids : mem_repo_find_by_id(i) = ById(rows, i)
  /\ \A h \in Contents : mem_repo_find_by_hash(h) = ByHash(rows, h)
  /\ \A i \in {r.id : r \in rows} : Latest(i) = {p \in stored : p.file = i}
  /\ SameLists

\* Why the database may do what the memory does not, or the other way round:
\* an array is full, a name is taken (which only the database asks for), or
\* there is no such file (which only the memory asks for OCR texts).
Excused ==
  \/ odd.op = "insert" /\ (Len(records) = MaxRecords \/ \E r \in rows : r.name = odd.name)
  \/ odd.op = "mark_ocr" /\ ~Known(odd.id)
  \/ odd.op = "mark_parsing" /\ Len(kept) = MaxReceipts

\* What passes on the in-memory repository passes on the database: however
\* files are inserted, marked, deleted and inserted again, both hold the same
\* files under the same ids, with the same receipts; a list of the memory is
\* one that the database may give, which orders the rows of different seconds
\* alike and those of one second as it likes; and a call succeeds of both or
\* of none, but for the differences named above.
StandsInForDatabase == IF apart THEN Excused ELSE SameAnswers
=============================================================================
