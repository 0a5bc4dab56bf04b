------------------------------- MODULE Tables -------------------------------
(***************************************************************************)
(* The two relational tables of kaufbot, and what each call of a database  *)
(* backend may do to them.  A table is a set of rows.  A call is an        *)
(* operator that returns the set of its outcomes: what it reports, the     *)
(* table it leaves behind, and whether a fault of the environment had to   *)
(* happen for that outcome (cost 1) or not (cost 0).                       *)
(***************************************************************************)
EXTENDS Integers

CONSTANTS
  Contents,   \* file contents; two uploads have equal SHA-256 iff same content
  Exts,       \* file-name extensions of uploads
  MaxStamp,   \* bound: seconds of the clock that names files
  MaxRows,    \* bound: values of the AUTOINCREMENT / BIGSERIAL id
  Damaged,    \* the data of a file of which only a part was written
  Blank,      \* the data of a file of zero bytes, or of an empty OCR answer
  None,       \* no file, no name
  Database    \* "sqlite" or "postgres"

ASSUME TablesAssumption ==
  /\ MaxStamp \in Nat
  /\ MaxRows \in Nat
  /\ Damaged # Blank /\ Damaged # None /\ Blank # None
  /\ {Damaged, Blank, None} \cap Contents = {}
  /\ None \notin Exts
  /\ None \notin 1..MaxStamp
  /\ None \notin [at : 1..MaxStamp, ext : Exts]
  /\ Database \in {"sqlite", "postgres"}

Ids    == 1..MaxRows
Stamps == 1..MaxStamp
Data   == Contents \cup {Damaged, Blank}

\* A saved file is named upload_<date>_<time><ext>.
Name == [at : Stamps, ext : Exts]

\* The name of the OCR text of a saved file: the extension is cut off, so
\* only the second is left to tell two texts apart.
OcrName(name) == name.at

\* files: is_ocr_processed and ocr_file_name are always written together, so
\* one field stands for both.
FileRow    == [id : Ids, hash : Contents, name : Name, ocr : Stamps \cup {None}]

\* parsed_receipts: "from" is the data the receipt was parsed from, "ok"
\* whether the stored text is JSON.
ReceiptRow == [file : Ids, from : Data, ok : BOOLEAN]

Done(t)    == [ok |-> TRUE,  left |-> t, cost |-> 0]
Refused(t) == [ok |-> FALSE, left |-> t, cost |-> 0]
Failed(t)  == [ok |-> FALSE, left |-> t, cost |-> 1]

-----------------------------------------------------------------------------
ByHash(files, h) == {r \in files : r.hash = h}
ById(files, i)   == {r \in files : r.id = i}

\* Mutant: saved_file_name is not declared UNIQUE.
Unique_NameNotUnique(files, row) == \A r \in files : r.hash # row.hash

\* The UNIQUE constraints on file_hash and saved_file_name.
Unique(files, row) == \A r \in files : r.hash # row.hash /\ r.name # row.name

SqliteInsert(files, row) ==
  IF Unique(files, row) THEN {Done(files \cup {row}), Failed(files)}
                        ELSE {Refused(files)}

\* A server may commit a statement whose answer the client never sees.
PostgresInsert(files, row) ==
  IF Unique(files, row)
  THEN {Done(files \cup {row}), Failed(files), Failed(files \cup {row})}
  ELSE {Refused(files)}

\* Mutant: the UPDATE has lost its WHERE clause.
WithOcr_AllRows(files, i, ocr) == {[r EXCEPT !.ocr = ocr] : r \in files}

WithOcr(files, i, ocr) ==
  {IF r.id = i THEN [r EXCEPT !.ocr = ocr] ELSE r : r \in files}

\* Mutant: the statement is prepared but not stepped.
SqliteMarkOcrDone_NotStepped(files, i, ocr) == {Done(files)}

SqliteMarkOcrDone(files, i, ocr) == {Done(WithOcr(files, i, ocr)), Failed(files)}

\* Mutant: the UPDATE has lost its WHERE clause.
PostgresMarkOcrDone_AllRows(files, i, ocr) ==
  {Done({[r EXCEPT !.ocr = ocr] : r \in files}), Failed(files)}

PostgresMarkOcrDone(files, i, ocr) ==
  SqliteMarkOcrDone(files, i, ocr) \cup {Failed(WithOcr(files, i, ocr))}

\* SQLite looks for the file's receipt, then updates or inserts it.
Upsert(receipts, p) == {q \in receipts : q.file # p.file} \cup {p}

SqliteMarkParsingDone(receipts, p) == {Done(Upsert(receipts, p)), Failed(receipts)}

\* The column is JSONB: the server refuses text that is not JSON.  It is
\* stricter than cJSON, which lets text follow the JSON value.
PostgresMarkParsingDone(receipts, p) ==
  {Refused(receipts)} \cup
  IF p.ok THEN {Done(Upsert(receipts, p)), Failed(receipts), Failed(Upsert(receipts, p))}
          ELSE {}

Without(files, i) == {r \in files : r.id # i}

SqliteDelete(files, i) ==
  IF ById(files, i) = {} THEN {Refused(files), Failed(files)}
  ELSE {Done(Without(files, i)), Failed(files)}

PostgresDelete(files, i) == SqliteDelete(files, i) \cup {Failed(Without(files, i))}

\* Mutant: PRAGMA foreign_keys is off.
Cascade_Off(receipts, files) == receipts

\* REFERENCES files(id) ON DELETE CASCADE, with foreign keys enforced.
Cascade(receipts, files) == {p \in receipts : \E r \in files : r.id = p.file}

-----------------------------------------------------------------------------
(* The repository in front of the backends.                                *)

RepoInsert(files, row) ==
  IF Database = "sqlite" THEN SqliteInsert(files, row) ELSE PostgresInsert(files, row)

RepoMarkOcrComplete(files, i, ocr) ==
  IF Database = "sqlite" THEN SqliteMarkOcrDone(files, i, ocr)
                         ELSE PostgresMarkOcrDone(files, i, ocr)

RepoMarkParsingComplete(receipts, p) ==
  IF Database = "sqlite" THEN SqliteMarkParsingDone(receipts, p)
                         ELSE PostgresMarkParsingDone(receipts, p)

BackendDelete(files, i) ==
  IF Database = "sqlite" THEN SqliteDelete(files, i) ELSE PostgresDelete(files, i)

\* Ids after an insert: SQLite's AUTOINCREMENT counts rows that were stored,
\* a PostgreSQL sequence may also be advanced by an insert that failed.
LastIdAfter(last, stored) ==
  IF stored THEN {last + 1}
  ELSE IF Database = "sqlite" THEN {last} ELSE {last, last + 1}
=============================================================================
