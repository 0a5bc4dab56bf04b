-------------------------------- MODULE Blobs --------------------------------
(***************************************************************************)
(* The storage of original files and of OCR texts: what one call of a      *)
(* storage backend may do to the file it names.  "old" is the data under   *)
(* that name before the call, None when there is no such file.             *)
(***************************************************************************)
EXTENDS Tables

CONSTANT Storage   \* "local" (a directory) or "supabase" (an HTTP object store)

ASSUME BlobsAssumption == Storage \in {"local", "supabase"}

Cell == Data \cup {None}

\* Mutant: a file that cannot be opened is reported as saved.
LocalSave_OpenUnchecked(old, new) == {Done(new), [ok |-> TRUE, left |-> old, cost |-> 1]}

\* fopen(.., "wb") truncates whatever had the name.  fwrite may be short and
\* be reported; what fclose fails to flush is not reported at all.
LocalSave(old, new) ==
  {Done(new), Failed(old)}
    \cup {[ok |-> b, left |-> d, cost |-> 1] : b \in BOOLEAN, d \in {Damaged, Blank}}

\* Mutant: the status of the answer is not looked at.
SupabaseSave_StatusUnchecked(old, new) == {Done(new), [ok |-> TRUE, left |-> old, cost |-> 1]}

\* x-upsert: true; the request may take effect although its answer is lost.
SupabaseSave(old, new) == {Done(new), Failed(old), Failed(new)}

\* A file that is not there is reported as such.
LocalDelete(old) == {Failed(old)} \cup (IF old = None THEN {Refused(None)} ELSE {Done(None)})

\* Mutant: the request is a GET, nothing is deleted.
SupabaseDelete_NotDeleted(old) == {Done(old)}

\* Deleting an object that is not there answers an error status.
SupabaseDelete(old) ==
  IF old = None THEN {Refused(None)} ELSE {Done(None), Failed(old), Failed(None)}

SaveFile(old, new) == IF Storage = "local" THEN LocalSave(old, new) ELSE SupabaseSave(old, new)

DeleteFile(old) == IF Storage = "local" THEN LocalDelete(old) ELSE SupabaseDelete(old)

\* fopen fails, or ftell tells that there is nothing to read.
LocalReads(cell) == cell \notin {None, Blank}

\* The server answers 404, or a 200 whose body is never allocated.
SupabaseReads(cell) == cell \notin {None, Blank}

\* A reader gets NULL for a file that is missing and for one of zero bytes.
Readable(cell) == IF Storage = "local" THEN LocalReads(cell) ELSE SupabaseReads(cell)

\* What a process killed inside fopen..fclose leaves under the name.  An
\* object store has the old object or the new one, which a kill before or
\* after the call gives as well.
TornWrite == IF Storage = "local" THEN {Damaged, Blank} ELSE {}
=============================================================================
