----------------------------- MODULE DocumentStore -----------------------------
(***************************************************************************)
(* The document store of kaufbot: documents and the texts that belong to   *)
(* them, put into a storage backend under names made from the document's.  *)
(* One caller stores, annotates and deletes documents; any call of the     *)
(* storage may fail.                                                       *)
(***************************************************************************)
EXTENDS Blobs, FiniteSets

CONSTANTS
  TextTypes,      \* the types of texts its callers store
  MaxStoreFaults  \* bound: calls of the storage that fail

ASSUME DocumentAssumption ==
  MaxStamp > 0 /\ MaxStoreFaults \in Nat /\ {"ocr", "parsed"} \subseteq TextTypes

VARIABLES
  now,          \* the second of the clock
  documents,    \* the storage: document id -> data
  texts,        \* the storage: document id and type -> the data the text is of
  known,        \* the ids the caller was given and has not deleted
  overwritten,  \* ghost: ids given out again while they were known
  storeFaults   \* calls that failed so far

documentVars == <<now, documents, texts, known, overwritten, storeFaults>>

\* The id of a document is the name of its file; that of a text is the id
\* with the type appended.
DocId    == Name
TextName == DocId \X TextTypes

DocumentInit ==
  /\ now = 1
  /\ documents = [id \in DocId |-> None] /\ texts = [t \in TextName |-> None]
  /\ known = {} /\ overwritten = {} /\ storeFaults = 0

-----------------------------------------------------------------------------
\* The caller is told of success only.
StoreDocument(ext, data) ==
  LET id == [at |-> now, ext |-> ext] IN
  \E saved \in SaveFile(documents[id], data) :
    /\ storeFaults + saved.cost <= MaxStoreFaults
    /\ storeFaults' = storeFaults + saved.cost
    /\ documents' = [documents EXCEPT ![id] = saved.left]
    /\ known' = IF saved.ok THEN known \cup {id} ELSE known
    /\ overwritten' = IF saved.left # documents[id] /\ id \in known
                      THEN overwritten \cup {id} ELSE overwritten
    /\ UNCHANGED <<now, texts>>

\* A text made of the document's data.  Whether there is such a document is
\* not looked at; this caller asks for those it knows.
StoreText(id, type) ==
  \E saved \in SaveFile(texts[<<id, type>>], documents[id]) :
    /\ id \in known /\ documents[id] \in Data
    /\ storeFaults + saved.cost <= MaxStoreFaults
    /\ storeFaults' = storeFaults + saved.cost
    /\ texts' = [texts EXCEPT ![<<id, type>>] = saved.left]
    /\ UNCHANGED <<now, documents, known, overwritten>>

\* Mutant: the parsed text is forgotten.
Associated_OcrOnly(id) == {<<id, "ocr">>}

\* The texts that are deleted along with a document.
Associated(id) == {<<id, "ocr">>, <<id, "parsed">>}

\* Nothing of what the storage reports is looked at.
DeleteDocument(id) ==
  \E gone \in DeleteFile(documents[id]),
     left \in [Associated(id) -> UNION {DeleteFile(texts[t]) : t \in Associated(id)}] :
    /\ id \in known
    /\ \A t \in Associated(id) : left[t] \in DeleteFile(texts[t])
    /\ LET cost == gone.cost + Cardinality({t \in Associated(id) : left[t].cost = 1})
       IN storeFaults + cost <= MaxStoreFaults /\ storeFaults' = storeFaults + cost
    /\ documents' = [documents EXCEPT ![id] = gone.left]
    /\ texts' = [t \in TextName |-> IF t \in Associated(id) THEN left[t].left ELSE texts[t]]
    /\ known' = known \ {id} /\ overwritten' = overwritten \ {id}
    /\ UNCHANGED now

NextSecond == /\ now < MaxStamp
              /\ now' = now + 1
              /\ UNCHANGED <<documents, texts, known, overwritten, storeFaults>>

DocumentNext ==
  \/ \E ext \in Exts, data \in Contents : StoreDocument(ext, data)
  \/ \E id \in DocId, type \in TextTypes : StoreText(id, type)
  \/ \E id \in DocId : DeleteDocument(id)
  \/ NextSecond

DocumentSpec == DocumentInit /\ [][DocumentNext]_documentVars

-----------------------------------------------------------------------------
read_text(id, type) == IF Readable(texts[<<id, type>>]) THEN texts[<<id, type>>] ELSE None

exists(id) == documents[id] # None

\* Files in the storage that belong to no document the caller knows.
StrayDocuments == {id \in DocId : exists(id) /\ id \notin known}
StrayTexts == {t \in TextName : texts[t] # None /\ t[2] \in {"ocr", "parsed"} /\ t[1] \notin known}

\* "Delete document and all associated files": at most one file is left
\* behind for each call of the storage that failed; and as long as none has,
\* the texts that are read of a document were made of it, also when its id is
\* that of a document deleted before (ids are unique within a second only),
\* unless two documents of one second were stored over each other.  (Texts of
\* other types than the store knows of are left behind and are not counted.)
DocumentsAreWhole ==
  /\ Cardinality(StrayDocuments) + Cardinality(StrayTexts) <= storeFaults
  /\ storeFaults = 0 =>
       \A id \in known \ overwritten :
         /\ exists(id)
         /\ \A type \in {"ocr", "parsed"} : read_text(id, type) \in {None, documents[id]}
=============================================================================
