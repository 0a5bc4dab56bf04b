--------------------------- MODULE ComponentProofs ---------------------------
(***************************************************************************)
(* Four of the components that stand alone: the document store leaves      *)
(* behind only what a fault made it leave, the event bus misses only       *)
(* handlers that a leaving one moved out of its way, the repository        *)
(* without a database answers like one until its arrays are full, and the  *)
(* users who are allowed are those on the list.                            *)
(***************************************************************************)
EXTENDS DocumentStore, EventBus, MemoryRepository, Configuration, DataProofs

-----------------------------------------------------------------------------
(* The document store: what one call of the storage leaves.                *)

DocumentTypes ==
  /\ now \in Stamps
  /\ documents \in [DocId -> Cell] /\ texts \in [TextName -> Cell]
  /\ known \subseteq DocId
  /\ storeFaults \in Nat

StraysBound ==
  /\ IsFiniteSet(StrayDocuments) /\ IsFiniteSet(StrayTexts)
  /\ Cardinality(StrayDocuments) + Cardinality(StrayTexts) <= storeFaults

KnownAreWhole ==
  storeFaults = 0 =>
    \A id \in known \ overwritten :
      /\ exists(id)
      /\ \A type \in {"ocr", "parsed"} : read_text(id, type) \in {None, documents[id]}

DocumentInv == DocumentTypes /\ StraysBound /\ KnownAreWhole

LEMMA SaveOfDocument ==
  ASSUME NEW old, NEW new, NEW o \in SaveFile(old, new)
  PROVE  /\ o.cost \in {0, 1} /\ o.left \in {old, new, Damaged, Blank}
         /\ o.cost = 0 => o.ok /\ o.left = new
BY DEF SaveFile, LocalSave, SupabaseSave, Done, Failed

LEMMA DeleteOfDocument ==
  ASSUME NEW old, NEW o \in DeleteFile(old)
  PROVE  /\ o.cost \in {0, 1} /\ o.left \in {old, None}
         /\ o.cost = 0 => o.left = None
BY DEF DeleteFile, LocalDelete, SupabaseDelete, Done, Failed, Refused

\* A set that grows by a few grows in number by at most as many.
LEMMA CountGrown ==
  ASSUME NEW S, IsFiniteSet(S), NEW X, IsFiniteSet(X), NEW T \in SUBSET (S \cup X)
  PROVE  /\ IsFiniteSet(T) /\ Cardinality(S) \in Nat /\ Cardinality(X) \in Nat
         /\ Cardinality(T) \in Nat /\ Cardinality(T) <= Cardinality(S) + Cardinality(X)
<1> DEFINE U == S \cup X
<1>1. /\ IsFiniteSet(U) /\ Cardinality(U) = Cardinality(S) + Cardinality(X) - Cardinality(S \cap X)
  BY FS_Union
<1>2. IsFiniteSet(S \cap X)
  <2>1. S \cap X \in SUBSET S
    OBVIOUS
  <2> QED
    BY <2>1, FS_Subset
<1>3. /\ Cardinality(S) \in Nat /\ Cardinality(X) \in Nat
      /\ Cardinality(S \cap X) \in Nat /\ Cardinality(U) \in Nat
  BY <1>1, <1>2, FS_CardinalityType
<1>4. IsFiniteSet(T) /\ Cardinality(T) \in Nat /\ Cardinality(T) <= Cardinality(U)
  BY <1>1, FS_Subset, FS_CardinalityType
<1> HIDE DEF U
<1> QED
  BY <1>1, <1>3, <1>4

\* A call of the storage that costs nothing leaves nothing stray.
LEMMA StoreDocumentKeeps ==
  ASSUME DocumentInv, NEW ext \in Exts, NEW data \in Contents, StoreDocument(ext, data)
  PROVE  DocumentInv'
<1> DEFINE id == [at |-> now, ext |-> ext]
<1>1. PICK saved \in SaveFile(documents[id], data) :
        /\ storeFaults' = storeFaults + saved.cost
        /\ documents' = [documents EXCEPT ![id] = saved.left]
        /\ known' = IF saved.ok THEN known \cup {id} ELSE known
        /\ overwritten' = IF saved.left # documents[id] /\ id \in known
                          THEN overwritten \cup {id} ELSE overwritten
        /\ UNCHANGED <<now, texts>>
  BY DEF StoreDocument
<1>2. id \in DocId
  BY DEF DocumentInv, DocumentTypes, DocId, Name
<1> HIDE DEF id
<1>3. /\ now \in Stamps /\ documents \in [DocId -> Cell] /\ texts \in [TextName -> Cell]
      /\ known \subseteq DocId /\ storeFaults \in Nat
  BY DEF DocumentInv, DocumentTypes
<1>4. /\ saved.cost \in {0, 1} /\ saved.left \in {documents[id], data, Damaged, Blank}
      /\ saved.cost = 0 => saved.ok /\ saved.left = data
  BY SaveOfDocument
<1>5. DocumentTypes'
  BY <1>1, <1>2, <1>3, <1>4 DEF DocumentTypes, Cell, Data
<1>6. StraysBound'
  <2> DEFINE X == IF saved.cost = 0 THEN {} ELSE {id}
  <2>1. IsFiniteSet(X) /\ Cardinality(X) = saved.cost
    BY <1>4, FS_EmptySet, FS_Singleton
  <2>2. StrayDocuments' \subseteq StrayDocuments \cup X
    BY <1>1, <1>2, <1>3, <1>4 DEF StrayDocuments, exists
  <2>3. StrayTexts' \subseteq StrayTexts
    BY <1>1 DEF StrayTexts
  <2> HIDE DEF X
  <2>4. PICK A, B, C, D : /\ A = StrayDocuments /\ B = StrayDocuments'
                          /\ C = StrayTexts /\ D = StrayTexts'
    OBVIOUS
  <2>5. IsFiniteSet(A) /\ IsFiniteSet(C) /\ Cardinality(A) + Cardinality(C) <= storeFaults
    BY <2>4 DEF DocumentInv, StraysBound
  <2>6. /\ IsFiniteSet(B) /\ Cardinality(A) \in Nat /\ Cardinality(B) \in Nat
        /\ Cardinality(B) <= Cardinality(A) + saved.cost
    BY <2>1, <2>2, <2>4, <2>5, CountGrown
  <2>7. /\ IsFiniteSet(D) /\ Cardinality(C) \in Nat /\ Cardinality(D) \in Nat
        /\ Cardinality(D) <= Cardinality(C)
    BY <2>3, <2>4, <2>5, FS_Subset, FS_CardinalityType
  <2>8. Cardinality(B) + Cardinality(D) <= storeFaults + saved.cost
    BY <2>5, <2>6, <2>7, <1>3, <1>4
  <2> QED
    BY <2>4, <2>6, <2>7, <2>8, <1>1 DEF StraysBound
<1>7. KnownAreWhole'
  <2> SUFFICES ASSUME storeFaults' = 0, NEW i \in known', i \notin overwritten'
               PROVE  /\ exists(i)'
                      /\ \A type \in {"ocr", "parsed"} : read_text(i, type)' \in {None, documents'[i]}
    BY DEF KnownAreWhole
  <2>1. storeFaults = 0 /\ saved.cost = 0 /\ saved.ok /\ saved.left = data
    BY <1>1, <1>3, <1>4
  <2>2. StrayTexts = {}
    <3>1. PICK A, C : A = StrayDocuments /\ C = StrayTexts
      OBVIOUS
    <3>2. /\ IsFiniteSet(A) /\ IsFiniteSet(C) /\ Cardinality(A) \in Nat /\ Cardinality(C) \in Nat
          /\ Cardinality(A) + Cardinality(C) <= 0
      BY <2>1, <3>1, FS_CardinalityType DEF DocumentInv, StraysBound
    <3>3. Cardinality(C) = 0
      BY <3>2
    <3> QED
      BY <3>1, <3>2, <3>3, FS_EmptySet
  <2>3. i \in DocId /\ \A type \in {"ocr", "parsed"} : <<i, type>> \in TextName
    BY <1>2, <1>1, <1>3, DocumentAssumption DEF TextName
  <2>4. CASE i = id /\ (id \notin known)
    <3>1. \A type \in {"ocr", "parsed"} : texts[<<i, type>>] = None
      BY <2>2, <2>3, <2>4 DEF StrayTexts
    <3>2. documents'[i] = data /\ data # None
      BY <2>1, <2>4, <1>1, <1>2, <1>3, TablesAssumption
    <3> QED
      BY <3>1, <3>2, <1>1 DEF exists, read_text
  <2>5. CASE documents'[i] = documents[i] /\ i \in known /\ i \notin overwritten
    BY <2>1, <2>5, <1>1 DEF DocumentInv, KnownAreWhole, exists, read_text
  <2>6. i = id => documents'[i] = saved.left
    BY <1>1, <1>2, <1>3
  <2>7. i # id => documents'[i] = documents[i] /\ i \in known
    BY <1>1, <1>2, <1>3, <2>3
  <2> QED
    BY <2>4, <2>5, <2>6, <2>7, <1>1
<1> QED
  BY <1>5, <1>6, <1>7 DEF DocumentInv

LEMMA StoreTextKeeps ==
  ASSUME DocumentInv, NEW id \in DocId, NEW type \in TextTypes, StoreText(id, type)
  PROVE  DocumentInv'
<1>1. PICK saved \in SaveFile(texts[<<id, type>>], documents[id]) :
        /\ id \in known /\ documents[id] \in Data
        /\ storeFaults' = storeFaults + saved.cost
        /\ texts' = [texts EXCEPT ![<<id, type>>] = saved.left]
        /\ UNCHANGED <<now, documents, known, overwritten>>
  BY DEF StoreText
<1>2. /\ now \in Stamps /\ documents \in [DocId -> Cell] /\ texts \in [TextName -> Cell]
      /\ known \subseteq DocId /\ storeFaults \in Nat
  BY DEF DocumentInv, DocumentTypes
<1>3. /\ saved.cost \in {0, 1} /\ saved.left \in {texts[<<id, type>>], documents[id], Damaged, Blank}
      /\ saved.cost = 0 => saved.left = documents[id]
  BY SaveOfDocument
<1>4. <<id, type>> \in TextName
  BY DEF TextName
<1>5. DocumentTypes'
  BY <1>1, <1>2, <1>3, <1>4 DEF DocumentTypes, Cell, Data
<1>6. StraysBound'
  <2>1. StrayDocuments' = StrayDocuments
    BY <1>1 DEF StrayDocuments, exists
  <2>2. StrayTexts' \subseteq StrayTexts
    <3> SUFFICES ASSUME NEW t \in TextName, texts'[t] # None, t[2] \in {"ocr", "parsed"},
                        t[1] \notin known
                 PROVE  texts[t] # None
      BY <1>1 DEF StrayTexts
    <3>1. t # <<id, type>>
      BY <1>1
    <3> QED
      BY <3>1, <1>1, <1>2
  <2>3. PICK A, C, D : A = StrayDocuments /\ C = StrayTexts /\ D = StrayTexts'
    OBVIOUS
  <2>4. IsFiniteSet(A) /\ IsFiniteSet(C) /\ Cardinality(A) + Cardinality(C) <= storeFaults
    BY <2>3 DEF DocumentInv, StraysBound
  <2>5. /\ IsFiniteSet(D) /\ Cardinality(C) \in Nat /\ Cardinality(D) \in Nat
        /\ Cardinality(D) <= Cardinality(C) /\ Cardinality(A) \in Nat
    BY <2>2, <2>3, <2>4, FS_Subset, FS_CardinalityType
  <2>6. Cardinality(A) + Cardinality(D) <= storeFaults + saved.cost
    BY <2>4, <2>5, <1>2, <1>3
  <2> QED
    BY <2>1, <2>3, <2>4, <2>5, <2>6, <1>1 DEF StraysBound
<1>7. KnownAreWhole'
  <2> SUFFICES ASSUME storeFaults' = 0, NEW i \in known, i \notin overwritten
               PROVE  /\ exists(i)'
                      /\ \A ty \in {"ocr", "parsed"} : read_text(i, ty)' \in {None, documents[i]}
    BY <1>1 DEF KnownAreWhole
  <2>1. storeFaults = 0 /\ saved.left = documents[id]
    BY <1>1, <1>2, <1>3
  <2>2. exists(i) /\ \A ty \in {"ocr", "parsed"} : read_text(i, ty) \in {None, documents[i]}
    BY <2>1 DEF DocumentInv, KnownAreWhole
  <2>3. ASSUME NEW ty \in {"ocr", "parsed"} PROVE read_text(i, ty)' \in {None, documents[i]}
    <3>1. <<i, ty>> \in TextName
      BY <1>2, DocumentAssumption DEF TextName
    <3>2. CASE i = id /\ ty = type
      BY <3>1, <3>2, <2>1, <1>1, <1>2 DEF read_text
    <3>3. CASE ~(i = id /\ ty = type)
      <4>1. texts'[<<i, ty>>] = texts[<<i, ty>>]
        BY <3>1, <3>3, <1>1, <1>2
      <4> QED
        BY <4>1, <2>2 DEF read_text
    <3> QED
      BY <3>2, <3>3
  <2> QED
    BY <2>2, <2>3, <1>1 DEF exists
<1> QED
  BY <1>5, <1>6, <1>7 DEF DocumentInv

LEMMA DeleteDocumentKeeps ==
  ASSUME DocumentInv, NEW id \in DocId, DeleteDocument(id)
  PROVE  DocumentInv'
<1>1. PICK gone \in DeleteFile(documents[id]),
           left \in [Associated(id) -> UNION {DeleteFile(texts[t]) : t \in Associated(id)}] :
        /\ id \in known
        /\ \A t \in Associated(id) : left[t] \in DeleteFile(texts[t])
        /\ storeFaults' = storeFaults + (gone.cost + Cardinality({t \in Associated(id) : left[t].cost = 1}))
        /\ documents' = [documents EXCEPT ![id] = gone.left]
        /\ texts' = [t \in TextName |-> IF t \in Associated(id) THEN left[t].left ELSE texts[t]]
        /\ known' = known \ {id} /\ overwritten' = overwritten \ {id}
        /\ UNCHANGED now
  BY DEF DeleteDocument
<1>2. /\ now \in Stamps /\ documents \in [DocId -> Cell] /\ texts \in [TextName -> Cell]
      /\ known \subseteq DocId /\ storeFaults \in Nat
  BY DEF DocumentInv, DocumentTypes
<1>3. /\ gone.cost \in {0, 1} /\ gone.left \in {documents[id], None}
      /\ gone.cost = 0 => gone.left = None
  BY DeleteOfDocument
<1>4. \A t \in Associated(id) : /\ left[t].cost \in {0, 1} /\ left[t].left \in {texts[t], None}
                                /\ left[t].cost = 0 => left[t].left = None
  BY <1>1, DeleteOfDocument
<1>5. Associated(id) \subseteq TextName
  BY DocumentAssumption DEF Associated, TextName
<1>6. PICK Y : Y = {t \in Associated(id) : left[t].cost = 1}
  OBVIOUS
<1>7. IsFiniteSet(Y) /\ Cardinality(Y) \in Nat
  <2>1. IsFiniteSet(Associated(id))
    <3>1. IsFiniteSet({<<id, "ocr">>}) /\ IsFiniteSet({<<id, "parsed">>})
      BY FS_Singleton
    <3>2. IsFiniteSet({<<id, "ocr">>} \cup {<<id, "parsed">>})
      BY <3>1, FS_Union
    <3>3. Associated(id) = {<<id, "ocr">>} \cup {<<id, "parsed">>}
      BY DEF Associated
    <3> QED
      BY <3>2, <3>3
  <2>2. Y \in SUBSET Associated(id)
    BY <1>6
  <2> QED
    BY <2>1, <2>2, FS_Subset, FS_CardinalityType
<1>8. storeFaults' = storeFaults + (gone.cost + Cardinality(Y))
  BY <1>1, <1>6
<1>9. DocumentTypes'
  <2>1. \A t \in TextName : texts'[t] \in Cell
    BY <1>1, <1>2, <1>4 DEF Cell
  <2>2. documents' \in [DocId -> Cell]
    BY <1>1, <1>2, <1>3 DEF Cell
  <2>3. storeFaults' \in Nat
    BY <1>2, <1>3, <1>7, <1>8
  <2> QED
    BY <2>1, <2>2, <2>3, <1>1, <1>2 DEF DocumentTypes
<1>10. StraysBound'
  <2> DEFINE X == IF gone.cost = 0 THEN {} ELSE {id}
  <2>1. IsFiniteSet(X) /\ Cardinality(X) = gone.cost
    BY <1>3, FS_EmptySet, FS_Singleton
  <2>2. StrayDocuments' \subseteq StrayDocuments \cup X
    BY <1>1, <1>2, <1>3 DEF StrayDocuments, exists
  <2>3. StrayTexts' \subseteq StrayTexts \cup Y
    <3> SUFFICES ASSUME NEW t \in TextName, texts'[t] # None, t[2] \in {"ocr", "parsed"},
                        t[1] \notin known \/ t[1] = id, t \notin Y
                 PROVE  texts[t] # None /\ t[1] \notin known
      BY <1>1 DEF StrayTexts
    <3>1. t \notin Associated(id)
      BY <1>1, <1>4, <1>6
    <3>2. t[1] # id
      BY <3>1 DEF Associated, TextName
    <3> QED
      BY <3>1, <3>2, <1>1
  <2> HIDE DEF X
  <2>4. PICK A, B, C, D : /\ A = StrayDocuments /\ B = StrayDocuments'
                          /\ C = StrayTexts /\ D = StrayTexts'
    OBVIOUS
  <2>5. IsFiniteSet(A) /\ IsFiniteSet(C) /\ Cardinality(A) + Cardinality(C) <= storeFaults
    BY <2>4 DEF DocumentInv, StraysBound
  <2>6. /\ IsFiniteSet(B) /\ Cardinality(A) \in Nat /\ Cardinality(B) \in Nat
        /\ Cardinality(B) <= Cardinality(A) + gone.cost
    BY <2>1, <2>2, <2>4, <2>5, CountGrown
  <2>7. /\ IsFiniteSet(D) /\ Cardinality(C) \in Nat /\ Cardinality(D) \in Nat
        /\ Cardinality(D) <= Cardinality(C) + Cardinality(Y)
    BY <2>3, <2>4, <2>5, <1>7, CountGrown
  <2>8. Cardinality(B) + Cardinality(D) <= storeFaults + (gone.cost + Cardinality(Y))
    BY <2>5, <2>6, <2>7, <1>2, <1>3, <1>7
  <2> QED
    BY <2>4, <2>6, <2>7, <2>8, <1>8 DEF StraysBound
<1>11. KnownAreWhole'
  <2> SUFFICES ASSUME storeFaults' = 0, NEW i \in known, i # id, i \notin overwritten
               PROVE  /\ exists(i)'
                      /\ \A ty \in {"ocr", "parsed"} : read_text(i, ty)' \in {None, documents'[i]}
    BY <1>1 DEF KnownAreWhole
  <2>1. storeFaults = 0
    BY <1>2, <1>3, <1>7, <1>8
  <2>2. exists(i) /\ \A ty \in {"ocr", "parsed"} : read_text(i, ty) \in {None, documents[i]}
    BY <2>1 DEF DocumentInv, KnownAreWhole
  <2>3. documents'[i] = documents[i]
    BY <1>1, <1>2
  <2>4. \A ty \in {"ocr", "parsed"} : texts'[<<i, ty>>] = texts[<<i, ty>>]
    <3> SUFFICES ASSUME NEW ty \in {"ocr", "parsed"} PROVE texts'[<<i, ty>>] = texts[<<i, ty>>]
      OBVIOUS
    <3>1. <<i, ty>> \in TextName /\ <<i, ty>> \notin Associated(id)
      BY <1>2, DocumentAssumption DEF TextName, Associated
    <3> QED
      BY <3>1, <1>1
  <2> QED
    BY <2>2, <2>3, <2>4 DEF exists, read_text
<1> QED
  BY <1>9, <1>10, <1>11 DEF DocumentInv

\* DocumentsAreWhole: at most one file is left behind for each call that
\* failed, and without failures a document's texts are of that document.
THEOREM DocumentsAreWholeCorrect == DocumentSpec => []DocumentsAreWhole
<1>1. DocumentInit => DocumentInv
  <2> SUFFICES ASSUME DocumentInit PROVE DocumentInv
    OBVIOUS
  <2>1. DocumentTypes
    BY DocumentAssumption, TablesAssumption DEF DocumentInit, DocumentTypes, Stamps, Cell
  <2>2. StrayDocuments = {} /\ StrayTexts = {}
    BY DEF DocumentInit, StrayDocuments, StrayTexts, exists
  <2>3. StraysBound
    BY <2>2, FS_EmptySet DEF DocumentInit, StraysBound
  <2> QED
    BY <2>1, <2>3 DEF DocumentInit, DocumentInv, KnownAreWhole
<1>2. DocumentInv /\ [DocumentNext]_documentVars => DocumentInv'
  <2> SUFFICES ASSUME DocumentInv, [DocumentNext]_documentVars PROVE DocumentInv'
    OBVIOUS
  <2>1. CASE UNCHANGED documentVars \/ NextSecond
    <3>1. /\ UNCHANGED <<documents, texts, known, overwritten, storeFaults>>
          /\ now' \in Stamps
      BY <2>1, TablesAssumption
         DEF NextSecond, documentVars, DocumentInv, DocumentTypes, Stamps
    <3> QED
      BY <3>1 DEF DocumentInv, DocumentTypes, StraysBound, KnownAreWhole, StrayDocuments,
                  StrayTexts, exists, read_text
  <2> QED
    BY <2>1, StoreDocumentKeeps, StoreTextKeeps, DeleteDocumentKeeps DEF DocumentNext
<1>3. DocumentInv => DocumentsAreWhole
  BY DEF DocumentInv, StraysBound, KnownAreWhole, DocumentsAreWhole
<1> QED
  BY <1>1, <1>2, <1>3, PTL DEF DocumentSpec

-----------------------------------------------------------------------------
(* The event bus: what a walk has passed by.                               *)

\* The handlers that stay subscribed, that this publish has not called, and
\* whose slots in the table s it has all passed.
Missed(f, s) ==
  {h \in f.kept : /\ h \notin f.called
                  /\ \A k \in DOMAIN s : k > f.next => s[k] # h}

FrameSound(f, s) ==
  /\ f.made = f.next
  /\ IsFiniteSet(Missed(f, s)) /\ Cardinality(Missed(f, s)) <= f.left
  /\ f.left = 0 => f.next <= Len(s)

BusInv ==
  /\ subscribers \in Seq(Handlers) /\ Len(subscribers) <= MaxSubscribers
  /\ frames \in Seq(Frame)
  /\ \A i \in DOMAIN frames : FrameSound(frames[i], subscribers)

\* What is removed is the first place; those behind it move down.
LEMMA FirstRemoved ==
  ASSUME NEW S, NEW s \in Seq(S), NEW e, RemoveFirst(s, e) # s
  PROVE  \E p \in DOMAIN s :
           /\ s[p] = e /\ \A q \in DOMAIN s : q < p => s[q] # e
           /\ RemoveFirst(s, e) \in Seq(S)
           /\ Len(RemoveFirst(s, e)) = Len(s) - 1
           /\ \A q \in DOMAIN RemoveFirst(s, e) :
                RemoveFirst(s, e)[q] = IF q < p THEN s[q] ELSE s[q + 1]
<1>1. Len(s) \in Nat /\ DOMAIN s = 1..Len(s)
  OBVIOUS
<1> DEFINE I == {i \in 1..Len(s) : s[i] = e}
           p == Min(I)
<1>2. I # {}
  BY DEF RemoveFirst
<1>3. p \in I /\ \A m \in I : p <= m
  <2>1. I \in SUBSET (1..Len(s))
    OBVIOUS
  <2> HIDE DEF I
  <2> QED
    BY <2>1, <1>1, <1>2, LeastNumber
<1>4. RemoveFirst(s, e) = RemoveAt(s, p)
  BY <1>2 DEF RemoveFirst, SelectInSeq
<1> HIDE DEF p
<1>5. p \in 1..Len(s) /\ s[p] = e /\ \A q \in DOMAIN s : q < p => s[q] # e
  BY <1>1, <1>3
<1>6. /\ RemoveFirst(s, e) \in Seq(S)
      /\ Len(RemoveFirst(s, e)) = Len(s) - 1
      /\ DOMAIN RemoveFirst(s, e) = 1..Len(s) - 1
      /\ \A q \in 1..Len(s) - 1 :
           RemoveFirst(s, e)[q] = IF q < p THEN s[q] ELSE s[q + 1]
  BY <1>4, <1>5, PlaceRemoved
<1> QED
  BY <1>1, <1>5, <1>6

\* A sequence without its last element.
LEMMA FrontOf ==
  ASSUME NEW S, NEW s \in Seq(S), s # <<>>
  PROVE  /\ Front(s) \in Seq(S) /\ Len(Front(s)) = Len(s) - 1
         /\ \A i \in 1..Len(s) - 1 : Front(s)[i] = s[i]
<1>1. Len(s) \in Nat /\ Len(s) > 0 /\ \A i \in 1..Len(s) : s[i] \in S
  OBVIOUS
<1>2. PICK n \in Nat : n = Len(s)
  BY <1>1
<1>3. 1 \in Int /\ n - 1 \in Int /\ \A i \in 1..n - 1 : s[i] \in S
  BY <1>1, <1>2
<1>4. /\ SubSeq(s, 1, n - 1) \in Seq(S)
      /\ Len(SubSeq(s, 1, n - 1)) = IF 1 <= n - 1 THEN n - 1 - 1 + 1 ELSE 0
      /\ \A i \in 1..n - 1 - 1 + 1 : SubSeq(s, 1, n - 1)[i] = s[1 + i - 1]
  BY <1>3, SubSeqProperties
<1>5. Front(s) = SubSeq(s, 1, n - 1)
  BY <1>2 DEF Front
<1> QED
  BY <1>1, <1>2, <1>4, <1>5

\* Of a stack whose top is replaced the rest is as it was.
LEMMA TopReplaced ==
  ASSUME NEW S, NEW s \in Seq(S), s # <<>>, NEW e \in S
  PROVE  /\ Front(s) \o <<e>> \in Seq(S) /\ Len(Front(s) \o <<e>>) = Len(s)
         /\ (Front(s) \o <<e>>)[Len(s)] = e
         /\ \A i \in 1..Len(s) - 1 : (Front(s) \o <<e>>)[i] = s[i]
<1>1. /\ Front(s) \in Seq(S) /\ Len(Front(s)) = Len(s) - 1
      /\ \A i \in 1..Len(s) - 1 : Front(s)[i] = s[i]
  BY FrontOf
<1>2. PICK n \in Nat : n = Len(s) /\ n > 0
  OBVIOUS
<1>3. PICK front : front = Front(s)
  OBVIOUS
<1>4. <<e>> \in Seq(S) /\ Len(<<e>>) = 1 /\ <<e>>[1] = e
  OBVIOUS
<1>5. /\ front \o <<e>> \in Seq(S)
      /\ Len(front \o <<e>>) = Len(front) + Len(<<e>>)
      /\ \A i \in 1..Len(front) + Len(<<e>>) :
           (front \o <<e>>)[i] = IF i <= Len(front) THEN front[i] ELSE <<e>>[i - Len(front)]
  BY <1>1, <1>3, <1>4, ConcatProperties
<1>6. PICK t : t = front \o <<e>>
  OBVIOUS
<1>7. Len(front) = n - 1
  BY <1>1, <1>2, <1>3
<1>8. Len(t) = n
  BY <1>2, <1>4, <1>5, <1>6, <1>7
<1>9. t[n] = e
  <2>1. n \in 1..Len(front) + Len(<<e>>) /\ ~(n <= Len(front)) /\ n - Len(front) = 1
    BY <1>2, <1>4, <1>7
  <2> QED
    BY <2>1, <1>4, <1>5, <1>6
<1>10. \A i \in 1..n - 1 : t[i] = s[i]
  <2> SUFFICES ASSUME NEW i \in 1..n - 1 PROVE t[i] = s[i]
    OBVIOUS
  <2>1. i \in 1..Len(front) + Len(<<e>>) /\ i <= Len(front)
    BY <1>2, <1>4, <1>7
  <2> QED
    BY <2>1, <1>1, <1>2, <1>3, <1>5, <1>6
<1> QED
  BY <1>2, <1>3, <1>5, <1>6, <1>8, <1>9, <1>10

\* No more are missed when nobody else is.
LEMMA NobodyElse ==
  ASSUME NEW M, IsFiniteSet(M), NEW N, N \subseteq M,
         NEW a \in Nat, Cardinality(M) <= a, NEW b \in Nat, a <= b
  PROVE  IsFiniteSet(N) /\ Cardinality(N) <= b
<1>1. IsFiniteSet(N) /\ Cardinality(N) <= Cardinality(M)
  BY FS_Subset, Zenon
<1>2. Cardinality(N) \in Nat /\ Cardinality(M) \in Nat
  BY <1>1, FS_CardinalityType
<1> QED
  BY <1>1, <1>2

\* What a frame is told of a table that keeps its slots.
LEMMA LongerTableKeepsFrame ==
  ASSUME NEW s \in Seq(Handlers), NEW t \in Seq(Handlers),
         Len(s) <= Len(t), \A k \in 1..Len(s) : t[k] = s[k],
         NEW f \in Frame, FrameSound(f, s), NEW g \in Frame,
         g = [f EXCEPT !.kept = @ \cap ToSet(t)]
  PROVE  FrameSound(g, t)
<1>1. /\ g.next = f.next /\ g.made = f.made /\ g.left = f.left /\ g.called = f.called
      /\ g.kept \subseteq f.kept /\ f.next \in Nat /\ f.left \in Nat
  BY DEF Frame
<1>2. /\ Len(s) \in Nat /\ Len(t) \in Nat
      /\ \A k \in DOMAIN s : k \in DOMAIN t /\ t[k] = s[k]
  OBVIOUS
<1>3. Missed(g, t) \subseteq Missed(f, s)
  BY <1>1, <1>2 DEF Missed
<1>4. g.made = g.next /\ f.left <= g.left /\ g.left \in Nat /\ (g.left = 0 => g.next <= Len(t))
  BY <1>1, <1>2 DEF FrameSound
<1> DEFINE M == Missed(f, s)
           N == Missed(g, t)
<1>5. IsFiniteSet(M) /\ Cardinality(M) <= f.left /\ N \subseteq M
  BY <1>3 DEF FrameSound
<1> HIDE DEF M, N
<1>6. IsFiniteSet(N) /\ Cardinality(N) <= g.left
  BY <1>1, <1>4, <1>5, NobodyElse
<1> QED
  BY <1>4, <1>6 DEF FrameSound, N

\* What a frame is told of a subscription that is given up: the slots behind
\* it move down, so at most the one the walk would have come to next passes.
LEMMA RemovalKeepsFrame ==
  ASSUME NEW s \in Seq(Handlers), NEW h \in Handlers, RemoveFirst(s, h) # s,
         NEW f \in Frame, FrameSound(f, s), NEW g \in Frame,
         g = [f EXCEPT !.kept = @ \cap ToSet(RemoveFirst(s, h)), !.left = @ + 1]
  PROVE  FrameSound(g, RemoveFirst(s, h))
<1>1. PICK t : t = RemoveFirst(s, h)
  OBVIOUS
<1>2. PICK p \in DOMAIN s :
        /\ s[p] = h /\ \A q \in DOMAIN s : q < p => s[q] # h
        /\ t \in Seq(Handlers) /\ Len(t) = Len(s) - 1
        /\ \A q \in DOMAIN t : t[q] = IF q < p THEN s[q] ELSE s[q + 1]
  BY <1>1, FirstRemoved
<1>3. /\ g.next = f.next /\ g.made = f.made /\ g.left = f.left + 1 /\ g.called = f.called
      /\ g.kept = f.kept \cap ToSet(t) /\ f.next \in Nat /\ f.left \in Nat
  BY <1>1 DEF Frame
<1>4. DOMAIN s = 1..Len(s) /\ DOMAIN t = 1..Len(s) - 1 /\ Len(s) \in Nat
  BY <1>2
<1>5. ASSUME NEW x \in Missed(g, t), x \notin Missed(f, s)
      PROVE  x = s[f.next + 1]
  <2>1. /\ x \in f.kept /\ x \in ToSet(t) /\ x \notin f.called
        /\ \A k \in DOMAIN t : k > f.next => t[k] # x
    BY <1>3, <1>5 DEF Missed
  <2>2. PICK k \in DOMAIN s : k > f.next /\ s[k] = x
    BY <2>1, <1>5 DEF Missed
  <2>3. ~(k < p)
    <3> SUFFICES ASSUME k < p PROVE FALSE
      OBVIOUS
    <3>1. k \in DOMAIN t
      BY <1>2, <1>4
    <3> QED
      BY <3>1, <2>1, <2>2, <1>2
  <2>4. k = f.next + 1 \/ k = p
    <3> SUFFICES ASSUME k # f.next + 1, k # p PROVE FALSE
      OBVIOUS
    <3>1. k - 1 \in DOMAIN t /\ k - 1 > f.next /\ ~(k - 1 < p) /\ (k - 1) + 1 = k
      BY <2>2, <2>3, <1>2, <1>3, <1>4
    <3>2. t[k - 1] = s[k]
      BY <3>1, <1>2
    <3> QED
      BY <3>1, <3>2, <2>1, <2>2
  <2>5. CASE k = p /\ k # f.next + 1
    <3>1. PICK j \in DOMAIN t : t[j] = x
      BY <2>1 DEF ToSet
    <3>2. j <= f.next /\ j < p
      BY <3>1, <2>1, <2>2, <2>5, <1>2, <1>3, <1>4
    <3>3. s[j] = x /\ j \in DOMAIN s
      BY <3>1, <3>2, <1>2, <1>4
    <3> QED
      BY <3>2, <3>3, <2>2, <2>5, <1>2
  <2> QED
    BY <2>2, <2>4, <2>5
<1> DEFINE M == Missed(f, s)
           N == Missed(g, t)
           O == M \cup {s[f.next + 1]}
<1>6. N \subseteq O
  BY <1>5
<1> HIDE DEF M, N
<1>7. IsFiniteSet(M) /\ Cardinality(M) <= f.left
  BY DEF FrameSound, M
<1>8. IsFiniteSet(O) /\ Cardinality(O) = IF s[f.next + 1] \in M THEN Cardinality(M) ELSE Cardinality(M) + 1
  BY <1>7, FS_AddElement, Zenon
<1> HIDE DEF O
<1>9. IsFiniteSet(N) /\ Cardinality(N) <= Cardinality(O)
  BY <1>6, <1>8, FS_Subset, Zenon
<1>10. Cardinality(N) \in Nat /\ Cardinality(M) \in Nat /\ Cardinality(O) \in Nat
  BY <1>7, <1>8, <1>9, FS_CardinalityType, Zenon
<1>11. Cardinality(N) <= g.left
  BY <1>3, <1>7, <1>8, <1>9, <1>10
<1>12. g.made = g.next /\ g.left # 0
  BY <1>3 DEF FrameSound
<1>13. FrameSound(g, t)
  BY <1>9, <1>11, <1>12 DEF FrameSound, N
<1> QED
  BY <1>1, <1>13


\* What a call makes of the frame that makes it.
LEMMA CallKeepsFrame ==
  ASSUME NEW s \in Seq(Handlers), NEW f \in Frame, FrameSound(f, s), f.next < Len(s),
         Len(s) <= MaxSubscribers,
         NEW g, g = [f EXCEPT !.next = @ + 1, !.runs = TRUE, !.made = @ + 1,
                              !.called = @ \cup {s[f.next + 1]}]
  PROVE  g \in Frame /\ FrameSound(g, s)
<1>1. /\ g.next = f.next + 1 /\ g.made = f.made + 1 /\ g.left = f.left
      /\ g.called = f.called \cup {s[f.next + 1]} /\ g.kept = f.kept
      /\ f.next \in Nat /\ f.left \in Nat /\ f.made \in Nat
  BY DEF Frame
<1>2. Len(s) \in Nat /\ DOMAIN s = 1..Len(s)
  OBVIOUS
<1>3. g \in Frame
  <2>1. s[f.next + 1] \in Handlers
    BY <1>1, <1>2
  <2>2. f.next + 1 \in 0..MaxSubscribers
    BY <1>1, <1>2, BusAssumption
  <2>3. /\ f.called \cup {s[f.next + 1]} \in SUBSET Handlers
        /\ f.made + 1 \in Nat /\ TRUE \in BOOLEAN
    BY <2>1, <1>1 DEF Frame
  <2> QED
    BY <2>2, <2>3 DEF Frame
<1>4. Missed(g, s) \subseteq Missed(f, s)
  <2> SUFFICES ASSUME NEW h \in Missed(g, s) PROVE h \in Missed(f, s)
    OBVIOUS
  <2>1. /\ h \in f.kept /\ h \notin f.called /\ h # s[f.next + 1]
        /\ \A k \in DOMAIN s : k > f.next + 1 => s[k] # h
    BY <1>1 DEF Missed
  <2>2. ASSUME NEW k \in DOMAIN s, k > f.next PROVE s[k] # h
    <3>1. k = f.next + 1 \/ k > f.next + 1
      BY <2>2, <1>1, <1>2
    <3> QED
      BY <3>1, <2>1
  <2> QED
    BY <2>1, <2>2 DEF Missed
<1>5. g.made = g.next /\ g.left \in Nat /\ f.left <= g.left /\ g.next <= Len(s)
  BY <1>1, <1>2 DEF FrameSound
<1> DEFINE M == Missed(f, s)
           N == Missed(g, s)
<1>6. IsFiniteSet(M) /\ Cardinality(M) <= f.left /\ N \subseteq M
  BY <1>4 DEF FrameSound
<1> HIDE DEF M, N
<1>7. IsFiniteSet(N) /\ Cardinality(N) <= g.left
  BY <1>1, <1>5, <1>6, NobodyElse
<1> QED
  BY <1>3, <1>5, <1>7 DEF FrameSound, N

\* Whoever subscribes or leaves tells every publish in progress.
LEMMA TableChangeKeeps ==
  ASSUME BusInv, NEW h \in Handlers, Subscribe(h) \/ Unsubscribe(h)
  PROVE  BusInv' /\ Len(frames') = Len(frames)
<1>1. PICK s : s = subscribers'
  OBVIOUS
<1>2. PICK old \in Seq(Handlers) : old = subscribers
  BY DEF BusInv
<1>3. frames' = [i \in DOMAIN frames |->
                   [frames[i] EXCEPT !.kept = @ \cap ToSet(s),
                                     !.left = IF Len(s) < Len(old) THEN @ + 1 ELSE @]]
  <2>1. frames' = Noted
    BY DEF Subscribe, Unsubscribe
  <2> QED
    BY <2>1, <1>1, <1>2 DEF Noted
<1>4. /\ DOMAIN frames' = DOMAIN frames
      /\ Len(frames) \in Nat /\ DOMAIN frames = 1..Len(frames)
  <2>1. frames \in Seq(Frame)
    BY DEF BusInv
  <2>2. Len(frames) \in Nat /\ DOMAIN frames = 1..Len(frames)
    BY <2>1, LenProperties
  <2> QED
    BY <1>3, <2>2
<1>5. ASSUME NEW i \in DOMAIN frames
      PROVE  /\ frames[i] \in Frame /\ frames'[i] \in Frame
             /\ Len(s) < Len(old) =>
                  frames'[i] = [frames[i] EXCEPT !.kept = @ \cap ToSet(s), !.left = @ + 1]
             /\ ~(Len(s) < Len(old)) =>
                  frames'[i] = [frames[i] EXCEPT !.kept = @ \cap ToSet(s)]
  <2>1. PICK f \in Frame : f = frames[i]
    BY DEF BusInv
  <2>2. frames'[i] = [f EXCEPT !.kept = @ \cap ToSet(s),
                               !.left = IF Len(s) < Len(old) THEN @ + 1 ELSE @]
    BY <2>1, <1>3
  <2>3. CASE Len(s) < Len(old)
    <3>1. frames'[i] = [f EXCEPT !.kept = @ \cap ToSet(s), !.left = @ + 1]
      BY <2>2, <2>3
    <3>2. f.kept \cap ToSet(s) \in SUBSET Handlers /\ f.left + 1 \in Nat
      BY DEF Frame
    <3>3. frames'[i] \in Frame
      BY <3>1, <3>2 DEF Frame
    <3> QED
      BY <2>1, <2>3, <3>1, <3>3
  <2>4. CASE ~(Len(s) < Len(old))
    <3>1. frames'[i] = [f EXCEPT !.kept = @ \cap ToSet(s), !.left = f.left]
      BY <2>2, <2>4
    <3>2. frames'[i] = [f EXCEPT !.kept = @ \cap ToSet(s)]
      BY <3>1 DEF Frame
    <3>3. f.kept \cap ToSet(s) \in SUBSET Handlers
      BY DEF Frame
    <3>4. frames'[i] \in Frame
      BY <3>2, <3>3 DEF Frame
    <3> QED
      BY <2>1, <2>4, <3>2, <3>4
  <2> QED
    BY <2>3, <2>4
<1>6. frames' \in Seq(Frame) /\ Len(frames') = Len(frames)
  <2>1. frames' = [i \in 1..Len(frames) |-> frames'[i]]
    BY <1>3, <1>4
  <2>2. Len(frames) \in Nat /\ \A i \in 1..Len(frames) : frames'[i] \in Frame
    BY <1>4, <1>5 DEF BusInv
  <2> QED
    BY <2>1, <2>2, IsASeq
<1>7. CASE /\ Len(old) <= Len(s) /\ s \in Seq(Handlers) /\ Len(s) <= MaxSubscribers
           /\ \A k \in 1..Len(old) : s[k] = old[k]
  <2>1. ASSUME NEW i \in DOMAIN frames PROVE FrameSound(frames'[i], s)
    <3>1. PICK f \in Frame : f = frames[i] /\ FrameSound(f, old)
      BY <1>2, <1>5 DEF BusInv
    <3>2. PICK g \in Frame : g = frames'[i]
      BY <1>5
    <3>4. ~(Len(s) < Len(old))
      BY <1>7
    <3>3. g = [f EXCEPT !.kept = @ \cap ToSet(s)]
      BY <3>1, <3>2, <3>4, <1>5
    <3> QED
      BY <3>1, <3>2, <3>3, <1>7, LongerTableKeepsFrame
  <2> QED
    BY <2>1, <1>1, <1>4, <1>6, <1>7 DEF BusInv
<1>8. CASE s = RemoveFirst(old, h) /\ s # old
  <2>1. PICK p \in DOMAIN old : s \in Seq(Handlers) /\ Len(s) = Len(old) - 1
    BY <1>8, FirstRemoved
  <2>2. Len(s) < Len(old) /\ Len(s) <= MaxSubscribers
    BY <2>1, <1>2, BusAssumption DEF BusInv
  <2>3. ASSUME NEW i \in DOMAIN frames PROVE FrameSound(frames'[i], s)
    <3>1. PICK f \in Frame : f = frames[i] /\ FrameSound(f, old)
      BY <1>2, <1>5 DEF BusInv
    <3>2. PICK g \in Frame : g = frames'[i]
      BY <1>5
    <3>3. g = [f EXCEPT !.kept = @ \cap ToSet(s), !.left = @ + 1]
      BY <3>1, <3>2, <1>5, <2>2
    <3> QED
      BY <3>1, <3>2, <3>3, <1>8, RemovalKeepsFrame
  <2> QED
    BY <2>1, <2>2, <2>3, <1>1, <1>4, <1>6 DEF BusInv
<1>9. CASE s = old
  BY <1>7, <1>9, <1>2 DEF BusInv
<1>10. CASE Subscribe(h) /\ s # old
  <2>1. s = Append(old, h) /\ ~(Len(old) >= MaxSubscribers)
    BY <1>1, <1>2, <1>10 DEF Subscribe
  <2>2. s \in Seq(Handlers) /\ Len(s) = Len(old) + 1 /\ \A k \in 1..Len(old) : s[k] = old[k]
    BY <2>1, AppendProperties
  <2>3. Len(old) <= Len(s) /\ Len(s) <= MaxSubscribers
    BY <2>1, <2>2, BusAssumption
  <2> QED
    BY <2>2, <2>3, <1>7
<1>11. CASE Unsubscribe(h) /\ s # old
  BY <1>1, <1>2, <1>8, <1>11 DEF Unsubscribe
<1> QED
  BY <1>6, <1>9, <1>10, <1>11

\* A publish that begins has missed nobody.
LEMMA PublishKeeps ==
  ASSUME BusInv, Publish
  PROVE  BusInv' /\ Len(frames') = Len(frames) + 1
<1> DEFINE f == [next |-> 0, runs |-> FALSE, made |-> 0, kept |-> ToSet(subscribers),
                 called |-> {}, left |-> 0]
<1>1. frames' = Append(frames, f) /\ subscribers' = subscribers
  BY DEF Publish
<1>2. /\ subscribers \in Seq(Handlers) /\ frames \in Seq(Frame)
      /\ DOMAIN subscribers = 1..Len(subscribers) /\ Len(subscribers) \in Nat
  BY DEF BusInv
<1>3. ToSet(subscribers) \subseteq Handlers
  BY <1>2 DEF ToSet
<1>4. f \in Frame
  BY <1>3, BusAssumption DEF Frame
<1>5. Missed(f, subscribers) = {}
  <2> SUFFICES ASSUME NEW h \in Missed(f, subscribers) PROVE FALSE
    OBVIOUS
  <2>1. PICK k \in DOMAIN subscribers : subscribers[k] = h
    BY DEF Missed, ToSet
  <2>2. k > 0
    BY <2>1, <1>2
  <2> QED
    BY <2>1, <2>2 DEF Missed
<1>6. FrameSound(f, subscribers)
  <2>1. f.made = f.next /\ f.left = 0 /\ f.next <= Len(subscribers)
    BY <1>2
  <2>2. IsFiniteSet(Missed(f, subscribers)) /\ Cardinality(Missed(f, subscribers)) = 0
    BY <1>5, FS_EmptySet, Zenon
  <2>3. Cardinality(Missed(f, subscribers)) <= f.left
    BY <2>1, <2>2
  <2> QED
    BY <2>1, <2>2, <2>3 DEF FrameSound
<1> HIDE DEF f
<1>7. /\ frames' \in Seq(Frame) /\ Len(frames') = Len(frames) + 1
      /\ \A i \in 1..Len(frames) : frames'[i] = frames[i]
      /\ frames'[Len(frames) + 1] = f
  BY <1>1, <1>2, <1>4, AppendProperties
<1>8. ASSUME NEW i \in DOMAIN frames' PROVE FrameSound(frames'[i], subscribers)
  <2>1. Len(frames) \in Nat /\ DOMAIN frames = 1..Len(frames) /\ i \in 1..Len(frames) + 1
    BY <1>2, <1>7
  <2>2. i \in DOMAIN frames \/ i = Len(frames) + 1
    BY <2>1
  <2> QED
    BY <2>1, <2>2, <1>6, <1>7 DEF BusInv
<1> QED
  BY <1>1, <1>7, <1>8 DEF BusInv

\* The innermost publish walks on; the others wait for it.
LEMMA TopKeeps ==
  ASSUME BusInv, frames # <<>>, UNCHANGED subscribers,
         NEW g \in Frame, SetTop(g), FrameSound(g, subscribers)
  PROVE  BusInv' /\ Len(frames') = Len(frames)
<1>1. frames \in Seq(Frame)
  BY DEF BusInv
<1>2. /\ frames' \in Seq(Frame) /\ Len(frames') = Len(frames)
      /\ frames'[Len(frames)] = g
      /\ \A i \in 1..Len(frames) - 1 : frames'[i] = frames[i]
  BY <1>1, TopReplaced DEF SetTop
<1>3. ASSUME NEW i \in DOMAIN frames' PROVE FrameSound(frames'[i], subscribers)
  <2>1. Len(frames) \in Nat /\ DOMAIN frames = 1..Len(frames) /\ i \in 1..Len(frames)
    BY <1>1, <1>2
  <2>2. i \in 1..Len(frames) - 1 \/ i = Len(frames)
    BY <2>1
  <2> QED
    BY <2>1, <2>2, <1>2 DEF BusInv
<1> QED
  BY <1>2, <1>3 DEF BusInv

\* The frame that walks.
LEMMA TopFrame ==
  ASSUME BusInv, frames # <<>>
  PROVE  Last(frames) \in Frame /\ FrameSound(Last(frames), subscribers)
<1>1. PICK s \in Seq(Frame) : s = frames
  BY DEF BusInv
<1>2. Len(s) \in DOMAIN s /\ s[Len(s)] \in Frame
  BY <1>1
<1> QED
  BY <1>1, <1>2 DEF BusInv, Last

LEMMA CallNextKeeps ==
  ASSUME BusInv, CallNext
  PROVE  BusInv' /\ Len(frames') = Len(frames)
<1>1. PICK f \in Frame : f = Last(frames) /\ FrameSound(f, subscribers)
  BY TopFrame DEF CallNext
<1>2. PICK g : g = [f EXCEPT !.next = @ + 1, !.runs = TRUE, !.made = @ + 1,
                             !.called = @ \cup {subscribers[f.next + 1]}]
  OBVIOUS
<1>3. /\ frames # <<>> /\ f.next < Len(subscribers) /\ SetTop(g)
      /\ UNCHANGED subscribers
  BY <1>1, <1>2 DEF CallNext
<1>4. g \in Frame /\ FrameSound(g, subscribers)
  BY <1>1, <1>2, <1>3, CallKeepsFrame DEF BusInv
<1> QED
  BY <1>3, <1>4, TopKeeps

LEMMA HandlerReturnsKeeps ==
  ASSUME BusInv, HandlerReturns
  PROVE  BusInv' /\ Len(frames') = Len(frames)
<1>1. PICK f \in Frame : f = Last(frames) /\ FrameSound(f, subscribers)
  BY TopFrame DEF HandlerReturns
<1>2. PICK g : g = [f EXCEPT !.runs = FALSE]
  OBVIOUS
<1>3. frames # <<>> /\ SetTop(g) /\ UNCHANGED subscribers
  BY <1>1, <1>2 DEF HandlerReturns
<1>4. /\ g \in Frame /\ g.next = f.next /\ g.made = f.made /\ g.left = f.left
      /\ g.called = f.called /\ g.kept = f.kept
  BY <1>2 DEF Frame
<1>5. FrameSound(g, subscribers)
  <2>1. Missed(g, subscribers) = Missed(f, subscribers)
    BY <1>4 DEF Missed
  <2> QED
    BY <2>1, <1>1, <1>4 DEF FrameSound
<1> QED
  BY <1>3, <1>4, <1>5, TopKeeps

\* A publish that ends: what it says of itself.
LEMMA PublishEndsKeeps ==
  ASSUME BusInv, PublishEnds
  PROVE  /\ BusInv'
         /\ Cardinality(Last(frames).kept \ Last(frames).called) <= Last(frames).left
         /\ Last(frames).left = 0 => Last(frames).made = Len(subscribers)
<1>1. PICK f \in Frame : f = Last(frames) /\ FrameSound(f, subscribers)
  BY TopFrame DEF PublishEnds
<1>2. /\ frames # <<>> /\ f.next >= Len(subscribers) /\ frames' = Front(frames)
      /\ UNCHANGED subscribers
  BY <1>1 DEF PublishEnds
<1>3. /\ frames \in Seq(Frame) /\ Len(subscribers) \in Nat /\ f.next \in Nat
      /\ DOMAIN subscribers = 1..Len(subscribers)
  BY DEF BusInv, Frame
<1>4. Missed(f, subscribers) = f.kept \ f.called
  BY <1>2, <1>3 DEF Missed
<1>5. Cardinality(f.kept \ f.called) <= f.left
  BY <1>1, <1>4 DEF FrameSound
<1>6. f.left = 0 => f.made = Len(subscribers)
  BY <1>1, <1>2, <1>3 DEF FrameSound
<1>7. /\ frames' \in Seq(Frame) /\ Len(frames') = Len(frames) - 1
      /\ \A i \in 1..Len(frames) - 1 : frames'[i] = frames[i]
  BY <1>2, <1>3, FrontOf
<1>8. ASSUME NEW i \in DOMAIN frames' PROVE FrameSound(frames'[i], subscribers)
  <2>1. DOMAIN frames = 1..Len(frames) /\ Len(frames) \in Nat /\ i \in 1..Len(frames) - 1
    BY <1>3, <1>7
  <2>2. i \in DOMAIN frames /\ frames'[i] = frames[i]
    BY <2>1, <1>7
  <2> QED
    BY <2>2 DEF BusInv
<1>9. BusInv'
  BY <1>2, <1>7, <1>8 DEF BusInv
<1> QED
  BY <1>1, <1>5, <1>6, <1>9

\* FewAreMissed: a publish that ends has missed at most one of the handlers
\* that stayed subscribed for each subscription that was given up during it,
\* and when none was it made as many calls as the table has slots.
THEOREM FewAreMissedCorrect == BusSpec => FewAreMissed
<1>1. BusInit => BusInv
  BY BusAssumption DEF BusInit, BusInv
<1>2. BusInv /\ [BusNext]_busVars => BusInv'
  <2> SUFFICES ASSUME BusInv, [BusNext]_busVars PROVE BusInv'
    OBVIOUS
  <2>1. CASE UNCHANGED busVars
    BY <2>1 DEF busVars, BusInv
  <2> QED
    BY <2>1, TableChangeKeeps, PublishKeeps, CallNextKeeps, HandlerReturnsKeeps,
       PublishEndsKeeps DEF BusNext, Walk
<1>3. BusInv /\ [BusNext]_busVars =>
        [frames # <<>> /\ Len(frames') < Len(frames) =>
           LET f == Last(frames)
           IN /\ Cardinality(f.kept \ f.called) <= f.left
              /\ f.left = 0 => f.made = Len(subscribers)]_busVars
  <2> SUFFICES ASSUME BusInv, BusNext, frames # <<>>, Len(frames') < Len(frames)
               PROVE  /\ Cardinality(Last(frames).kept \ Last(frames).called) <= Last(frames).left
                      /\ Last(frames).left = 0 => Last(frames).made = Len(subscribers)
    OBVIOUS
  <2>1. Len(frames) \in Nat
    BY DEF BusInv
  <2>2. ~(Len(frames') = Len(frames)) /\ ~(Len(frames') = Len(frames) + 1)
    BY <2>1
  <2>3. PublishEnds
    BY <2>2, TableChangeKeeps, PublishKeeps, CallNextKeeps, HandlerReturnsKeeps
       DEF BusNext, Walk
  <2> QED
    BY <2>3, PublishEndsKeeps
<1> QED
  BY <1>1, <1>2, <1>3, PTL DEF BusSpec, FewAreMissed

-----------------------------------------------------------------------------
(* The repository without a database.                                      *)

\* While the two have not come apart they hold the same files in the order of
\* their ids, which count on; what is kept of a file was never that of
\* another, and the last of it is what is stored of it.
Twins ==
  /\ records \in Seq(FileRow) /\ rows = {records[k] : k \in DOMAIN records}
  /\ lastId \in Nat /\ nextId = lastId + 1
  /\ \A k \in DOMAIN records : records[k].id <= lastId
  /\ \A j, k \in DOMAIN records : j < k => records[j].id < records[k].id
  /\ \A j, k \in DOMAIN records : records[j].hash = records[k].hash => j = k
  /\ kept \in Seq(ReceiptRow)
  /\ \A k \in DOMAIN kept : kept[k].file <= lastId
  /\ \A p \in stored : \E r \in rows : r.id = p.file
  /\ \A r \in rows : Latest(r.id) = {p \in stored : p.file = r.id}

ArraysBound == Len(records) <= MaxRecords /\ Len(kept) <= MaxReceipts

MemoryInv == ArraysBound /\ IF apart THEN Excused ELSE Twins

\* Ids are given out in the order of the seconds.
DatedInOrder ==
  /\ lastId \in Nat /\ created \in Seq(Stamps) /\ Len(created) = lastId
  /\ \A i, j \in 1..lastId : i < j => created[i] <= created[j]

\* Of two outcomes the one without a fault.
LEMMA OneFree ==
  ASSUME NEW a, NEW b, a.cost = 0, b.cost # 0
  PROVE  Reliably({a, b}) = a
<1>1. \A o \in {a, b} : o.cost = 0 <=> o = a
  OBVIOUS
<1> QED
  BY <1>1 DEF Reliably

\* What an outcome reports, and the table it leaves.
LEMMA OutcomesSay ==
  \A t : /\ Done(t).ok = TRUE /\ Done(t).left = t
         /\ Refused(t).ok = FALSE /\ Refused(t).left = t
BY DEF Done, Refused

\* What each call of the database does when nothing goes wrong.
LEMMA CallsOfDatabase ==
  /\ \A files, row : Reliably(RepoInsert(files, row)) =
       IF Unique(files, row) THEN Done(files \cup {row}) ELSE Refused(files)
  /\ \A files, i, ocr : Reliably(RepoMarkOcrComplete(files, i, ocr)) = Done(WithOcr(files, i, ocr))
  /\ \A receipts, p : Reliably(RepoMarkParsingComplete(receipts, p)) = Done(Upsert(receipts, p))
  /\ \A files, i : Reliably(BackendDelete(files, i)) =
       IF ById(files, i) = {} THEN Refused(files) ELSE Done(Without(files, i))
  /\ \A last0, ok : LastIdAfter(last0, ok) = IF ok THEN {last0 + 1} ELSE {last0}
<1>1. \A x, y : /\ Reliably({Done(x), Failed(y)}) = Done(x)
                /\ Reliably({Refused(x), Failed(y)}) = Refused(x)
  <2> TAKE x, y
  <2>1. Done(x).cost = 0 /\ Refused(x).cost = 0 /\ Failed(y).cost # 0
    BY DEF Done, Refused, Failed
  <2> QED
    BY <2>1, OneFree
<1>2. \A x : Reliably({Refused(x)}) = Refused(x)
  <2> TAKE x
  <2>1. Refused(x).cost = 0
    BY DEF Refused
  <2> QED
    BY <2>1 DEF Reliably
<1>3. Database = "sqlite"
  BY MemoryAssumption
<1>4. \A files, row : Reliably(RepoInsert(files, row)) =
       IF Unique(files, row) THEN Done(files \cup {row}) ELSE Refused(files)
  BY <1>1, <1>2, <1>3 DEF RepoInsert, SqliteInsert
<1>5. \A files, i, ocr : Reliably(RepoMarkOcrComplete(files, i, ocr)) = Done(WithOcr(files, i, ocr))
  BY <1>1, <1>3 DEF RepoMarkOcrComplete, SqliteMarkOcrDone
<1>6. \A receipts, p : Reliably(RepoMarkParsingComplete(receipts, p)) = Done(Upsert(receipts, p))
  BY <1>1, <1>3 DEF RepoMarkParsingComplete, SqliteMarkParsingDone
<1>7. \A files, i : Reliably(BackendDelete(files, i)) =
       IF ById(files, i) = {} THEN Refused(files) ELSE Done(Without(files, i))
  BY <1>1, <1>3 DEF BackendDelete, SqliteDelete
<1>8. \A last0, ok : LastIdAfter(last0, ok) = IF ok THEN {last0 + 1} ELSE {last0}
  BY <1>3 DEF LastIdAfter
<1> QED
  BY <1>4, <1>5, <1>6, <1>7, <1>8

\* The first of places that are one place, or none.
LEMMA FirstIsAll ==
  ASSUME NEW places \in SUBSET Nat, \A j, k \in places : j = k
  PROVE  /\ FirstAt(places) = {records[k] : k \in places}
         /\ \A k \in places : Min(places) = k /\ places = {k}
<1>1. \A k \in places : Min(places) = k /\ places = {k}
  <2> TAKE k \in places
  <2>1. places = {k}
    OBVIOUS
  <2>2. \A x \in {k} : (\A y \in {k} : x <= y) <=> x = k
    OBVIOUS
  <2> QED
    BY <2>1, <2>2 DEF Min
<1> QED
  BY <1>1 DEF FirstAt

\* Ids are numbers.
LEMMA IdsOfRecords ==
  ASSUME records \in Seq(FileRow)
  PROVE  DOMAIN records \subseteq Nat /\ \A k \in DOMAIN records : records[k].id \in Nat
<1>1. \A row \in FileRow : row.id \in Nat
  BY TablesAssumption DEF FileRow, Ids
<1> QED
  BY <1>1

LEMMA FilesOfReceipts ==
  ASSUME kept \in Seq(ReceiptRow)
  PROVE  \A k \in DOMAIN kept : kept[k].file \in Nat
<1>1. \A p \in ReceiptRow : p.file \in Nat
  BY TablesAssumption DEF ReceiptRow, Ids
<1> QED
  BY <1>1

\* The place of a file is the only one, and there is one if the table has it.
LEMMA PlaceOfFile ==
  ASSUME Twins, NEW i
  PROVE  /\ PlacesOf(i) \in SUBSET Nat /\ \A j, k \in PlacesOf(i) : j = k
         /\ Known(i) <=> ById(rows, i) # {}
         /\ {records[k] : k \in PlacesOf(i)} = ById(rows, i)
<1>1. DOMAIN records \subseteq Nat /\ \A k \in DOMAIN records : records[k].id \in Nat
  BY IdsOfRecords DEF Twins
<1>2. PlacesOf(i) \in SUBSET Nat /\ \A j, k \in PlacesOf(i) : j = k
  BY <1>1 DEF Twins, PlacesOf
<1> QED
  BY <1>2 DEF Known, PlacesOf, ById, Twins

-----------------------------------------------------------------------------
\* The later of two files has the greater id, and stands behind the other.
LEMMA DatesOfRecords ==
  ASSUME Twins, DatedInOrder, NEW n \in Nat, n = Len(records)
  PROVE  /\ DOMAIN records = 1..n /\ rows = {records[k] : k \in 1..n}
         /\ \A j, k \in 1..n : records[j] = records[k] => j = k
         /\ \A k \in 1..n : created[records[k].id] \in Int
         /\ \A j, k \in 1..n : j < k => created[records[j].id] <= created[records[k].id]
<1>1. /\ DOMAIN records = 1..n /\ rows = {records[k] : k \in 1..n}
      /\ \A j, k \in 1..n : j < k => records[j].id < records[k].id
      /\ \A k \in 1..n : records[k] \in FileRow /\ records[k].id <= lastId
      /\ \A j, k \in 1..n : records[j].hash = records[k].hash => j = k
  <2>1. records \in Seq(FileRow)
    BY DEF Twins
  <2>2. DOMAIN records = 1..n /\ \A k \in 1..n : records[k] \in FileRow
    BY <2>1
  <2> QED
    BY <2>2 DEF Twins
<1>2. \A k \in 1..n : records[k].id \in 1..lastId
  BY <1>1, TablesAssumption DEF DatedInOrder, FileRow, Ids
<1>3. \A i \in 1..lastId : created[i] \in Int
  <2>1. created \in Seq(Stamps) /\ Len(created) = lastId
    BY DEF DatedInOrder
  <2>2. \A i \in 1..lastId : created[i] \in Stamps
    BY <2>1
  <2>3. Stamps \subseteq Int
    BY TablesAssumption DEF Stamps
  <2> QED
    BY <2>2, <2>3
<1>4. \A j, k \in 1..n : j < k => created[records[j].id] <= created[records[k].id]
  BY <1>1, <1>2 DEF DatedInOrder
<1> QED
  BY <1>1, <1>2, <1>3, <1>4

\* The records, the newest first, are a list that the database may give.
LEMMA ReversedIsAList ==
  ASSUME Twins, DatedInOrder, NEW n \in Nat, n = Len(records)
  PROVE  [k \in 1..n |-> records[n + 1 - k]] \in sqlite_list
<1> DEFINE list == [k \in 1..n |-> records[n + 1 - k]]
<1>1. /\ DOMAIN records = 1..n /\ rows = {records[k] : k \in 1..n}
      /\ \A j, k \in 1..n : records[j] = records[k] => j = k
      /\ \A k \in 1..n : created[records[k].id] \in Int
      /\ \A j, k \in 1..n : j < k => created[records[j].id] <= created[records[k].id]
  BY DatesOfRecords
<1>2. \A k \in 1..n : n + 1 - k \in 1..n /\ n + 1 - (n + 1 - k) = k
  OBVIOUS
<1>3. list \in [1..n -> rows] /\ \A j, k \in 1..n : j # k => list[j] # list[k]
  BY <1>1, <1>2
<1>4. Cardinality(rows) = n
  <2> DEFINE f == [k \in 1..n |-> records[k]]
  <2>1. f \in Bijection(1..n, rows)
    BY <1>1 DEF Bijection, Injection, Surjection, IsInjective
  <2>2. Cardinality(1..n) = n /\ IsFiniteSet(1..n)
    <3>1. 1 \in Int /\ n \in Int
      OBVIOUS
    <3>2. IsFiniteSet(1..n) /\ Cardinality(1..n) = IF 1 > n THEN 0 ELSE n - 1 + 1
      BY <3>1, FS_Interval, Zenon
    <3> QED
      BY <3>2
  <2>3. ExistsBijection(1..n, rows)
    BY <2>1, Zenon DEF ExistsBijection
  <2> QED
    BY <2>2, <2>3, FS_Bijection, Zenon
<1>5. \A j, k \in 1..n : j < k => created[list[j].id] >= created[list[k].id]
  <2> SUFFICES ASSUME NEW j \in 1..n, NEW k \in 1..n, j < k
               PROVE  created[records[n + 1 - j].id] >= created[records[n + 1 - k].id]
    OBVIOUS
  <2> DEFINE p == n + 1 - j
             q == n + 1 - k
  <2>1. p \in 1..n /\ q \in 1..n /\ q < p
    OBVIOUS
  <2>2. created[records[q].id] \in Int /\ created[records[p].id] \in Int
        /\ created[records[q].id] <= created[records[p].id]
    BY <2>1, <1>1
  <2> QED
    BY <2>2
<1>6. list \in SetToSeqs(rows) /\ DOMAIN list = 1..n
  BY <1>3, <1>4 DEF SetToSeqs
<1> QED
  BY <1>5, <1>6 DEF sqlite_list

\* What each of the two lists.
LEMMA TwinsListAlike == Twins /\ DatedInOrder => SameLists
<1> SUFFICES ASSUME Twins, DatedInOrder PROVE SameLists
  OBVIOUS
<1>1. PICK n \in Nat : n = Len(records)
  BY DEF Twins
<1> DEFINE whole == [k \in 1..n |-> records[n + 1 - k]]
<1>2. /\ DOMAIN records = 1..n /\ rows = {records[k] : k \in 1..n}
      /\ \A j, k \in 1..n : records[j] = records[k] => j = k
      /\ \A k \in 1..n : created[records[k].id] \in Int
      /\ \A j, k \in 1..n : j < k => created[records[j].id] <= created[records[k].id]
  BY <1>1, DatesOfRecords
<1>3. whole \in sqlite_list /\ whole \in Seq(FileRow) /\ Len(whole) = n
  <2>1. whole \in sqlite_list
    BY <1>1, ReversedIsAList
  <2>2. records \in Seq(FileRow) /\ \A k \in 1..n : n + 1 - k \in 1..n
    BY DEF Twins
  <2>3. \A k \in 1..n : records[n + 1 - k] \in FileRow
    BY <2>2, <1>2
  <2> QED
    BY <2>1, <2>3
<1>4. ASSUME NEW limit \in 0..MaxRecords PROVE mem_repo_list(limit) \in db_repo_list(limit)
  <2>1. limit \in Nat
    BY MemoryAssumption
  <2>2. mem_repo_list(limit) = IF limit > 0 /\ limit < Len(whole) THEN SubSeq(whole, 1, limit) ELSE whole
    <3>1. CASE limit > 0 /\ limit < n
      <4>1. SubSeq(whole, 1, limit) = [k \in 1..limit |-> whole[k]]
        BY <3>1, <2>1, <1>3
      <4> QED
        BY <3>1, <4>1, <2>1, <1>1, <1>3 DEF mem_repo_list
    <3>2. CASE ~(limit > 0 /\ limit < n)
      BY <3>2, <1>1, <1>3 DEF mem_repo_list
    <3> QED
      BY <3>1, <3>2
  <2> HIDE DEF whole
  <2> QED
    BY <2>2, <1>3 DEF db_repo_list
<1>5. ASSUME NEW list \in db_repo_list(0), NEW q \in rows, NEW r \in rows,
             Before(list, q, r), created[q.id] # created[r.id]
      PROVE  Before(mem_repo_list(0), q, r)
  <2>1. list \in sqlite_list
    BY DEF db_repo_list
  <2>2. PICK j \in 1..n, k \in 1..n : q = records[j] /\ r = records[k]
    BY <1>2
  <2>3. created[q.id] >= created[r.id]
    BY <2>1, <1>5 DEF Before, sqlite_list
  <2>4. k < j
    BY <2>2, <2>3, <1>2, <1>5
  <2>5. mem_repo_list(0) = whole
    BY <1>1 DEF mem_repo_list
  <2>6. PICK a \in 1..n, b \in 1..n : a = n + 1 - j /\ b = n + 1 - k /\ a < b
    BY <2>4
  <2>7. whole[a] = q /\ whole[b] = r
    BY <2>2, <2>6
  <2> QED
    BY <2>5, <2>6, <2>7 DEF Before
<1> QED
  BY <1>4, <1>5 DEF SameLists

\* What the two are asked they answer alike.
LEMMA TwinsAnswerAlike == Twins /\ DatedInOrder => SameAnswers
<1> SUFFICES ASSUME Twins, DatedInOrder PROVE SameAnswers
  OBVIOUS
<1>1. \A i \in Ids : mem_repo_find_by_id(i) = ById(rows, i)
  BY FirstIsAll, PlaceOfFile DEF mem_repo_find_by_id
<1>2. \A h \in Contents : mem_repo_find_by_hash(h) = ByHash(rows, h)
  <2> TAKE h \in Contents
  <2> DEFINE places == {k \in DOMAIN records : records[k].hash = h}
  <2>1. places \in SUBSET Nat /\ \A j, k \in places : j = k
    BY DEF Twins
  <2>2. FirstAt(places) = {records[k] : k \in places}
    BY <2>1, FirstIsAll
  <2>3. {records[k] : k \in places} = ByHash(rows, h)
    BY DEF Twins, ByHash
  <2> QED
    BY <2>2, <2>3 DEF mem_repo_find_by_hash
<1>3. \A i \in {r.id : r \in rows} : Latest(i) = {p \in stored : p.file = i}
  BY DEF Twins
<1>4. SameLists
  BY TwinsListAlike
<1> QED
  BY <1>1, <1>2, <1>3, <1>4 DEF SameAnswers

-----------------------------------------------------------------------------
(* Every call keeps them alike, or shows why not.                          *)

\* While the arrays of receipts are the same, so is the latest of a file.
LEMMA LatestKept ==
  ASSUME kept' = kept
  PROVE  \A i : Latest(i)' = Latest(i)
BY DEF Latest

\* The tables hold a file under an id exactly if the array does.
LEMMA InsertKeeps ==
  ASSUME MemoryInv, NEW h \in Contents, NEW name \in Name, NEW second \in Stamps,
         Insert(h, name, second)
  PROVE  MemoryInv'
<1> DEFINE row == [id |-> lastId + 1, hash |-> h, name |-> name, ocr |-> None]
           mem == Len(records) < MaxRecords /\ mem_repo_find_by_hash(h) = {}
           places == {k \in DOMAIN records : records[k].hash = h}
<1>1. Twins /\ ArraysBound /\ lastId < MaxRows
  BY DEF MemoryInv, Insert
<1>2. PICK n \in Nat : n = Len(records)
  BY <1>1 DEF Twins
<1>3. DOMAIN records = 1..n /\ NewId = lastId + 1
  BY <1>1, <1>2 DEF Twins, NewId
<1>4. mem_repo_find_by_hash(h) = {} <=> \A k \in DOMAIN records : records[k].hash # h
  <2>1. places \in SUBSET Nat /\ \A j, k \in places : j = k
    BY <1>1 DEF Twins
  <2>2. FirstAt(places) = {records[k] : k \in places}
    BY <2>1, FirstIsAll
  <2> QED
    BY <2>2 DEF mem_repo_find_by_hash
<1>5. row \in FileRow
  BY <1>1, TablesAssumption DEF FileRow, Twins, Ids
<1>6. /\ records' = IF mem THEN Append(records, row) ELSE records
      /\ nextId' = IF mem THEN nextId + 1 ELSE nextId
      /\ rows' = IF Unique(rows, row) THEN rows \cup {row} ELSE rows
      /\ lastId' = IF Unique(rows, row) THEN lastId + 1 ELSE lastId
      /\ apart' = ~(mem <=> Unique(rows, row))
      /\ apart' => odd'.op = "insert" /\ odd'.name = name
      /\ kept' = kept /\ stored' = stored
  <2> DEFINE db == Reliably(RepoInsert(rows, row))
  <2>1. db = IF Unique(rows, row) THEN Done(rows \cup {row}) ELSE Refused(rows)
    BY CallsOfDatabase
  <2>2. /\ db.ok = (IF Unique(rows, row) THEN TRUE ELSE FALSE)
        /\ db.left = IF Unique(rows, row) THEN rows \cup {row} ELSE rows
    BY <2>1, OutcomesSay
  <2>3. lastId' \in LastIdAfter(lastId, db.ok) /\ rows' = db.left
    BY DEF Insert
  <2>4. lastId' = IF Unique(rows, row) THEN lastId + 1 ELSE lastId
    BY <2>2, <2>3, CallsOfDatabase
  <2>5. /\ apart' = (mem # db.ok)
        /\ mem # db.ok => odd'.op = "insert" /\ odd'.name = name
    BY DEF Insert, Compare
  <2>6. apart' = ~(mem <=> Unique(rows, row))
    BY <2>2, <2>5
  <2>7. /\ records' = IF mem THEN Append(records, row) ELSE records
        /\ nextId' = IF mem THEN nextId + 1 ELSE nextId
        /\ kept' = kept /\ stored' = stored
    BY <1>3 DEF Insert
  <2> QED
    BY <2>2, <2>3, <2>4, <2>5, <2>6, <2>7
<1>7. Unique(rows, row) <=> /\ \A k \in DOMAIN records : records[k].hash # h
                            /\ \A r \in rows : r.name # name
  BY <1>1 DEF Unique, Twins
<1> HIDE DEF mem, row
<1>8. ArraysBound'
  <2>1. mem => n < MaxRecords
    BY <1>2 DEF mem
  <2>2. Len(records') <= MaxRecords
    <3>1. CASE mem
      <4>1. Len(records') = n + 1
        BY <3>1, <1>1, <1>2, <1>5, <1>6 DEF Twins
      <4> QED
        BY <4>1, <2>1, <3>1, MemoryAssumption
    <3>2. CASE ~mem
      BY <3>2, <1>1, <1>6 DEF ArraysBound
    <3> QED
      BY <3>1, <3>2
  <2> QED
    BY <2>2, <1>1, <1>6 DEF ArraysBound
<1>9. CASE mem /\ Unique(rows, row)
  <2>1. /\ records' = Append(records, row) /\ rows' = rows \cup {row}
        /\ nextId' = nextId + 1 /\ lastId' = lastId + 1 /\ apart' = FALSE
    BY <1>9, <1>6
  <2>2. /\ DOMAIN records' = 1..n + 1
        /\ \A k \in 1..n : records'[k] = records[k]
        /\ records'[n + 1] = row
        /\ records' \in Seq(FileRow)
    BY <2>1, <1>1, <1>2, <1>5 DEF Twins
  <2>3. row.id = lastId + 1 /\ row.hash = h
    BY DEF row
  <2>4. \A k \in 1..n : records[k].id \in Nat /\ records[k].id <= lastId
    BY <1>1, <1>3, IdsOfRecords DEF Twins
  <2>5. lastId \in Nat /\ nextId = lastId + 1
    BY <1>1 DEF Twins
  <2>6. \A r \in rows : r.id # lastId + 1
    BY <2>4, <2>5, <1>1, <1>3 DEF Twins
  <2>7. \A j, k \in DOMAIN records' : j < k => records'[j].id < records'[k].id
    <3> SUFFICES ASSUME NEW j \in 1..n + 1, NEW k \in 1..n + 1, j < k
                 PROVE  records'[j].id < records'[k].id
      BY <2>2
    <3>1. CASE k = n + 1
      BY <3>1, <2>2, <2>3, <2>4, <2>5
    <3>2. CASE k # n + 1
      <4>1. j \in 1..n /\ k \in 1..n
        BY <3>2
      <4> QED
        BY <4>1, <2>2, <1>1, <1>3 DEF Twins
    <3> QED
      BY <3>1, <3>2
  <2>8. \A j, k \in DOMAIN records' : records'[j].hash = records'[k].hash => j = k
    <3>1. \A k \in 1..n : records[k].hash # h
      BY <1>9, <1>7, <1>3
    <3>2. \A j, k \in 1..n : records[j].hash = records[k].hash => j = k
      BY <1>1, <1>3 DEF Twins
    <3>3. \A k \in 1..n + 1 : k \in 1..n \/ k = n + 1
      OBVIOUS
    <3> QED
      BY <2>2, <2>3, <3>1, <3>2, <3>3
  <2>9. rows' = {records'[k] : k \in DOMAIN records'}
    <3>1. \A k \in 1..n + 1 : k \in 1..n \/ k = n + 1
      OBVIOUS
    <3>2. rows = {records[k] : k \in 1..n}
      BY <1>1, <1>3 DEF Twins
    <3> QED
      BY <2>1, <2>2, <3>1, <3>2
  <2>10. lastId' \in Nat /\ nextId' = lastId' + 1
    BY <2>1, <2>5
  <2>11. \A k \in DOMAIN records' : records'[k].id <= lastId'
    BY <2>1, <2>2, <2>3, <2>4, <2>5
  <2>12. kept' \in Seq(ReceiptRow) /\ \A k \in DOMAIN kept' : kept'[k].file <= lastId'
    <3>1. kept \in Seq(ReceiptRow) /\ \A k \in DOMAIN kept : kept[k].file <= lastId
      BY <1>1 DEF Twins
    <3>2. \A k \in DOMAIN kept : kept[k].file \in Nat
      BY <3>1, FilesOfReceipts
    <3>3. \A k \in DOMAIN kept : kept[k].file <= lastId + 1
      BY <3>1, <3>2, <2>5
    <3> QED
      BY <3>1, <3>3, <2>1, <1>6
  <2>13. \A p \in stored' : \E r \in rows' : r.id = p.file
    BY <2>1, <1>1, <1>6 DEF Twins
  <2>14. \A r \in rows' : Latest(r.id)' = {p \in stored' : p.file = r.id}
    <3> SUFFICES ASSUME NEW r \in rows'
                 PROVE  Latest(r.id) = {p \in stored : p.file = r.id}
      BY <1>6, LatestKept
    <3>1. CASE r \in rows
      BY <3>1, <1>1 DEF Twins
    <3>2. CASE r = row
      <4>1. \A p \in stored : p.file # lastId + 1
        BY <2>6, <1>1 DEF Twins
      <4>2. \A k \in DOMAIN kept : kept[k].file # lastId + 1
        <5>1. kept \in Seq(ReceiptRow) /\ \A k \in DOMAIN kept : kept[k].file <= lastId
          BY <1>1 DEF Twins
        <5>2. \A k \in DOMAIN kept : kept[k].file \in Nat
          BY <5>1, FilesOfReceipts
        <5> QED
          BY <5>1, <5>2, <2>5
      <4>3. Latest(lastId + 1) = {}
        BY <4>2 DEF Latest
      <4> QED
        BY <3>2, <2>3, <4>1, <4>3
    <3> QED
      BY <3>1, <3>2, <2>1
  <2>15. Twins'
    BY <2>2, <2>7, <2>8, <2>9, <2>10, <2>11, <2>12, <2>13, <2>14 DEF Twins
  <2> QED
    BY <2>1, <2>15, <1>8 DEF MemoryInv
<1>10. CASE ~mem /\ ~Unique(rows, row)
  <2>1. UNCHANGED <<records, rows, nextId, lastId, kept, stored>> /\ apart' = FALSE
    BY <1>10, <1>6
  <2>2. Twins'
    BY <2>1, <1>1, LatestKept DEF Twins
  <2> QED
    BY <2>1, <2>2, <1>8 DEF MemoryInv
<1>11. CASE ~(mem <=> Unique(rows, row))
  <2>1. apart' = TRUE
    BY <1>11, <1>6
  <2>2. Excused'
    <3>1. CASE mem
      <4>1. \E r \in rows : r.name = name
        <5>1. ~Unique(rows, row)
          BY <3>1, <1>11
        <5>2. mem_repo_find_by_hash(h) = {}
          BY <3>1 DEF mem
        <5> QED
          BY <5>1, <5>2, <1>4, <1>7
      <4>2. rows' = rows
        BY <3>1, <1>11, <1>6
      <4> QED
        BY <4>1, <4>2, <2>1, <1>6 DEF Excused
    <3>2. CASE ~mem
      <4>1. ~(Len(records) < MaxRecords)
        <5>1. Unique(rows, row)
          BY <3>2, <1>11
        <5>2. mem_repo_find_by_hash(h) = {}
          BY <5>1, <1>4, <1>7
        <5> QED
          BY <5>2, <3>2 DEF mem
      <4>2. Len(records) = MaxRecords
        BY <4>1, <1>1, <1>2, MemoryAssumption DEF ArraysBound
      <4> QED
        BY <4>2, <3>2, <2>1, <1>6 DEF Excused
    <3> QED
      BY <3>1, <3>2
  <2> QED
    BY <2>1, <2>2, <1>8 DEF MemoryInv
<1> QED
  BY <1>9, <1>10, <1>11

\* The file that is marked is the same in both, if there is one.
LEMMA MarkOcrKeeps ==
  ASSUME MemoryInv, NEW i \in Ids, NEW ocr \in Stamps, MarkOcrComplete(i, ocr)
  PROVE  MemoryInv'
<1>1. Twins /\ ArraysBound
  BY DEF MemoryInv, MarkOcrComplete
<1>2. /\ records' = IF Known(i) THEN [records EXCEPT ![Min(PlacesOf(i))].ocr = ocr] ELSE records
      /\ rows' = WithOcr(rows, i, ocr)
      /\ apart' = ~Known(i) /\ (~Known(i) => odd'.op = "mark_ocr" /\ odd'.id = i)
      /\ UNCHANGED <<kept, stored, nextId, lastId>>
  <2> DEFINE db == Reliably(RepoMarkOcrComplete(rows, i, ocr))
  <2>1. db = Done(WithOcr(rows, i, ocr))
    BY CallsOfDatabase
  <2>2. db.ok = TRUE /\ db.left = WithOcr(rows, i, ocr)
    BY <2>1 DEF Done
  <2>3. /\ apart' = (Known(i) # db.ok)
        /\ Known(i) # db.ok => odd'.op = "mark_ocr" /\ odd'.id = i
    BY DEF MarkOcrComplete, Compare
  <2>4. apart' = ~Known(i) /\ (~Known(i) => odd'.op = "mark_ocr" /\ odd'.id = i)
    BY <2>2, <2>3 DEF Known
  <2>5. /\ records' = IF Known(i) THEN [records EXCEPT ![Min(PlacesOf(i))].ocr = ocr] ELSE records
        /\ rows' = db.left /\ UNCHANGED <<kept, stored, nextId, lastId>>
    BY DEF MarkOcrComplete
  <2> QED
    BY <2>2, <2>3, <2>4, <2>5
<1>3. CASE ~Known(i)
  <2>1. Excused'
    BY <1>2, <1>3 DEF Excused, Known, PlacesOf
  <2> QED
    BY <1>1, <1>2, <1>3, <2>1 DEF MemoryInv, ArraysBound
<1>4. CASE Known(i)
  <2>1. PICK m \in DOMAIN records : records[m].id = i
    BY <1>4 DEF Known, PlacesOf
  <2>2. Min(PlacesOf(i)) = m /\ \A k \in DOMAIN records : records[k].id = i => k = m
    <3>1. m \in PlacesOf(i)
      BY <2>1 DEF PlacesOf
    <3>2. PlacesOf(i) \in SUBSET Nat /\ \A j, k \in PlacesOf(i) : j = k
      BY <1>1, PlaceOfFile
    <3>3. Min(PlacesOf(i)) = m
      BY <3>1, <3>2, FirstIsAll
    <3> QED
      BY <3>1, <3>2, <3>3 DEF PlacesOf
  <2>3. records' = [records EXCEPT ![m].ocr = ocr] /\ apart' = FALSE
    BY <1>2, <1>4, <2>2
  <2>4. records \in Seq(FileRow) /\ \A k \in DOMAIN records : records[k] \in FileRow
    BY <1>1 DEF Twins
  <2>5. [records[m] EXCEPT !.ocr = ocr] \in FileRow
    BY <2>1, <2>4 DEF FileRow
  <2>6. /\ records' \in Seq(FileRow) /\ DOMAIN records' = DOMAIN records
        /\ Len(records') = Len(records)
    BY <2>3, <2>4, <2>5
  <2>7. \A k \in DOMAIN records : records'[k] = IF k = m THEN [records[m] EXCEPT !.ocr = ocr] ELSE records[k]
    BY <2>3, <2>4
  <2>8. \A k \in DOMAIN records : records'[k].id = records[k].id /\ records'[k].hash = records[k].hash
    BY <2>4, <2>7 DEF FileRow
  <2>9. rows' = {records'[k] : k \in DOMAIN records'}
    <3>1. rows = {records[k] : k \in DOMAIN records}
      BY <1>1 DEF Twins
    <3>2. rows' = {IF records[k].id = i THEN [records[k] EXCEPT !.ocr = ocr] ELSE records[k] : k \in DOMAIN records}
      BY <3>1, <1>2 DEF WithOcr
    <3>3. \A k \in DOMAIN records :
            records'[k] = IF records[k].id = i THEN [records[k] EXCEPT !.ocr = ocr] ELSE records[k]
      BY <2>1, <2>2, <2>7
    <3> QED
      BY <3>2, <3>3, <2>6
  <2>10. {r.id : r \in rows'} = {r.id : r \in rows}
    <3>1. rows = {records[k] : k \in DOMAIN records}
      BY <1>1 DEF Twins
    <3>2. {r.id : r \in rows'} = {records'[k].id : k \in DOMAIN records}
      BY <2>9, <2>6
    <3>3. {r.id : r \in rows} = {records[k].id : k \in DOMAIN records}
      BY <3>1
    <3> QED
      BY <3>2, <3>3, <2>8
  <2>11. /\ \A p \in stored' : \E r \in rows' : r.id = p.file
         /\ \A r \in rows' : Latest(r.id)' = {p \in stored' : p.file = r.id}
    <3>1. \A j : Latest(j)' = Latest(j)
      BY <1>2, LatestKept
    <3>2. /\ \A p \in stored : \E r \in rows : r.id = p.file
          /\ \A r \in rows : Latest(r.id) = {p \in stored : p.file = r.id}
      BY <1>1 DEF Twins
    <3>3. \A p \in stored : \E r \in rows' : r.id = p.file
      BY <3>2, <2>10
    <3>4. ASSUME NEW r \in rows' PROVE Latest(r.id) = {p \in stored : p.file = r.id}
      <4>1. PICK q \in rows : q.id = r.id
        BY <2>10
      <4> QED
        BY <4>1, <3>2
    <3> QED
      BY <1>2, <3>1, <3>3, <3>4
  <2>12. /\ \A k \in DOMAIN records' : records'[k].id <= lastId'
         /\ \A j, k \in DOMAIN records' : j < k => records'[j].id < records'[k].id
         /\ \A j, k \in DOMAIN records' : records'[j].hash = records'[k].hash => j = k
    BY <1>1, <1>2, <2>6, <2>8 DEF Twins
  <2>13. Twins'
    BY <1>1, <1>2, <2>6, <2>9, <2>11, <2>12 DEF Twins
  <2>14. ArraysBound'
    BY <1>1, <1>2, <2>6 DEF ArraysBound
  <2> QED
    BY <2>3, <2>13, <2>14 DEF MemoryInv
<1> QED
  BY <1>3, <1>4

\* The receipt that is appended is the file's latest, as it is in the table.
LEMMA MarkParsingKeeps ==
  ASSUME MemoryInv, NEW p \in ReceiptRow, MarkParsingComplete(p)
  PROVE  MemoryInv'
<1> DEFINE mem == Known(p.file) /\ Len(kept) < MaxReceipts
<1>1. Twins /\ ArraysBound
  BY DEF MemoryInv, MarkParsingComplete
<1>2. Known(p.file) <=> ById(rows, p.file) # {}
  BY <1>1, PlaceOfFile
<1>3. /\ kept' = IF mem THEN Append(kept, p) ELSE kept
      /\ stored' = IF Known(p.file) THEN Upsert(stored, p) ELSE stored
      /\ apart' = ~(mem <=> Known(p.file)) /\ (apart' => odd'.op = "mark_parsing")
      /\ UNCHANGED <<records, nextId, rows, lastId>>
  <2> DEFINE db == IF ById(rows, p.file) = {} THEN Refused(stored)
                   ELSE Reliably(RepoMarkParsingComplete(stored, p))
  <2>1. /\ db.ok = (IF Known(p.file) THEN TRUE ELSE FALSE)
        /\ db.left = IF Known(p.file) THEN Upsert(stored, p) ELSE stored
    <3>1. Reliably(RepoMarkParsingComplete(stored, p)) = Done(Upsert(stored, p))
      BY CallsOfDatabase
    <3>2. db = IF Known(p.file) THEN Done(Upsert(stored, p)) ELSE Refused(stored)
      BY <3>1, <1>2
    <3> QED
      BY <3>2, OutcomesSay
  <2>2. apart' = (mem # db.ok) /\ (mem # db.ok => odd'.op = "mark_parsing")
    BY DEF MarkParsingComplete, Compare
  <2>3. apart' = ~(mem <=> Known(p.file)) /\ (apart' => odd'.op = "mark_parsing")
    BY <2>1, <2>2
  <2>4. /\ kept' = IF mem THEN Append(kept, p) ELSE kept
        /\ stored' = db.left /\ UNCHANGED <<records, nextId, rows, lastId>>
    BY DEF MarkParsingComplete
  <2> QED
    BY <2>1, <2>2, <2>3, <2>4
<1>4. PICK n \in Nat : n = Len(kept)
  BY <1>1 DEF Twins
<1>5. CASE ~(mem <=> Known(p.file))
  <2>1. Len(kept) = MaxReceipts /\ ~mem
    BY <1>1, <1>4, <1>5, MemoryAssumption DEF ArraysBound
  <2>2. kept' = kept /\ apart' = TRUE
    BY <2>1, <1>3, <1>5
  <2>3. Excused'
    BY <2>1, <2>2, <1>3 DEF Excused
  <2> QED
    BY <1>1, <1>3, <2>2, <2>3 DEF MemoryInv, ArraysBound
<1>6. CASE ~Known(p.file)
  <2>1. UNCHANGED <<records, nextId, rows, lastId, kept, stored>> /\ apart' = FALSE
    BY <1>3, <1>6
  <2>2. Twins'
    BY <2>1, <1>1, LatestKept DEF Twins
  <2> QED
    BY <2>1, <2>2, <1>1 DEF MemoryInv, ArraysBound
<1>7. CASE mem
  <2>1. /\ kept' = Append(kept, p) /\ stored' = Upsert(stored, p) /\ apart' = FALSE
        /\ n < MaxReceipts
    BY <1>3, <1>4, <1>7
  <2>2. kept \in Seq(ReceiptRow) /\ \A k \in DOMAIN kept : kept[k].file <= lastId
    BY <1>1 DEF Twins
  <2>3. /\ kept' \in Seq(ReceiptRow) /\ DOMAIN kept' = 1..n + 1 /\ Len(kept') = n + 1
        /\ \A k \in 1..n : kept'[k] = kept[k]
        /\ kept'[n + 1] = p /\ DOMAIN kept = 1..n
    BY <2>1, <2>2, <1>4
  <2>4. PICK q \in rows : q.id = p.file
    BY <1>2, <1>7 DEF ById
  <2>5. p.file <= lastId
    BY <2>4, <1>1 DEF Twins
  <2>6. \A k \in DOMAIN kept' : kept'[k].file <= lastId'
    BY <2>2, <2>3, <2>5, <1>3
  <2>7. \A x \in stored' : \E r \in rows' : r.id = x.file
    BY <2>1, <2>4, <1>1, <1>3 DEF Twins, Upsert
  <2>8. ASSUME NEW r \in rows' PROVE Latest(r.id)' = {x \in stored' : x.file = r.id}
    <3> DEFINE mine  == {k \in DOMAIN kept : kept[k].file = r.id}
               minen == {k \in DOMAIN kept' : kept'[k].file = r.id}
    <3>1. Latest(r.id) = {x \in stored : x.file = r.id}
      BY <1>1, <1>3 DEF Twins
    <3>2. Latest(r.id)' = IF minen = {} THEN {} ELSE {kept'[Max(minen)]}
      BY DEF Latest
    <3>3. CASE r.id = p.file
      <4>1. n + 1 \in minen /\ \A k \in minen : k \in Nat /\ k <= n + 1
        BY <2>3, <3>3
      <4>2. Max(minen) = n + 1
        BY <4>1 DEF Max
      <4>3. {x \in Upsert(stored, p) : x.file = r.id} = {p}
        BY <3>3 DEF Upsert
      <4> QED
        BY <2>1, <2>3, <3>2, <4>1, <4>2, <4>3
    <3>4. CASE r.id # p.file
      <4>1. minen = mine
        BY <2>3, <3>4
      <4>2. mine # {} => kept'[Max(mine)] = kept[Max(mine)]
        <5>1. ASSUME mine # {} PROVE Max(mine) \in mine
          BY <5>1, <2>3, GreatestNumber
        <5> QED
          BY <5>1, <2>3
      <4>3. {x \in Upsert(stored, p) : x.file = r.id} = {x \in stored : x.file = r.id}
        BY <3>4 DEF Upsert
      <4> QED
        BY <2>1, <3>1, <3>2, <4>1, <4>2, <4>3 DEF Latest
    <3> QED
      BY <3>3, <3>4
  <2>9. /\ records' \in Seq(FileRow) /\ rows' = {records'[k] : k \in DOMAIN records'}
        /\ lastId' \in Nat /\ nextId' = lastId' + 1
        /\ \A k \in DOMAIN records' : records'[k].id <= lastId'
        /\ \A j, k \in DOMAIN records' : j < k => records'[j].id < records'[k].id
        /\ \A j, k \in DOMAIN records' : records'[j].hash = records'[k].hash => j = k
    BY <1>1, <1>3 DEF Twins
  <2>10. Twins'
    BY <2>3, <2>6, <2>7, <2>8, <2>9 DEF Twins
  <2>11. ArraysBound'
    <3>1. Len(kept') <= MaxReceipts
      BY <2>1, <2>3, MemoryAssumption
    <3> QED
      BY <3>1, <1>1, <1>3 DEF ArraysBound
  <2> QED
    BY <2>1, <2>10, <2>11 DEF MemoryInv
<1> QED
  BY <1>5, <1>6, <1>7

\* The file that is deleted leaves both, with what the table stored of it.
LEMMA DeleteKeeps ==
  ASSUME MemoryInv, NEW i \in Ids, DeleteById(i)
  PROVE  MemoryInv'
<1>1. Twins /\ ArraysBound
  BY DEF MemoryInv, DeleteById
<1>2. Known(i) <=> ById(rows, i) # {}
  BY <1>1, PlaceOfFile
<1>3. /\ records' = IF Known(i) THEN Removed(i) ELSE records
      /\ rows' = IF Known(i) THEN Without(rows, i) ELSE rows
      /\ stored' = Cascade(stored, rows')
      /\ apart' = FALSE
      /\ UNCHANGED <<kept, nextId, lastId>>
  <2> DEFINE db == Reliably(BackendDelete(rows, i))
  <2>1. db = IF Known(i) THEN Done(Without(rows, i)) ELSE Refused(rows)
    BY <1>2, CallsOfDatabase
  <2>2. /\ db.ok = (IF Known(i) THEN TRUE ELSE FALSE)
        /\ db.left = IF Known(i) THEN Without(rows, i) ELSE rows
    BY <2>1, OutcomesSay
  <2>3. apart' = (Known(i) # db.ok)
    BY DEF DeleteById, Compare
  <2>4. apart' = FALSE
    BY <2>2, <2>3 DEF Known
  <2>5. /\ records' = IF Known(i) THEN Removed(i) ELSE records
        /\ rows' = db.left /\ stored' = Cascade(stored, db.left)
        /\ UNCHANGED <<kept, nextId, lastId>>
    BY DEF DeleteById
  <2> QED
    BY <2>2, <2>4, <2>5
<1>4. CASE ~Known(i)
  <2>1. records' = records /\ rows' = rows
    BY <1>3, <1>4
  <2>2. stored' = stored
    BY <1>1, <1>3, <2>1 DEF Twins, Cascade
  <2>3. Twins'
    <3>1. UNCHANGED <<records, rows, nextId, lastId, kept, stored>>
      BY <2>1, <2>2, <1>3
    <3> QED
      BY <3>1, <1>1, LatestKept DEF Twins
  <2> QED
    BY <2>1, <2>3, <1>1, <1>3 DEF MemoryInv, ArraysBound
<1>5. CASE Known(i)
  <2>1. PICK m \in DOMAIN records : records[m].id = i
    BY <1>5 DEF Known, PlacesOf
  <2>2. Min(PlacesOf(i)) = m /\ \A k \in DOMAIN records : records[k].id = i => k = m
    <3>1. m \in PlacesOf(i)
      BY <2>1 DEF PlacesOf
    <3>2. PlacesOf(i) \in SUBSET Nat /\ \A j, k \in PlacesOf(i) : j = k
      BY <1>1, PlaceOfFile
    <3>3. Min(PlacesOf(i)) = m
      BY <3>1, <3>2, FirstIsAll
    <3> QED
      BY <3>1, <3>2, <3>3 DEF PlacesOf
  <2>3. PICK n \in Nat : n = Len(records)
    BY <1>1 DEF Twins
  <2>4. DOMAIN records = 1..n /\ records \in Seq(FileRow)
    BY <1>1, <2>3 DEF Twins
  <2>5. records' = RemoveAt(records, m)
    BY <1>3, <1>5, <2>2 DEF Removed
  <2>6. /\ records' \in Seq(FileRow) /\ Len(records') = n - 1 /\ DOMAIN records' = 1..n - 1
        /\ \A k \in 1..n - 1 : records'[k] = IF k < m THEN records[k] ELSE records[k + 1]
    BY <2>1, <2>3, <2>4, <2>5, PlaceRemoved
  <2>7. m \in 1..n
    BY <2>1, <2>4
  \* The place a record had before.
  <2> DEFINE old == [k \in 1..n - 1 |-> IF k < m THEN k ELSE k + 1]
  <2>8. \A k \in 1..n - 1 : old[k] \in 1..n /\ old[k] # m /\ records'[k] = records[old[k]]
    BY <2>6, <2>7
  <2>9. \A j, k \in 1..n - 1 : j < k => old[j] < old[k]
    BY <2>7
  <2>10. \A j \in 1..n : j # m => \E k \in 1..n - 1 : old[k] = j
    <3> SUFFICES ASSUME NEW j \in 1..n, j # m PROVE \E k \in 1..n - 1 : old[k] = j
      OBVIOUS
    <3>1. CASE j < m
      <4>1. j \in 1..n - 1 /\ old[j] = j
        BY <3>1, <2>7
      <4> QED
        BY <4>1
    <3>2. CASE j > m
      <4>1. j - 1 \in 1..n - 1 /\ old[j - 1] = j
        BY <3>2, <2>7
      <4> QED
        BY <4>1
    <3> QED
      BY <3>1, <3>2, <2>7
  <2>11. \A j, k \in 1..n - 1 : old[j] = old[k] => j = k
    BY <2>7
  <2> HIDE DEF old
  <2>12. rows = {records[k] : k \in 1..n} /\ rows' = {r \in rows : r.id # i}
    BY <1>1, <1>3, <1>5, <2>4 DEF Twins, Without
  <2>13. rows' = {records'[k] : k \in DOMAIN records'}
    <3>1. ASSUME NEW r \in rows' PROVE \E k \in 1..n - 1 : r = records'[k]
      <4>1. PICK j \in 1..n : r = records[j]
        BY <2>12
      <4>2. j # m
        BY <4>1, <2>1, <2>12
      <4> QED
        BY <4>1, <4>2, <2>8, <2>10
    <3>2. ASSUME NEW k \in 1..n - 1 PROVE records'[k] \in rows'
      BY <2>2, <2>4, <2>8, <2>12
    <3> QED
      BY <3>1, <3>2, <2>6
  <2>14. /\ \A k \in DOMAIN records' : records'[k].id <= lastId'
         /\ \A j, k \in DOMAIN records' : j < k => records'[j].id < records'[k].id
    <3>1. /\ \A k \in 1..n : records[k].id <= lastId
          /\ \A j, k \in 1..n : j < k => records[j].id < records[k].id
      BY <1>1, <2>4 DEF Twins
    <3>2. \A k \in 1..n - 1 : records'[k].id <= lastId
      BY <3>1, <2>8
    <3>3. \A j, k \in 1..n - 1 : j < k => records'[j].id < records'[k].id
      <4> SUFFICES ASSUME NEW j \in 1..n - 1, NEW k \in 1..n - 1, j < k
                   PROVE  records'[j].id < records'[k].id
        OBVIOUS
      <4>1. old[j] < old[k] /\ old[j] \in 1..n /\ old[k] \in 1..n
        BY <2>8, <2>9
      <4>2. records[old[j]].id < records[old[k]].id
        BY <4>1, <3>1
      <4> QED
        BY <4>2, <2>8
    <3> QED
      BY <3>2, <3>3, <1>3, <2>6
  <2>15. \A j, k \in DOMAIN records' : records'[j].hash = records'[k].hash => j = k
    <3>1. \A j, k \in 1..n : records[j].hash = records[k].hash => j = k
      BY <1>1, <2>4 DEF Twins
    <3>2. ASSUME NEW j \in 1..n - 1, NEW k \in 1..n - 1, records'[j].hash = records'[k].hash
          PROVE  j = k
      <4>1. old[j] = old[k]
        BY <3>1, <3>2, <2>8
      <4> QED
        BY <4>1, <2>11
    <3> QED
      BY <3>2, <2>6
  <2>16. \A p \in stored' : \E r \in rows' : r.id = p.file
    BY <1>3 DEF Cascade
  <2>17. \A r \in rows' : Latest(r.id)' = {p \in stored' : p.file = r.id}
    <3> SUFFICES ASSUME NEW r \in rows'
                 PROVE  Latest(r.id)' = {p \in stored' : p.file = r.id}
      OBVIOUS
    <3>1. Latest(r.id)' = Latest(r.id)
      BY <1>3, LatestKept
    <3>2. Latest(r.id) = {p \in stored : p.file = r.id}
      BY <1>1, <2>12 DEF Twins
    <3>3. {p \in stored' : p.file = r.id} = {p \in stored : p.file = r.id}
      BY <1>3 DEF Cascade
    <3> QED
      BY <3>1, <3>2, <3>3
  <2>18. /\ lastId' \in Nat /\ nextId' = lastId' + 1 /\ kept' \in Seq(ReceiptRow)
         /\ \A k \in DOMAIN kept' : kept'[k].file <= lastId'
    BY <1>1, <1>3 DEF Twins
  <2>19. Twins'
    BY <2>6, <2>13, <2>14, <2>15, <2>16, <2>17, <2>18 DEF Twins
  <2>20. ArraysBound'
    <3>1. Len(records') <= MaxRecords
      BY <1>1, <2>3, <2>6, MemoryAssumption DEF ArraysBound
    <3> QED
      BY <3>1, <1>1, <1>3 DEF ArraysBound
  <2> QED
    BY <1>3, <2>19, <2>20 DEF MemoryInv
<1> QED
  BY <1>4, <1>5

\* Nothing is held, neither here nor there.
LEMMA NothingHeld ==
  ASSUME records = <<>>, kept = <<>>, nextId = 1, rows = {}, stored = {}, lastId = 0,
         apart = FALSE
  PROVE  MemoryInv
<1>1. /\ records \in Seq(FileRow) /\ kept \in Seq(ReceiptRow)
      /\ DOMAIN records = {} /\ DOMAIN kept = {} /\ Len(records) = 0 /\ Len(kept) = 0
  OBVIOUS
<1>2. Twins
  BY <1>1 DEF Twins
<1> QED
  BY <1>1, <1>2, MemoryAssumption DEF MemoryInv, ArraysBound

LEMMA MemoryInvStep == MemoryInv /\ [MemoryNext]_memoryVars => MemoryInv'
<1> SUFFICES ASSUME MemoryInv, [MemoryNext]_memoryVars PROVE MemoryInv'
  OBVIOUS
<1>1. CASE \E h \in Contents, name \in Name, second \in Stamps : Insert(h, name, second)
  BY <1>1, InsertKeeps
<1>2. CASE \E i \in Ids, ocr \in Stamps : MarkOcrComplete(i, ocr)
  BY <1>2, MarkOcrKeeps
<1>3. CASE \E i \in Ids, d \in Contents : MarkParsingComplete([file |-> i, from |-> d, ok |-> TRUE])
  <2>1. PICK i \in Ids, d \in Contents : MarkParsingComplete([file |-> i, from |-> d, ok |-> TRUE])
    BY <1>3
  <2>2. [file |-> i, from |-> d, ok |-> TRUE] \in ReceiptRow
    BY DEF ReceiptRow, Data
  <2> QED
    BY <2>1, <2>2, MarkParsingKeeps
<1>4. CASE \E i \in Ids : DeleteById(i)
  BY <1>4, DeleteKeeps
<1>5. CASE Clear
  <2>1. /\ records' = <<>> /\ kept' = <<>> /\ nextId' = 1 /\ rows' = {} /\ stored' = {}
        /\ lastId' = 0 /\ apart' = FALSE
    BY <1>5 DEF Clear
  <2>2. /\ records' \in Seq(FileRow) /\ kept' \in Seq(ReceiptRow)
        /\ DOMAIN records' = {} /\ DOMAIN kept' = {} /\ Len(records') = 0 /\ Len(kept') = 0
    BY <2>1
  <2>3. Twins'
    BY <2>1, <2>2 DEF Twins
  <2> QED
    BY <2>1, <2>2, <2>3, MemoryAssumption DEF MemoryInv, ArraysBound
<1>6. CASE UNCHANGED memoryVars
  <2>1. UNCHANGED <<records, kept, nextId, rows, stored, lastId, apart, odd>>
    BY <1>6 DEF memoryVars
  <2>2. Twins' <=> Twins
    BY <2>1, LatestKept DEF Twins
  <2>3. Excused' <=> Excused
    BY <2>1 DEF Excused, Known, PlacesOf
  <2> QED
    BY <2>1, <2>2, <2>3 DEF MemoryInv, ArraysBound
<1> QED
  BY <1>1, <1>2, <1>3, <1>4, <1>5, <1>6 DEF MemoryNext

\* The second of a new row is not before those of the others.
LEMMA DatedInOrderStep == DatedInOrder /\ [MemoryNext]_memoryVars => DatedInOrder'
<1> SUFFICES ASSUME DatedInOrder, [MemoryNext]_memoryVars PROVE DatedInOrder'
  OBVIOUS
<1>1. ASSUME NEW h \in Contents, NEW name \in Name, NEW second \in Stamps, Insert(h, name, second)
      PROVE  DatedInOrder'
  <2>1. PICK ok : /\ lastId' \in LastIdAfter(lastId, ok)
                  /\ created' = IF ok THEN Append(created, second) ELSE created
    BY <1>1 DEF Insert
  <2>2. lastId' = IF ok THEN lastId + 1 ELSE lastId
    BY <2>1, CallsOfDatabase
  <2>3. \A i \in 1..lastId : created[i] <= second
    BY <1>1 DEF Insert, DatedInOrder
  <2>4. CASE ok
    <3>1. /\ created' \in Seq(Stamps) /\ Len(created') = lastId + 1 /\ lastId' = lastId + 1
          /\ \A i \in 1..lastId : created'[i] = created[i]
          /\ created'[lastId + 1] = second
      BY <2>1, <2>2, <2>4 DEF DatedInOrder
    <3>2. \A i \in 1..lastId + 1 : i \in 1..lastId \/ i = lastId + 1
      BY DEF DatedInOrder
    <3>3. \A i, j \in 1..lastId + 1 : i < j => created'[i] <= created'[j]
      <4> SUFFICES ASSUME NEW i \in 1..lastId + 1, NEW j \in 1..lastId + 1, i < j
                   PROVE  created'[i] <= created'[j]
        OBVIOUS
      <4>1. i \in 1..lastId
        BY DEF DatedInOrder
      <4> QED
        BY <4>1, <3>1, <3>2, <2>3 DEF DatedInOrder
    <3> QED
      BY <3>1, <3>3 DEF DatedInOrder
  <2>5. CASE ~ok
    BY <2>1, <2>2, <2>5 DEF DatedInOrder
  <2> QED
    BY <2>4, <2>5
<1>2. CASE UNCHANGED <<lastId, created>>
  BY <1>2 DEF DatedInOrder
<1>3. CASE Clear
  <2>1. lastId' = 0 /\ created' = <<>>
    BY <1>3 DEF Clear
  <2> QED
    BY <2>1 DEF DatedInOrder
<1> QED
  BY <1>1, <1>2, <1>3
     DEF MemoryNext, memoryVars, MarkOcrComplete, MarkParsingComplete, DeleteById

\* What passes on the in-memory repository passes on the database, whatever is
\* inserted, marked and deleted in whatever order: for any number of files and
\* of calls, and arrays of any size.  Of the order of files only as much is
\* the same as their seconds tell.
THEOREM StandsInForDatabaseCorrect == MemorySpec => []StandsInForDatabase
<1>1. MemoryInit => MemoryInv /\ DatedInOrder
  <2> SUFFICES ASSUME MemoryInit PROVE MemoryInv /\ DatedInOrder
    OBVIOUS
  <2>1. MemoryInv
    BY NothingHeld DEF MemoryInit
  <2>2. created = <<>> /\ lastId = 0
    BY DEF MemoryInit
  <2>3. DatedInOrder
    BY <2>2 DEF DatedInOrder
  <2> QED
    BY <2>1, <2>3
<1>2. MemoryInv /\ DatedInOrder => StandsInForDatabase
  BY TwinsAnswerAlike DEF MemoryInv, StandsInForDatabase
<1> QED
  BY <1>1, <1>2, MemoryInvStep, DatedInOrderStep, PTL DEF MemorySpec

-----------------------------------------------------------------------------
(* The list of users: which field a round reads, and what it reads of it.  *)
(* What has been read is always the first fields, as many as there were    *)
(* rounds.                                                                 *)

\* A field ends before a comma or where the list does.
EndOf(s, at) == at = 0 \/ at = Len(s) \/ s[at + 1] = Comma

\* What a field is.
LEMMA FieldOf ==
  ASSUME NEW s \in Seq(Char), NEW f \in Fields(s)
  PROVE  /\ f[1] \in 1..Len(s) /\ f[2] \in 1..Len(s) /\ f = <<f[1], f[2]>> /\ f[1] <= f[2]
         /\ \A i \in f[1]..f[2] : s[i] # Comma
         /\ f[1] = 1 \/ s[f[1] - 1] = Comma
         /\ f[2] = Len(s) \/ s[f[2] + 1] = Comma
<1>1. f \in (DOMAIN s) \X (DOMAIN s) /\ DOMAIN s = 1..Len(s)
  BY DEF Fields
<1>2. f[1] \in 1..Len(s) /\ f[2] \in 1..Len(s) /\ f = <<f[1], f[2]>>
  BY <1>1
<1> QED
  BY <1>2 DEF Fields

\* No two fields share a character.
LEMMA FieldsApart ==
  ASSUME NEW s \in Seq(Char), NEW f \in Fields(s), NEW g \in Fields(s),
         f[1] <= g[2], g[1] <= f[2]
  PROVE  f = g
<1>1. PICK n \in Nat : n = Len(s)
  OBVIOUS
<1>2. PICK a \in 1..n, b \in 1..n :
        /\ f = <<a, b>> /\ a <= b /\ \A i \in a..b : s[i] # Comma
        /\ a = 1 \/ s[a - 1] = Comma
        /\ b = n \/ s[b + 1] = Comma
  <2>1. f[1] \in 1..n /\ f[2] \in 1..n
    BY <1>1, FieldOf
  <2> QED
    BY <2>1, <1>1, FieldOf
<1>3. PICK c \in 1..n, d \in 1..n :
        /\ g = <<c, d>> /\ c <= d /\ \A i \in c..d : s[i] # Comma
        /\ c = 1 \/ s[c - 1] = Comma
        /\ d = n \/ s[d + 1] = Comma
  <2>1. g[1] \in 1..n /\ g[2] \in 1..n
    BY <1>1, FieldOf
  <2> QED
    BY <2>1, <1>1, FieldOf
<1>4. a <= d /\ c <= b
  BY <1>2, <1>3
<1>5. a = c
  <2>1. CASE a < c
    <3>1. c - 1 \in a..b /\ c # 1
      BY <2>1, <1>4
    <3> QED
      BY <3>1, <1>2, <1>3
  <2>2. CASE c < a
    <3>1. a - 1 \in c..d /\ a # 1
      BY <2>2, <1>4
    <3> QED
      BY <3>1, <1>2, <1>3
  <2> QED
    BY <2>1, <2>2
<1>6. b = d
  <2>1. CASE b < d
    <3>1. b + 1 \in c..d /\ b # n
      BY <2>1, <1>4
    <3> QED
      BY <3>1, <1>2, <1>3
  <2>2. CASE d < b
    <3>1. d + 1 \in a..b /\ d # n
      BY <2>2, <1>4
    <3> QED
      BY <3>1, <1>2, <1>3
  <2> QED
    BY <2>1, <2>2
<1> QED
  BY <1>2, <1>3, <1>5, <1>6

\* Where one field ends no other one goes on.
LEMMA BeforeOrBehind ==
  ASSUME NEW s \in Seq(Char), NEW at \in 0..Len(s), EndOf(s, at), NEW f \in Fields(s)
  PROVE  f[2] <= at \/ f[1] > at
<1>1. PICK n \in Nat : n = Len(s)
  OBVIOUS
<1>2. PICK a \in 1..n, b \in 1..n :
        f = <<a, b>> /\ \A i \in a..b : s[i] # Comma
  <2>1. f[1] \in 1..n /\ f[2] \in 1..n
    BY <1>1, FieldOf
  <2> QED
    BY <2>1, <1>1, FieldOf
<1>3. SUFFICES ASSUME a <= at, at < b PROVE FALSE
  BY <1>1, <1>2
<1>4. at \in 1..n /\ at # 0 /\ at # n /\ at + 1 \in a..b
  BY <1>1, <1>3
<1> QED
  BY <1>1, <1>2, <1>4 DEF EndOf

\* The next piece: what is between two commas, the first that there is.
LEMMA NextPiece ==
  ASSUME NEW s \in Seq(Char), NEW at \in 0..Len(s), ~ \A i \in at + 1..Len(s) : s[i] = Comma
  PROVE  /\ Begin(s, at) \in at + 1..Len(s)
         /\ End(s, Begin(s, at)) \in Begin(s, at)..Len(s)
         /\ \A i \in Begin(s, at)..End(s, Begin(s, at)) : s[i] # Comma
         /\ \A i \in at + 1..Begin(s, at) - 1 : s[i] = Comma
         /\ EndOf(s, End(s, Begin(s, at)))
<1>1. PICK n \in Nat : n = Len(s)
  OBVIOUS
<1> DEFINE S == {i \in at + 1..n : s[i] # Comma}
<1>2. PICK b : b = Begin(s, at)
  OBVIOUS
<1>3. b \in S /\ \A i \in S : b <= i
  <2>1. S \in SUBSET (1..n) /\ S # {}
    BY <1>1
  <2>2. Min(S) \in S /\ \A i \in S : Min(S) <= i
    <3> HIDE DEF S
    <3> QED
      BY <2>1, LeastNumber
  <2> QED
    BY <2>2, <1>1, <1>2 DEF Begin
<1>4. b \in at + 1..n /\ s[b] # Comma /\ \A i \in at + 1..b - 1 : s[i] = Comma
  <2>1. ASSUME NEW i \in at + 1..b - 1 PROVE s[i] = Comma
    <3>1. b \in at + 1..n
      BY <1>3
    <3>2. i \in at + 1..n /\ ~(b <= i)
      BY <3>1
    <3> QED
      BY <3>2, <1>3
  <2> QED
    BY <2>1, <1>3
<1> HIDE DEF S
<1> DEFINE commas == {i \in b..n : s[i] = Comma}
<1>5. PICK e : e = End(s, b)
  OBVIOUS
<1>6. e = IF commas = {} THEN n ELSE Min(commas) - 1
  BY <1>1, <1>5 DEF End
<1>7. e \in b..n /\ (\A i \in b..e : s[i] # Comma) /\ EndOf(s, e)
  <2>1. CASE commas = {}
    <3>1. e = n
      BY <2>1, <1>6
    <3> QED
      BY <2>1, <3>1, <1>1, <1>4 DEF EndOf
  <2>2. CASE commas # {}
    <3>1. commas \in SUBSET (1..n)
      BY <1>4
    <3>2. PICK m : m = Min(commas)
      OBVIOUS
    <3>3. m \in commas /\ \A i \in commas : m <= i
      <4> HIDE DEF commas
      <4> QED
        BY <2>2, <3>1, <3>2, LeastNumber
    <3>4. m \in b..n /\ s[m] = Comma /\ m # b
      BY <3>3, <1>4
    <3>5. e = m - 1
      BY <2>2, <3>2, <1>6
    <3>6. e \in b..n /\ e + 1 = m
      BY <3>4, <3>5, <1>4
    <3>7. ASSUME NEW i \in b..e PROVE s[i] # Comma
      <4>1. i \in b..n /\ ~(m <= i)
        BY <3>4, <3>5, <1>4
      <4> QED
        BY <4>1, <3>3
    <3> QED
      BY <3>4, <3>6, <3>7 DEF EndOf
  <2> QED
    BY <2>1, <2>2
<1> QED
  BY <1>1, <1>2, <1>4, <1>5, <1>7
\* The digits at the beginning go on until something else comes.
LEMMA LeadingOf ==
  ASSUME NEW t \in Seq(Char)
  PROVE  /\ Leading(t) \in Seq(Digits) /\ Len(Leading(t)) <= Len(t)
         /\ \A i \in 1..Len(Leading(t)) : Leading(t)[i] = t[i]
         /\ Len(Leading(t)) = Len(t) \/ t[Len(Leading(t)) + 1] \notin Digits
<1>1. PICK n \in Nat : n = Len(t)
  OBVIOUS
<1> DEFINE others == {i \in 1..n : t[i] \notin Digits}
<1>2. PICK v : v = Leading(t)
  OBVIOUS
<1>3. v = IF others = {} THEN t ELSE SubSeq(t, 1, Min(others) - 1)
  <2>1. DOMAIN t = 1..n
    BY <1>1
  <2> QED
    BY <2>1, <1>2, Zenon DEF Leading
<1>4. CASE others = {}
  <2>1. v = t
    BY <1>3, <1>4
  <2>2. t \in Seq(Digits)
    <3>1. \A i \in 1..n : t[i] \in Digits
      BY <1>4
    <3>2. t = [i \in 1..n |-> t[i]]
      BY <1>1, LenProperties
    <3>3. [i \in 1..n |-> t[i]] \in Seq(Digits)
      BY <3>1, IsASeq
    <3> QED
      BY <3>2, <3>3
  <2>3. Leading(t) = t
    BY <2>1, <1>2
  <2> QED
    BY <2>2, <2>3
<1>5. CASE others # {}
  <2>1. PICK m : m = Min(others)
    OBVIOUS
  <2>2. m \in others /\ \A i \in others : m <= i
    <3>1. others \in SUBSET (1..n)
      OBVIOUS
    <3> HIDE DEF others
    <3> QED
      BY <3>1, <2>1, <1>5, LeastNumber
  <2>3. m \in 1..n /\ t[m] \notin Digits
    BY <2>2
  <2>4. ASSUME NEW i \in 1..m - 1 PROVE t[i] \in Digits
    <3>1. i \in 1..n /\ ~(m <= i)
      BY <2>3
    <3> QED
      BY <3>1, <2>2
  <2>5. PICK k \in Nat : k = m - 1
    BY <2>3
  <2>6. v = SubSeq(t, 1, k)
    BY <2>1, <2>5, <1>3, <1>5
  <2>7. /\ v \in Seq(Digits) /\ Len(v) = k
        /\ \A i \in 1..k : v[i] = t[i]
    <3>1. 1 \in Int /\ k \in Int /\ \A i \in 1..k : t[i] \in Digits
      BY <2>4, <2>5
    <3>2. /\ SubSeq(t, 1, k) \in Seq(Digits)
          /\ Len(SubSeq(t, 1, k)) = IF 1 <= k THEN k - 1 + 1 ELSE 0
          /\ \A i \in 1..k - 1 + 1 : SubSeq(t, 1, k)[i] = t[1 + i - 1]
      BY <3>1, SubSeqProperties
    <3> QED
      BY <3>2, <2>5, <2>6
  <2>8. k <= n /\ k + 1 = m
    BY <2>3, <2>5
  <2>9. /\ v \in Seq(Digits) /\ Len(v) <= n
        /\ \A i \in 1..Len(v) : v[i] = t[i]
        /\ t[Len(v) + 1] \notin Digits
    BY <2>3, <2>7, <2>8
  <2> QED
    BY <2>9, <1>1, <1>2
<1> QED
  BY <1>4, <1>5

\* What a round reads of a field.
Value(s, f) == Numeral(Trimmed(SubSeq(s, f[1], f[2])))

\* What is read of a field is the numeral that stands behind its white space.
LEMMA ValueOf ==
  ASSUME NEW s \in Seq(Char), NEW f \in Fields(s)
  PROVE  /\ Value(s, f) \in [minus : BOOLEAN, digits : Seq(Digits)]
         /\ \/ Value(s, f).digits = <<>> /\ \A i \in f[1]..f[2] : s[i] \in White
            \/ \E q \in f[1]..f[2] : s[q] \notin White /\ Stands(s, f, Value(s, f), q)
<1>1. PICK n \in Nat : n = Len(s)
  OBVIOUS
<1>2. PICK a \in 1..n : a = f[1]
  BY <1>1, FieldOf
<1>3. PICK b \in a..n : b = f[2]
  BY <1>1, <1>2, FieldOf
<1>4. \A i \in 1..n : s[i] \in Char
  BY <1>1
<1>5. PICK m \in Nat : m = b - a + 1 /\ m >= 1
  <2>1. b - a + 1 \in Nat /\ b - a + 1 >= 1
    OBVIOUS
  <2> QED
    BY <2>1
<1>6. PICK t : t = SubSeq(s, a, b)
  OBVIOUS
<1>7. t \in Seq(Char) /\ Len(t) = m /\ \A i \in 1..m : t[i] = s[a + i - 1]
  <2>1. a \in Int /\ b \in Int /\ \A i \in a..b : s[i] \in Char
    BY <1>4
  <2>2. /\ SubSeq(s, a, b) \in Seq(Char)
        /\ Len(SubSeq(s, a, b)) = IF a <= b THEN b - a + 1 ELSE 0
        /\ \A i \in 1..b - a + 1 : SubSeq(s, a, b)[i] = s[a + i - 1]
    BY <2>1, SubSeqProperties
  <2> QED
    BY <2>2, <1>5, <1>6
<1> DEFINE some == {i \in 1..m : t[i] \notin White}
<1>8. PICK u : u = Trimmed(t)
  OBVIOUS
<1>9. u = IF some = {} THEN <<>> ELSE SubSeq(t, Min(some), m)
  BY <1>7, <1>8 DEF Trimmed
<1>10. PICK w : w = Unsigned(u)
  OBVIOUS
<1>13. PICK v : v = Leading(w)
  OBVIOUS
<1>14. Value(s, f) = [minus |-> u # <<>> /\ u[1] = Minus, digits |-> v]
  BY <1>2, <1>3, <1>6, <1>8, <1>10, <1>13 DEF Value, Numeral
<1>11. CASE some = {}
  <2>1. u = <<>> /\ u \in Seq(Char) /\ Len(u) = 0
    BY <1>9, <1>11
  <2>5. w = u
    BY <2>1, <1>10 DEF Unsigned
  <2>2. v \in Seq(Digits) /\ Len(v) <= 0
    <3>1. Leading(w) \in Seq(Digits) /\ Len(Leading(w)) <= Len(w)
      BY <2>1, <2>5, LeadingOf
    <3> QED
      BY <3>1, <2>1, <2>5, <1>13
  <2>3. v = <<>>
    BY <2>2
  <2>4. ASSUME NEW i \in a..b PROVE s[i] \in White
    <3>1. i - a + 1 \in 1..m /\ a + (i - a + 1) - 1 = i
      BY <1>5
    <3>2. t[i - a + 1] \in White
      BY <3>1, <1>11
    <3> QED
      BY <3>1, <3>2, <1>7
  <2> QED
    BY <2>2, <2>3, <2>4, <1>2, <1>3, <1>14
<1>12. CASE some # {}
  <2>1. PICK p : p = Min(some)
    OBVIOUS
  <2>2. p \in some /\ \A i \in some : p <= i
    <3>1. some \in SUBSET (1..m)
      OBVIOUS
    <3> HIDE DEF some
    <3> QED
      BY <3>1, <2>1, <1>12, LeastNumber
  <2>3. p \in 1..m /\ t[p] \notin White
    BY <2>2
  <2>4. ASSUME NEW i \in 1..p - 1 PROVE t[i] \in White
    <3>1. i \in 1..m /\ ~(p <= i)
      BY <2>3
    <3> QED
      BY <3>1, <2>2
  <2> HIDE DEF some
  <2>5. /\ u \in Seq(Char) /\ Len(u) = m - p + 1
        /\ \A i \in 1..m - p + 1 : u[i] = t[p + i - 1]
    <3>1. p \in Int /\ m \in Int /\ \A i \in p..m : t[i] \in Char
      BY <2>3, <1>7
    <3>2. /\ SubSeq(t, p, m) \in Seq(Char)
          /\ Len(SubSeq(t, p, m)) = IF p <= m THEN m - p + 1 ELSE 0
          /\ \A i \in 1..m - p + 1 : SubSeq(t, p, m)[i] = t[p + i - 1]
      BY <3>1, SubSeqProperties
    <3> QED
      BY <3>2, <2>1, <2>3, <1>9, <1>12
  <2>6. PICK q \in a..b : q = a + p - 1
    <3>1. a + p - 1 \in a..b
      BY <2>3, <1>5
    <3> QED
      BY <3>1
  <2>7. ASSUME NEW i \in 1..b - q + 1
        PROVE  u[i] = s[q + i - 1]
    <3>1. i \in 1..m - p + 1 /\ p + i - 1 \in 1..m /\ a + (p + i - 1) - 1 = q + i - 1
      BY <2>3, <2>6, <1>5
    <3> QED
      BY <3>1, <2>5, <1>7
  <2>8. s[q] \notin White /\ \A k \in a..q - 1 : s[k] \in White
    <3>1. s[q] = t[p]
      BY <2>3, <2>6, <1>7
    <3>2. ASSUME NEW k \in a..q - 1 PROVE s[k] \in White
      <4>1. k - a + 1 \in 1..p - 1 /\ k - a + 1 \in 1..m /\ a + (k - a + 1) - 1 = k
        BY <2>3, <2>6
      <4> QED
        BY <4>1, <2>4, <1>7
    <3> QED
      BY <3>1, <3>2, <2>3
  <2>14. u # <<>> /\ u[1] = s[q] /\ Len(u) = b - q + 1
    <3>1. Len(u) = b - q + 1 /\ b - q + 1 >= 1
      BY <2>3, <2>5, <2>6, <1>5
    <3>2. 1 \in 1..b - q + 1 /\ q + 1 - 1 = q
      BY <3>1
    <3> QED
      BY <3>1, <3>2, <2>5, <2>7, EmptySeq
  <2>15. PICK j \in q..b + 1 : j = IF s[q] \in Signs THEN q + 1 ELSE q
    <3>1. q \in q..b + 1 /\ q + 1 \in q..b + 1
      OBVIOUS
    <3> QED
      BY <3>1
  <2>16. w \in Seq(Char) /\ Len(w) = b - j + 1 /\ \A i \in 1..b - j + 1 : w[i] = s[j + i - 1]
    <3>1. CASE s[q] \in Signs
      <4>1. w = Tail(u) /\ j = q + 1
        BY <3>1, <2>14, <2>15, <1>10 DEF Unsigned
      <4>2. /\ Tail(u) \in Seq(Char) /\ Len(Tail(u)) = Len(u) - 1
            /\ \A i \in 1..Len(Tail(u)) : Tail(u)[i] = u[i + 1]
        BY <2>5, <2>14, HeadTailProperties
      <4>3. Len(w) = b - j + 1
        BY <4>1, <4>2, <2>14
      <4>4. ASSUME NEW i \in 1..b - j + 1 PROVE w[i] = s[j + i - 1]
        <5>1. i + 1 \in 1..b - q + 1 /\ q + (i + 1) - 1 = j + i - 1
          BY <4>1
        <5>2. w[i] = u[i + 1]
          BY <4>1, <4>2, <4>3
        <5> QED
          BY <5>1, <5>2, <2>7
      <4> QED
        BY <4>1, <4>2, <4>3, <4>4
    <3>2. CASE s[q] \notin Signs
      <4>1. w = u /\ j = q
        BY <3>2, <2>14, <2>15, <1>10 DEF Unsigned
      <4> QED
        BY <4>1, <2>5, <2>7, <2>14
    <3> QED
      BY <3>1, <3>2
  <2>9. PICK l \in Nat : l = Len(v) /\ l <= b - j + 1 /\ v \in Seq(Digits)
                        /\ (\A i \in 1..l : v[i] = w[i])
                        /\ (l = b - j + 1 \/ w[l + 1] \notin Digits)
    <3>1. /\ Leading(w) \in Seq(Digits) /\ Len(Leading(w)) <= Len(w)
          /\ \A i \in 1..Len(Leading(w)) : Leading(w)[i] = w[i]
          /\ Len(Leading(w)) = Len(w) \/ w[Len(Leading(w)) + 1] \notin Digits
      BY <2>16, LeadingOf
    <3>2. Len(v) \in Nat
      BY <3>1, <1>13
    <3> QED
      BY <3>1, <3>2, <2>16, <1>13
  <2>10. \A k \in 1..l : s[j + k - 1] = v[k]
    <3>1. \A k \in 1..l : k \in 1..b - j + 1
      BY <2>9
    <3> QED
      BY <3>1, <2>9, <2>16
  <2>11. j + l - 1 = b \/ s[(j + l - 1) + 1] \notin Digits
    <3>1. CASE l = b - j + 1
      BY <3>1
    <3>2. CASE l # b - j + 1
      <4>1. l + 1 \in 1..b - j + 1 /\ j + (l + 1) - 1 = (j + l - 1) + 1
        BY <3>2, <2>9
      <4> QED
        BY <3>2, <4>1, <2>9, <2>16
    <3> QED
      BY <3>1, <3>2
  <2>12. j + l - 1 <= b /\ DOMAIN v = 1..l
    BY <2>9
  <2> DEFINE x == Value(s, f)
  <2>17. x.digits = v /\ (x.minus <=> s[q] = Minus) /\ x \in [minus : BOOLEAN, digits : Seq(Digits)]
    <3>1. x.digits = v
      BY <1>14
    <3>2. x.minus = (u # <<>> /\ u[1] = Minus)
      BY <1>14
    <3>3. x = [minus |-> u # <<>> /\ u[1] = Minus, digits |-> v]
      BY <1>14
    <3>4. (u # <<>> /\ u[1] = Minus) \in BOOLEAN
      OBVIOUS
    <3> HIDE DEF x
    <3> QED
      BY <3>1, <3>2, <3>3, <3>4, <2>9, <2>14
  <2> HIDE DEF x
  <2>13. Stands(s, f, x, q)
    BY <2>8, <2>9, <2>10, <2>11, <2>12, <2>15, <2>17, <1>2, <1>3 DEF Stands
  <2> USE DEF x
  <2> QED
    BY <2>8, <2>13, <2>17, <1>2, <1>3
<1> QED
  BY <1>11, <1>12
\* The numerals that can stand in a list.
NamesOf(s) == [minus : BOOLEAN, digits : UNION {[1..k -> Digits] : k \in 1..Len(s)}]

\* Where the digits of a numeral begin.
Behind(s, q) == IF s[q] \in Signs THEN q + 1 ELSE q

\* Functions that agree everywhere are the same.
LEMMA SameFunction ==
  ASSUME NEW D, NEW R, NEW g \in [D -> R], NEW h \in [D -> R], \A j \in D : g[j] = h[j]
  PROVE  g = h
OBVIOUS

\* A field names the numeral that is read of it and no other.
LEMMA FieldNames ==
  ASSUME NEW s \in Seq(Char), NEW f \in Fields(s)
  PROVE  /\ \A n \in NamesOf(s) : Names(s, f, n) => n = Value(s, f)
         /\ Value(s, f).digits # <<>> =>
              Value(s, f) \in NamesOf(s) /\ Names(s, f, Value(s, f))
         /\ \A n \in NamesOf(s) : n.digits # <<>>
<1> USE ConfigurationAssumption
<1>1. PICK a \in Nat, b \in Nat : a = f[1] /\ b = f[2] /\ a >= 1 /\ a <= b /\ b <= Len(s)
  BY FieldOf
<1>2. PICK v \in [minus : BOOLEAN, digits : Seq(Digits)] : v = Value(s, f)
  BY ValueOf
<1>3. White \cap Digits = {} /\ Signs \cap Digits = {} /\ White \cap Signs = {}
  BY DEF White, Signs, Space, Tab, Plus, Minus
<1>4. \/ v.digits = <<>> /\ \A i \in a..b : s[i] \in White
      \/ \E q \in a..b : s[q] \notin White /\ Stands(s, f, v, q)
  BY <1>1, <1>2, ValueOf
<1>5. ASSUME NEW n \in NamesOf(s)
      PROVE  \E k \in 1..Len(s) : n.digits \in [1..k -> Digits] /\ n.digits # <<>> /\ n.minus \in BOOLEAN
  <2>1. PICK k \in 1..Len(s) : n.digits \in [1..k -> Digits]
    BY DEF NamesOf
  <2>2. k \in Nat /\ k >= 1
    OBVIOUS
  <2>3. Len(n.digits) = k
    BY <2>1, <2>2, IsASeq, LenProperties
  <2>4. n.digits # <<>>
    <3>1. Len(<<>>) = 0
      OBVIOUS
    <3> QED
      BY <3>1, <2>2, <2>3
  <2> QED
    BY <2>1, <2>4 DEF NamesOf
<1>6. \A n : Names(s, f, n) <=> \E i \in a..b : Stands(s, f, n, i)
  BY <1>1 DEF Names
<1>7. PICK l \in Nat : l = Len(v.digits) /\ v.digits \in [1..l -> Digits]
  BY LenProperties
<1> DEFINE Read(n, q, k) ==
             /\ Behind(s, q) \in Nat /\ Behind(s, q) >= q
             /\ \A j \in a..q - 1 : s[j] \in White
             /\ n.minus <=> s[q] = Minus
             /\ Behind(s, q) + k - 1 <= b
             /\ \A j \in 1..k : s[Behind(s, q) + j - 1] = n.digits[j]
             /\ Behind(s, q) + k - 1 = b \/ s[Behind(s, q) + k] \notin Digits
<1>10. ASSUME NEW q \in a..b, NEW n, Stands(s, f, n, q), NEW k \in Nat, n.digits \in [1..k -> Digits]
       PROVE  Read(n, q, k)
  <2>1. Len(n.digits) = k /\ DOMAIN n.digits = 1..k
    BY <1>10, IsASeq, LenProperties
  <2>2. PICK d \in Nat : d = Behind(s, q) /\ d >= q /\ (d + k - 1) + 1 = d + k
    BY DEF Behind
  <2>3. d = IF s[q] \in Signs THEN q + 1 ELSE q
    BY <2>2 DEF Behind
  <2> QED
    BY <1>1, <1>10, <2>1, <2>2, <2>3 DEF Stands
<1> HIDE DEF Read
<1>8. ASSUME NEW n \in NamesOf(s), Names(s, f, n) PROVE n = v
  <2>1. PICK k \in 1..Len(s) : n.digits \in [1..k -> Digits]
    BY <1>5
  <2>2. k \in Nat /\ k >= 1
    OBVIOUS
  <2>3. PICK i \in a..b : Stands(s, f, n, i)
    BY <1>6, <1>8
  <2>14. PICK d \in Nat : d = Behind(s, i)
    BY DEF Behind
  <2>4. /\ \A j \in a..i - 1 : s[j] \in White
        /\ n.minus <=> s[i] = Minus
        /\ d + k - 1 <= b
        /\ \A j \in 1..k : s[d + j - 1] = n.digits[j]
        /\ d + k - 1 = b \/ s[d + k] \notin Digits
    <3>1. Read(n, i, k)
      BY <1>10, <2>1, <2>2, <2>3
    <3> QED
      BY <3>1, <2>14 DEF Read
  <2>5. s[i] \notin White
    <3>1. CASE s[i] \in Signs
      BY <3>1, <1>3
    <3>2. CASE s[i] \notin Signs
      <4>1. 1 \in 1..k /\ d + 1 - 1 = i
        BY <3>2, <2>2, <2>14 DEF Behind
      <4>2. s[i] \in Digits
        BY <4>1, <2>1, <2>4
      <4> QED
        BY <4>2, <1>3
    <3> QED
      BY <3>1, <3>2
  <2>6. PICK q \in a..b : s[q] \notin White /\ Stands(s, f, v, q)
    BY <1>4, <2>5
  <2>15. PICK e \in Nat : e = Behind(s, q)
    BY DEF Behind
  <2>7. /\ \A j \in a..q - 1 : s[j] \in White
        /\ v.minus <=> s[q] = Minus
        /\ e + l - 1 <= b
        /\ \A j \in 1..l : s[e + j - 1] = v.digits[j]
        /\ e + l - 1 = b \/ s[e + l] \notin Digits
    <3>1. Stands(s, f, v, q) /\ l \in Nat /\ v.digits \in [1..l -> Digits]
      BY <1>7, <2>6
    <3>2. Read(v, q, l)
      BY <3>1, <1>10
    <3> QED
      BY <3>2, <2>15 DEF Read
  <2>8. i = q
    <3>1. CASE i < q
      <4>1. i \in a..q - 1
        BY <3>1
      <4> QED
        BY <4>1, <2>5, <2>7
    <3>2. CASE q < i
      <4>1. q \in a..i - 1
        BY <3>2
      <4> QED
        BY <4>1, <2>4, <2>6
    <3> QED
      BY <3>1, <3>2
  <2>9. e = d
    BY <2>8, <2>14, <2>15
  <2>10. k = l
    <3>1. CASE k < l
      <4>1. k + 1 \in 1..l /\ e + (k + 1) - 1 = d + k /\ d + k - 1 # b
        BY <3>1, <2>2, <2>7, <2>9
      <4>2. s[d + k] \in Digits
        BY <4>1, <1>7, <2>7
      <4> QED
        BY <4>1, <4>2, <2>4
    <3>2. CASE l < k
      <4>1. l + 1 \in 1..k /\ d + (l + 1) - 1 = e + l /\ e + l - 1 # b
        BY <3>2, <2>4, <2>9
      <4>2. s[e + l] \in Digits
        BY <4>1, <2>1, <2>4
      <4> QED
        BY <4>1, <4>2, <2>7
    <3> QED
      BY <3>1, <3>2, <2>2
  <2>11. \A j \in 1..k : n.digits[j] = v.digits[j]
    BY <2>4, <2>7, <2>9, <2>10
  <2>12. n.digits = v.digits
    <3>1. n.digits \in [1..k -> Digits] /\ v.digits \in [1..k -> Digits]
      BY <2>1, <2>10, <1>7
    <3> QED
      BY <3>1, <2>11, SameFunction
  <2>13. n.minus = v.minus
    BY <2>4, <2>7, <2>8, <1>5
  <2>16. n = [minus |-> n.minus, digits |-> n.digits] /\ v = [minus |-> v.minus, digits |-> v.digits]
    BY DEF NamesOf
  <2> QED
    BY <2>12, <2>13, <2>16
<1>9. ASSUME v.digits # <<>> PROVE v \in NamesOf(s) /\ Names(s, f, v)
  <2>1. PICK q \in a..b : Stands(s, f, v, q)
    BY <1>4, <1>9
  <2>2. l >= 1
    BY <1>7, <1>9, EmptySeq
  <2>3. l \in 1..Len(s)
    <3>1. PICK e \in Nat : e = Behind(s, q) /\ e >= q
      BY DEF Behind
    <3>2. e + l - 1 <= b
      <4>1. Read(v, q, l)
        BY <2>1, <1>7, <1>10
      <4> QED
        BY <4>1, <3>1 DEF Read
    <3> QED
      BY <3>1, <3>2, <2>2, <1>1
  <2>4. v.digits \in UNION {[1..k -> Digits] : k \in 1..Len(s)}
    BY <2>3, <1>7
  <2> QED
    BY <2>1, <2>4, <1>6 DEF NamesOf
<1> QED
  BY <1>2, <1>5, <1>8, <1>9

\* The users that a list can name.
UserIds(s) == {Number(Value(s, f)) : f \in (1..Len(s)) \X (1..Len(s))}

\* What is known after a number of rounds.
Progress(s) == [at : 0..Len(s), users : Seq(UserIds(s)), ok : BOOLEAN]

AtFirst == [at |-> 0, users |-> <<>>, ok |-> TRUE]

\* Nothing is left to read.
NoMore(s, at) == \A i \in at + 1..Len(s) : s[i] = Comma

\* The next piece.
Piece(s, at) == <<Begin(s, at), End(s, Begin(s, at))>>

\* A round leaves what is known as it is, gives up, or reads the next piece.
LEMMA RoundReads ==
  ASSUME NEW s \in Seq(Char), NEW r \in Progress(s)
  PROVE  LET f == Piece(s, r.at) IN
         /\ ~r.ok \/ NoMore(s, r.at) => Round(s, r) = r
         /\ r.ok /\ ~NoMore(s, r.at) /\ Value(s, f).digits = <<>> =>
              Round(s, r) = [at |-> f[2], users |-> r.users, ok |-> FALSE]
         /\ r.ok /\ ~NoMore(s, r.at) /\ Value(s, f).digits # <<>> =>
              Round(s, r) = [at |-> f[2], users |-> Append(r.users, Number(Value(s, f))), ok |-> TRUE]
<1>3. PICK b : b = Begin(s, r.at)
  OBVIOUS
<1>4. PICK e : e = End(s, b)
  OBVIOUS
<1>5. Piece(s, r.at)[1] = b /\ Piece(s, r.at)[2] = e
  BY <1>3, <1>4 DEF Piece
<1>6. PICK v : v = Numeral(Trimmed(SubSeq(s, b, e)))
  OBVIOUS
<1>7. v = Value(s, Piece(s, r.at))
  BY <1>5, <1>6 DEF Value
<1>8. Round(s, r) = IF ~r.ok \/ NoMore(s, r.at) THEN r
                    ELSE IF v.digits = <<>> THEN [at |-> e, users |-> r.users, ok |-> FALSE]
                    ELSE [at |-> e, users |-> Append(r.users, Number(v)), ok |-> TRUE]
  BY <1>3, <1>4, <1>6 DEF Round, NoMore
<1> QED
  BY <1>5, <1>7, <1>8

\* What is known stays of its kind.
LEMMA RoundStays ==
  ASSUME NEW s \in Seq(Char), NEW r \in Progress(s)
  PROVE  Round(s, r) \in Progress(s)
<1>1. PICK n \in Nat : n = Len(s)
  OBVIOUS
<1>2. r.at \in 0..n /\ r.users \in Seq(UserIds(s)) /\ r.ok \in BOOLEAN
  BY <1>1 DEF Progress
<1>3. CASE ~r.ok \/ NoMore(s, r.at)
  BY <1>3, RoundReads
<1>4. CASE r.ok /\ ~NoMore(s, r.at)
  <2>1. PICK f : f = Piece(s, r.at)
    OBVIOUS
  <2>2. f[1] \in 1..n /\ f[2] \in 1..n /\ f \in (1..n) \X (1..n)
    <3>1. PICK b : b = Begin(s, r.at)
      OBVIOUS
    <3>2. PICK e : e = End(s, b)
      OBVIOUS
    <3>3. b \in r.at + 1..n /\ e \in b..n
      BY <1>1, <1>2, <1>4, <3>1, <3>2, NextPiece DEF NoMore
    <3>4. f = <<b, e>>
      BY <2>1, <3>1, <3>2 DEF Piece
    <3> QED
      BY <3>3, <3>4, <1>2
  <2>3. CASE Value(s, f).digits = <<>>
    <3>1. Round(s, r) = [at |-> f[2], users |-> r.users, ok |-> FALSE]
      BY <2>1, <2>3, <1>4, RoundReads
    <3> QED
      BY <3>1, <2>2, <1>1, <1>2 DEF Progress
  <2>4. CASE Value(s, f).digits # <<>>
    <3>1. Round(s, r) = [at |-> f[2], users |-> Append(r.users, Number(Value(s, f))), ok |-> TRUE]
      BY <2>1, <2>4, <1>4, RoundReads
    <3>2. Number(Value(s, f)) \in UserIds(s)
      BY <2>2, <1>1 DEF UserIds
    <3>3. Append(r.users, Number(Value(s, f))) \in Seq(UserIds(s))
      BY <3>2, <1>2, AppendProperties
    <3> QED
      BY <3>1, <3>3, <2>2, <1>1 DEF Progress
  <2> QED
    BY <2>3, <2>4
<1> QED
  BY <1>2, <1>3, <1>4

\* "after" is what is known after so many rounds.
Ran(s, after) ==
  /\ after \in [0..MaxUsers -> Progress(s)] /\ after[0] = AtFirst
  /\ \A k \in 1..MaxUsers : after[k] = Round(s, after[k - 1])
  /\ parse_user_ids(s) = IF after[MaxUsers].ok THEN after[MaxUsers].users ELSE <<>>

\* What the parser returns is known after its rounds, where the list fits the
\* buffer.
LEMMA ParserRuns ==
  ASSUME NEW s \in Seq(Char), Len(s) < BufLen
  PROVE  \E after : Ran(s, after)
<1> USE ConfigurationAssumption
<1> DEFINE N == MaxUsers
           T == Progress(s)
           buf == SubSeq(s, 1, Min({Len(s), BufLen - 1}))
           step == [k \in 1..N |-> [r \in T |-> Round(s, r)]]
<1>1. N \in Nat /\ AtFirst \in T
  <2>1. Len(s) \in Nat /\ <<>> \in Seq(UserIds(s))
    OBVIOUS
  <2> QED
    BY <2>1 DEF AtFirst, Progress
<1>2. buf = s
  <2>1. PICK n \in Nat : n = Len(s) /\ n <= BufLen - 1
    <3>1. Len(s) \in Nat /\ Len(s) <= BufLen - 1
      OBVIOUS
    <3> QED
      BY <3>1
  <2>2. PICK m \in Int : m = BufLen - 1 /\ n <= m
    <3>1. BufLen - 1 \in Int
      OBVIOUS
    <3> QED
      BY <3>1, <2>1
  <2>3. Min({n, m}) = n
    <3>1. n \in {n, m} /\ \A y \in {n, m} : n <= y
      BY <2>1, <2>2
    <3>2. \A x \in {n, m} : (\A y \in {n, m} : x <= y) => x = n
      BY <2>1, <2>2
    <3> QED
      BY <3>1, <3>2 DEF Min
  <2>4. buf = SubSeq(s, 1, Len(s))
    BY <2>1, <2>2, <2>3
  <2> QED
    BY <2>4, SubSeqFull
<1>3. \A k \in 1..N : \A r \in T : Round(s, r) \in T
  BY RoundStays
<1>4. step \in [1..N -> [T -> T]]
  BY <1>3
<1>5. \A k \in 1..N : \A r \in T : step[k][r] = Round(s, r)
  OBVIOUS
<1> HIDE DEF step, T
<1>6. PICK f \in [0..N -> T] : f[0] = AtFirst /\ \A k \in 1..N : f[k] = step[k][f[k - 1]]
  <2>1. \E f : Counts(f, T, N, AtFirst, step)
    BY <1>1, <1>4, StepByStep, Zenon
  <2> QED
    BY <2>1 DEF Counts
<1>7. \A k \in 1..N : f[k] = Round(s, f[k - 1])
  <2> TAKE k \in 1..N
  <2>1. f[k - 1] \in T
    BY <1>6, <1>1
  <2> QED
    BY <2>1, <1>5, <1>6
<1> DEFINE Body(g) == [k \in 0..N |-> IF k = 0 THEN [at |-> 0, users |-> <<>>, ok |-> TRUE]
                                      ELSE Round(buf, g[k - 1])]
           after == CHOOSE g : g = Body(g)
<1>10. parse_user_ids(s) = IF after[N].ok THEN after[N].users ELSE <<>>
  BY DEF parse_user_ids
<1> HIDE DEF buf
<1>8. f = Body(f)
  <2>1. \A k \in 0..N : k = 0 \/ k \in 1..N
    BY <1>1
  <2> QED
    BY <2>1, <1>2, <1>6, <1>7 DEF AtFirst
<1>9. after = Body(after)
  BY <1>8
<1> HIDE DEF after
<1>11. after[0] = AtFirst /\ \A k \in 1..N : after[k] = Round(s, after[k - 1])
  <2>1. \A k \in 0..N : after[k] = Body(after)[k]
    BY <1>9
  <2>2. \A g : \A k \in 0..N : Body(g)[k] = IF k = 0 THEN AtFirst ELSE Round(s, g[k - 1])
    BY <1>2 DEF AtFirst
  <2>3. 0 \in 0..N /\ \A k \in 1..N : k \in 0..N /\ k # 0
    BY <1>1
  <2> HIDE DEF Body
  <2>4. \A k \in 0..N : after[k] = IF k = 0 THEN AtFirst ELSE Round(s, after[k - 1])
    BY <2>1, <2>2
  <2> QED
    BY <2>3, <2>4
\* The function is the one that was computed, so it stays where that does.
<1>12. after = [k \in 0..N |-> f[k]]
  <2> DEFINE Other == {k \in 0..N : after[k] # f[k]}
  <2>1. Other \in SUBSET (0..N) /\ 0 \notin Other
    BY <1>6, <1>11
  <2>2. \A k \in 1..N : k \in Other => k - 1 \in Other
    <3>1. \A k \in 1..N : k \in 0..N /\ k - 1 \in 0..N
      BY <1>1
    <3> QED
      BY <3>1, <1>7, <1>11
  <2>3. Other = {}
    <3> HIDE DEF Other
    <3> QED
      BY <2>1, <2>2, <1>1, NoneFails, Zenon
  <2>4. \A k \in 0..N : after[k] = f[k]
    BY <2>3
  <2>5. after = [k \in 0..N |-> Body(after)[k]]
    BY <1>9
  <2>6. \A k \in 0..N : Body(after)[k] = f[k]
    BY <1>9, <2>4
  <2> QED
    BY <2>5, <2>6
<1>13. after \in [0..N -> T]
  BY <1>6, <1>12
<1> QED
  BY <1>10, <1>11, <1>13 DEF Ran, T
\* The fields that have been read.
Read(s, at) == {f \in Fields(s) : f[2] <= at}

\* A list has finitely many fields.
LEMMA FieldsFinite ==
  ASSUME NEW s \in Seq(Char)
  PROVE  \A F \in SUBSET Fields(s) : IsFiniteSet(F) /\ Cardinality(F) \in Nat
<1>1. Len(s) \in Nat /\ DOMAIN s = 1..Len(s)
  OBVIOUS
<1>2. PICK D : D = 1..Len(s) /\ IsFiniteSet(D)
  BY <1>1, FS_Interval
<1>3. IsFiniteSet(D \X D)
  BY <1>2, FS_Product
<1>4. \A F \in SUBSET Fields(s) : F \subseteq D \X D
  BY <1>1, <1>2 DEF Fields
<1>5. \A F \in SUBSET Fields(s) : IsFiniteSet(F)
  BY <1>3, <1>4, FS_Subset
<1> QED
  BY <1>5, FS_CardinalityType

\* Where commas are all that is left, the fields have been read.
LEMMA NothingLeft ==
  ASSUME NEW s \in Seq(Char), NEW at \in 0..Len(s), EndOf(s, at), NoMore(s, at)
  PROVE  Read(s, at) = Fields(s)
<1> SUFFICES ASSUME NEW f \in Fields(s) PROVE f[2] <= at
  BY DEF Read
<1>1. f[2] <= at \/ f[1] > at
  BY BeforeOrBehind
<1>2. ~(f[1] > at)
  <2>1. f[1] \in 1..Len(s) /\ s[f[1]] # Comma
    BY FieldOf
  <2>2. Len(s) \in Nat
    OBVIOUS
  <2> QED
    BY <2>1, <2>2 DEF NoMore
<1> QED
  BY <1>1, <1>2

\* The next piece is the first field behind those that have been read.
LEMMA PieceIsField ==
  ASSUME NEW s \in Seq(Char), NEW at \in 0..Len(s), EndOf(s, at), ~NoMore(s, at)
  PROVE  LET f == Piece(s, at) IN
         /\ f \in Fields(s) /\ f \notin Read(s, at)
         /\ Read(s, f[2]) = Read(s, at) \cup {f}
         /\ FieldsBefore(s, f) = Read(s, at)
         /\ f[2] \in 0..Len(s) /\ EndOf(s, f[2])
<1>1. PICK n \in Nat : n = Len(s) /\ DOMAIN s = 1..n
  OBVIOUS
<1>2. PICK b : b = Begin(s, at)
  OBVIOUS
<1>3. PICK e : e = End(s, b)
  OBVIOUS
<1>4. /\ b \in at + 1..n /\ e \in b..n /\ EndOf(s, e)
      /\ \A i \in b..e : s[i] # Comma
      /\ \A i \in at + 1..b - 1 : s[i] = Comma
  BY <1>1, <1>2, <1>3, NextPiece DEF NoMore
<1>5. PICK f : f = Piece(s, at) /\ f = <<b, e>> /\ f[1] = b /\ f[2] = e
  <2>1. Piece(s, at) = <<b, e>>
    BY <1>2, <1>3, Zenon DEF Piece
  <2>2. <<b, e>>[1] = b /\ <<b, e>>[2] = e
    OBVIOUS
  <2> QED
    BY <2>1, <2>2, Zenon
<1>6. b = 1 \/ s[b - 1] = Comma
  <2>1. CASE b = at + 1
    <3>1. b = 1 \/ (at \in 1..n - 1 /\ b - 1 = at)
      BY <2>1, <1>4, <1>1
    <3>2. s[at + 1] # Comma
      BY <2>1, <1>4
    <3> QED
      BY <2>1, <3>1, <3>2, <1>1 DEF EndOf
  <2>2. CASE b # at + 1
    <3>1. b - 1 \in at + 1..b - 1
      BY <2>2, <1>4
    <3> QED
      BY <3>1, <1>4
  <2> QED
    BY <2>1, <2>2
<1>7. e = n \/ s[e + 1] = Comma
  BY <1>1, <1>4 DEF EndOf
<1>8. f \in Fields(s)
  <2>1. b \in 1..n /\ e \in 1..n /\ b <= e
    BY <1>4, <1>1
  <2>2. <<b, e>> \in (DOMAIN s) \X (DOMAIN s) /\ <<b, e>>[1] = b /\ <<b, e>>[2] = e
    BY <2>1, <1>1
  <2> QED
    BY <2>1, <2>2, <1>1, <1>4, <1>5, <1>6, <1>7 DEF Fields
<1>9. ASSUME NEW g \in Fields(s)
      PROVE  /\ g[1] \in 1..n /\ g[2] \in 1..n /\ g[1] <= g[2] /\ s[g[1]] # Comma
             /\ g[2] <= at \/ g[1] > at
             /\ g[1] <= e /\ b <= g[2] => g = f
  <2>1. /\ g[1] \in 1..n /\ g[2] \in 1..n /\ g[1] <= g[2] /\ s[g[1]] # Comma
    BY <1>1, FieldOf
  <2>2. g[2] <= at \/ g[1] > at
    BY BeforeOrBehind
  <2>3. ASSUME g[1] <= e, b <= g[2] PROVE g = f
    <3>1. g[1] <= f[2] /\ f[1] <= g[2]
      BY <2>3, <1>5
    <3> QED
      BY <3>1, <1>8, FieldsApart
  <2> QED
    BY <2>1, <2>2, <2>3
<1>10. ASSUME NEW g \in Fields(s)
       PROVE  /\ g[2] <= at <=> g[1] < b
              /\ g[2] <= e <=> g[2] <= at \/ g = f
  <2>1. /\ g[1] \in 1..n /\ g[2] \in 1..n /\ g[1] <= g[2] /\ s[g[1]] # Comma
        /\ g[2] <= at \/ g[1] > at
        /\ g[1] <= e /\ b <= g[2] => g = f
    BY <1>9
  <2>2. g[2] <= at <=> g[1] < b
    <3>1. ASSUME g[1] < b PROVE g[2] <= at
      <4>1. ~(g[1] > at)
        <5>1. g[1] > at => g[1] \in at + 1..b - 1
          BY <3>1, <2>1, <1>4
        <5> QED
          BY <5>1, <2>1, <1>4
      <4> QED
        BY <4>1, <2>1
    <3>2. ASSUME g[2] <= at PROVE g[1] < b
      BY <3>2, <2>1, <1>4
    <3> QED
      BY <3>1, <3>2
  <2>3. g[2] <= e <=> g[2] <= at \/ g = f
    <3>1. ASSUME g[2] <= e, ~(g[2] <= at) PROVE g = f
      <4>1. g[1] <= e /\ ~(g[1] < b)
        BY <3>1, <2>1, <2>2, <1>4
      <4>2. b <= g[2]
        BY <4>1, <2>1, <1>4
      <4> QED
        BY <4>1, <4>2, <2>1
    <3>2. ASSUME g[2] <= at PROVE g[2] <= e
      BY <3>2, <2>1, <1>4
    <3>3. ASSUME g = f PROVE g[2] <= e
      BY <3>3, <2>1, <1>4, <1>5
    <3> QED
      BY <3>1, <3>2, <3>3
  <2> QED
    BY <2>2, <2>3
<1>11. f \notin Read(s, at)
  <2>1. ~(e <= at)
    BY <1>4
  <2> QED
    BY <2>1, <1>5 DEF Read
<1>12. Read(s, f[2]) = Read(s, at) \cup {f}
  BY <1>5, <1>8, <1>10 DEF Read
<1>13. FieldsBefore(s, f) = Read(s, at)
  BY <1>5, <1>10 DEF FieldsBefore, Read
<1>14. f[2] \in 0..Len(s)
  BY <1>1, <1>4, <1>5
<1> QED
  BY <1>4, <1>5, <1>8, <1>11, <1>12, <1>13, <1>14

\* After k rounds k fields have been read, or all; or one of them, which the
\* rounds have come to, is no number.
Sound(s, r, k) ==
  IF r.ok
  THEN /\ EndOf(s, r.at)
       /\ Cardinality(Read(s, r.at)) <= k
       /\ Cardinality(Read(s, r.at)) = k \/ Read(s, r.at) = Fields(s)
       /\ \A f \in Read(s, r.at) : Value(s, f).digits # <<>>
       /\ ToSet(r.users) = {Number(Value(s, f)) : f \in Read(s, r.at)}
  ELSE \E f \in Fields(s) : Value(s, f).digits = <<>> /\ Cardinality(FieldsBefore(s, f)) < k

\* Before the first round nothing has been read.
LEMMA SoundAtFirst ==
  ASSUME NEW s \in Seq(Char)
  PROVE  Sound(s, AtFirst, 0)
<1>1. Read(s, 0) = {}
  <2> SUFFICES ASSUME NEW f \in Fields(s) PROVE ~(f[2] <= 0)
    BY DEF Read
  <2>1. f[2] \in 1..Len(s) /\ Len(s) \in Nat
    BY FieldOf
  <2> QED
    BY <2>1
<1>2. Cardinality({}) = 0
  BY FS_EmptySet
<1>3. ToSet(<<>>) = {}
  BY DEF ToSet
<1>4. AtFirst.ok /\ AtFirst.at = 0 /\ AtFirst.users = <<>>
  BY DEF AtFirst
<1>5. {Number(Value(s, f)) : f \in Read(s, 0)} = {}
  BY <1>1
<1>6. 0 <= 0
  OBVIOUS
<1> HIDE DEF AtFirst
<1> QED
  BY <1>1, <1>2, <1>3, <1>4, <1>5, <1>6, Zenon DEF Sound, EndOf

\* One more round, one more field.
LEMMA RoundSound ==
  ASSUME NEW s \in Seq(Char), NEW r \in Progress(s), NEW k \in Nat, Sound(s, r, k)
  PROVE  Sound(s, Round(s, r), k + 1)
<1>1. r.at \in 0..Len(s) /\ r.users \in Seq(UserIds(s))
  BY DEF Progress
<1>2. \A F \in SUBSET Fields(s) : IsFiniteSet(F) /\ Cardinality(F) \in Nat
  BY FieldsFinite
<1>3. Read(s, r.at) \in SUBSET Fields(s) /\ \A f : FieldsBefore(s, f) \in SUBSET Fields(s)
  BY DEF Read, FieldsBefore
<1>4. CASE ~r.ok
  <2>1. Round(s, r) = r
    BY <1>4, RoundReads
  <2>2. PICK f \in Fields(s) : Value(s, f).digits = <<>> /\ Cardinality(FieldsBefore(s, f)) < k
    BY <1>4 DEF Sound
  <2>3. Cardinality(FieldsBefore(s, f)) < k + 1
    BY <2>2, <1>2, <1>3
  <2> QED
    BY <2>1, <2>2, <2>3, <1>4 DEF Sound
<1>5. CASE r.ok /\ NoMore(s, r.at)
  <2>1. Round(s, r) = r
    BY <1>5, RoundReads
  <2>2. Read(s, r.at) = Fields(s)
    BY <1>1, <1>5, NothingLeft DEF Sound
  <2>3. Cardinality(Read(s, r.at)) <= k + 1
    <3>1. Cardinality(Read(s, r.at)) <= k /\ Cardinality(Read(s, r.at)) \in Nat
      BY <1>2, <1>3, <1>5 DEF Sound
    <3> QED
      BY <3>1
  <2> QED
    BY <2>1, <2>2, <2>3, <1>5 DEF Sound
<1>6. CASE r.ok /\ ~NoMore(s, r.at)
  <2>1. PICK f : f = Piece(s, r.at)
    OBVIOUS
  <2>2. /\ f \in Fields(s) /\ f \notin Read(s, r.at)
        /\ Read(s, f[2]) = Read(s, r.at) \cup {f}
        /\ FieldsBefore(s, f) = Read(s, r.at)
        /\ EndOf(s, f[2])
    BY <2>1, <1>1, <1>6, PieceIsField DEF Sound
  <2>3. Cardinality(Read(s, r.at)) = k
    BY <2>2, <1>6 DEF Sound
  <2>4. CASE Value(s, f).digits = <<>>
    <3>1. Round(s, r) = [at |-> f[2], users |-> r.users, ok |-> FALSE]
      BY <2>1, <2>4, <1>6, RoundReads
    <3>2. ~Round(s, r).ok
      BY <3>1
    <3>3. Cardinality(FieldsBefore(s, f)) < k + 1
      BY <2>2, <2>3
    <3> QED
      BY <3>2, <3>3, <2>2, <2>4 DEF Sound
  <2>5. CASE Value(s, f).digits # <<>>
    <3>1. PICK id : id = Number(Value(s, f))
      OBVIOUS
    <3>2. Round(s, r) = [at |-> f[2], users |-> Append(r.users, id), ok |-> TRUE]
      BY <3>1, <2>1, <2>5, <1>6, RoundReads
    <3>3. Round(s, r).ok /\ Round(s, r).at = f[2] /\ Round(s, r).users = Append(r.users, id)
      BY <3>2
    <3>4. Cardinality(Read(s, f[2])) = k + 1
      <4>1. IsFiniteSet(Read(s, r.at))
        BY <1>2, <1>3
      <4>2. Cardinality(Read(s, r.at) \cup {f}) = Cardinality(Read(s, r.at)) + 1
        BY <4>1, <2>2, FS_AddElement
      <4> QED
        BY <4>2, <2>2, <2>3
    <3>5. ToSet(Append(r.users, id)) = ToSet(r.users) \cup {id}
      <4>1. PICK n \in Nat : n = Len(r.users) /\ DOMAIN r.users = 1..n
        BY <1>1
      <4>2. PICK t : t = Append(r.users, id)
        OBVIOUS
      <4>5. r.users \in Seq(UserIds(s) \cup {id}) /\ id \in UserIds(s) \cup {id}
        BY <1>1, SeqMonotonic
      <4>3. /\ DOMAIN t = 1..n + 1 /\ t[n + 1] = id
            /\ \A i \in 1..n : t[i] = r.users[i]
        <5>1. /\ t \in Seq(UserIds(s) \cup {id}) /\ Len(t) = n + 1 /\ t[n + 1] = id
              /\ \A i \in 1..n : t[i] = r.users[i]
          BY <4>1, <4>2, <4>5, AppendProperties
        <5>2. DOMAIN t = 1..Len(t)
          BY <5>1, LenProperties
        <5> QED
          BY <5>1, <5>2
      <4>4. \A i \in 1..n + 1 : i \in 1..n \/ i = n + 1
        OBVIOUS
      <4>6. n + 1 \in 1..n + 1 /\ \A i \in 1..n : i \in 1..n + 1
        OBVIOUS
      <4>7. ToSet(t) = ToSet(r.users) \cup {id}
        BY <4>1, <4>3, <4>4, <4>6 DEF ToSet
      <4> QED
        BY <4>2, <4>7
    <3>6. ToSet(r.users) = {Number(Value(s, g)) : g \in Read(s, r.at)}
      BY <1>6 DEF Sound
    <3>7. ToSet(Append(r.users, id)) = {Number(Value(s, g)) : g \in Read(s, f[2])}
      BY <3>1, <3>5, <3>6, <2>2
    <3>8. \A g \in Read(s, f[2]) : Value(s, g).digits # <<>>
      BY <2>2, <2>5, <1>6 DEF Sound
    <3>9. Cardinality(Read(s, f[2])) <= k + 1
      BY <3>4
    <3> QED
      BY <3>3, <3>4, <3>7, <3>8, <3>9, <2>2 DEF Sound
  <2> QED
    BY <2>4, <2>5
<1> QED
  BY <1>4, <1>5, <1>6

\* After the last round.
LEMMA RoundsEnd ==
  ASSUME NEW s \in Seq(Char), NEW after, Ran(s, after)
  PROVE  Sound(s, after[MaxUsers], MaxUsers)
<1> USE ConfigurationAssumption
<1> DEFINE Bad == {k \in 0..MaxUsers : ~Sound(s, after[k], k)}
<1>1. Bad \in SUBSET (0..MaxUsers) /\ 0 \notin Bad
  BY SoundAtFirst DEF Ran
<1>2. \A k \in 1..MaxUsers : k \in Bad => k - 1 \in Bad
  <2> SUFFICES ASSUME NEW k \in 1..MaxUsers, Sound(s, after[k - 1], k - 1)
               PROVE  Sound(s, after[k], k)
    <3>1. \A k \in 1..MaxUsers : k - 1 \in 0..MaxUsers
      OBVIOUS
    <3> QED
      BY <3>1
  <2>1. PICK j \in Nat : j = k - 1 /\ j + 1 = k /\ j \in 0..MaxUsers
    <3>1. k - 1 \in Nat /\ (k - 1) + 1 = k /\ k - 1 \in 0..MaxUsers
      OBVIOUS
    <3> QED
      BY <3>1
  <2>2. PICK r : r = after[j] /\ r \in Progress(s) /\ Sound(s, r, j)
    BY <2>1 DEF Ran
  <2>3. Sound(s, Round(s, r), j + 1)
    BY <2>2, RoundSound
  <2>4. after[k] = Round(s, r)
    BY <2>1, <2>2 DEF Ran
  <2> QED
    BY <2>1, <2>3, <2>4
<1>3. Bad = {}
  <2> HIDE DEF Bad
  <2> QED
    BY <1>1, <1>2, NoneFails
<1> QED
  BY <1>3

\* The fields that are read before the list is full.
First(s) == {f \in Fields(s) : Cardinality(FieldsBefore(s, f)) < MaxUsers}

\* The first fields, as many as are read, are those that have been read.
LEMMA FirstAreRead ==
  ASSUME NEW s \in Seq(Char), NEW at \in 0..Len(s), EndOf(s, at),
         Cardinality(Read(s, at)) <= MaxUsers,
         Cardinality(Read(s, at)) = MaxUsers \/ Read(s, at) = Fields(s)
  PROVE  First(s) = Read(s, at)
<1> USE ConfigurationAssumption
<1>1. \A F \in SUBSET Fields(s) : IsFiniteSet(F) /\ Cardinality(F) \in Nat
  BY FieldsFinite
<1>2. Read(s, at) \in SUBSET Fields(s) /\ \A f : FieldsBefore(s, f) \in SUBSET Fields(s)
  BY DEF Read, FieldsBefore
<1>3. PICK n \in Nat : n = Cardinality(Read(s, at)) /\ n <= MaxUsers
  BY <1>1, <1>2
<1>4. ASSUME NEW f \in Fields(s)
      PROVE  /\ f[1] \in Int /\ f[2] \in Int /\ f[1] <= f[2]
             /\ f[2] <= at \/ f[1] > at
  BY FieldOf, BeforeOrBehind
<1>5. ASSUME NEW f \in First(s), f \notin Read(s, at) PROVE FALSE
  <2>1. f \in Fields(s) /\ Cardinality(FieldsBefore(s, f)) < MaxUsers
    BY DEF First
  <2>2. f[1] > at
    BY <2>1, <1>4, <1>5 DEF Read
  <2>3. Read(s, at) \subseteq FieldsBefore(s, f)
    <3> SUFFICES ASSUME NEW g \in Fields(s), g[2] <= at PROVE g[1] < f[1]
      BY DEF Read, FieldsBefore
    <3> QED
      BY <2>1, <2>2, <1>4
  <2>4. n <= Cardinality(FieldsBefore(s, f))
    BY <2>3, <1>1, <1>2, <1>3, FS_Subset
  <2>5. n = MaxUsers
    BY <2>1, <1>3, <1>5
  <2>6. Cardinality(FieldsBefore(s, f)) \in Nat
    BY <1>1, <1>2
  <2> QED
    BY <2>1, <2>4, <2>5, <2>6
<1>6. ASSUME NEW f \in Read(s, at) PROVE f \in First(s)
  <2>1. f \in Fields(s) /\ f[2] <= at
    BY DEF Read
  <2>2. FieldsBefore(s, f) \subseteq Read(s, at) \ {f}
    <3> SUFFICES ASSUME NEW g \in Fields(s), g[1] < f[1] PROVE g[2] <= at /\ g # f
      BY DEF Read, FieldsBefore
    <3> QED
      BY <2>1, <1>4
  <2>3. IsFiniteSet(Read(s, at) \ {f}) /\ Cardinality(Read(s, at) \ {f}) = n - 1
    BY <1>1, <1>2, <1>3, FS_RemoveElement
  <2>4. Cardinality(FieldsBefore(s, f)) <= n - 1
    BY <2>2, <2>3, FS_Subset
  <2>5. Cardinality(FieldsBefore(s, f)) \in Nat
    BY <1>1, <1>2
  <2>6. Cardinality(FieldsBefore(s, f)) < MaxUsers
    BY <2>4, <2>5, <1>3
  <2> QED
    BY <2>1, <2>6 DEF First
<1> QED
  BY <1>5, <1>6

\* AllowedAreListed: whoever is allowed is named by a field of the list, and
\* the bot starts only if each of the first MaxUsers fields names somebody,
\* who is allowed then; for lists and limits of any length.
THEOREM AllowedAreListedCorrect == ConfigurationSpec => []AllowedAreListed
<1> USE ConfigurationAssumption
<1> DEFINE Inv == raw \in Seq(Char) /\ loaded \subseteq {parse_user_ids(raw)}
<1>1. raw \in Seq(Char) /\ loaded = {} => Inv
  OBVIOUS
<1>2. Inv /\ [config_load]_configurationVars => Inv'
  BY DEF config_load, configurationVars
<1>3. Inv => AllowedAreListed
  <2> SUFFICES ASSUME Inv PROVE AllowedAreListed
    OBVIOUS
  <2> DEFINE listed == {Number(n) : n \in {m \in NamesOf(raw) : \E f \in First(raw) : Names(raw, f, m)}}
             allowed == parse_user_ids(raw)
  <2>1. SUFFICES ASSUME Len(raw) < BufLen
                 PROVE  /\ Starts(allowed) <=>
                             First(raw) # {} /\ \A f \in First(raw) : \E n \in NamesOf(raw) : Names(raw, f, n)
                        /\ Starts(allowed) => \A user \in listed \cup ToSet(allowed) :
                             config_is_allowed(allowed, user) <=> user \in listed
    BY DEF AllowedAreListed, NamesOf, First
  <2>2. PICK s \in Seq(Char) : s = raw
    OBVIOUS
  <2>3. PICK after : Ran(s, after)
    BY <2>1, <2>2, ParserRuns
  <2>4. PICK r \in Progress(s) : r = after[MaxUsers] /\ Sound(s, r, MaxUsers)
    BY <2>3, RoundsEnd DEF Ran
  <2>5. allowed = IF r.ok THEN r.users ELSE <<>>
    BY <2>2, <2>3, <2>4 DEF Ran
  <2>6. ASSUME NEW f \in Fields(s)
        PROVE  /\ \A n \in NamesOf(s) : Names(s, f, n) => n = Value(s, f)
               /\ Value(s, f).digits # <<>> =>
                    Value(s, f) \in NamesOf(s) /\ Names(s, f, Value(s, f))
               /\ \A n \in NamesOf(s) : n.digits # <<>>
    BY FieldNames
  <2>7. First(s) \subseteq Fields(s)
    BY DEF First
  <2> HIDE DEF allowed
  <2>8. CASE ~r.ok
    <3>1. PICK f \in Fields(s) : Value(s, f).digits = <<>> /\ Cardinality(FieldsBefore(s, f)) < MaxUsers
      BY <2>4, <2>8 DEF Sound
    <3>2. f \in First(s)
      BY <3>1 DEF First
    <3>3. ~ \E n \in NamesOf(s) : Names(s, f, n)
      BY <3>1, <2>6
    <3>4. ~Starts(allowed)
      BY <2>5, <2>8 DEF Starts
    <3> QED
      BY <3>2, <3>3, <3>4, <2>2
  <2>9. CASE r.ok
    <3>1. r.at \in 0..Len(s) /\ r.users \in Seq(UserIds(s)) /\ allowed = r.users
      BY <2>5, <2>9 DEF Progress
    <3>2. First(s) = Read(s, r.at)
      BY <3>1, <2>4, <2>9, FirstAreRead DEF Sound
    <3>3. \A f \in First(s) : Value(s, f).digits # <<>>
      BY <3>2, <2>4, <2>9 DEF Sound
    <3>4. ToSet(allowed) = {Number(Value(s, f)) : f \in First(s)}
      BY <3>1, <3>2, <2>4, <2>9 DEF Sound
    <3>5. \A f \in First(s) : \E n \in NamesOf(s) : Names(s, f, n)
      BY <3>3, <2>6, <2>7
    <3>6. Starts(allowed) <=> First(s) # {}
      <4>1. allowed = <<>> <=> ToSet(allowed) = {}
        <5>1. PICK n \in Nat : n = Len(allowed) /\ DOMAIN allowed = 1..n
          BY <3>1
        <5>2. allowed = <<>> <=> n = 0
          BY <5>1, <3>1, EmptySeq
        <5>3. ToSet(allowed) = {} <=> n = 0
          <6>1. n # 0 => 1 \in 1..n
            OBVIOUS
          <6>2. n = 0 => 1..n = {}
            OBVIOUS
          <6> QED
            BY <5>1, <6>1, <6>2 DEF ToSet
        <5> QED
          BY <5>2, <5>3
      <4>2. ToSet(allowed) = {} <=> First(s) = {}
        BY <3>4
      <4> QED
        BY <4>1, <4>2 DEF Starts
    <3>7. listed = ToSet(allowed)
      <4>1. \A f \in First(s) : \A n \in NamesOf(s) : Names(s, f, n) => n = Value(s, f)
        BY <2>6, <2>7
      <4>2. \A f \in First(s) : Value(s, f) \in NamesOf(s) /\ Names(s, f, Value(s, f))
        BY <3>3, <2>6, <2>7
      <4>3. {m \in NamesOf(s) : \E f \in First(s) : Names(s, f, m)} = {Value(s, f) : f \in First(s)}
        BY <4>1, <4>2
      <4> QED
        BY <4>3, <3>4, <2>2
    <3>8. \A user : config_is_allowed(allowed, user) <=> user \in ToSet(allowed)
      BY DEF config_is_allowed, ToSet
    <3> HIDE DEF listed
    <3> QED
      BY <3>5, <3>6, <3>7, <3>8, <2>2
  <2> QED
    BY <2>8, <2>9
<1> HIDE DEF Inv
<1> QED
  BY <1>1, <1>2, <1>3, PTL DEF ConfigurationSpec
=============================================================================
