---------------------------- MODULE FaultsProofs ----------------------------
(***************************************************************************)
(* What faults cost: every file that is lost was lost by a fault, and      *)
(* without faults the tables, the storage and the answers agree.           *)
(***************************************************************************)
EXTENDS PipelineProofs, FiniteSetTheorems

-----------------------------------------------------------------------------
(* Counting.                                                               *)

LEMMA CountKept ==
  ASSUME NEW S, IsFiniteSet(S), NEW T \in SUBSET S
  PROVE  /\ IsFiniteSet(T) /\ Cardinality(S) \in Nat /\ Cardinality(T) \in Nat
         /\ Cardinality(T) <= Cardinality(S)
BY FS_Subset, FS_CardinalityType

LEMMA CountOneMore ==
  ASSUME NEW S, IsFiniteSet(S), NEW x, NEW T \in SUBSET (S \cup {x})
  PROVE  /\ IsFiniteSet(T) /\ Cardinality(S) \in Nat /\ Cardinality(T) \in Nat
         /\ Cardinality(T) <= Cardinality(S) + 1
<1> DEFINE U == S \cup {x}
<1>1. /\ IsFiniteSet(U) /\ Cardinality(S) \in Nat
      /\ Cardinality(U) <= Cardinality(S) + 1
  <2>1. Cardinality(S) \in Nat
    BY FS_CardinalityType
  <2>2. /\ IsFiniteSet(U)
        /\ Cardinality(U) = IF x \in S THEN Cardinality(S) ELSE Cardinality(S) + 1
    BY FS_AddElement, Zenon
  <2> HIDE DEF U
  <2> QED
    BY <2>1, <2>2
<1>2. /\ IsFiniteSet(T) /\ Cardinality(T) \in Nat /\ Cardinality(U) \in Nat
      /\ Cardinality(T) <= Cardinality(U)
  BY <1>1, CountKept
<1> HIDE DEF U
<1> QED
  BY <1>1, <1>2

LEMMA CountOneLess ==
  ASSUME NEW S, IsFiniteSet(S), NEW x \in S, NEW T \in SUBSET (S \ {x})
  PROVE  /\ IsFiniteSet(T) /\ Cardinality(S) \in Nat /\ Cardinality(T) \in Nat
         /\ Cardinality(T) <= Cardinality(S) - 1
<1>1. /\ IsFiniteSet(S \ {x}) /\ Cardinality(S) \in Nat
      /\ Cardinality(S \ {x}) = Cardinality(S) - 1
  BY FS_RemoveElement, FS_CardinalityType
<1>2. /\ IsFiniteSet(T) /\ Cardinality(T) \in Nat
      /\ Cardinality(T) <= Cardinality(S \ {x})
  BY <1>1, CountKept
<1> QED
  BY <1>1, <1>2

\* There are finitely many seconds.
LEMMA TextsAreFinite == IsFiniteSet(LostTexts) /\ IsFiniteSet(LostTexts')
<1>1. IsFiniteSet(Stamps)
  BY FS_Interval, TablesAssumption DEF Stamps
<1>2. LostTexts \in SUBSET Stamps /\ LostTexts' \in SUBSET Stamps
  BY DEF LostTexts
<1> QED
  BY <1>1, <1>2, FS_Subset

\* Only a failed call can leave a file that was to be removed.
LEMMA DeleteFileCost ==
  ASSUME NEW old, NEW o \in DeleteFile(old), o.left # None
  PROVE  o.cost = 1
BY DEF DeleteFile, LocalDelete, SupabaseDelete, Done, Failed, Refused

\* Only a failed call reports that a file was not saved.
LEMMA SaveFileCost ==
  ASSUME NEW old, NEW new, NEW o \in SaveFile(old, new)
  PROVE  (~o.ok => o.cost = 1) /\ (o.cost = 0 => o.left = new)
BY DEF SaveFile, LocalSave, SupabaseSave, Done, Failed

\* A row that may be inserted is, unless the call fails.
LEMMA InsertCost ==
  ASSUME NEW t, NEW row, NEW o \in RepoInsert(t, row), Unique(t, row), ~o.ok
  PROVE  o.cost = 1
BY DEF RepoInsert, SqliteInsert, PostgresInsert, Done, Failed

\* Marking fails or sets the name.
LEMMA MarkOcrCost ==
  ASSUME NEW t, NEW i, NEW ocr, NEW o \in RepoMarkOcrComplete(t, i, ocr), o.cost = 0
  PROVE  o.left = WithOcr(t, i, ocr)
BY DEF RepoMarkOcrComplete, SqliteMarkOcrDone, PostgresMarkOcrDone, Done, Failed

\* A row that is there is deleted, unless the call fails.
LEMMA DeleteCost ==
  ASSUME NEW t, NEW i, ById(t, i) # {}, NEW o \in BackendDelete(t, i)
  PROVE  (~o.ok => o.cost = 1) /\ (o.ok => o.left = Without(t, i))
         /\ (o.cost = 0 => o.left = Without(t, i))
BY DEF BackendDelete, SqliteDelete, PostgresDelete, Done, Failed

-----------------------------------------------------------------------------
(* The name of the text a request works on.                                *)

LEMMA LookedUpStep ==
  ASSUME StorageInv, LookedUp, [Next]_vars PROVE LookedUp'
<1> USE DEF LookedUp, WithRow
<1>0. job \in Job
  BY DEF StorageInv, TablesInv, TypeInv, TypeOK
<1>1. CASE UNCHANGED vars
  BY <1>1 DEF vars
<1>2. CASE InsertRow
  <2>0. PICK row : row = [id |-> lastId + 1, hash |-> job.hash, name |-> job.name, ocr |-> None]
    OBVIOUS
  <2>1. PICK o \in RepoInsert(files, row) :
          /\ files' = o.left
          /\ IF o.ok THEN Continue("extract", [job EXCEPT !.id = row.id])
                     ELSE Answer("db_error", 0)
    BY <1>2, <2>0 DEF InsertRow
  <2>2. CASE o.ok
    <3>1. row \in files' /\ row.ocr = None
      BY <2>0, <2>1, <2>2, InsertOutcomes
    <3>2. job.ocr = None
      BY <1>2 DEF InsertRow, StorageInv, OwnBuffers, BeforeRow
    <3>3. job'.id = row.id /\ job'.ocr = None
      BY <1>0, <2>1, <2>2, <3>2 DEF Continue, Job
    <3> QED
      BY <3>1, <3>3
  <2>3. CASE ~o.ok
    BY <2>1, <2>3 DEF Answer
  <2> QED
    BY <2>2, <2>3
<1>3. CASE MarkOcr \/ Record \/ DeleteRow
  BY <1>3 DEF MarkOcr, Record, DeleteRow, Continue, Answer
<1>4. CASE Arrive \/ Crash
  BY <1>4 DEF Arrive, Upload, Retry, RetryWithModel, Delete, Request, StartJob, Crash, Kill
<1>5. CASE FindByHash \/ SaveOriginal \/ NotFound \/ ReadText
             \/ ParseReceipt \/ ParseAgain \/ ParseWithModel
  BY <1>5 DEF FindByHash, SaveOriginal, NotFound, ReadText, ParseReceipt, ParseAgain,
     ParseWithModel, Parsed, Continue, Answer
<1>6. CASE RunOcr \/ SaveText \/ ReadOriginal \/ ExtractWithModel \/ UnlinkOriginal \/ UnlinkText
  <2>1. /\ UNCHANGED files
        /\ pc' = "idle" \/ (job'.id = job.id /\ job'.ocr = job.ocr)
        /\ pc \in WithRow \ {"parse", "mark_parsing"}
    BY <1>0, <1>6 DEF RunOcr, SaveText, ReadOriginal, ExtractWithModel, UnlinkOriginal,
       UnlinkText, Extracted, Continue, Answer, tables, Job
  <2> QED
    BY <2>1
<1>7. CASE FindForRetry \/ FindForModel \/ FindForDelete
  <2>1. /\ UNCHANGED files
        /\ pc' = "idle" \/ \E r \in ById(files, job.id) : job'.id = job.id /\ job'.ocr = r.ocr
    BY <1>0, <1>7 DEF FindForRetry, FindForModel, FindForDelete, Continue, Answer, tables, Job
  <2> QED
    BY <2>1 DEF ById
<1> QED
  BY <1>1, <1>2, <1>3, <1>4, <1>5, <1>6, <1>7
     DEF Next, Step, RecordReceipt, RecordRetry, RecordWithModel

-----------------------------------------------------------------------------
(* A fault loses at most one file.                                         *)

LEMMA LeakInit == Init => LeakInv
<1> SUFFICES ASSUME Init PROVE LeakInv
  OBVIOUS
<1>1. StorageInv
  BY StorageInit
<1>2. LostOriginals = {} /\ LostTexts = {}
  BY DEF Init, LostOriginals, LostTexts
<1>3. Owed = 0 /\ OnTheWay = 0 /\ faults = 0
  BY DEF Init, Owed, OnTheWay
<1>4. LeakBound
  BY <1>2, <1>3, FS_EmptySet DEF LeakBound
<1>5. LookedUp
  BY DEF Init, LookedUp, WithRow
<1> QED
  BY <1>1, <1>4, <1>5 DEF LeakInv

\* What is added up is numbers.
LEMMA LeakTyped ==
  ASSUME LeakInv
  PROVE  /\ IsFiniteSet(LostOriginals) /\ IsFiniteSet(LostTexts)
         /\ Cardinality(LostOriginals) \in Nat /\ Cardinality(LostTexts) \in Nat
         /\ Owed \in Nat /\ OnTheWay \in {0, 1} /\ faults \in Nat
         /\ Cardinality(LostOriginals) + Cardinality(LostTexts) + Owed <= faults + OnTheWay
<1>1. IsFiniteSet(LostOriginals) /\ IsFiniteSet(LostTexts)
  BY TextsAreFinite DEF LeakInv, LeakBound
<1>2. Cardinality(LostOriginals) \in Nat /\ Cardinality(LostTexts) \in Nat
  BY <1>1, FS_CardinalityType
<1>3. Owed \in Nat /\ OnTheWay \in {0, 1}
  BY DEF Owed, OnTheWay
<1>4. faults \in Nat
  BY DEF LeakInv, StorageInv, TablesInv, TypeInv, TypeOK
<1> QED
  BY <1>1, <1>2, <1>3, <1>4 DEF LeakInv, LeakBound

\* The sum after a step, of numbers that have names.
LEMMA LeakCount ==
  ASSUME IsFiniteSet(LostOriginals'),
         NEW m, m = Cardinality(LostOriginals'), NEW n, n = Cardinality(LostTexts'),
         NEW o, o = Owed', NEW w, w = OnTheWay', NEW f, f = faults',
         m + n + o <= f + w
  PROVE  LeakBound'
BY DEF LeakBound

\* A step that moves no file and no row.
LEMMA LeakUnmoved ==
  ASSUME LeakInv, UNCHANGED <<files, originals, texts>>,
         NEW o \in Nat, o = Owed', NEW w \in {0, 1}, w = OnTheWay', NEW f \in Nat, f = faults',
         o + OnTheWay + faults <= Owed + w + f
  PROVE  LeakBound'
<1>1. LostOriginals' = LostOriginals /\ LostTexts' = LostTexts
  BY DEF LostOriginals, LostTexts
<1>2. Cardinality(LostOriginals) + Cardinality(LostTexts) + o <= f + w
  BY LeakTyped
<1> QED
  BY <1>1, <1>2, LeakTyped, LeakCount

\* Calls between which nothing is on its way and nothing is owed.
Plain == PCs \ {"save_file", "insert", "mark_ocr", "unlink_text", "delete_row"}

LEMMA LeakPlain ==
  ASSUME LeakInv, UNCHANGED <<files, originals, texts>>,
         NEW c \in Nat, faults' = faults + c, pc \in Plain, pc' \in Plain
  PROVE  LeakBound'
<1>1. Owed = 0 /\ OnTheWay = 0 /\ Owed' = 0 /\ OnTheWay' = 0
  BY DEF Owed, OnTheWay, Plain
<1>2. faults + c \in Nat
  BY LeakTyped
<1>3. 0 + OnTheWay + faults <= Owed + 0 + (faults + c)
  BY <1>1, LeakTyped
<1>4. UNCHANGED files /\ UNCHANGED originals /\ UNCHANGED texts
  OBVIOUS
<1> QED
  BY <1>1, <1>2, <1>3, <1>4, LeakUnmoved

LEMMA LeakFindByHash == ASSUME LeakInv, FindByHash PROVE LeakBound'
<1>1. UNCHANGED <<files, originals, texts>> /\ Owed = 0 /\ OnTheWay = 0
  BY DEF FindByHash, Owed, OnTheWay, tables, storage
<1>2. OnTheWay' = 0 /\ faults \in Nat
  BY LeakTyped DEF FindByHash, Continue, Answer, OnTheWay
<1>3. \/ Owed' = 0 /\ faults' = faults
      \/ Owed' \in {0, 1} /\ faults' = faults + 1
  <2>1. CASE Charge(0) /\ pc' = "idle"
    BY <1>2, <2>1 DEF Owed, Charge
  <2>2. CASE ByHash(files, job.hash) = {} /\ Continue("save_file", job) /\ Charge(0)
    BY <1>1, <1>2, <2>2 DEF Continue, Owed, Charge
  <2>3. CASE Continue("save_file", job) /\ Charge(1)
    BY <2>3 DEF Continue, Owed, Charge
  <2> QED
    BY <2>1, <2>2, <2>3 DEF FindByHash, Answer
<1>4. PICK o, f : o = Owed' /\ f = faults'
  OBVIOUS
<1>5. o \in Nat /\ f \in Nat /\ o + OnTheWay + faults <= Owed + 0 + f
  BY <1>1, <1>2, <1>3, <1>4
<1>6. UNCHANGED files /\ UNCHANGED originals /\ UNCHANGED texts
  BY <1>1
<1> QED
  BY <1>2, <1>4, <1>5, <1>6, LeakUnmoved

LEMMA LeakSaveOriginal == ASSUME LeakInv, SaveOriginal PROVE LeakBound'
<1> DEFINE name(s) == [at |-> s, ext |-> job.ext]
<1>1. PICK s \in Stamps :
        \E o \in SaveFile(originals[name(s)], job.data) :
             /\ Charge(o.cost)
             /\ originals' = [originals EXCEPT ![name(s)] = o.left]
             /\ IF o.ok THEN Continue("insert", [job EXCEPT !.name = name(s)])
                        ELSE Answer("save_failed", 0)
  BY DEF SaveOriginal
<1>2. PICK o \in SaveFile(originals[name(s)], job.data) :
        /\ Charge(o.cost)
        /\ originals' = [originals EXCEPT ![name(s)] = o.left]
        /\ IF o.ok THEN Continue("insert", [job EXCEPT !.name = name(s)])
                   ELSE Answer("save_failed", 0)
  BY <1>1
<1>3. UNCHANGED <<files, texts>> /\ pc = "save_file" /\ OnTheWay = 0
  BY DEF SaveOriginal, tables, OnTheWay
<1>4. faults' = faults + o.cost /\ o.cost \in {0, 1} /\ (~o.ok => o.cost = 1)
  BY <1>2, SaveOutcomes, SaveFileCost DEF Charge
<1>5. LostTexts' = LostTexts /\ LostOriginals' \in SUBSET (LostOriginals \cup {name(s)})
  BY <1>2, <1>3 DEF LostTexts, LostOriginals, LeakInv, StorageInv, TablesInv, TypeInv, TypeOK
<1> HIDE DEF name
<1>6. /\ IsFiniteSet(LostOriginals') /\ Cardinality(LostOriginals') \in Nat
      /\ Cardinality(LostOriginals') <= Cardinality(LostOriginals) + 1
  BY <1>5, CountOneMore, LeakTyped
<1>7. Owed' = 0
  BY <1>2 DEF Owed, Continue, Answer
<1>8. Owed + OnTheWay' + o.cost >= 1 /\ OnTheWay' \in Nat
  <2>1. OnTheWay' \in Nat
    BY DEF OnTheWay
  <2>2. CASE ~o.ok
    BY <1>4, <2>1, <2>2, LeakTyped
  <2>3. CASE o.ok /\ ByHash(files, job.hash) # {}
    <3>1. Owed = 1
      BY <1>3, <2>3 DEF Owed
    <3> QED
      BY <1>4, <2>1, <3>1
  <2>4. CASE o.ok /\ ByHash(files, job.hash) = {}
    <3>1. pc' = "insert" /\ job'.hash = job.hash
      BY <1>2, <2>4 DEF Continue, LeakInv, StorageInv, TablesInv, TypeInv, TypeOK, Job
    <3>2. OnTheWay' = 1
      BY <1>3, <2>4, <3>1 DEF OnTheWay, ByHash
    <3> QED
      BY <1>4, <3>2, LeakTyped
  <2> QED
    BY <2>2, <2>3, <2>4
<1>9. Cardinality(LostOriginals') + Cardinality(LostTexts') + Owed' <= faults' + OnTheWay'
  BY <1>3, <1>4, <1>5, <1>6, <1>7, <1>8, LeakTyped
<1> QED
  BY <1>6, <1>9 DEF LeakBound

\* Counts of the lost files before and after a step, where the sets grow by at
\* most one file each.
LEMMA LeakGrowth ==
  ASSUME LeakInv, NEW a \in {0, 1}, NEW b \in {0, 1}, NEW x, NEW y,
         LostOriginals' \in SUBSET (IF a = 1 THEN LostOriginals \cup {x} ELSE LostOriginals),
         LostTexts' \in SUBSET (IF b = 1 THEN LostTexts \cup {y} ELSE LostTexts)
  PROVE  /\ IsFiniteSet(LostOriginals')
         /\ \E m, n \in Nat : /\ m = Cardinality(LostOriginals') /\ n = Cardinality(LostTexts')
                              /\ m <= Cardinality(LostOriginals) + a
                              /\ n <= Cardinality(LostTexts) + b
<1>1. /\ IsFiniteSet(LostOriginals) /\ IsFiniteSet(LostTexts)
      /\ Cardinality(LostOriginals) \in Nat /\ Cardinality(LostTexts) \in Nat
  BY LeakTyped
<1>2. PICK T : T = LostOriginals'
  OBVIOUS
<1>3. PICK U : U = LostTexts'
  OBVIOUS
<1>4. /\ IsFiniteSet(T) /\ Cardinality(T) \in Nat
      /\ Cardinality(T) <= Cardinality(LostOriginals) + a
  <2>1. CASE a = 1
    BY <1>1, <1>2, <2>1, CountOneMore
  <2>2. CASE a = 0
    BY <1>1, <1>2, <2>2, CountKept
  <2> QED
    BY <2>1, <2>2
<1>5. Cardinality(U) \in Nat /\ Cardinality(U) <= Cardinality(LostTexts) + b
  <2>1. CASE b = 1
    BY <1>1, <1>3, <2>1, CountOneMore
  <2>2. CASE b = 0
    BY <1>1, <1>3, <2>2, CountKept
  <2> QED
    BY <2>1, <2>2
<1> QED
  BY <1>2, <1>3, <1>4, <1>5

LEMMA LeakInsertRow == ASSUME LeakInv, InsertRow PROVE LeakBound'
<1> DEFINE row == [id |-> lastId + 1, hash |-> job.hash, name |-> job.name, ocr |-> None]
<1>1. PICK o \in RepoInsert(files, row) :
        /\ Charge(o.cost)
        /\ files' = o.left
        /\ IF o.ok THEN Continue("extract", [job EXCEPT !.id = row.id])
                   ELSE Answer("db_error", 0)
  BY DEF InsertRow
<1>2. /\ o.left = files \/ o.left = files \cup {row}
      /\ o.ok => o.left = files \cup {row}
      /\ o.cost \in {0, 1}
  BY InsertOutcomes
<1>3. pc = "insert" /\ UNCHANGED originals /\ UNCHANGED texts
  BY DEF InsertRow, storage
<1>4. Owed = 0 /\ Owed' = 0 /\ OnTheWay' = 0
  BY <1>1, <1>3 DEF Owed, OnTheWay, Continue, Answer
<1>5. PICK f : f = faults' /\ f = faults + o.cost
  BY <1>1 DEF Charge
<1>6. /\ job.name \in Name /\ originals[job.name] # None
      /\ \A r \in files : r.name # job.name
  BY <1>3, TablesAssumption
     DEF LeakInv, StorageInv, NewUpload, TablesInv, TypeInv, JobTyped, BeforeRow, Cell, Data
<1>7. CASE files' = files \cup {row}
  <2>1. job.name \in LostOriginals
    BY <1>6 DEF LostOriginals
  <2>2. LostOriginals' \in SUBSET (LostOriginals \ {job.name})
    BY <1>3, <1>7 DEF LostOriginals
  <2>3. LostTexts' \in SUBSET LostTexts
    BY <1>3, <1>7 DEF LostTexts
  <2>4. PICK T : T = LostOriginals'
    OBVIOUS
  <2>5. PICK U : U = LostTexts'
    OBVIOUS
  <2>6. /\ IsFiniteSet(T) /\ Cardinality(T) \in Nat
        /\ Cardinality(T) <= Cardinality(LostOriginals) - 1
    BY <2>1, <2>2, <2>4, CountOneLess, LeakTyped
  <2>7. Cardinality(U) \in Nat /\ Cardinality(U) <= Cardinality(LostTexts)
    BY <2>3, <2>5, CountKept, LeakTyped
  <2>8. Cardinality(T) + Cardinality(U) + 0 <= f + 0
    BY <1>2, <1>4, <1>5, <2>6, <2>7, LeakTyped
  <2> QED
    BY <1>4, <1>5, <2>4, <2>5, <2>6, <2>8, LeakCount
<1>8. CASE files' = files
  <2>1. CASE files = files \cup {row}
    BY <1>7, <1>8, <2>1
  <2>2. CASE ~o.ok
    <3>1. 0 + OnTheWay + faults <= Owed + 0 + f
      <4>1. CASE Unique(files, row)
        BY <1>2, <1>4, <1>5, <2>2, <4>1, InsertCost, LeakTyped
      <4>2. CASE ~Unique(files, row)
        <5>1. ByHash(files, job.hash) # {}
          BY <1>6, <4>2 DEF Unique, ByHash
        <5>2. OnTheWay = 0
          BY <1>3, <5>1 DEF OnTheWay
        <5> QED
          BY <1>2, <1>4, <1>5, <5>2, LeakTyped
      <4> QED
        BY <4>1, <4>2
    <3>2. f \in Nat
      BY <1>2, <1>5, LeakTyped
    <3> QED
      BY <1>3, <1>4, <1>5, <1>8, <3>1, <3>2, LeakUnmoved
  <2> QED
    BY <1>1, <1>2, <1>8, <2>1, <2>2
<1> QED
  BY <1>1, <1>2, <1>7, <1>8

LEMMA LeakSaveText == ASSUME LeakInv, SaveText PROVE LeakBound'
<1> DEFINE at == OcrName(job.name)
<1>1. PICK o \in SaveFile(texts[at], job.text) :
        Charge(o.cost) /\ texts' = [texts EXCEPT ![at] = o.left]
  BY DEF SaveText
<1>2. PICK f : f = faults' /\ f = faults + o.cost
  BY <1>1 DEF Charge
<1>3. f \in Nat /\ f >= faults
  BY <1>2, SaveOutcomes, LeakTyped
<1>4. /\ UNCHANGED files /\ UNCHANGED originals /\ UNCHANGED job
      /\ pc = "save_text" /\ pc' = "mark_ocr"
  BY DEF SaveText, Continue, tables
<1>5. Owed = 0 /\ Owed' = 0 /\ OnTheWay = 0
  BY <1>4 DEF Owed, OnTheWay
<1>6. LostOriginals' \in SUBSET LostOriginals /\ LostTexts' \in SUBSET (LostTexts \cup {at})
  BY <1>1, <1>4 DEF LostOriginals, LostTexts, LeakInv, StorageInv, TablesInv, TypeInv, TypeOK
<1>7. PICK b \in {0, 1} : b = IF at \in LostTexts' THEN 1 ELSE 0
  OBVIOUS
<1>8. OnTheWay' = b
  BY <1>4, <1>7 DEF OnTheWay
<1>9. LostTexts' \in SUBSET (IF b = 1 THEN LostTexts \cup {at} ELSE LostTexts)
  BY <1>6, <1>7
<1> HIDE DEF at
<1>10. /\ IsFiniteSet(LostOriginals')
       /\ \E m, n \in Nat : /\ m = Cardinality(LostOriginals') /\ n = Cardinality(LostTexts')
                            /\ m <= Cardinality(LostOriginals) + 0
                            /\ n <= Cardinality(LostTexts) + b
  BY <1>6, <1>9, LeakGrowth
<1>11. PICK m, n \in Nat : /\ m = Cardinality(LostOriginals') /\ n = Cardinality(LostTexts')
                           /\ m <= Cardinality(LostOriginals) + 0
                           /\ n <= Cardinality(LostTexts) + b
  BY <1>10
<1>12. m + n + 0 <= f + b
  BY <1>3, <1>5, <1>7, <1>11, LeakTyped
<1> QED
  BY <1>2, <1>5, <1>8, <1>10, <1>11, <1>12, LeakCount

LEMMA LeakMarkOcr == ASSUME LeakInv, MarkOcr PROVE LeakBound'
<1> DEFINE at == OcrName(job.name)
<1>1. PICK o \in RepoMarkOcrComplete(files, job.id, at) : Charge(o.cost) /\ files' = o.left
  BY DEF MarkOcr
<1>2. PICK f : f = faults' /\ f = faults + o.cost
  BY <1>1 DEF Charge
<1>3. o.cost \in {0, 1} /\ o.left \in {files, WithOcr(files, job.id, at)}
  BY MarkOcrOutcomes
<1>4. /\ UNCHANGED originals /\ UNCHANGED texts
      /\ pc = "mark_ocr" /\ pc' = "parse"
  BY DEF MarkOcr, Continue, storage
<1>5. Owed = 0 /\ Owed' = 0 /\ OnTheWay' = 0
  BY <1>4 DEF Owed, OnTheWay
<1>6. PICK r \in files : r.id = job.id /\ r.name = job.name
  BY <1>4, RowOfJob DEF LeakInv, WithRow
<1>7. at \in Stamps /\ r.ocr \in {None, at} /\ files \in SUBSET FileRow
  BY <1>6, OcrNameType
     DEF LeakInv, StorageInv, OwnBlobs, TablesInv, TypeInv, TypeOK, FileRow, OcrName
<1>8. CASE files' = WithOcr(files, job.id, at)
  <2>1. /\ \A q \in files' : \E u \in files : u.name = q.name
        /\ \A u \in files : \E q \in files' :
             /\ u.name = q.name
             /\ q.ocr = (IF u.id = job.id THEN at ELSE u.ocr)
    BY <1>7, <1>8, WithOcrKeeps
  <2>2. \A u \in files : u.id = job.id => u.ocr \in {None, at}
    BY <1>6, <1>7 DEF LeakInv, StorageInv, TablesInv, TablesSound
  <2>3. None \notin Stamps
    BY TablesAssumption DEF Stamps
  <2> HIDE DEF at
  <2>4. LostOriginals' \in SUBSET LostOriginals
    BY <1>4, <2>1 DEF LostOriginals
  <2>5. LostTexts' \in SUBSET (LostTexts \ {at})
    <3> SUFFICES ASSUME NEW s \in LostTexts' PROVE s \in LostTexts \ {at}
      OBVIOUS
    <3>1. s \in Stamps /\ texts[s] # None /\ \A q \in files' : q.ocr # s
      BY <1>4 DEF LostTexts
    <3>2. s # at
      BY <1>6, <2>1, <3>1
    <3>3. \A u \in files : u.ocr # s
      BY <2>1, <2>2, <2>3, <3>1, <3>2
    <3> QED
      BY <3>1, <3>2, <3>3 DEF LostTexts
  <2>6. PICK T : T = LostOriginals'
    OBVIOUS
  <2>7. PICK U : U = LostTexts'
    OBVIOUS
  <2>8. /\ IsFiniteSet(T) /\ Cardinality(T) \in Nat
        /\ Cardinality(T) <= Cardinality(LostOriginals)
    BY <2>4, <2>6, CountKept, LeakTyped
  <2>9. Cardinality(U) \in Nat /\ Cardinality(U) + OnTheWay <= Cardinality(LostTexts)
    <3>1. CASE at \in LostTexts
      BY <2>5, <2>7, <3>1, CountOneLess, LeakTyped
    <3>2. CASE at \notin LostTexts
      <4>1. OnTheWay = 0
        BY <1>4, <3>2 DEF OnTheWay, at
      <4>2. Cardinality(U) \in Nat /\ Cardinality(U) <= Cardinality(LostTexts)
        BY <2>5, <2>7, CountKept, LeakTyped
      <4> QED
        BY <4>1, <4>2
    <3> QED
      BY <3>1, <3>2
  <2>10. Cardinality(T) + Cardinality(U) + 0 <= f + 0
    BY <1>2, <1>3, <1>5, <2>8, <2>9, LeakTyped
  <2> QED
    BY <1>2, <1>5, <2>6, <2>7, <2>8, <2>10, LeakCount
<1>9. CASE files' = files /\ o.cost = 1
  <2>1. f \in Nat /\ 0 + OnTheWay + faults <= Owed + 0 + f
    BY <1>2, <1>5, <1>9, LeakTyped
  <2> QED
    BY <1>2, <1>4, <1>5, <1>9, <2>1, LeakUnmoved
<1> QED
  BY <1>1, <1>3, <1>8, <1>9, MarkOcrCost

LEMMA LeakUnlinkOriginal == ASSUME LeakInv, UnlinkOriginal PROVE LeakBound'
<1>1. PICK o \in DeleteFile(originals[job.name]) :
        Charge(o.cost) /\ originals' = [originals EXCEPT ![job.name] = o.left]
  BY DEF UnlinkOriginal
<1>2. PICK f : f = faults' /\ f = faults + o.cost
  BY <1>1 DEF Charge
<1>3. /\ UNCHANGED files /\ UNCHANGED texts /\ UNCHANGED job /\ pc = "unlink_original"
      /\ pc' = IF job.ocr = None THEN "delete_row" ELSE "unlink_text"
  BY DEF UnlinkOriginal, Continue, tables
<1>4. Owed = 0 /\ OnTheWay = 0 /\ OnTheWay' = 0
  BY <1>3 DEF Owed, OnTheWay
<1>5. PICK r \in files : r.name = job.name
  BY <1>3, RowOfJob DEF LeakInv, WithRow
<1>6. originals \in [Name -> Cell] /\ job.name \in Name
  BY <1>3 DEF LeakInv, StorageInv, TablesInv, TypeInv, TypeOK, JobTyped, WithRow
<1>7. LostOriginals' = LostOriginals /\ LostTexts' = LostTexts
  BY <1>1, <1>3, <1>5, <1>6 DEF LostOriginals, LostTexts
<1>8. PICK d : d = Owed' /\ d \in {0, 1} /\ d <= o.cost
  <2>1. originals'[job.name] = o.left
    BY <1>1, <1>6
  <2>2. Owed' = IF o.left # None THEN 1 ELSE 0
    BY <1>3, <2>1 DEF Owed
  <2> QED
    BY <2>2, DeleteFileCost, DeleteFileOutcomes
<1>9. Cardinality(LostOriginals) + Cardinality(LostTexts) + d <= f + 0
  BY <1>2, <1>4, <1>8, DeleteFileOutcomes, LeakTyped
<1> QED
  BY <1>2, <1>4, <1>7, <1>8, <1>9, LeakTyped, LeakCount

LEMMA LeakUnlinkText == ASSUME LeakInv, UnlinkText PROVE LeakBound'
<1>1. PICK o \in DeleteFile(texts[job.ocr]) :
        Charge(o.cost) /\ texts' = [texts EXCEPT ![job.ocr] = o.left]
  BY DEF UnlinkText
<1>2. PICK f : f = faults' /\ f = faults + o.cost
  BY <1>1 DEF Charge
<1>3. /\ UNCHANGED files /\ UNCHANGED originals /\ UNCHANGED job
      /\ pc = "unlink_text" /\ pc' = "delete_row"
  BY DEF UnlinkText, Continue, tables
<1>4. OnTheWay = 0 /\ OnTheWay' = 0
  BY <1>3 DEF OnTheWay
<1>5. PICK r \in files : r.ocr = job.ocr
  BY <1>3 DEF LeakInv, LookedUp, WithRow
<1>6. texts \in [Stamps -> Cell] /\ job.ocr \in Stamps
  BY <1>3 DEF LeakInv, StorageInv, TablesInv, TypeInv, TypeOK, JobTyped
<1>7. LostOriginals' = LostOriginals /\ LostTexts' = LostTexts
  BY <1>1, <1>3, <1>5, <1>6 DEF LostOriginals, LostTexts
<1>8. PICK d : d = Owed' /\ d \in Nat /\ d <= Owed + o.cost
  <2>1. texts'[job.ocr] = o.left
    BY <1>1, <1>6
  <2>2. PICK a : a = IF originals[job.name] # None THEN 1 ELSE 0
    OBVIOUS
  <2>3. PICK b : b = IF job.ocr # None /\ o.left # None THEN 1 ELSE 0
    OBVIOUS
  <2>4. Owed' = 0 + a + b /\ Owed = a
    BY <1>3, <2>1, <2>2, <2>3 DEF Owed
  <2>5. b <= o.cost
    BY <2>3, DeleteFileCost, DeleteFileOutcomes
  <2> QED
    BY <2>2, <2>3, <2>4, <2>5, DeleteFileOutcomes
<1>9. Cardinality(LostOriginals) + Cardinality(LostTexts) + d <= f + 0
  BY <1>2, <1>4, <1>8, DeleteFileOutcomes, LeakTyped
<1> QED
  BY <1>2, <1>4, <1>7, <1>8, <1>9, LeakTyped, LeakCount

LEMMA LeakDeleteRow == ASSUME LeakInv, DeleteRow PROVE LeakBound'
<1>1. PICK o \in BackendDelete(files, job.id) :
        /\ Charge(o.cost)
        /\ files' = o.left
        /\ Answer(IF o.ok THEN "deleted" ELSE "delete_failed", job.id)
  BY DEF DeleteRow
<1>2. PICK f : f = faults' /\ f = faults + o.cost
  BY <1>1 DEF Charge
<1>3. UNCHANGED originals /\ UNCHANGED texts /\ pc = "delete_row" /\ pc' = "idle"
  BY <1>1 DEF DeleteRow, Answer, storage
<1>4. OnTheWay = 0 /\ OnTheWay' = 0 /\ Owed' = 0
  BY <1>3 DEF OnTheWay, Owed
<1>5. PICK a \in {0, 1} : a = IF originals[job.name] # None THEN 1 ELSE 0
  OBVIOUS
<1>6. PICK b \in {0, 1} : b = IF job.ocr # None /\ texts[job.ocr] # None THEN 1 ELSE 0
  OBVIOUS
<1>7. Owed = 0 + a + b
  BY <1>3, <1>5, <1>6 DEF Owed
<1>8. \A r \in files : r.id = job.id => r.name = job.name /\ r.ocr = job.ocr
  <2>1. PICK r \in files : r.id = job.id /\ r.name = job.name
    BY <1>3, RowOfJob DEF LeakInv, WithRow
  <2>2. PICK q \in files : q.id = job.id /\ q.ocr = job.ocr
    BY <1>3 DEF LeakInv, LookedUp, WithRow
  <2> QED
    BY <2>1, <2>2 DEF LeakInv, StorageInv, TablesInv, TablesSound
<1>9. files' \in {files, Without(files, job.id)}
  BY <1>1, DeleteOutcomes
<1>10. \A r \in files : r \in files' \/ (r.name = job.name /\ r.ocr = job.ocr)
  BY <1>8, <1>9 DEF Without
<1>11. None \notin Stamps
  BY TablesAssumption DEF Stamps
<1>12. /\ LostOriginals' \in SUBSET (IF a = 1 THEN LostOriginals \cup {job.name} ELSE LostOriginals)
       /\ LostTexts' \in SUBSET (IF b = 1 THEN LostTexts \cup {job.ocr} ELSE LostTexts)
  <2>1. ASSUME NEW n \in LostOriginals', n \notin LostOriginals PROVE n = job.name /\ a = 1
    BY <1>3, <1>5, <1>10, <2>1 DEF LostOriginals
  <2>2. ASSUME NEW s \in LostTexts', s \notin LostTexts PROVE s = job.ocr /\ b = 1
    BY <1>3, <1>6, <1>10, <1>11, <2>2 DEF LostTexts
  <2> QED
    BY <2>1, <2>2
<1>13. /\ IsFiniteSet(LostOriginals')
       /\ \E m, n \in Nat : /\ m = Cardinality(LostOriginals') /\ n = Cardinality(LostTexts')
                            /\ m <= Cardinality(LostOriginals) + a
                            /\ n <= Cardinality(LostTexts) + b
  BY <1>12, LeakGrowth
<1>14. PICK m, n \in Nat : /\ m = Cardinality(LostOriginals') /\ n = Cardinality(LostTexts')
                           /\ m <= Cardinality(LostOriginals) + a
                           /\ n <= Cardinality(LostTexts) + b
  BY <1>13
<1>15. m + n + 0 <= f + 0
  BY <1>2, <1>4, <1>7, <1>14, DeleteOutcomes, LeakTyped
<1> QED
  BY <1>2, <1>4, <1>13, <1>14, <1>15, LeakCount

\* A kill costs a fault and may leave one torn file where none was on its way.
LEMMA LeakCrash == ASSUME LeakInv, Crash PROVE LeakBound'
<1>1. PICK f : f = faults' /\ f = faults + 1
  BY DEF Crash, Kill, Charge
<1>2. UNCHANGED files /\ pc' = "idle"
  BY DEF Crash, Kill, tables
<1>3. Owed' = 0 /\ OnTheWay' = 0
  BY <1>2 DEF Owed, OnTheWay
<1>4. CASE UNCHANGED storage
  <2>1. f \in Nat /\ 0 + OnTheWay + faults <= Owed + 0 + f
    BY <1>1, LeakTyped
  <2>2. UNCHANGED originals /\ UNCHANGED texts
    BY <1>4 DEF storage
  <2> QED
    BY <1>1, <1>2, <1>3, <2>1, <2>2, LeakUnmoved
<1>5. CASE /\ OnTheWay = 0
           /\ \E a, b \in {0, 1} : \E x, y :
                /\ a + b = 1
                /\ LostOriginals' \in SUBSET (IF a = 1 THEN LostOriginals \cup {x}
                                                       ELSE LostOriginals)
                /\ LostTexts' \in SUBSET (IF b = 1 THEN LostTexts \cup {y} ELSE LostTexts)
  <2>1. PICK a \in {0, 1}, b \in {0, 1} : \E x, y :
          /\ a + b = 1
          /\ LostOriginals' \in SUBSET (IF a = 1 THEN LostOriginals \cup {x} ELSE LostOriginals)
          /\ LostTexts' \in SUBSET (IF b = 1 THEN LostTexts \cup {y} ELSE LostTexts)
    BY <1>5
  <2>2. /\ IsFiniteSet(LostOriginals')
        /\ \E m, n \in Nat : /\ m = Cardinality(LostOriginals') /\ n = Cardinality(LostTexts')
                             /\ m <= Cardinality(LostOriginals) + a
                             /\ n <= Cardinality(LostTexts) + b
    BY <2>1, LeakGrowth
  <2>3. PICK m, n \in Nat : /\ m = Cardinality(LostOriginals') /\ n = Cardinality(LostTexts')
                            /\ m <= Cardinality(LostOriginals) + a
                            /\ n <= Cardinality(LostTexts) + b
    BY <2>2
  <2>4. m + n + 0 <= f + 0
    BY <1>1, <1>5, <2>1, <2>3, LeakTyped
  <2> QED
    BY <1>1, <1>3, <2>2, <2>3, <2>4, LeakCount
<1>6. originals \in [Name -> Cell] /\ texts \in [Stamps -> Cell]
  BY DEF LeakInv, StorageInv, TablesInv, TypeInv, TypeOK
<1>7. ASSUME pc = "save_file", UNCHANGED texts,
             NEW n, NEW d, originals' = [originals EXCEPT ![n] = d]
      PROVE  LeakBound'
  <2>1. /\ OnTheWay = 0
        /\ LostOriginals' \in SUBSET (LostOriginals \cup {n}) /\ LostTexts' \in SUBSET LostTexts
    BY <1>2, <1>6, <1>7 DEF OnTheWay, LostOriginals, LostTexts
  <2>2. /\ LostOriginals' \in SUBSET (IF 1 = 1 THEN LostOriginals \cup {n} ELSE LostOriginals)
        /\ LostTexts' \in SUBSET (IF 0 = 1 THEN LostTexts \cup {n} ELSE LostTexts)
    BY <2>1
  <2> QED
    BY <1>5, <2>1, <2>2
<1>8. ASSUME pc = "save_text", UNCHANGED originals,
             NEW s, NEW d, texts' = [texts EXCEPT ![s] = d]
      PROVE  LeakBound'
  <2>1. /\ OnTheWay = 0
        /\ LostOriginals' \in SUBSET LostOriginals /\ LostTexts' \in SUBSET (LostTexts \cup {s})
    BY <1>2, <1>6, <1>8 DEF OnTheWay, LostOriginals, LostTexts
  <2>2. /\ LostOriginals' \in SUBSET (IF 0 = 1 THEN LostOriginals \cup {s} ELSE LostOriginals)
        /\ LostTexts' \in SUBSET (IF 1 = 1 THEN LostTexts \cup {s} ELSE LostTexts)
    BY <2>1
  <2> QED
    BY <1>5, <2>1, <2>2
<1> QED
  BY <1>4, <1>7, <1>8 DEF Crash

\* Every step keeps the bound.
LEMMA LeakStep ==
  ASSUME ~SecondsRepeat PROVE LeakInv /\ [Next]_vars => LeakInv'
<1> SUFFICES ASSUME LeakInv, [Next]_vars PROVE LeakInv'
  OBVIOUS
<1>1. StorageInv' /\ LookedUp'
  BY StorageStep, LookedUpStep DEF LeakInv
<1>2. LeakBound'
  <2>1. CASE UNCHANGED vars
    <3>1. /\ LostOriginals' = LostOriginals /\ LostTexts' = LostTexts
          /\ Owed' = Owed /\ OnTheWay' = OnTheWay /\ faults' = faults
      BY <2>1 DEF vars, LostOriginals, LostTexts, Owed, OnTheWay, ByHash
    <3>2. UNCHANGED files /\ UNCHANGED originals /\ UNCHANGED texts
      BY <2>1 DEF vars
    <3>3. PICK o, w, f : o = Owed /\ w = OnTheWay /\ f = faults
      OBVIOUS
    <3>4. /\ o \in Nat /\ w \in {0, 1} /\ f \in Nat
          /\ o + OnTheWay + faults <= Owed + w + f
      BY <3>3, LeakTyped
    <3> QED
      BY <3>1, <3>2, <3>3, <3>4, LeakUnmoved
  <2>2. CASE Arrive
    <3>1. /\ UNCHANGED <<files, originals, texts>> /\ UNCHANGED faults
          /\ pc \in Plain /\ pc' \in Plain
      BY <2>2
         DEF Arrive, Upload, Retry, RetryWithModel, Delete, Request, StartJob, tables, storage,
         Plain, PCs
    <3>2. PICK c \in Nat : faults' = faults + c
      <4>1. 0 \in Nat /\ faults' = faults + 0
        BY <3>1, LeakTyped
      <4> QED
        BY <4>1
    <3> QED
      BY <3>1, <3>2, LeakPlain
  <2>3. CASE Crash
    BY <2>3, LeakCrash
  <2>4. CASE FindByHash \/ SaveOriginal \/ InsertRow \/ SaveText \/ MarkOcr
    BY <2>4, LeakFindByHash, LeakSaveOriginal, LeakInsertRow, LeakSaveText, LeakMarkOcr
  <2>5. CASE UnlinkOriginal \/ UnlinkText \/ DeleteRow
    BY <2>5, LeakUnlinkOriginal, LeakUnlinkText, LeakDeleteRow
  <2>6. CASE RecordReceipt \/ RecordRetry \/ RecordWithModel
    <3>1. PICK o \in RepoMarkParsingComplete(receipts, [file |-> job.id, from |-> job.text,
                                                        ok |-> job.ok]) : Charge(o.cost)
      BY <2>6 DEF RecordReceipt, RecordRetry, RecordWithModel, Record
    <3>2. /\ UNCHANGED <<files, originals, texts>>
          /\ pc \in Plain /\ pc' \in Plain
      BY <2>6 DEF RecordReceipt, RecordRetry, RecordWithModel, Record, Answer, storage, Plain, PCs
    <3>3. o.cost \in Nat /\ faults' = faults + o.cost
      BY <3>1, MarkParsingOutcomes DEF Charge
    <3> QED
      BY <3>2, <3>3, LeakPlain
  <2>7. CASE RunOcr \/ ParseReceipt \/ NotFound \/ FindForRetry \/ ReadText \/ ParseAgain
             \/ FindForModel \/ ReadOriginal \/ ExtractWithModel \/ ParseWithModel
             \/ FindForDelete
    <3>1. /\ UNCHANGED <<files, originals, texts>>
          /\ pc \in Plain /\ pc' \in Plain
      BY <2>7
         DEF RunOcr, ParseReceipt, NotFound, FindForRetry, ReadText, ParseAgain, FindForModel,
         ReadOriginal, ExtractWithModel, ParseWithModel, FindForDelete, Extracted, Parsed,
         Continue, Answer, tables, storage, Plain, PCs
    <3>2. PICK c \in Nat : faults' = faults + c
      <4>1. UNCHANGED faults \/ Charge(0) \/ Charge(1)
        BY <2>7
           DEF RunOcr, ParseReceipt, NotFound, FindForRetry, ReadText, ParseAgain, FindForModel,
           ReadOriginal, ExtractWithModel, ParseWithModel, FindForDelete
      <4>2. faults' = faults + 0 \/ faults' = faults + 1
        BY <4>1, LeakTyped DEF Charge
      <4> QED
        BY <4>2
    <3> QED
      BY <3>1, <3>2, LeakPlain
  <2> QED
    BY <2>1, <2>2, <2>3, <2>4, <2>5, <2>6, <2>7 DEF Next, Step
<1> QED
  BY <1>1, <1>2 DEF LeakInv

\* When no two uploads get the same second, every stored file that no row
\* leads to was paid for by a failed call or a kill of its own, but for the
\* one file between its save and its row: also over requests cut short in
\* the middle and taken up again.
THEOREM LeaksBoundedByFaultsCorrect ==
  ASSUME ~SecondsRepeat PROVE Spec => []LeaksBoundedByFaults
<1>1. LeakInv => LeaksBoundedByFaults
  <2> SUFFICES ASSUME LeakInv PROVE LeaksBoundedByFaults
    OBVIOUS
  <2>1. OnTheWay <= IF pc \in {"insert", "mark_ocr"} THEN 1 ELSE 0
    BY DEF OnTheWay
  <2> QED
    BY <2>1, LeakTyped DEF LeaksBoundedByFaults
<1>2. LeakInv /\ [Next]_vars => LeakInv'
  BY LeakStep
<1> QED
  BY <1>1, <1>2, LeakInit, PTL DEF Spec

-----------------------------------------------------------------------------
(* What holds as long as nothing fails.                                    *)

\* A step without a fault follows states without a fault.
LEMMA NoFaultBefore ==
  ASSUME LeakInv, [Next]_vars, faults' = 0
  PROVE  faults = 0 /\ ~Crash /\ (\A c \in {0, 1} : Charge(c) => c = 0)
<1>1. \A c \in {0, 1} : Charge(c) => faults = 0 /\ c = 0
  BY LeakTyped DEF Charge
<1>2. ~Crash
  BY <1>1 DEF Crash, Kill
<1>3. CASE Arrive \/ UNCHANGED vars
  BY <1>1, <1>2, <1>3 DEF Arrive, Upload, Retry, RetryWithModel, Delete, Request, StartJob, vars
<1>4. CASE Step
  <2>1. UNCHANGED faults \/ \E c \in {0, 1} : Charge(c)
    <3>1. CASE SaveOriginal
      <4>1. PICK old : \E o \in SaveFile(old, job.data) : Charge(o.cost)
        BY <3>1 DEF SaveOriginal
      <4> QED
        BY <4>1, SaveOutcomes
    <3>2. CASE SaveText \/ InsertRow \/ MarkOcr
      BY <3>2, SaveOutcomes, InsertOutcomes, MarkOcrOutcomes DEF SaveText, InsertRow, MarkOcr
    <3>3. CASE RecordReceipt \/ RecordRetry \/ RecordWithModel
      BY <3>3, MarkParsingOutcomes DEF RecordReceipt, RecordRetry, RecordWithModel, Record
    <3>4. CASE UnlinkOriginal \/ UnlinkText
      BY <3>4, DeleteFileOutcomes DEF UnlinkOriginal, UnlinkText
    <3>5. CASE DeleteRow
      BY <3>5, DeleteOutcomes DEF DeleteRow
    <3>6. CASE FindByHash \/ NotFound \/ ReadText \/ ReadOriginal
      BY <3>6 DEF FindByHash, NotFound, ReadText, ReadOriginal
    <3>7. CASE RunOcr \/ ParseReceipt \/ FindForRetry \/ ParseAgain \/ FindForModel
               \/ ExtractWithModel \/ ParseWithModel \/ FindForDelete
      BY <3>7 DEF RunOcr, ParseReceipt, FindForRetry, ParseAgain, FindForModel,
         ExtractWithModel, ParseWithModel, FindForDelete
    <3> QED
      BY <1>4, <3>1, <3>2, <3>3, <3>4, <3>5, <3>6, <3>7 DEF Step
  <2> QED
    BY <1>1, <1>2, <2>1
<1> QED
  BY <1>2, <1>3, <1>4 DEF Next

LEMMA QuietInit == Init => QuietInv
<1> SUFFICES ASSUME Init PROVE QuietInv
  OBVIOUS
<1>1. LeakInv
  BY LeakInit
<1>2. QuietRows /\ QuietJob
  BY DEF Init, QuietRows, QuietJob, WithRow
<1> QED
  BY <1>1, <1>2 DEF QuietInv

\* Rows and files that stay as they were agree as they did.
LEMMA QuietRowsKept ==
  ASSUME QuietRows, UNCHANGED <<files, receipts, originals, texts>>, pc \notin Deleting
  PROVE  QuietRows'
BY DEF QuietRows

\* The row of the request, with all that is known of it.
LEMMA QuietRowOfJob ==
  ASSUME QuietInv, faults = 0, pc \in WithRow
  PROVE  \E r \in files :
           /\ r.id = job.id /\ r.name = job.name
           /\ \A q \in files : q.id = job.id => q = r
           /\ pc \notin {"parse", "mark_parsing"} => r.ocr = job.ocr
           /\ pc = "extract" => job.data = r.hash
           /\ pc \in WithText => job.text \in {r.hash, Blank}
           /\ pc \in {"read_text", "parse", "mark_parsing"} => r.ocr # None
           /\ pc \notin Deleting => originals[r.name] = r.hash
           /\ pc \notin Deleting /\ r.ocr # None => texts[r.ocr] \in {r.hash, Blank}
<1>1. PICK r \in files : r.id = job.id /\ r.name = job.name
  BY RowOfJob DEF QuietInv, LeakInv
<1>2. \A q \in files : q.id = job.id => q = r
  BY <1>1 DEF QuietInv, LeakInv, StorageInv, TablesInv, TablesSound
<1>3. pc \notin {"parse", "mark_parsing"} => r.ocr = job.ocr
  BY <1>2 DEF QuietInv, LeakInv, LookedUp
<1> QED
  BY <1>1, <1>2, <1>3 DEF QuietInv, QuietRows, QuietJob

LEMMA QuietFindByHash ==
  ASSUME QuietInv, faults = 0, faults' = 0, FindByHash, [Next]_vars PROVE QuietRows' /\ QuietJob'
<1>1. QuietRows'
  BY QuietRowsKept DEF QuietInv, FindByHash, Deleting, tables, storage
<1>2. ~Charge(1)
  BY NoFaultBefore DEF QuietInv
<1> QED
  BY <1>1, <1>2 DEF FindByHash, Answer, Continue, QuietJob, WithRow, tables, ByHash

LEMMA QuietSaveOriginal ==
  ASSUME ~SecondsRepeat, QuietInv, faults = 0, faults' = 0, SaveOriginal, [Next]_vars
  PROVE  QuietRows' /\ QuietJob'
<1> DEFINE name(s) == [at |-> s, ext |-> job.ext]
<1>1. PICK s \in Stamps :
        /\ s > clock
        /\ \E o \in SaveFile(originals[name(s)], job.data) :
             /\ Charge(o.cost)
             /\ originals' = [originals EXCEPT ![name(s)] = o.left]
             /\ IF o.ok THEN Continue("insert", [job EXCEPT !.name = name(s)])
                        ELSE Answer("save_failed", 0)
  BY DEF SaveOriginal
<1>2. PICK o \in SaveFile(originals[name(s)], job.data) :
        /\ Charge(o.cost)
        /\ originals' = [originals EXCEPT ![name(s)] = o.left]
        /\ IF o.ok THEN Continue("insert", [job EXCEPT !.name = name(s)])
                   ELSE Answer("save_failed", 0)
  BY <1>1
<1>3. o.cost = 0
  BY <1>2, SaveOutcomes, NoFaultBefore DEF QuietInv
<1>4. o.ok /\ o.left = job.data
  BY <1>3, SaveFileCost
<1>5. /\ UNCHANGED <<files, receipts, texts>> /\ pc = "save_file"
      /\ job.hash \in Contents /\ job.ext \in Exts /\ job.data = job.hash /\ job \in Job
      /\ originals \in [Name -> Cell] /\ clock \in Int
  BY DEF SaveOriginal, tables, QuietInv, LeakInv, StorageInv, TablesInv, TypeInv, TypeOK,
     JobTyped, BeforeRow
<1>6. name(s) \in Name /\ originals'[name(s)] = job.hash
  BY <1>2, <1>4, <1>5 DEF Name
<1>7. ASSUME NEW r \in files PROVE originals'[r.name] = originals[r.name]
  <2>1. r.name \in Name /\ r.name.at <= clock /\ r.name.at \in Int
    BY DEF QuietInv, LeakInv, StorageInv, SecondsInv, TablesInv, TypeInv, TypeOK, FileRow,
       Name, Stamps
  <2>2. s \in Int /\ ~(s <= clock)
    BY <1>1, <1>5 DEF Stamps
  <2>3. r.name # name(s)
    BY <2>1, <2>2
  <2> QED
    BY <1>2, <1>5, <2>1, <2>3
<1>8. QuietRows'
  BY <1>5, <1>7 DEF QuietInv, QuietRows, Deleting
<1>9. pc' = "insert" /\ job'.hash = job.hash /\ job'.name = name(s)
  BY <1>2, <1>4, <1>5 DEF Continue, Job
<1>10. ByHash(files, job.hash) = {}
  BY <1>5 DEF QuietInv, QuietJob
<1>11. QuietJob'
  BY <1>5, <1>6, <1>9, <1>10 DEF QuietJob, WithRow, ByHash
<1> QED
  BY <1>8, <1>11

LEMMA QuietInsertRow ==
  ASSUME QuietInv, faults = 0, faults' = 0, InsertRow, [Next]_vars
  PROVE  QuietRows' /\ QuietJob' /\ pc' # "idle"
<1>0. PICK row : row = [id |-> lastId + 1, hash |-> job.hash, name |-> job.name, ocr |-> None]
  OBVIOUS
<1>1. PICK o \in RepoInsert(files, row) :
        /\ Charge(o.cost)
        /\ files' = o.left
        /\ IF o.ok THEN Continue("extract", [job EXCEPT !.id = row.id])
                   ELSE Answer("db_error", 0)
  BY <1>0 DEF InsertRow
<1>2. /\ UNCHANGED <<receipts, originals, texts>> /\ pc = "insert"
      /\ job.data = job.hash /\ job \in Job
  BY DEF InsertRow, storage, QuietInv, LeakInv, StorageInv, TablesInv, TypeInv, TypeOK,
     JobTyped, BeforeRow
<1>3. Unique(files, row)
  <2>1. ByHash(files, job.hash) = {}
    BY <1>2 DEF QuietInv, QuietJob
  <2>2. \A r \in files : r.name.at # job.name.at
    BY <1>2 DEF QuietInv, LeakInv, StorageInv, NewUpload
  <2> QED
    BY <1>0, <2>1, <2>2 DEF Unique, ByHash
<1>4. o.cost = 0
  BY <1>1, InsertOutcomes, NoFaultBefore DEF QuietInv
<1>5. o.ok /\ files' = files \cup {row}
  BY <1>1, <1>3, <1>4, InsertCost, InsertOutcomes
<1>6. originals[row.name] = row.hash /\ row.ocr = None
  BY <1>0, <1>2 DEF QuietInv, QuietJob
<1>7. QuietRows'
  BY <1>2, <1>5, <1>6 DEF QuietInv, QuietRows, Deleting
<1>8. pc' = "extract" /\ job'.id = row.id /\ job'.data = row.hash
  BY <1>0, <1>1, <1>2, <1>5 DEF Continue, Job
<1>9. QuietJob'
  BY <1>5, <1>8 DEF QuietJob, WithRow, WithText
<1> QED
  BY <1>7, <1>8, <1>9

LEMMA QuietExtract ==
  ASSUME QuietInv, faults = 0, pc = "extract", NEW kind,
         Extracted \/ Answer(kind, job.id),
         UNCHANGED <<tables, storage, clock, asked, faults>>
  PROVE  QuietRows' /\ QuietJob'
<1>1. QuietRows'
  BY QuietRowsKept DEF QuietInv, Deleting, tables, storage
<1>2. CASE Answer(kind, job.id)
  BY <1>1, <1>2 DEF Answer, QuietJob, WithRow
<1>3. CASE Extracted
  <2>1. PICK r \in files : r.id = job.id /\ job.data = r.hash
    BY QuietRowOfJob DEF WithRow
  <2>2. pc' = "save_text" /\ job'.id = job.id /\ job'.text \in {r.hash, Blank}
    BY <1>3, <2>1
       DEF Extracted, Continue, QuietInv, LeakInv, StorageInv, TablesInv, TypeInv, TypeOK, Job
  <2>3. QuietJob'
    BY <2>1, <2>2 DEF QuietJob, WithRow, WithText, tables
  <2> QED
    BY <1>1, <2>3
<1> QED
  BY <1>2, <1>3

LEMMA QuietSaveText ==
  ASSUME QuietInv, faults = 0, faults' = 0, SaveText, [Next]_vars PROVE QuietRows' /\ QuietJob'
<1> DEFINE at == OcrName(job.name)
<1>1. PICK o \in SaveFile(texts[at], job.text) :
        Charge(o.cost) /\ texts' = [texts EXCEPT ![at] = o.left]
  BY DEF SaveText
<1>2. o.cost = 0 /\ o.left = job.text
  BY <1>1, SaveOutcomes, SaveFileCost, NoFaultBefore DEF QuietInv
<1>3. /\ UNCHANGED <<files, receipts, originals>> /\ UNCHANGED job
      /\ pc = "save_text" /\ pc' = "mark_ocr"
  BY DEF SaveText, Continue, tables
<1>4. PICK r \in files : /\ r.id = job.id /\ r.name = job.name
                         /\ job.text \in {r.hash, Blank}
  BY <1>3, QuietRowOfJob DEF WithRow, WithText
<1>5. at = r.name.at /\ at \in Stamps /\ texts \in [Stamps -> Cell]
  BY <1>4, OcrNameType
     DEF QuietInv, LeakInv, StorageInv, TablesInv, TypeInv, TypeOK, FileRow, OcrName
<1>6. ASSUME NEW q \in files, q.ocr # None PROVE texts'[q.ocr] \in {q.hash, Blank}
  <2>1. q.ocr = q.name.at /\ q.ocr \in Stamps /\ texts[q.ocr] \in {q.hash, Blank}
    BY <1>3, <1>6 DEF QuietInv, QuietRows, Deleting, LeakInv, StorageInv, OwnBlobs,
       TablesInv, TypeInv, TypeOK, FileRow
  <2>2. CASE q = r
    BY <1>1, <1>2, <1>4, <1>5, <2>1, <2>2
  <2>3. CASE q # r
    <3>1. q.ocr # at
      BY <1>5, <2>1, <2>3 DEF QuietInv, LeakInv, StorageInv, SecondsInv
    <3> QED
      BY <1>1, <1>5, <2>1, <3>1
  <2> QED
    BY <2>2, <2>3
<1>7. QuietRows'
  BY <1>3, <1>6 DEF QuietInv, QuietRows, Deleting
<1>8. texts'[at] = job.text
  BY <1>1, <1>2, <1>5
<1>9. QuietJob'
  BY <1>3, <1>4, <1>8 DEF QuietJob, WithRow, WithText
<1> QED
  BY <1>7, <1>9

LEMMA QuietMarkOcr ==
  ASSUME QuietInv, faults = 0, faults' = 0, MarkOcr, [Next]_vars PROVE QuietRows' /\ QuietJob'
<1> DEFINE at == OcrName(job.name)
<1>1. PICK o \in RepoMarkOcrComplete(files, job.id, at) : Charge(o.cost) /\ files' = o.left
  BY DEF MarkOcr
<1>2. o.cost = 0
  BY <1>1, MarkOcrOutcomes, NoFaultBefore DEF QuietInv
<1>3. files' = WithOcr(files, job.id, at)
  BY <1>1, <1>2, MarkOcrCost
<1>4. /\ UNCHANGED <<receipts, originals, texts>> /\ UNCHANGED job
      /\ pc = "mark_ocr" /\ pc' = "parse"
  BY DEF MarkOcr, Continue, storage
<1>5. PICK r \in files : /\ r.id = job.id /\ r.name = job.name
                         /\ \A q \in files : q.id = job.id => q = r
                         /\ job.text \in {r.hash, Blank}
  BY <1>4, QuietRowOfJob DEF WithRow, WithText
<1>6. texts[at] \in {r.hash, Blank}
  BY <1>4, <1>5 DEF QuietInv, QuietJob
<1>7. at \in Stamps /\ at # None /\ files \in SUBSET FileRow
  BY <1>4, OcrNameType, TablesAssumption
     DEF QuietInv, LeakInv, StorageInv, TablesInv, TypeInv, TypeOK, JobTyped, WithRow, Stamps
<1>8. /\ \A q \in files' :
           \E u \in files : /\ u.id = q.id /\ u.hash = q.hash /\ u.name = q.name
                            /\ q.ocr = (IF u.id = job.id THEN at ELSE u.ocr)
      /\ \A u \in files : \E q \in files' :
           /\ u.id = q.id /\ u.hash = q.hash
           /\ q.ocr = (IF u.id = job.id THEN at ELSE u.ocr)
  BY <1>3, <1>7, WithOcrKeeps
<1> HIDE DEF at
<1>9. \A q \in files' : /\ originals'[q.name] = q.hash
                        /\ q.ocr # None => texts'[q.ocr] \in {q.hash, Blank}
  <2> SUFFICES ASSUME NEW q \in files'
               PROVE  /\ originals'[q.name] = q.hash
                      /\ q.ocr # None => texts'[q.ocr] \in {q.hash, Blank}
    OBVIOUS
  <2>1. PICK u \in files : /\ u.id = q.id /\ u.hash = q.hash /\ u.name = q.name
                           /\ q.ocr = (IF u.id = job.id THEN at ELSE u.ocr)
    BY <1>8
  <2>2. originals[u.name] = u.hash /\ (u.ocr # None => texts[u.ocr] \in {u.hash, Blank})
    BY <1>4 DEF QuietInv, QuietRows, Deleting
  <2> QED
    BY <1>4, <1>5, <1>6, <2>1, <2>2
<1>10. \A p \in receipts' : \E q \in files' : q.id = p.file /\ q.ocr # None
  <2> SUFFICES ASSUME NEW p \in receipts PROVE \E q \in files' : q.id = p.file /\ q.ocr # None
    BY <1>4
  <2>1. PICK u \in files : u.id = p.file /\ u.ocr # None
    BY DEF QuietInv, QuietRows
  <2> QED
    BY <1>7, <1>8, <2>1
<1>11. QuietRows'
  BY <1>9, <1>10 DEF QuietRows
<1>12. PICK q \in files' : q.id = job.id /\ q.hash = r.hash /\ q.ocr # None
  BY <1>5, <1>7, <1>8
<1>13. QuietJob'
  BY <1>4, <1>5, <1>12 DEF QuietJob, WithRow, WithText
<1> QED
  BY <1>11, <1>13

LEMMA QuietParse ==
  ASSUME QuietInv, faults = 0, pc = "parse", NEW kind,
         Parsed \/ Answer(kind, job.id),
         UNCHANGED <<tables, storage, clock, asked, faults>>
  PROVE  QuietRows' /\ QuietJob'
<1>1. QuietRows'
  BY QuietRowsKept DEF QuietInv, Deleting, tables, storage
<1>2. CASE Answer(kind, job.id)
  BY <1>1, <1>2 DEF Answer, QuietJob, WithRow
<1>3. CASE Parsed
  <2>1. PICK r \in files : r.id = job.id /\ job.text \in {r.hash, Blank} /\ r.ocr # None
    BY QuietRowOfJob DEF WithRow, WithText
  <2>2. pc' = "mark_parsing" /\ job'.id = job.id /\ job'.text = job.text
    BY <1>3 DEF Parsed, Continue, QuietInv, LeakInv, StorageInv, TablesInv, TypeInv, TypeOK, Job
  <2>3. QuietJob'
    BY <2>1, <2>2 DEF QuietJob, WithRow, WithText, tables
  <2> QED
    BY <1>1, <2>3
<1> QED
  BY <1>2, <1>3

LEMMA QuietRecord ==
  ASSUME QuietInv, faults = 0, pc = "mark_parsing", Record PROVE QuietRows' /\ QuietJob'
<1> DEFINE p == [file |-> job.id, from |-> job.text, ok |-> job.ok]
<1>1. receipts' \in {receipts, Upsert(receipts, p)}
  BY MarkParsingOutcomes DEF Record
<1>2. \E r \in files : r.id = p.file /\ r.ocr # None
  BY QuietRowOfJob DEF WithRow
<1>3. \A q \in receipts' : q \in receipts \/ q = p
  BY <1>1 DEF Upsert
<1> HIDE DEF p
<1>4. QuietRows'
  BY <1>2, <1>3 DEF Record, QuietInv, QuietRows, Deleting, storage
<1>5. QuietJob'
  BY DEF Record, Answer, QuietJob, WithRow
<1> QED
  BY <1>4, <1>5

LEMMA QuietFound ==
  ASSUME QuietInv, faults = 0, FindForRetry \/ FindForModel \/ FindForDelete
  PROVE  QuietRows' /\ QuietJob'
<1>1. QuietRows'
  BY QuietRowsKept DEF QuietInv, FindForRetry, FindForModel, FindForDelete, Deleting, tables,
     storage
<1>2. UNCHANGED files
  BY DEF FindForRetry, FindForModel, FindForDelete, tables
<1>3. \/ pc' = "idle"
      \/ \E r \in files : /\ r.id = job.id /\ job'.id = job.id
                          /\ \/ pc' = "read_text" /\ r.ocr # None
                             \/ pc' \in {"read_binary", "unlink_original"}
  BY DEF FindForRetry, FindForModel, FindForDelete, Answer, Continue, ById, QuietInv, LeakInv,
     StorageInv, TablesInv, TypeInv, TypeOK, Job
<1>4. QuietJob'
  BY <1>2, <1>3 DEF QuietJob, WithRow, WithText
<1> QED
  BY <1>1, <1>4

LEMMA QuietReadText ==
  ASSUME QuietInv, faults = 0, ReadText PROVE QuietRows' /\ QuietJob'
<1>1. QuietRows'
  BY QuietRowsKept DEF QuietInv, ReadText, Deleting, tables, storage
<1>2. CASE pc' = "idle"
  BY <1>1, <1>2 DEF QuietJob, WithRow
<1>3. CASE Continue("parse", [job EXCEPT !.text = texts[job.ocr]])
  <2>1. PICK r \in files : /\ r.id = job.id /\ r.ocr = job.ocr /\ r.ocr # None
                           /\ texts[r.ocr] \in {r.hash, Blank}
    BY QuietRowOfJob DEF ReadText, WithRow, Deleting
  <2>2. pc' = "parse" /\ job'.id = job.id /\ job'.text = texts[job.ocr] /\ UNCHANGED files
    BY <1>3 DEF ReadText, Continue, QuietInv, LeakInv, StorageInv, TablesInv, TypeInv, TypeOK,
       Job, tables
  <2>3. QuietJob'
    BY <2>1, <2>2 DEF QuietJob, WithRow, WithText
  <2> QED
    BY <1>1, <2>3
<1> QED
  BY <1>2, <1>3 DEF ReadText, Answer

LEMMA QuietReadOriginal ==
  ASSUME QuietInv, faults = 0, ReadOriginal PROVE QuietRows' /\ QuietJob'
<1>1. QuietRows'
  BY QuietRowsKept DEF QuietInv, ReadOriginal, Deleting, tables, storage
<1>2. CASE pc' = "idle"
  BY <1>1, <1>2 DEF QuietJob, WithRow
<1>3. CASE Continue("extract", [job EXCEPT !.data = originals[job.name]])
  <2>1. PICK r \in files : r.id = job.id /\ r.name = job.name /\ originals[r.name] = r.hash
    BY QuietRowOfJob DEF ReadOriginal, WithRow, Deleting
  <2>2. pc' = "extract" /\ job'.id = job.id /\ job'.data = originals[job.name]
        /\ UNCHANGED files
    BY <1>3 DEF ReadOriginal, Continue, QuietInv, LeakInv, StorageInv, TablesInv, TypeInv,
       TypeOK, Job, tables
  <2>3. QuietJob'
    BY <2>1, <2>2 DEF QuietJob, WithRow, WithText
  <2> QED
    BY <1>1, <2>3
<1> QED
  BY <1>2, <1>3 DEF ReadOriginal, Answer

\* Removing a file of the row that is being deleted disturbs no other row.
LEMMA QuietUnlink ==
  ASSUME QuietInv, faults = 0, UnlinkOriginal \/ UnlinkText PROVE QuietRows' /\ QuietJob'
<1>1. /\ UNCHANGED <<files, receipts>> /\ UNCHANGED job
      /\ pc \in Deleting /\ pc' \in {"unlink_text", "delete_row"}
  BY DEF UnlinkOriginal, UnlinkText, Continue, tables, Deleting
<1>2. PICK r \in files : r.id = job.id /\ r.name = job.name /\ r.ocr = job.ocr
  BY <1>1, QuietRowOfJob DEF WithRow, Deleting
<1>3. ASSUME NEW q \in files, q # r
      PROVE  originals'[q.name] = originals[q.name] /\ (q.ocr # None => texts'[q.ocr] = texts[q.ocr])
  <2>1. /\ q.name # job.name /\ q.name \in Name
        /\ q.ocr # None => q.ocr # job.ocr /\ q.ocr \in Stamps
    BY <1>2, <1>3 DEF QuietInv, LeakInv, StorageInv, SecondsInv, OwnBlobs, TablesInv,
       TablesSound, TypeInv, TypeOK, FileRow
  <2>2. originals \in [Name -> Cell] /\ texts \in [Stamps -> Cell]
    BY DEF QuietInv, LeakInv, StorageInv, TablesInv, TypeInv, TypeOK
  <2> QED
    BY <2>1, <2>2 DEF UnlinkOriginal, UnlinkText
<1>4. \A q \in files : q.id = job.id <=> q = r
  BY <1>2 DEF QuietInv, LeakInv, StorageInv, TablesInv, TablesSound
<1>5. QuietRows'
  BY <1>1, <1>3, <1>4 DEF QuietInv, QuietRows, Deleting
<1>6. QuietJob'
  BY <1>1, <1>2 DEF QuietJob, WithRow, WithText
<1> QED
  BY <1>5, <1>6

LEMMA QuietDeleteRow ==
  ASSUME QuietInv, faults = 0, faults' = 0, DeleteRow, [Next]_vars
  PROVE  /\ QuietRows' /\ QuietJob'
         /\ files' = Without(files, job.id) /\ receipts' = Cascade(receipts, files')
         /\ Answer("deleted", job.id)
<1>1. PICK o \in BackendDelete(files, job.id) :
        /\ Charge(o.cost)
        /\ files' = o.left
        /\ receipts' = Cascade(receipts, o.left)
        /\ Answer(IF o.ok THEN "deleted" ELSE "delete_failed", job.id)
  BY DEF DeleteRow
<1>2. o.cost = 0
  BY <1>1, DeleteOutcomes, NoFaultBefore DEF QuietInv
<1>3. pc = "delete_row" /\ UNCHANGED originals /\ UNCHANGED texts
  BY DEF DeleteRow, storage
<1>4. ById(files, job.id) # {}
  BY <1>3, QuietRowOfJob DEF WithRow, ById
<1>5. o.ok /\ files' = Without(files, job.id)
  BY <1>1, <1>2, <1>4, DeleteCost
<1>6. pc' = "idle" /\ receipts' = Cascade(receipts, files') /\ Answer("deleted", job.id)
  BY <1>1, <1>5 DEF Answer
<1>7. \A r \in files' : r \in files /\ r.id # job.id
  BY <1>5 DEF Without
<1>8. \A p \in receipts' : p \in receipts /\ \E r \in files' : r.id = p.file
  BY <1>6 DEF Cascade
<1>9. \A p \in receipts' : \E r \in files' : r.id = p.file /\ r.ocr # None
  <2> SUFFICES ASSUME NEW p \in receipts' PROVE \E r \in files' : r.id = p.file /\ r.ocr # None
    OBVIOUS
  <2>1. PICK r \in files : r.id = p.file /\ r.ocr # None
    BY <1>8 DEF QuietInv, QuietRows
  <2>2. PICK q \in files' : q.id = p.file
    BY <1>8
  <2>3. q = r
    BY <1>7, <2>1, <2>2 DEF QuietInv, LeakInv, StorageInv, TablesInv, TablesSound
  <2> QED
    BY <2>1, <2>2, <2>3
<1>10. QuietRows'
  BY <1>3, <1>7, <1>9 DEF QuietInv, QuietRows
<1>11. QuietJob'
  BY <1>6 DEF QuietJob, WithRow
<1> QED
  BY <1>5, <1>6, <1>10, <1>11

LEMMA QuietStep ==
  ASSUME ~SecondsRepeat PROVE QuietInv /\ [Next]_vars => QuietInv'
<1> SUFFICES ASSUME QuietInv, [Next]_vars PROVE QuietInv'
  OBVIOUS
<1>1. LeakInv'
  BY LeakStep DEF QuietInv
<1>2. ASSUME faults' = 0 PROVE QuietRows' /\ QuietJob'
  <2>0. faults = 0 /\ ~Crash
    BY <1>2, NoFaultBefore DEF QuietInv
  <2>1. CASE UNCHANGED vars
    BY <2>0, <2>1 DEF vars, QuietInv, QuietRows, QuietJob, ByHash
  <2>2. CASE Arrive
    <3>1. /\ UNCHANGED <<files, receipts, originals, texts>>
          /\ pc = "idle" /\ pc' \in {"find_by_hash", "find_by_id"}
      BY <2>2
         DEF Arrive, Upload, Retry, RetryWithModel, Delete, Request, StartJob, tables, storage
    <3>2. QuietRows'
      BY <2>0, <3>1, QuietRowsKept DEF QuietInv, Deleting
    <3>3. QuietJob'
      BY <3>1 DEF QuietJob, WithRow
    <3> QED
      BY <3>2, <3>3
  <2>3. CASE FindByHash \/ SaveOriginal \/ InsertRow \/ SaveText \/ MarkOcr
    BY <1>2, <2>0, <2>3, QuietFindByHash, QuietSaveOriginal, QuietInsertRow, QuietSaveText,
       QuietMarkOcr
  <2>4. CASE RunOcr \/ ExtractWithModel
    BY <2>0, <2>4, QuietExtract DEF RunOcr, ExtractWithModel
  <2>5. CASE ParseReceipt \/ ParseAgain \/ ParseWithModel
    BY <2>0, <2>5, QuietParse DEF ParseReceipt, ParseAgain, ParseWithModel
  <2>6. CASE RecordReceipt \/ RecordRetry \/ RecordWithModel
    BY <2>0, <2>6, QuietRecord DEF RecordReceipt, RecordRetry, RecordWithModel
  <2>7. CASE FindForRetry \/ FindForModel \/ FindForDelete
    BY <2>0, <2>7, QuietFound
  <2>8. CASE NotFound
    <3>1. QuietRows'
      BY <2>0, <2>8, QuietRowsKept DEF QuietInv, NotFound, Deleting, tables, storage
    <3> QED
      BY <2>8, <3>1 DEF NotFound, Answer, QuietJob, WithRow
  <2>9. CASE ReadText \/ ReadOriginal
    BY <2>0, <2>9, QuietReadText, QuietReadOriginal
  <2>10. CASE UnlinkOriginal \/ UnlinkText \/ DeleteRow
    BY <1>2, <2>0, <2>10, QuietUnlink, QuietDeleteRow
  <2> QED
    BY <2>0, <2>1, <2>2, <2>3, <2>4, <2>5, <2>6, <2>7, <2>8, <2>9, <2>10 DEF Next, Step
<1> QED
  BY <1>1, <1>2 DEF QuietInv

\* As long as no call fails and nobody kills the process, storage and tables
\* tell the same story between requests, whatever uploads, retries and
\* deletions came in whatever order.
THEOREM StorageMatchesTablesCorrect ==
  ASSUME ~SecondsRepeat PROVE Spec => []StorageMatchesTables
<1>1. QuietInv => StorageMatchesTables
  <2> SUFFICES ASSUME QuietInv, pc = "idle", faults = 0
               PROVE  /\ LostOriginals = {} /\ LostTexts = {}
                      /\ \A r \in files :
                           /\ originals[r.name] = r.hash
                           /\ r.ocr # None =>
                                r.ocr = r.name.at /\ texts[r.ocr] \in {r.hash, Blank}
                      /\ \A p \in receipts : \E r \in files : r.id = p.file /\ r.ocr # None
    BY DEF StorageMatchesTables
  <2>1. OnTheWay = 0
    BY DEF OnTheWay
  <2>2. Cardinality(LostOriginals) = 0 /\ Cardinality(LostTexts) = 0
    BY <2>1, LeakTyped DEF QuietInv
  <2>3. LostOriginals = {} /\ LostTexts = {}
    BY <2>2, LeakTyped, FS_EmptySet DEF QuietInv
  <2> QED
    BY <2>3 DEF QuietInv, QuietRows, Deleting, LeakInv, StorageInv, OwnBlobs
<1>2. QuietInv /\ [Next]_vars => QuietInv'
  BY QuietStep
<1> QED
  BY <1>1, <1>2, QuietInit, PTL DEF Spec

-----------------------------------------------------------------------------
(* What the answers say, as long as nothing fails.                         *)

\* The answers a step may give when it costs no fault, with what is then known.
LEMMA QuietAnswers ==
  ASSUME ~SecondsRepeat, QuietInv, faults = 0, faults' = 0, Step, pc' = "idle", [Next]_vars
  PROVE  \/ /\ pc = "find_by_hash" /\ UNCHANGED <<files, receipts>>
            /\ \E r \in files : Answer("duplicate", r.id)
         \/ /\ UNCHANGED <<files, receipts>> /\ job.id \in Ids /\ Answer("not_found", job.id)
         \/ /\ pc = "find_by_id" /\ UNCHANGED <<files, receipts>>
            /\ \E r \in ById(files, job.id) : r.ocr = None /\ Answer("no_ocr_text", job.id)
         \/ /\ pc = "extract" /\ UNCHANGED <<files, receipts>>
            /\ Answer("ocr_failed", job.id) \/ Answer("model_ocr_failed", job.id)
         \/ /\ pc = "read_text" /\ UNCHANGED <<files, receipts>> /\ ~Readable(texts[job.ocr])
            /\ Answer("text_missing", job.id)
         \/ /\ pc = "parse" /\ UNCHANGED <<files, receipts>>
            /\ \/ Answer("parse_failed", job.id) \/ Answer("retry_failed", job.id)
               \/ Answer("model_parse_failed", job.id)
         \/ /\ pc = "mark_parsing" /\ Record
         \/ /\ pc = "delete_row" /\ files' = Without(files, job.id)
            /\ receipts' = Cascade(receipts, files')
            /\ Answer("deleted", job.id)
<1>0. ~Charge(1)
  BY NoFaultBefore DEF QuietInv
<1>1. CASE FindByHash
  BY <1>1 DEF FindByHash, Continue, tables, ByHash
<1>2. CASE SaveOriginal
  <2>1. PICK s \in Stamps :
          \E o \in SaveFile(originals[[at |-> s, ext |-> job.ext]], job.data) :
            /\ Charge(o.cost)
            /\ o.ok => pc' = "insert"
    BY <1>2 DEF SaveOriginal, Continue
  <2> QED
    BY <1>0, <2>1, SaveOutcomes, SaveFileCost
<1>3. CASE InsertRow
  BY <1>3, QuietInsertRow
<1>4. CASE RunOcr \/ ExtractWithModel
  BY <1>4 DEF RunOcr, ExtractWithModel, Extracted, Continue, tables
<1>5. CASE SaveText \/ MarkOcr \/ FindForModel \/ FindForDelete \/ UnlinkOriginal \/ UnlinkText
  BY <1>5 DEF SaveText, MarkOcr, FindForModel, FindForDelete, UnlinkOriginal, UnlinkText, Continue
<1>6. CASE ParseReceipt \/ ParseAgain \/ ParseWithModel
  BY <1>6 DEF ParseReceipt, ParseAgain, ParseWithModel, Parsed, Continue, tables
<1>7. CASE RecordReceipt \/ RecordRetry \/ RecordWithModel
  BY <1>7 DEF RecordReceipt, RecordRetry, RecordWithModel
<1>8. CASE NotFound
  BY <1>8 DEF NotFound, tables, QuietInv, LeakInv, StorageInv, TablesInv, TypeInv, JobTyped
<1>9. CASE FindForRetry
  BY <1>9 DEF FindForRetry, Continue, tables
<1>10. CASE ReadText
  BY <1>0, <1>10 DEF ReadText, Continue, tables
<1>11. CASE ReadOriginal
  <2>1. ~Readable(originals[job.name]) /\ pc = "read_binary"
    BY <1>0, <1>11 DEF ReadOriginal, Continue
  <2>2. PICK r \in files : r.name = job.name /\ originals[r.name] = r.hash
    BY <2>1, QuietRowOfJob DEF WithRow, Deleting
  <2>3. r.hash \in Contents
    BY DEF QuietInv, LeakInv, StorageInv, TablesInv, TypeInv, TypeOK, FileRow
  <2>4. Readable(r.hash)
    BY <2>3, TablesAssumption DEF Readable, LocalReads, SupabaseReads
  <2> QED
    BY <2>1, <2>2, <2>4
<1>12. CASE DeleteRow
  <2>1. pc = "delete_row"
    BY <1>12 DEF DeleteRow
  <2> QED
    BY <1>12, <2>1, QuietDeleteRow
<1> QED
  BY <1>1, <1>2, <1>3, <1>4, <1>5, <1>6, <1>7, <1>8, <1>9, <1>10, <1>11, <1>12 DEF Step

\* Without a fault SQLite records the receipt that was parsed.
LEMMA SqliteRecords ==
  ASSUME Database = "sqlite", QuietInv, faults = 0, faults' = 0, pc = "mark_parsing", Record,
         [Next]_vars
  PROVE  [file |-> job.id, from |-> job.text, ok |-> job.ok] \in receipts'
<1> DEFINE p == [file |-> job.id, from |-> job.text, ok |-> job.ok]
<1>1. PICK o \in RepoMarkParsingComplete(receipts, p) : Charge(o.cost) /\ receipts' = o.left
  BY DEF Record
<1>2. o.cost = 0
  BY <1>1, MarkParsingOutcomes, NoFaultBefore DEF QuietInv
<1>3. o.left = Upsert(receipts, p)
  BY <1>1, <1>2 DEF RepoMarkParsingComplete, SqliteMarkParsingDone, Done, Failed
<1> QED
  BY <1>1, <1>3 DEF Upsert

\* The answers of a request that is served without a fault are true.
LEMMA AnswersTrue ==
  ASSUME ~SecondsRepeat, Database = "sqlite", QuietInv, [Next]_vars, Step
  PROVE  AnswerIsTrue'
<1> SUFFICES ASSUME pc' = "idle", faults' = 0 PROVE AnswerIsTrue'
  BY DEF AnswerIsTrue
<1>0. faults = 0 /\ job.id \in Int /\ (pc \in WithRow => \E r \in files : r.id = job.id)
  BY NoFaultBefore DEF QuietInv, LeakInv, StorageInv, TablesInv, TypeInv, TypeOK, Job, Ids
<1>1. CASE UNCHANGED files /\ \E r \in files : Answer("duplicate", r.id)
  BY <1>1 DEF Answer, AnswerIsTrue, ById
<1>2. CASE Answer("not_found", job.id) \/ Answer("no_ocr_text", job.id)
           \/ Answer("model_ocr_failed", job.id) \/ Answer("model_parse_failed", job.id)
  BY <1>2 DEF Answer, AnswerIsTrue
<1>3. CASE pc = "extract" /\ UNCHANGED files /\ Answer("ocr_failed", job.id)
  BY <1>0, <1>3 DEF Answer, AnswerIsTrue, ById, WithRow
<1>4. CASE /\ pc \in {"read_text", "parse"} /\ UNCHANGED files
           /\ \/ Answer("text_missing", job.id) \/ Answer("parse_failed", job.id)
              \/ Answer("retry_failed", job.id)
  <2>1. PICK r \in files : r.id = job.id /\ r.ocr # None
    BY <1>0, <1>4, QuietRowOfJob DEF WithRow
  <2> QED
    BY <1>4, <2>1 DEF Answer, AnswerIsTrue, ById
<1>5. CASE pc = "mark_parsing" /\ Record
  <2>1. [file |-> job.id, from |-> job.text, ok |-> job.ok] \in receipts'
    BY <1>0, <1>5, SqliteRecords
  <2>2. reply' = [kind |-> IF job.ok THEN "parsed" ELSE "bad_json", id |-> job.id]
    BY <1>5 DEF Record, Answer
  <2>3. job.ok => \E p \in {q \in receipts' : q.file = job.id} : p.ok
    BY <2>1
  <2> QED
    BY <2>2, <2>3 DEF AnswerIsTrue
<1>6. CASE files' = Without(files, job.id) /\ receipts' = Cascade(receipts, files')
           /\ Answer("deleted", job.id)
  BY <1>6 DEF Answer, AnswerIsTrue, Without, Cascade, ById
<1> QED
  BY <1>0, <1>1, <1>2, <1>3, <1>4, <1>5, <1>6, QuietAnswers

\* When nothing fails, and the database is SQLite, what the user is told is
\* what tables and storage say: a receipt that "was parsed" is stored, a file
\* that "was deleted" is gone with its receipt, and no call "failed".
THEOREM AnswerIsTrueCorrect ==
  ASSUME ~SecondsRepeat, Database = "sqlite" PROVE Spec => []AnswerIsTrue
<1>1. Init => AnswerIsTrue
  BY DEF Init, AnswerIsTrue, NoReply
<1>2. QuietInv /\ AnswerIsTrue /\ [Next]_vars => AnswerIsTrue'
  <2> SUFFICES ASSUME QuietInv, AnswerIsTrue, [Next]_vars PROVE AnswerIsTrue'
    OBVIOUS
  <2>1. CASE UNCHANGED vars
    BY <2>1 DEF vars, AnswerIsTrue, ById
  <2>2. CASE Arrive
    BY <2>2 DEF Arrive, Upload, Retry, RetryWithModel, Delete, Request, StartJob, AnswerIsTrue
  <2>3. CASE Step
    BY <2>3, AnswersTrue
  <2>4. CASE Crash
    BY <2>4, NoFaultBefore DEF AnswerIsTrue, QuietInv
  <2> QED
    BY <2>1, <2>2, <2>3, <2>4 DEF Next
<1>3. QuietInv /\ [Next]_vars => QuietInv'
  BY QuietStep
<1> QED
  BY <1>1, <1>2, <1>3, QuietInit, PTL DEF Spec

-----------------------------------------------------------------------------
(* Promised retries.                                                       *)

\* The promise about a file: its text was recorded, and the id is taken.
Kept(i) == i <= lastId /\ \A r \in ById(files, i) : r.ocr # None

\* A promise is kept while rows only gain a text's name, or go, and new rows
\* get new ids.
LEMMA PromiseKept ==
  ASSUME TablesInv, TablesInv', NEW i \in Ids, Kept(i),
         \A q \in files' : \/ \E r \in files : r.id = q.id /\ (r.ocr # None => q.ocr # None)
                           \/ q.id > lastId,
         lastId' >= lastId
  PROVE  Kept(i)'
<1>1. i \in Int /\ lastId \in Int /\ lastId' \in Int
  BY DEF TablesInv, TypeInv, TypeOK, Ids
<1>2. i <= lastId'
  BY <1>1 DEF Kept
<1>3. ASSUME NEW q \in files', q.id = i PROVE q.ocr # None
  <2>1. ~(q.id > lastId)
    BY <1>1, <1>3 DEF Kept
  <2>2. PICK r \in files : r.id = q.id /\ (r.ocr # None => q.ocr # None)
    BY <2>1
  <2> QED
    BY <1>3, <2>2 DEF Kept, ById
<1> QED
  BY <1>2, <1>3 DEF Kept, ById

\* So it is by every step.
LEMMA PromiseStep ==
  ASSUME TablesInv, [Next]_vars, NEW i \in Ids, Kept(i) PROVE Kept(i)'
<1>1. TablesInv' /\ lastId \in Int /\ files \in SUBSET FileRow
  BY TablesStep DEF TablesInv, TypeInv, TypeOK
<1>2. CASE UNCHANGED <<files, lastId>>
  BY <1>2 DEF Kept, ById
<1>3. CASE InsertRow
  <2>0. PICK row : row = [id |-> lastId + 1, hash |-> job.hash, name |-> job.name, ocr |-> None]
    OBVIOUS
  <2>1. PICK o \in RepoInsert(files, row) :
          files' = o.left /\ lastId' \in LastIdAfter(lastId, row \in o.left)
    BY <1>3, <2>0 DEF InsertRow
  <2>2. \A q \in files' : q \in files \/ q = row
    BY <2>1, InsertOutcomes
  <2>3. row.id > lastId /\ lastId' >= lastId
    BY <1>1, <2>0, <2>1, LastIdOutcomes
  <2> QED
    BY <1>1, <2>2, <2>3, PromiseKept
<1>4. CASE MarkOcr
  <2>1. UNCHANGED lastId /\ lastId' >= lastId
    BY <1>1, <1>4 DEF MarkOcr
  <2>2. OcrName(job.name) \in Stamps /\ OcrName(job.name) # None
    BY <1>4, OcrNameType, TablesAssumption
       DEF MarkOcr, TablesInv, TypeInv, JobTyped, WithRow, Stamps
  <2>3. files' \in {files, WithOcr(files, job.id, OcrName(job.name))}
    BY <1>4, MarkOcrOutcomes DEF MarkOcr
  <2>4. \A q \in files' : \E r \in files : r.id = q.id /\ (r.ocr # None => q.ocr # None)
    BY <1>1, <2>2, <2>3, WithOcrKeeps
  <2> QED
    BY <1>1, <2>1, <2>4, PromiseKept
<1>5. CASE DeleteRow
  <2>1. UNCHANGED lastId /\ lastId' >= lastId
    BY <1>1, <1>5 DEF DeleteRow
  <2>2. \A q \in files' : q \in files
    BY <1>5, DeleteOutcomes DEF DeleteRow, Without
  <2> QED
    BY <1>1, <2>1, <2>2, PromiseKept
<1>6. \/ UNCHANGED <<files, lastId>> \/ InsertRow \/ MarkOcr \/ DeleteRow
  BY DEF Next, Arrive, Step, Crash, Kill, Upload, Retry, RetryWithModel, Delete, Request, StartJob,
     FindByHash, SaveOriginal, RunOcr, SaveText, ParseReceipt, RecordReceipt, Record, NotFound,
     FindForRetry, ReadText, ParseAgain, RecordRetry, FindForModel, ReadOriginal,
     ExtractWithModel, ParseWithModel, RecordWithModel, FindForDelete, UnlinkOriginal,
     UnlinkText, vars, tables
<1> QED
  BY <1>2, <1>3, <1>4, <1>5, <1>6

\* What a step tells about a file: nothing new, or an answer about it.
LEMMA AdviceMoves ==
  ASSUME [Next]_vars
  PROVE  \/ UNCHANGED advice /\ (UNCHANGED reply \/ reply' = NoReply)
         \/ Step /\ pc' = "idle"
<1>1. CASE UNCHANGED vars
  BY <1>1 DEF vars
<1>2. CASE Arrive
  BY <1>2 DEF Arrive, Upload, Retry, RetryWithModel, Delete, Request, StartJob
<1>3. CASE Crash
  BY <1>3 DEF Crash, Kill
<1>4. CASE Step
  <2>1. CASE FindByHash \/ InsertRow \/ RunOcr \/ ParseReceipt \/ NotFound
             \/ FindForRetry \/ ReadText \/ ParseAgain \/ ReadOriginal \/ ExtractWithModel
             \/ ParseWithModel
    BY <1>4, <2>1 DEF FindByHash, InsertRow, RunOcr, ParseReceipt, NotFound,
       FindForRetry, ReadText, ParseAgain, ReadOriginal, ExtractWithModel, ParseWithModel,
       Extracted, Parsed, Continue, Answer
  <2>2. CASE SaveOriginal
    <3>1. (UNCHANGED advice /\ UNCHANGED reply) \/ pc' = "idle"
      BY <2>2 DEF SaveOriginal, Continue, Answer
    <3> QED
      BY <1>4, <3>1
  <2>3. CASE SaveText \/ MarkOcr \/ FindForModel \/ FindForDelete \/ UnlinkOriginal \/ UnlinkText
    BY <2>3 DEF SaveText, MarkOcr, FindForModel, FindForDelete, UnlinkOriginal, UnlinkText,
       Continue
  <2>4. CASE RecordReceipt \/ RecordRetry \/ RecordWithModel \/ DeleteRow
    BY <1>4, <2>4 DEF RecordReceipt, RecordRetry, RecordWithModel, Record, DeleteRow, Answer
  <2> QED
    BY <1>4, <2>1, <2>2, <2>3, <2>4 DEF Step
<1> QED
  BY <1>1, <1>2, <1>3, <1>4 DEF Next

\* A retry is only promised about a file whose text was recorded.
LEMMA PromiseMade ==
  ASSUME ~SecondsRepeat, QuietInv, faults = 0, faults' = 0, Step, pc' = "idle", [Next]_vars,
         NEW i \in Ids, advice'[i] = "retry_later", advice[i] # "retry_later"
  PROVE  Kept(i)
<1>0. /\ advice \in [Ids -> Advices] /\ 0 \notin Ids /\ lastId \in Int
      /\ \A r \in files : r.id \in Ids
  BY DEF QuietInv, LeakInv, StorageInv, TablesInv, TypeInv, TypeOK, Ids, FileRow
<1>1. ASSUME NEW kind, NEW id, Answer(kind, id)
      PROVE  id = i /\ AdviceOf(kind, id) = "retry_later"
  BY <1>0, <1>1 DEF Answer
<1>2. ASSUME NEW kind, NEW id, Answer(kind, id) PROVE kind = "parse_failed"
  BY <1>1, <1>2 DEF AdviceOf
<1>3. pc = "parse" /\ Answer("parse_failed", job.id)
  <2>1. CASE \E r \in files : Answer("duplicate", r.id)
    BY <1>2, <2>1
  <2>2. CASE Record
    BY <1>2, <2>2 DEF Record
  <2>3. CASE \E r \in ById(files, job.id) : Answer("no_ocr_text", job.id)
    BY <1>2, <2>3
  <2>4. CASE \/ Answer("not_found", job.id) \/ Answer("ocr_failed", job.id)
             \/ Answer("model_ocr_failed", job.id) \/ Answer("text_missing", job.id)
             \/ Answer("retry_failed", job.id) \/ Answer("model_parse_failed", job.id)
             \/ Answer("deleted", job.id)
    BY <1>2, <2>4
  <2> QED
    BY <2>1, <2>2, <2>3, <2>4, QuietAnswers
<1>4. PICK r \in files : /\ r.id = job.id /\ r.ocr # None
                         /\ \A q \in files : q.id = job.id => q = r
  BY <1>3, QuietRowOfJob DEF WithRow
<1>5. job.id = i
  BY <1>1, <1>3
<1> QED
  BY <1>4, <1>5 DEF Kept, ById, QuietInv, LeakInv, StorageInv, TablesInv, TablesSound

LEMMA AdviceInit == Init => AdviceInv
<1> SUFFICES ASSUME Init PROVE AdviceInv
  OBVIOUS
<1>1. QuietInv
  BY QuietInit
<1> QED
  BY <1>1 DEF Init, AdviceInv

LEMMA AdviceStep ==
  ASSUME ~SecondsRepeat PROVE AdviceInv /\ [Next]_vars => AdviceInv'
<1> SUFFICES ASSUME AdviceInv, [Next]_vars PROVE AdviceInv'
  OBVIOUS
<1>1. QuietInv'
  BY QuietStep DEF AdviceInv
<1>2. pc' # "idle" => reply' = NoReply
  <2>1. CASE UNCHANGED vars
    BY <2>1 DEF vars, AdviceInv
  <2>2. CASE Arrive
    BY <2>2 DEF Arrive, Upload, Retry, RetryWithModel, Delete, Request, StartJob
  <2>3. CASE Step \/ Crash
    <3>1. pc # "idle"
      BY <2>3 DEF Crash, Kill, Step, FindByHash, SaveOriginal, InsertRow, RunOcr, SaveText,
         MarkOcr, ParseReceipt, RecordReceipt, NotFound, FindForRetry, ReadText, ParseAgain,
         RecordRetry, FindForModel, ReadOriginal, ExtractWithModel, ParseWithModel,
         RecordWithModel, FindForDelete, UnlinkOriginal, UnlinkText, DeleteRow
    <3> QED
      BY <3>1, AdviceMoves DEF AdviceInv
  <2> QED
    BY <2>1, <2>2, <2>3 DEF Next
<1>3. ASSUME faults' = 0, NEW i \in Ids, advice'[i] = "retry_later"
      PROVE  i <= lastId' /\ \A r \in ById(files', i) : r.ocr # None
  <2>1. faults = 0
    BY <1>3, NoFaultBefore DEF AdviceInv, QuietInv
  <2>2. Kept(i)
    <3>1. CASE advice[i] = "retry_later"
      BY <2>1, <3>1 DEF AdviceInv, Kept
    <3>2. CASE advice[i] # "retry_later"
      <4>1. Step /\ pc' = "idle"
        BY <1>3, <3>2, AdviceMoves
      <4> QED
        BY <1>3, <2>1, <3>2, <4>1, PromiseMade DEF AdviceInv
    <3> QED
      BY <3>1, <3>2
  <2>3. Kept(i)'
    BY <2>2, PromiseStep DEF AdviceInv, QuietInv, LeakInv, StorageInv
  <2> QED
    BY <2>3 DEF Kept, ById
<1> QED
  BY <1>1, <1>2, <1>3 DEF AdviceInv, ById

\* An answer without a fault that there is no text, about a file whose retry
\* was promised: its text is empty.
LEMMA PromiseFound ==
  ASSUME ~SecondsRepeat, AdviceInv, [Next]_vars, ~UNCHANGED vars, faults' = 0, NEW i \in Ids,
         reply' \in [kind : {"no_ocr_text", "text_missing"}, id : {i}],
         advice[i] = "retry_later"
  PROVE  \E r \in ById(files, i) : r.ocr # None /\ texts[r.ocr] = Blank
<1>1. faults = 0 /\ ~Crash
  BY NoFaultBefore DEF AdviceInv, QuietInv
<1>2. reply'.kind \in {"no_ocr_text", "text_missing"} /\ reply'.id = i
  OBVIOUS
<1>3. Step /\ pc' = "idle"
  <2>1. CASE Arrive
    <3>1. reply' = NoReply
      BY <2>1 DEF Arrive, Upload, Retry, RetryWithModel, Delete, Request, StartJob
    <3> QED
      BY <1>2, <3>1 DEF NoReply
  <2>2. CASE Step
    <3>1. pc # "idle"
      BY <2>2 DEF Step, FindByHash, SaveOriginal, InsertRow, RunOcr, SaveText,
         MarkOcr, ParseReceipt, RecordReceipt, NotFound, FindForRetry, ReadText, ParseAgain,
         RecordRetry, FindForModel, ReadOriginal, ExtractWithModel, ParseWithModel,
         RecordWithModel, FindForDelete, UnlinkOriginal, UnlinkText, DeleteRow
    <3>2. reply = NoReply
      BY <3>1 DEF AdviceInv
    <3> QED
      BY <1>2, <2>2, <3>2, AdviceMoves DEF NoReply
  <2> QED
    BY <1>1, <2>1, <2>2 DEF Next
<1>4. Kept(i)
  BY <1>1 DEF AdviceInv, Kept
<1>5. \A kind, id : Answer(kind, id) => kind \in {"no_ocr_text", "text_missing"} /\ id = i
  BY <1>2 DEF Answer
<1>6. \/ \E r \in ById(files, job.id) : r.ocr = None /\ Answer("no_ocr_text", job.id)
      \/ pc = "read_text" /\ ~Readable(texts[job.ocr]) /\ Answer("text_missing", job.id)
  <2>1. CASE \E r \in files : Answer("duplicate", r.id)
    BY <1>5, <2>1
  <2>2. CASE Record
    BY <1>5, <2>2 DEF Record
  <2>3. CASE \/ Answer("not_found", job.id) \/ Answer("ocr_failed", job.id)
             \/ Answer("model_ocr_failed", job.id) \/ Answer("parse_failed", job.id)
             \/ Answer("retry_failed", job.id) \/ Answer("model_parse_failed", job.id)
             \/ Answer("deleted", job.id)
    BY <1>5, <2>3
  <2> QED
    BY <1>1, <1>3, <2>1, <2>2, <2>3, QuietAnswers DEF AdviceInv
<1>7. CASE \E r \in ById(files, job.id) : r.ocr = None /\ Answer("no_ocr_text", job.id)
  BY <1>4, <1>5, <1>7 DEF Kept
<1>8. CASE pc = "read_text" /\ ~Readable(texts[job.ocr]) /\ Answer("text_missing", job.id)
  <2>1. PICK r \in files : /\ r.id = job.id /\ r.ocr = job.ocr /\ r.ocr # None
                           /\ texts[r.ocr] \in {r.hash, Blank}
    BY <1>1, <1>8, QuietRowOfJob DEF AdviceInv, WithRow, Deleting
  <2>2. r.hash \in Contents
    BY DEF AdviceInv, QuietInv, LeakInv, StorageInv, TablesInv, TypeInv, TypeOK, FileRow
  <2>3. texts[r.ocr] = Blank
    BY <1>8, <2>1, <2>2, TablesAssumption DEF Readable, LocalReads, SupabaseReads
  <2>4. job.id = i
    BY <1>5, <1>8
  <2> QED
    BY <2>1, <2>3, <2>4 DEF ById
<1> QED
  BY <1>6, <1>7, <1>8

\* A retry that an answer promised finds the text of its file, unless the text
\* was empty, also after other files came and went in between.
THEOREM PromisedRetryFindsTextCorrect ==
  ASSUME ~SecondsRepeat PROVE Spec => PromisedRetryFindsText
<1>1. AdviceInv /\ [Next]_vars =>
        [\A i \in Ids :
           faults' = 0 /\ reply' \in [kind : {"no_ocr_text", "text_missing"}, id : {i}]
             => \/ advice[i] # "retry_later"
                \/ \E r \in ById(files, i) : r.ocr # None /\ texts[r.ocr] = Blank]_vars
  BY PromiseFound
<1>2. AdviceInv /\ [Next]_vars => AdviceInv'
  BY AdviceStep
<1> QED
  BY <1>1, <1>2, AdviceInit, PTL DEF Spec, PromisedRetryFindsText
=============================================================================
