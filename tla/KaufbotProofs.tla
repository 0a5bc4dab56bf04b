---------------------------- MODULE KaufbotProofs ----------------------------
(***************************************************************************)
(* The whole bot: that it behaves as each of its parts was specified to,   *)
(* so that what is proved of the pipeline and of the loop holds of it; and *)
(* what it promises its users across the two, for any number of updates,   *)
(* processes and faults.                                                   *)
(***************************************************************************)
EXTENDS Kaufbot, PipelineProofs, FiniteSetTheorems

LoopProofs == INSTANCE PollingProofs WITH MaxFaults <- MaxLoopFaults, faults <- loopFaults

-----------------------------------------------------------------------------
(* The inductive invariant.                                                *)

\* Which operation makes a call.
OpOfCall ==
  /\ pc \in BeforeRow => job.op = "upload"
  /\ pc = "find_by_id" => job.op \in {"retry", "retry_with_model", "delete"}
  /\ pc \in {"extract", "save_text", "mark_ocr"} => job.op \in {"upload", "retry_with_model"}
  /\ pc \in {"parse", "mark_parsing"} => job.op \in {"upload", "retry_with_model", "retry"}
  /\ pc = "read_text" => job.op = "retry"
  /\ pc = "read_binary" => job.op = "retry_with_model"
  /\ pc \in Deleting => job.op = "delete"

\* The row of an upload, once it has one.
RowOfUpload ==
  pc \in WithRow /\ job.op = "upload" => \E r \in files : r.id = job.id /\ r.hash = job.hash

CallsInv == OpOfCall /\ RowOfUpload

\* The parts, each with the invariant it is proved to have.
PartsSound == TablesInv /\ CallsInv /\ Loop!PollInv

RequestsKnown == request \in [Updates -> Requests \cup {Unread}]

AskFor(what, on) == [by |-> "user", what |-> what, on |-> on]

\* The pipeline is at work only for the update being dispatched, and does what
\* that update asks for.
JobServed ==
  pc # "idle" =>
    /\ phase = "dispatch" /\ direct = "none"
    /\ request[Current] = AskFor(job.op, IF job.op = "upload" THEN job.hash ELSE job.id)

\* An update is looked at before its dispatch goes on, let alone ends.
LookedAt ==
  /\ phase = "dispatch" => request[Current] # Unread /\ begun[Current] > 0
  /\ \A u \in Updates : done[u] > 0 => request[u] # Unread

AnswersKept ==
  said = [u \in Updates |-> said[u]] /\ lost = [u \in Updates |-> lost[u]]

ServiceInv == RequestsKnown /\ JobServed /\ LookedAt /\ AnswersKept

\* When the handler of an upload is about to return, there is a row or a reason.
UploadAnswered ==
  phase = "dispatch" /\ pc = "idle" =>
    \A c \in Contents : request[Current] = AskFor("upload", c) =>
      IF direct = "none"
      THEN ByHash(files, c) # {} \/ reply.kind \in {"save_failed", "db_error"}
      ELSE direct \in NotFetched

RemovalsTyped == gone \in [Contents -> [by : Nat, start : Nat]]

\* What Telegram hands out it has not been told to forget, and nothing that it
\* still has to hand out comes before what this process is about to dispatch.
BatchUnconfirmed == phase \in {"batch", "dispatch"} => \A u \in batch : u > confirmed

BatchWhole ==
  phase \in {"batch", "dispatch"} =>
    \A u \in batch, v \in Updates : v < u => v \in batch \/ v < offset \/ v <= confirmed

BatchInv == BatchUnconfirmed /\ BatchWhole

\* NoUploadVanishes, where an upload that was handled before the deletion of
\* its row is one that this process has still to come to.
UploadsKept ==
  \A c \in Contents : \A u \in Uploads(c) :
    done[u] > 0 => \/ ByHash(files, c) # {}
                   \/ "refused" \in said[u] \cup lost[u]
                   \/ gone[c].by > u
                   \/ gone[c] # Never /\ u > confirmed /\ u >= offset

VanishInv == RemovalsTyped /\ BatchInv /\ UploadsKept /\ UploadAnswered

\* What removed a content's row was a deletion, that of an update this process
\* has answered or is dispatching, if it is this process that removed it.
RemovalsKnown ==
  \A c \in Contents : gone[c] # Never =>
    /\ gone[c].by \in Updates /\ request[gone[c].by].what = "delete"
    /\ gone[c].start <= starts
    /\ gone[c].start = starts /\ phase \notin Loop!Down =>
         gone[c].by < offset \/ (phase = "dispatch" /\ gone[c].by = Current)

RemovalsInv == RemovalsTyped /\ RemovalsKnown /\ BatchInv

\* A row without a text for which the request at work still has the excuse.
Excused(r) ==
  /\ phase = "dispatch" /\ direct = "none"
  /\ request[Current] = AskFor("upload", r.hash)
  /\ \/ pc \in {"extract", "save_text", "mark_ocr"} /\ job.op = "upload"
     \/ pc = "idle" /\ reply.kind = "ocr_failed"

Unexplained ==
  {r \in files : /\ r.ocr = None
                 /\ \A u \in Uploads(r.hash) : "ocr_failed" \notin said[u] \cup lost[u]
                 /\ ~Excused(r)}

UnreadBound == IsFiniteSet(Unexplained) /\ Cardinality(Unexplained) <= faults

KaufbotInv ==
  /\ PartsSound /\ ServiceInv
  /\ NothingUnasked
  /\ VanishInv
  /\ RemovalsInv
  /\ UnreadBound

-----------------------------------------------------------------------------
(* The parts.                                                              *)

\* The loop of the bot is the loop that was proved about on its own.
LEMMA SameLoopInv == LoopProofs!PollInv <=> Loop!PollInv
BY DEF LoopProofs!PollInv, Loop!PollInv, LoopProofs!PollTypeOK, Loop!PollTypeOK,
       LoopProofs!NothingLost, Loop!NothingLost, LoopProofs!BatchSound, Loop!BatchSound,
       LoopProofs!OnceByEachProcess, Loop!OnceByEachProcess, LoopProofs!NotYetBegun,
       Loop!NotYetBegun, LoopProofs!Updates, Loop!Updates, LoopProofs!Phases, Loop!Phases,
       LoopProofs!Down, Loop!Down, LoopProofs!Oldest, Loop!Oldest

LEMMA SameLoopInit == LoopProofs!PollInit <=> Loop!PollInit
BY DEF LoopProofs!PollInit, Loop!PollInit, LoopProofs!Updates, Loop!Updates

LEMMA SameLoopNext ==
  [LoopProofs!PollNext]_(LoopProofs!pollVars) <=> [Loop!PollNext]_(Loop!pollVars)
<1>1. LoopProofs!pollVars = Loop!pollVars /\ LoopProofs!loopVars = Loop!loopVars
  BY DEF LoopProofs!pollVars, Loop!pollVars, LoopProofs!loopVars, Loop!loopVars
<1>2. LoopProofs!pollVars' = Loop!pollVars' /\ LoopProofs!loopVars' = Loop!loopVars'
  BY DEF LoopProofs!pollVars, Loop!pollVars, LoopProofs!loopVars, Loop!loopVars
<1>3. (LoopProofs!Send <=> Loop!Send) /\ (LoopProofs!LoopEnds <=> Loop!LoopEnds)
  BY <1>1, <1>2 DEF LoopProofs!Send, Loop!Send, LoopProofs!LoopEnds, Loop!LoopEnds
<1>4. /\ LoopProofs!PollAnswered <=> Loop!PollAnswered
      /\ LoopProofs!PollExpires <=> Loop!PollExpires
      /\ LoopProofs!PollFails <=> Loop!PollFails
  BY DEF LoopProofs!PollAnswered, Loop!PollAnswered, LoopProofs!PollExpires, Loop!PollExpires,
         LoopProofs!PollFails, Loop!PollFails, LoopProofs!PollFault, Loop!PollFault,
         LoopProofs!Confirm, Loop!Confirm
<1>5. /\ LoopProofs!Sleep <=> Loop!Sleep
      /\ LoopProofs!Tick <=> Loop!Tick
      /\ LoopProofs!BatchEnds <=> Loop!BatchEnds
  BY DEF LoopProofs!Sleep, Loop!Sleep, LoopProofs!Tick, Loop!Tick,
         LoopProofs!BatchEnds, Loop!BatchEnds
<1>6. /\ LoopProofs!BeginDispatch <=> Loop!BeginDispatch
      /\ LoopProofs!EndDispatch <=> Loop!EndDispatch
  BY DEF LoopProofs!BeginDispatch, Loop!BeginDispatch, LoopProofs!EndDispatch, Loop!EndDispatch,
         LoopProofs!Oldest, Loop!Oldest
<1>7. /\ LoopProofs!Signal <=> Loop!Signal
      /\ LoopProofs!PollKill <=> Loop!PollKill
      /\ LoopProofs!StartProcess <=> Loop!StartProcess
  BY DEF LoopProofs!Signal, Loop!Signal, LoopProofs!PollKill, Loop!PollKill, LoopProofs!PollFault,
         Loop!PollFault, LoopProofs!StartProcess, Loop!StartProcess, LoopProofs!Down, Loop!Down
<1> QED
  BY <1>1, <1>2, <1>3, <1>4, <1>5, <1>6, <1>7
     DEF LoopProofs!PollNext, Loop!PollNext, LoopProofs!Turn, Loop!Turn

LEMMA LoopInvInit == Loop!PollInit => Loop!PollInv
BY SameLoopInit, SameLoopInv, LoopProofs!PollInvInit, KaufbotAssumption

LEMMA LoopInvStep == Loop!PollInv /\ [Loop!PollNext]_(Loop!pollVars) => Loop!PollInv'
<1>1. LoopProofs!PollInv' <=> Loop!PollInv'
  BY SameLoopInv, PTL
<1> QED
  BY <1>1, SameLoopInv, SameLoopNext, LoopProofs!PollInvStep, KaufbotAssumption

\* Every step of the bot is a step of the loop, or none of its business.
LEMMA LoopSteps == [KaufbotNext]_kaufbotVars => [Loop!PollNext]_(Loop!pollVars)
<1> SUFFICES ASSUME [KaufbotNext]_kaufbotVars PROVE Loop!PollNext \/ UNCHANGED Loop!pollVars
  OBVIOUS
<1>1. CASE SendUpdate
  BY <1>1 DEF SendUpdate, Loop!PollNext
<1>2. CASE Turn
  BY <1>2 DEF Turn, Begin, Work, Return, loopRest, Loop!PollNext, Loop!Turn, Loop!pollVars
<1>3. CASE KillBot \/ SignalBot \/ StartBot
  BY <1>3 DEF KillBot, SignalBot, StartBot, Loop!PollNext
<1>4. CASE UNCHANGED kaufbotVars
  BY <1>4 DEF kaufbotVars, loopRest, Loop!pollVars
<1> QED
  BY <1>1, <1>2, <1>3, <1>4 DEF KaufbotNext

\* The update that is dispatched is the only oldest one of the batch.
LEMMA CurrentUpdate ==
  ASSUME Loop!PollInv, phase = "dispatch"
  PROVE  /\ Current \in batch /\ Loop!Oldest(Current) /\ Current \in Updates
         /\ \A u \in batch : Loop!Oldest(u) => u = Current
<1>1. \E u \in batch : Loop!Oldest(u)
  BY DEF Loop!PollInv, Loop!BatchSound
<1>2. Current \in batch /\ Loop!Oldest(Current)
  BY <1>1 DEF Current
<1>3. batch \subseteq Updates /\ \A u \in Updates : u \in Nat
  BY KaufbotAssumption DEF Loop!PollInv, Loop!PollTypeOK, Loop!Updates, Updates
<1>4. \A u \in batch : Loop!Oldest(u) => u = Current
  BY <1>2, <1>3 DEF Loop!Oldest
<1> QED
  BY <1>2, <1>3, <1>4

\* What is asked for is a request, and stays it.
LEMMA AskedRequests ==
  ASSUME RequestsKnown, NEW u \in Updates, NEW r \in Asked(u)
  PROVE  /\ r \in Requests /\ r # Unread
         /\ request[u] # Unread => r = request[u]
<1>1. Asks[u] \subseteq Requests
  BY KaufbotAssumption
<1>2. Unread \notin Requests
  BY DEF Unread, Requests, RequestsFor
<1> QED
  BY <1>1, <1>2 DEF Asked, RequestsKnown

\* What a request is for, by what it asks.
LEMMA RequestsOn ==
  ASSUME NEW r \in Requests
  PROVE  /\ r.what = "upload" => r.on \in Contents
         /\ r.what \in {"retry", "retry_with_model", "delete"} => r.on \in Ids
         /\ r.by = "user" => r = AskFor(r.what, r.on)
BY DEF Requests, RequestsFor, AskFor

\* A dispatch answers at once, or starts the pipeline on what was asked.
LEMMA Dispatched ==
  ASSUME NEW r \in Requests, DispatchUpdate(r)
  PROVE  \/ direct' # "none" /\ UNCHANGED vars
            /\ \A c \in Contents : r = AskFor("upload", c) => direct' \in NotFetched
         \/ /\ direct' = "none" /\ r.by = "user"
            /\ \/ r.what = "upload" /\ \E e \in Exts : Upload(r.on, e)
               \/ r.what = "retry" /\ Retry(r.on)
               \/ r.what = "retry_with_model" /\ RetryWithModel(r.on)
               \/ r.what = "delete" /\ Delete(r.on)
<1>1. CASE ~config_is_allowed(r)
  BY <1>1 DEF DispatchUpdate, AnswerDirectly, config_is_allowed, AskFor
<1>2. CASE config_is_allowed(r)
  <2>1. r.by = "user"
    BY <1>2 DEF config_is_allowed
  <2>2. CASE r.what = "upload" /\ HandleFile(r.on)
    BY <2>1, <2>2 DEF HandleFile, AnswerDirectly, CallPipeline, NotFetched
  <2>3. CASE r.what = "other" /\ HandleOther
    BY <2>1, <2>3 DEF HandleOther, AnswerDirectly, AskFor
  <2>4. CASE \/ r.what = "retry" /\ CallPipeline(Retry(r.on))
             \/ r.what = "retry_with_model" /\ CallPipeline(RetryWithModel(r.on))
             \/ r.what = "delete" /\ CallPipeline(Delete(r.on))
    BY <2>1, <2>4 DEF CallPipeline
  <2> QED
    BY <1>2, <2>2, <2>3, <2>4 DEF DispatchUpdate
<1> QED
  BY <1>1, <1>2

\* What a dispatch starts with: the current update is looked at.
LEMMA Begun ==
  ASSUME Loop!PollInv, RequestsKnown, Begin
  PROVE  \E r \in Requests :
           /\ phase = "batch" /\ phase' = "dispatch"
           /\ Current' \in Updates /\ Current' \in batch /\ Current' = Current
           /\ request' = [request EXCEPT ![Current] = r] /\ r # Unread
           /\ request[Current] # Unread => r = request[Current]
           /\ begun' = [begun EXCEPT ![Current] = @ + 1]
           /\ DispatchUpdate(r)
           /\ UNCHANGED <<sent, confirmed, running, offset, batch, done, starts, loopFaults>>
           /\ UNCHANGED ghosts
<1>1. PICK u \in batch : /\ Loop!Oldest(u)
                         /\ \E r \in Asked(u) : /\ request' = [request EXCEPT ![u] = r]
                                                /\ DispatchUpdate(r)
  BY DEF Begin
<1>2. /\ phase = "batch" /\ phase' = "dispatch"
      /\ UNCHANGED <<sent, confirmed, running, offset, batch, done, starts, loopFaults>>
      /\ UNCHANGED ghosts
      /\ \E v \in batch : Loop!Oldest(v) /\ begun' = [begun EXCEPT ![v] = @ + 1]
  BY DEF Begin, Loop!BeginDispatch
<1>3. batch \subseteq Updates /\ \A v \in Updates : v \in Nat
  BY KaufbotAssumption DEF Loop!PollInv, Loop!PollTypeOK, Loop!Updates, Updates
<1>4. \A v \in batch : Loop!Oldest(v) => v = u
  BY <1>1, <1>3 DEF Loop!Oldest
<1>5. Current = u /\ Current' = u
  BY <1>1, <1>2, <1>4 DEF Current, Loop!Oldest
<1>6. PICK r \in Asked(u) : request' = [request EXCEPT ![u] = r] /\ DispatchUpdate(r)
  BY <1>1
<1>7. r \in Requests /\ r # Unread /\ (request[u] # Unread => r = request[u])
  BY <1>1, <1>3, <1>6, AskedRequests
<1>8. begun' = [begun EXCEPT ![u] = @ + 1]
  BY <1>2, <1>4
<1> QED
  BY <1>1, <1>2, <1>3, <1>5, <1>6, <1>7, <1>8

\* Every step of the bot is a step of the pipeline, or none of its business.
LEMMA PipelineSteps ==
  ASSUME Loop!PollInv, RequestsKnown, [KaufbotNext]_kaufbotVars
  PROVE  [Next]_vars
<1>1. CASE Begin
  <2>1. PICK r \in Requests : DispatchUpdate(r)
    BY <1>1, Begun
  <2>2. CASE UNCHANGED vars
    BY <2>2
  <2>3. CASE r.what = "upload" /\ \E e \in Exts : Upload(r.on, e)
    BY <2>3, RequestsOn DEF Next, Arrive
  <2>4. CASE \/ r.what = "retry" /\ Retry(r.on)
             \/ r.what = "retry_with_model" /\ RetryWithModel(r.on)
             \/ r.what = "delete" /\ Delete(r.on)
    BY <2>4, RequestsOn DEF Next, Arrive
  <2> QED
    BY <2>1, <2>2, <2>3, <2>4, Dispatched
<1>2. CASE Work
  BY <1>2 DEF Work, Next
<1>3. CASE KillBot
  BY <1>3 DEF KillBot, Next
<1>4. CASE UNCHANGED vars
  BY <1>4
<1> QED
  BY <1>1, <1>2, <1>3, <1>4
     DEF KaufbotNext, SendUpdate, Turn, Return, SignalBot, StartBot, kaufbotVars

\* Requests are looked at once, and stay what they are.
LEMMA RequestsStep ==
  ASSUME Loop!PollInv, RequestsKnown, [KaufbotNext]_kaufbotVars
  PROVE  /\ RequestsKnown'
         /\ \A u \in Updates : request[u] # Unread => request'[u] = request[u]
<1>1. CASE Begin
  BY <1>1, Begun DEF RequestsKnown
<1>2. CASE UNCHANGED request
  BY <1>2 DEF RequestsKnown
<1> QED
  BY <1>1, <1>2 DEF KaufbotNext, SendUpdate, Turn, Work, Return, KillBot, SignalBot, StartBot, kaufbotVars

\* The whole bot behaves as the pipeline and as the loop were specified to:
\* ComposesParts but for the fairness.
THEOREM WholeImplementsParts == KaufbotSpec => Spec /\ Loop!PollSpec
<1>1. KaufbotInit => Loop!PollInv /\ RequestsKnown /\ Init /\ Loop!PollInit
  BY LoopInvInit DEF KaufbotInit, RequestsKnown
<1>2. Loop!PollInv /\ RequestsKnown /\ [KaufbotNext]_kaufbotVars =>
        /\ Loop!PollInv' /\ RequestsKnown'
        /\ [Next]_vars /\ [Loop!PollNext]_(Loop!pollVars)
  BY LoopSteps, LoopInvStep, RequestsStep, PipelineSteps
<1> QED
  BY <1>1, <1>2, PTL DEF KaufbotSpec, Spec, Loop!PollSpec

-----------------------------------------------------------------------------
(* The pipeline's calls, and where its rows come from and go.              *)

\* The call of an insertion, if there is one: its row, and what was charged.
LEMMA Inserted ==
  ASSUME TablesInv, InsertRow
  PROVE  \/ files' = files /\ pc' = "idle" /\ reply'.kind = "db_error"
         \/ \E row \in FileRow :
              /\ row.id = lastId + 1 /\ row.hash = job.hash /\ row.ocr = None
              /\ files' = files \cup {row} /\ lastId' = lastId + 1
              /\ \/ pc' = "extract" /\ job' = [job EXCEPT !.id = row.id]
                 \/ pc' = "idle" /\ reply'.kind = "db_error" /\ faults' = faults + 1
<1> DEFINE row == [id |-> lastId + 1, hash |-> job.hash, name |-> job.name, ocr |-> None]
<1>1. PICK o \in RepoInsert(files, row) :
        /\ Charge(o.cost) /\ files' = o.left /\ lastId' \in LastIdAfter(lastId, row \in o.left)
        /\ IF o.ok THEN Continue("extract", [job EXCEPT !.id = row.id]) ELSE Answer("db_error", 0)
  BY DEF InsertRow
<1>2. lastId + 1 \in Ids
  BY TablesAssumption DEF InsertRow, TablesInv, TypeInv, TypeOK, JobTyped, BeforeRow, Ids
<1>3. row \in FileRow /\ row.id = lastId + 1 /\ row.hash = job.hash /\ row.ocr = None
  BY <1>2 DEF InsertRow, TablesInv, TypeInv, JobTyped, BeforeRow, FileRow
<1>4. row \in files' => lastId' = lastId + 1
  BY <1>1, LastIdOutcomes
<1>5. o = Done(files \cup {row}) \/ o \in {Failed(files), Refused(files)}
        \/ o = Failed(files \cup {row})
  BY <1>1 DEF RepoInsert, SqliteInsert, PostgresInsert
<1> HIDE DEF row
<1>6. CASE o = Done(files \cup {row})
  BY <1>1, <1>3, <1>4, <1>6 DEF Done, Continue
<1>7. CASE o = Failed(files \cup {row})
  BY <1>1, <1>3, <1>4, <1>7 DEF Failed, Answer, Charge
<1>8. CASE o \in {Failed(files), Refused(files)}
  BY <1>1, <1>8 DEF Failed, Refused, Answer
<1> QED
  BY <1>5, <1>6, <1>7, <1>8

\* Three calls write the table of files.
LEMMA FilesActions ==
  ASSUME [Next]_vars
  PROVE  UNCHANGED <<files, lastId>> \/ InsertRow \/ MarkOcr \/ DeleteRow
<1>1. CASE Arrive \/ Crash \/ UNCHANGED vars
  BY <1>1 DEF Arrive, Upload, Retry, RetryWithModel, Delete, Request, StartJob, Crash, Kill,
              vars, tables
<1>2. CASE RecordReceipt \/ RecordRetry \/ RecordWithModel
  BY <1>2 DEF RecordReceipt, RecordRetry, RecordWithModel, Record
<1>3. CASE FindByHash \/ SaveOriginal \/ RunOcr \/ SaveText \/ ParseReceipt \/ NotFound
             \/ FindForRetry \/ ReadText \/ ParseAgain
  BY <1>3 DEF FindByHash, SaveOriginal, RunOcr, SaveText, ParseReceipt, NotFound,
     FindForRetry, ReadText, ParseAgain, tables
<1>4. CASE FindForModel \/ ReadOriginal \/ ExtractWithModel \/ ParseWithModel
             \/ FindForDelete \/ UnlinkOriginal \/ UnlinkText
  BY <1>4 DEF FindForModel, ReadOriginal, ExtractWithModel, ParseWithModel,
     FindForDelete, UnlinkOriginal, UnlinkText, tables
<1> QED
  BY <1>1, <1>2, <1>3, <1>4 DEF Next, Step

\* What the two others do to it, and which call charges what.
LEMMA Marked ==
  ASSUME TablesInv, MarkOcr
  PROVE  /\ pc = "mark_ocr" /\ pc' = "parse" /\ job' = job /\ lastId' = lastId
         /\ OcrName(job.name) \in Stamps /\ OcrName(job.name) # None
         /\ \/ files' = WithOcr(files, job.id, OcrName(job.name)) /\ faults' >= faults
            \/ files' = files /\ faults' = faults + 1
<1>1. PICK o \in RepoMarkOcrComplete(files, job.id, OcrName(job.name)) :
        Charge(o.cost) /\ files' = o.left
  BY DEF MarkOcr
<1>2. faults \in Nat
  BY PipelineAssumption DEF TablesInv, TypeInv, TypeOK
<1>3. \/ o.left = WithOcr(files, job.id, OcrName(job.name)) /\ o.cost \in {0, 1}
      \/ o.left = files /\ o.cost = 1
  BY DEF RepoMarkOcrComplete, SqliteMarkOcrDone, PostgresMarkOcrDone, Done, Failed
<1>4. OcrName(job.name) \in Stamps /\ OcrName(job.name) # None
  BY OcrNameType, TablesAssumption DEF MarkOcr, TablesInv, TypeInv, JobTyped, WithRow, Stamps
<1> QED
  BY <1>1, <1>2, <1>3, <1>4 DEF MarkOcr, Continue, Charge

LEMMA RowDeleted ==
  ASSUME DeleteRow
  PROVE  /\ pc = "delete_row" /\ pc' = "idle" /\ lastId' = lastId
         /\ files' = files \/ files' = Without(files, job.id)
BY DeleteOutcomes DEF DeleteRow, Answer

\* A row of the next state is one of this state, but perhaps for its text's
\* name, or the one that is inserted.
LEMMA RowsFrom ==
  ASSUME TablesInv, [Next]_vars, NEW q \in files'
  PROVE  \/ \E r \in files : r.id = q.id /\ r.hash = q.hash /\ (q.ocr = None => r = q)
         \/ pc = "insert" /\ q.id = lastId + 1 /\ q.hash = job.hash
<1>1. CASE InsertRow
  BY <1>1, Inserted DEF InsertRow
<1>2. CASE files' = files
  BY <1>2
<1>3. CASE files' = WithOcr(files, job.id, OcrName(job.name)) /\ OcrName(job.name) # None
  <2>1. PICK r \in files : q = IF r.id = job.id THEN [r EXCEPT !.ocr = OcrName(job.name)] ELSE r
    BY <1>3 DEF WithOcr
  <2>2. r \in FileRow
    BY DEF TablesInv, TypeInv, TypeOK
  <2> QED
    BY <2>1, <2>2, <1>3 DEF FileRow
<1>4. CASE files' = Without(files, job.id)
  BY <1>4 DEF Without
<1> QED
  BY <1>1, <1>2, <1>3, <1>4, FilesActions, Marked, RowDeleted

\* A row of this state is in the next, but perhaps for its text's name, or it
\* is the one that a request deletes.
LEMMA RowsGo ==
  ASSUME TablesInv, [Next]_vars, NEW r \in files
  PROVE  \/ \E q \in files' : q.id = r.id /\ q.hash = r.hash
         \/ pc = "delete_row" /\ r.id = job.id /\ pc' = "idle"
<1>1. CASE InsertRow
  BY <1>1, Inserted
<1>2. CASE files' = files
  BY <1>2
<1>3. CASE files' = WithOcr(files, job.id, OcrName(job.name))
  <2>1. r \in FileRow
    BY DEF TablesInv, TypeInv, TypeOK
  <2> DEFINE q == IF r.id = job.id THEN [r EXCEPT !.ocr = OcrName(job.name)] ELSE r
  <2>2. q \in files' /\ q.id = r.id /\ q.hash = r.hash
    BY <2>1, <1>3 DEF WithOcr, FileRow
  <2> QED
    BY <2>2
<1>4. CASE DeleteRow
  BY <1>4, RowDeleted DEF Without
<1> QED
  BY <1>1, <1>2, <1>3, <1>4, FilesActions, Marked

\* The call that is next is the one that is made.
LEMMA StepCalls ==
  ASSUME Step
  PROVE  /\ pc # "idle"
         /\ pc = "find_by_hash" => FindByHash
         /\ pc = "save_file" => SaveOriginal
         /\ pc = "insert" => InsertRow
         /\ pc = "save_text" => SaveText
         /\ pc = "mark_ocr" => MarkOcr
         /\ pc = "extract" => RunOcr \/ ExtractWithModel
<1> USE DEF RecordReceipt, RecordRetry, RecordWithModel
<1>1. CASE FindByHash \/ SaveOriginal \/ InsertRow \/ SaveText \/ MarkOcr \/ RunOcr
             \/ ExtractWithModel
  BY <1>1 DEF FindByHash, SaveOriginal, InsertRow, SaveText, MarkOcr, RunOcr, ExtractWithModel
<1>2. CASE ParseReceipt \/ RecordReceipt \/ NotFound \/ FindForRetry \/ ReadText
             \/ ParseAgain \/ RecordRetry
  BY <1>2 DEF ParseReceipt, NotFound, FindForRetry, ReadText, ParseAgain
<1>3. CASE FindForModel \/ ReadOriginal \/ ParseWithModel \/ RecordWithModel \/ FindForDelete
             \/ UnlinkOriginal \/ UnlinkText \/ DeleteRow
  BY <1>3 DEF FindForModel, ReadOriginal, ParseWithModel, FindForDelete, UnlinkOriginal,
              UnlinkText, DeleteRow
<1> QED
  BY <1>1, <1>2, <1>3 DEF Step

\* While a request runs, it stays what it was started as.
LEMMA JobStays ==
  ASSUME TypeInv, Step, pc' # "idle"
  PROVE  /\ job'.op = job.op /\ job'.hash = job.hash
         /\ pc # "insert" => job'.id = job.id
<1>1. job \in Job
  BY DEF TypeInv, TypeOK
<1>2. CASE SaveOriginal
  <2>1. \/ job' = job
        \/ \E name : job' = [job EXCEPT !.name = name]
    BY <1>2 DEF SaveOriginal, Continue, Answer
  <2> QED
    BY <2>1, <1>1 DEF Job
<1>3. CASE InsertRow
  <2>1. pc = "insert" /\ \E i : job' = [job EXCEPT !.id = i]
    BY <1>3 DEF InsertRow, Continue, Answer
  <2> QED
    BY <2>1, <1>1 DEF Job
<1>4. CASE RunOcr \/ ExtractWithModel \/ ParseReceipt \/ ParseAgain \/ ParseWithModel
  BY <1>1, <1>4 DEF RunOcr, ExtractWithModel, Extracted, ParseReceipt, ParseAgain, ParseWithModel,
                    Parsed, Continue, Answer, Job
<1>5. CASE FindForRetry \/ FindForModel \/ FindForDelete
  BY <1>1, <1>5 DEF FindForRetry, FindForModel, FindForDelete, Continue, Answer, Job
<1>6. CASE ReadText \/ ReadOriginal
  BY <1>1, <1>6 DEF ReadText, ReadOriginal, Continue, Answer, Job
<1>7. CASE FindByHash \/ SaveText \/ MarkOcr \/ NotFound \/ UnlinkOriginal \/ UnlinkText
  BY <1>7 DEF FindByHash, SaveText, MarkOcr, NotFound, UnlinkOriginal, UnlinkText, Continue, Answer
<1>8. CASE RecordReceipt \/ RecordRetry \/ RecordWithModel \/ DeleteRow
  BY <1>8 DEF RecordReceipt, RecordRetry, RecordWithModel, Record, DeleteRow, Answer
<1> QED
  BY <1>2, <1>3, <1>4, <1>5, <1>6, <1>7, <1>8 DEF Step

\* Each call is followed by those of its own operation.
LEMMA OpOfCallStep ==
  ASSUME TypeInv, OpOfCall, [Next]_vars
  PROVE  OpOfCall'
<1>1. CASE pc' = "idle"
  BY <1>1 DEF OpOfCall, BeforeRow, Deleting
<1>2. CASE Step /\ pc' # "idle"
  <2>1. job'.op = job.op
    BY <1>2, JobStays
  <2> USE DEF OpOfCall, BeforeRow, Deleting
  <2>2. CASE FindByHash \/ SaveOriginal \/ InsertRow
    <3>1. pc' \in {"save_file", "insert", "extract"} /\ job.op = "upload"
      BY <1>2, <2>2 DEF FindByHash, SaveOriginal, InsertRow, Continue, Answer
    <3> QED
      BY <3>1, <2>1
  <2>3. CASE RunOcr \/ ExtractWithModel \/ SaveText \/ MarkOcr
    BY <1>2, <2>1, <2>3 DEF RunOcr, ExtractWithModel, Extracted, SaveText, MarkOcr, Continue, Answer
  <2>4. CASE ParseReceipt \/ ParseAgain \/ ParseWithModel
    BY <1>2, <2>1, <2>4 DEF ParseReceipt, ParseAgain, ParseWithModel, Parsed, Continue, Answer
  <2>5. CASE RecordReceipt \/ RecordRetry \/ RecordWithModel \/ DeleteRow \/ NotFound
    BY <1>2, <2>5 DEF RecordReceipt, RecordRetry, RecordWithModel, Record, DeleteRow, NotFound, Answer
  <2>6. CASE FindForRetry \/ FindForModel \/ FindForDelete
    BY <1>2, <2>1, <2>6 DEF FindForRetry, FindForModel, FindForDelete, Continue, Answer
  <2>7. CASE ReadText \/ ReadOriginal
    BY <1>2, <2>1, <2>7 DEF ReadText, ReadOriginal, Continue, Answer
  <2>8. CASE UnlinkOriginal \/ UnlinkText
    BY <1>2, <2>1, <2>8 DEF UnlinkOriginal, UnlinkText, Continue
  <2> QED
    BY <1>2, <2>2, <2>3, <2>4, <2>5, <2>6, <2>7, <2>8 DEF Step
<1>3. CASE Arrive
  <2>1. ASSUME NEW c \in Contents, NEW e \in Exts, Upload(c, e) PROVE OpOfCall'
    BY <2>1 DEF Upload, StartJob, NoJob, OpOfCall, BeforeRow, Deleting
  <2>2. ASSUME NEW i \in Ids, Retry(i) \/ RetryWithModel(i) \/ Delete(i) PROVE OpOfCall'
    BY <2>2 DEF Retry, RetryWithModel, Delete, Request, StartJob, NoJob, OpOfCall, BeforeRow, Deleting
  <2> QED
    BY <1>3, <2>1, <2>2 DEF Arrive
<1>4. CASE Crash
  BY <1>1, <1>4 DEF Crash, Kill
<1>5. CASE UNCHANGED vars
  BY <1>5 DEF vars, OpOfCall
<1> QED
  BY <1>1, <1>2, <1>3, <1>4, <1>5 DEF Next

\* An upload gets its row from the insertion, and nobody takes it from it.
LEMMA RowOfUploadStep ==
  ASSUME TablesInv, CallsInv, [Next]_vars
  PROVE  RowOfUpload'
<1> SUFFICES ASSUME pc' \in WithRow, job'.op = "upload"
             PROVE  \E q \in files' : q.id = job'.id /\ q.hash = job'.hash
  BY DEF RowOfUpload
<1>1. pc' # "idle" /\ pc' # "find_by_hash" /\ pc' # "find_by_id"
  BY DEF WithRow
<1>2. CASE Step
  <2>1. job'.op = job.op /\ job'.hash = job.hash /\ (pc # "insert" => job'.id = job.id)
    BY <1>1, <1>2, JobStays DEF TablesInv
  <2>2. CASE pc = "insert"
    <3>1. InsertRow
      BY <1>2, <2>2, StepCalls
    <3>2. PICK row \in FileRow : /\ row.hash = job.hash /\ files' = files \cup {row}
                                 /\ job' = [job EXCEPT !.id = row.id]
      BY <3>1, <1>1, Inserted
    <3>3. job'.id = row.id
      BY <3>2 DEF TablesInv, TypeInv, TypeOK, Job
    <3> QED
      BY <3>2, <3>3, <2>1
  <2>3. CASE pc # "insert"
    <3>1. pc \in WithRow
      <4>1. pc \in PCs /\ pc # "idle"
        BY <1>2, StepCalls DEF TablesInv, TypeInv, TypeOK
      <4>2. pc # "find_by_id"
        BY <2>1 DEF CallsInv, OpOfCall
      <4>3. pc # "find_by_hash"
        BY <1>1, <1>2, StepCalls DEF FindByHash, Answer, Continue, WithRow
      <4>4. pc # "save_file"
        BY <1>1, <1>2, StepCalls DEF SaveOriginal, Answer, Continue, WithRow
      <4> QED
        BY <4>1, <4>2, <4>3, <4>4, <2>3 DEF PCs, WithRow
    <3>2. PICK r \in files : r.id = job.id /\ r.hash = job.hash
      BY <3>1, <2>1 DEF CallsInv, RowOfUpload
    <3>3. pc # "delete_row"
      BY <2>1 DEF CallsInv, OpOfCall, Deleting
    <3> QED
      BY <3>2, <3>3, <2>1, <2>3, RowsGo
  <2> QED
    BY <2>2, <2>3
<1>3. CASE UNCHANGED vars
  BY <1>3 DEF vars, CallsInv, RowOfUpload
<1>4. CASE Arrive \/ Crash
  BY <1>1, <1>4 DEF Arrive, Upload, Retry, RetryWithModel, Delete, Request, StartJob, Crash, Kill
<1> QED
  BY <1>2, <1>3, <1>4 DEF Next

\* An upload ends with its content's row in the table, or with a failure that
\* the user is told.
LEMMA UploadEnds ==
  ASSUME TablesInv, CallsInv, Step, job.op = "upload", pc' = "idle"
  PROVE  ByHash(files', job.hash) # {} \/ reply'.kind \in {"save_failed", "db_error"}
<1>1. CASE pc = "find_by_hash"
  <2>1. UNCHANGED files /\ (ByHash(files, job.hash) # {} \/ pc' = "save_file")
    BY <1>1, StepCalls DEF FindByHash, Continue, tables
  <2> QED
    BY <2>1 DEF ByHash
<1>2. CASE pc = "save_file"
  <2>1. SaveOriginal
    BY <1>2, StepCalls
  <2>2. pc' = "insert" \/ reply' = [kind |-> "save_failed", id |-> 0]
    BY <2>1 DEF SaveOriginal, Answer, Continue
  <2> QED
    BY <2>2
<1>3. CASE pc = "insert"
  BY <1>3, StepCalls, Inserted
<1>4. CASE pc \in WithRow
  <2>1. PICK r \in files : r.id = job.id /\ r.hash = job.hash
    BY <1>4 DEF CallsInv, RowOfUpload
  <2>2. pc # "delete_row"
    BY DEF CallsInv, OpOfCall, Deleting
  <2>3. PICK q \in files' : q.hash = job.hash
    BY <2>1, <2>2, RowsGo DEF Next
  <2> QED
    BY <2>3 DEF ByHash
<1> QED
  <2>1. pc \in PCs /\ pc # "idle"
    BY StepCalls DEF TablesInv, TypeInv, TypeOK
  <2>2. pc # "find_by_id"
    BY DEF CallsInv, OpOfCall
  <2> QED
    BY <1>1, <1>2, <1>3, <1>4, <2>1, <2>2 DEF PCs, WithRow

\* Faults are counted up.
LEMMA FaultsGrow ==
  ASSUME TypeInv, [Next]_vars
  PROVE  faults \in Nat /\ faults' \in Nat /\ faults' >= faults
<1>1. faults \in Nat
  BY PipelineAssumption DEF TypeInv, TypeOK
<1>2. faults' \in Nat
  BY TypeStep, PipelineAssumption DEF TypeInv, TypeOK
<1> SUFFICES faults' >= faults
  BY <1>1, <1>2
<1>3. ASSUME NEW n \in {0, 1}, Charge(n) PROVE faults' >= faults
  BY <1>1, <1>3 DEF Charge
<1>4. ASSUME UNCHANGED faults PROVE faults' >= faults
  BY <1>1, <1>4
<1>5. CASE Arrive \/ UNCHANGED vars \/ Crash
  BY <1>3, <1>4, <1>5 DEF Arrive, Upload, Retry, RetryWithModel, Delete, Request, StartJob, vars,
                          Crash, Kill
<1>6. CASE RunOcr \/ ExtractWithModel \/ ParseReceipt \/ ParseAgain \/ ParseWithModel
             \/ FindForRetry \/ FindForModel \/ FindForDelete
  BY <1>4, <1>6 DEF RunOcr, ExtractWithModel, ParseReceipt, ParseAgain, ParseWithModel,
                    FindForRetry, FindForModel, FindForDelete
<1>7. CASE FindByHash \/ NotFound \/ ReadText \/ ReadOriginal
  BY <1>3, <1>7 DEF FindByHash, NotFound, ReadText, ReadOriginal
<1>8. CASE SaveOriginal \/ SaveText
  <2>1. \A old, new : \A o \in SaveFile(old, new) : o.cost \in {0, 1}
    BY DEF SaveFile, LocalSave, SupabaseSave, Done, Failed
  <2>2. \E old, new : \E o \in SaveFile(old, new) : Charge(o.cost)
    BY <1>8 DEF SaveOriginal, SaveText
  <2> QED
    BY <2>1, <2>2, <1>3
<1>9. CASE UnlinkOriginal \/ UnlinkText
  <2>1. \A old : \A o \in DeleteFile(old) : o.cost \in {0, 1}
    BY DEF DeleteFile, LocalDelete, SupabaseDelete, Done, Failed, Refused
  <2>2. \E old : \E o \in DeleteFile(old) : Charge(o.cost)
    BY <1>9 DEF UnlinkOriginal, UnlinkText
  <2> QED
    BY <2>1, <2>2, <1>3
<1>10. CASE InsertRow
  <2>1. \A row : \A o \in RepoInsert(files, row) : o.cost \in {0, 1}
    BY DEF RepoInsert, SqliteInsert, PostgresInsert, Done, Failed, Refused
  <2>2. \E row : \E o \in RepoInsert(files, row) : Charge(o.cost)
    BY <1>10 DEF InsertRow
  <2> QED
    BY <2>1, <2>2, <1>3
<1>11. CASE MarkOcr
  <2>1. \A i, ocr : \A o \in RepoMarkOcrComplete(files, i, ocr) : o.cost \in {0, 1}
    BY DEF RepoMarkOcrComplete, SqliteMarkOcrDone, PostgresMarkOcrDone, Done, Failed
  <2>2. \E i, ocr : \E o \in RepoMarkOcrComplete(files, i, ocr) : Charge(o.cost)
    BY <1>11 DEF MarkOcr
  <2> QED
    BY <2>1, <2>2, <1>3
<1>12. CASE Record
  <2>1. \A p : \A o \in RepoMarkParsingComplete(receipts, p) : o.cost \in {0, 1}
    BY DEF RepoMarkParsingComplete, SqliteMarkParsingDone, PostgresMarkParsingDone,
           Done, Failed, Refused
  <2>2. \E p : \E o \in RepoMarkParsingComplete(receipts, p) : Charge(o.cost)
    BY <1>12 DEF Record
  <2> QED
    BY <2>1, <2>2, <1>3
<1>13. CASE DeleteRow
  <2>1. \A i : \A o \in BackendDelete(files, i) : o.cost \in {0, 1}
    BY DEF BackendDelete, SqliteDelete, PostgresDelete, Done, Failed, Refused
  <2>2. \E i : \E o \in BackendDelete(files, i) : Charge(o.cost)
    BY <1>13 DEF DeleteRow
  <2> QED
    BY <2>1, <2>2, <1>3
<1> QED
  BY <1>5, <1>6, <1>7, <1>8, <1>9, <1>10, <1>11, <1>12, <1>13
     DEF Next, Step, RecordReceipt, RecordRetry, RecordWithModel

-----------------------------------------------------------------------------
(* The steps of the whole bot.                                             *)

\* A handler at work: the loop waits for it.
LEMMA Worked ==
  ASSUME Work
  PROVE  /\ phase = "dispatch" /\ Step /\ [Next]_vars /\ NoteRemovals
         /\ UNCHANGED <<sent, confirmed, phase, running, offset, batch, begun, done, starts, loopFaults>>
         /\ UNCHANGED <<request, direct, said, lost>> /\ Current' = Current
BY DEF Work, loopRest, Next, Current, Loop!Oldest

\* A handler that has returned: the next update is the oldest.
LEMMA Returned ==
  ASSUME Loop!PollInv, Return
  PROVE  /\ phase = "dispatch" /\ phase' = "batch" /\ pc = "idle"
         /\ done' = [done EXCEPT ![Current] = @ + 1]
         /\ batch' = batch \ {Current} /\ offset' = Current + 1
         /\ SendAnswer
         /\ UNCHANGED <<sent, confirmed, running, begun, starts, loopFaults>>
         /\ UNCHANGED <<vars, request, gone>>
<1>1. phase = "dispatch"
  BY DEF Return, Loop!EndDispatch
<1>2. \A u \in batch : Loop!Oldest(u) => u = Current
  BY <1>1, CurrentUpdate
<1>3. PICK u \in batch : /\ Loop!Oldest(u) /\ done' = [done EXCEPT ![u] = @ + 1]
                         /\ batch' = batch \ {u} /\ offset' = u + 1
  BY DEF Return, Loop!EndDispatch
<1>4. u = Current
  BY <1>2, <1>3
<1> QED
  BY <1>3, <1>4 DEF Return, Loop!EndDispatch

\* A kill leaves nothing at work: no call, and no answer to be sent.
LEMMA Killed ==
  ASSUME KillBot
  PROVE  /\ phase' = "killed" /\ pc' = "idle" /\ offset' = 0 /\ batch' = {}
         /\ UNCHANGED <<sent, confirmed, begun, done, starts, request, gone>>
         /\ UNCHANGED <<files, lastId>>
         /\ \/ pc # "idle" /\ faults' = faults + 1 /\ UNCHANGED <<said, lost>>
            \/ pc = "idle" /\ phase = "dispatch" /\ SendAnswer
            \/ phase # "dispatch" /\ UNCHANGED <<said, lost>>
  BY DEF KillBot, Loop!PollKill, Crash, Kill, Charge, vars, tables

\* The other steps are the loop's own: no dispatch begins or ends with them.
OtherStep ==
  \/ SendUpdate \/ SignalBot \/ StartBot \/ UNCHANGED kaufbotVars
  \/ /\ \/ Loop!LoopEnds \/ Loop!PollAnswered \/ Loop!PollExpires \/ Loop!PollFails
        \/ Loop!Sleep \/ Loop!BatchEnds \/ Loop!Tick
     /\ UNCHANGED <<vars, request, direct, ghosts>>

LEMMA BotSteps ==
  ASSUME [KaufbotNext]_kaufbotVars
  PROVE  Begin \/ Work \/ Return \/ KillBot \/ OtherStep
BY DEF KaufbotNext, Turn, OtherStep

LEMMA OtherSteps ==
  ASSUME OtherStep
  PROVE  /\ UNCHANGED vars /\ UNCHANGED <<request, direct, said, lost, gone, begun, done>>
         /\ \/ UNCHANGED <<phase, batch>> /\ Current' = Current
            \/ phase # "dispatch" /\ phase' # "dispatch"
<1>1. UNCHANGED vars /\ UNCHANGED <<request, direct, said, lost, gone>>
  BY DEF OtherStep, SendUpdate, SignalBot, StartBot, kaufbotVars, ghosts
<1>2. CASE SendUpdate \/ SignalBot \/ UNCHANGED kaufbotVars
  <2>1. UNCHANGED <<phase, batch, begun, done>>
    BY <1>2 DEF SendUpdate, SignalBot, kaufbotVars, loopRest, Loop!Send, Loop!Signal, Loop!loopVars
  <2> QED
    BY <1>1, <2>1 DEF Current, Loop!Oldest
<1>3. CASE StartBot
  BY <1>1, <1>3 DEF StartBot, Loop!StartProcess, Loop!Down
<1>4. CASE \/ Loop!LoopEnds \/ Loop!PollAnswered \/ Loop!PollExpires \/ Loop!PollFails
           \/ Loop!Sleep \/ Loop!BatchEnds \/ Loop!Tick
  BY <1>1, <1>4 DEF Loop!LoopEnds, Loop!PollAnswered, Loop!PollExpires, Loop!PollFails, Loop!Sleep,
                    Loop!BatchEnds, Loop!Tick
<1> QED
  BY <1>2, <1>3, <1>4 DEF OtherStep

\* An answer is noted with the update it is to, sent or not.
LEMMA AnswerNoted ==
  ASSUME AnswersKept, SendAnswer
  PROVE  /\ AnswersKept'
         /\ \A u \in Updates : said[u] \cup lost[u] \subseteq said'[u] \cup lost'[u]
         /\ Current \in Updates =>
              News(IF direct = "none" THEN reply.kind ELSE direct)
                \subseteq said'[Current] \cup lost'[Current]
BY DEF AnswersKept, SendAnswer, Noted

\* What was answered stays answered.
LEMMA AnswersGrow ==
  ASSUME Loop!PollInv, RequestsKnown, AnswersKept, [KaufbotNext]_kaufbotVars
  PROVE  /\ AnswersKept'
         /\ \A u \in Updates : said[u] \cup lost[u] \subseteq said'[u] \cup lost'[u]
<1>1. SendAnswer \/ UNCHANGED <<said, lost>>
  BY BotSteps, Begun, Worked, Returned, Killed, OtherSteps DEF ghosts
<1>2. CASE UNCHANGED <<said, lost>>
  BY <1>2 DEF AnswersKept
<1> QED
  BY <1>1, <1>2, AnswerNoted

-----------------------------------------------------------------------------
(* ServiceInv is inductive: the pipeline works for the current update.     *)

LEMMA JobServedStep ==
  ASSUME PartsSound, ServiceInv, [KaufbotNext]_kaufbotVars
  PROVE  JobServed'
<1>1. TablesInv /\ TypeInv /\ CallsInv /\ Loop!PollInv /\ RequestsKnown /\ JobServed
  BY DEF PartsSound, ServiceInv, TablesInv
<1>2. CASE Begin
  <2>1. PICK r \in Requests :
          /\ phase = "batch" /\ phase' = "dispatch" /\ Current' \in Updates /\ Current' = Current
          /\ request' = [request EXCEPT ![Current] = r] /\ DispatchUpdate(r)
    BY <1>1, <1>2, Begun
  <2>2. pc = "idle"
    BY <1>1, <2>1 DEF JobServed
  <2>3. request'[Current'] = r
    BY <2>1, <1>1 DEF RequestsKnown
  <2>4. CASE UNCHANGED vars
    BY <2>2, <2>4 DEF vars, JobServed
  <2>5. CASE direct' = "none" /\ r.by = "user" /\ r.what = "upload" /\ \E e \in Exts : Upload(r.on, e)
    <3>1. job'.op = "upload" /\ job'.hash = r.on
      BY <2>5 DEF Upload, StartJob, NoJob
    <3>2. r = AskFor("upload", r.on)
      BY <2>5, RequestsOn
    <3> QED
      BY <3>1, <3>2, <2>1, <2>3, <2>5 DEF JobServed
  <2>6. CASE direct' = "none" /\ r.by = "user" /\ r.what = "delete" /\ Delete(r.on)
    <3>1. job'.op = "delete" /\ job'.id = r.on
      BY <2>6 DEF Delete, Request, StartJob, NoJob
    <3>2. r = AskFor("delete", r.on)
      BY <2>6, RequestsOn
    <3> QED
      BY <3>1, <3>2, <2>1, <2>3, <2>6 DEF JobServed
  <2>7. CASE /\ direct' = "none" /\ r.by = "user"
             /\ \/ r.what = "retry" /\ Retry(r.on)
                \/ r.what = "retry_with_model" /\ RetryWithModel(r.on)
    <3>1. job'.op = r.what /\ job'.op # "upload" /\ job'.id = r.on
      BY <2>7 DEF Retry, RetryWithModel, Request, StartJob, NoJob
    <3>2. r = AskFor(r.what, r.on)
      BY <2>7, RequestsOn
    <3> QED
      BY <3>1, <3>2, <2>1, <2>3, <2>7 DEF JobServed
  <2> QED
    BY <2>1, <2>4, <2>5, <2>6, <2>7, Dispatched
<1>3. CASE Work
  <2>1. /\ phase' = "dispatch" /\ Step /\ UNCHANGED <<request, direct>> /\ Current' = Current
    BY <1>3, Worked
  <2>2. pc # "idle"
    BY <2>1, StepCalls
  <2>3. direct' = "none" /\ request'[Current'] = request[Current]
    BY <2>1, <2>2, <1>1 DEF JobServed
  <2>4. CASE pc' # "idle"
    <3>1. job'.op = job.op /\ job'.hash = job.hash /\ (pc # "insert" => job'.id = job.id)
      BY <2>1, <2>4, <1>1, JobStays
    <3>2. pc = "insert" => job.op = "upload"
      BY <1>1 DEF CallsInv, OpOfCall, BeforeRow
    <3> QED
      BY <3>1, <3>2, <2>1, <2>2, <2>3, <1>1 DEF JobServed
  <2> QED
    BY <2>4 DEF JobServed
<1>4. CASE Return \/ KillBot
  BY <1>1, <1>4, Returned, Killed DEF JobServed, vars
<1>5. CASE OtherStep
  BY <1>1, <1>5, OtherSteps DEF JobServed, vars
<1> QED
  BY <1>2, <1>3, <1>4, <1>5, BotSteps

LEMMA LookedAtStep ==
  ASSUME PartsSound, ServiceInv, [KaufbotNext]_kaufbotVars
  PROVE  LookedAt'
<1>1. Loop!PollInv /\ RequestsKnown /\ LookedAt
  BY DEF PartsSound, ServiceInv
<1>2. begun \in [Updates -> Nat] /\ done \in [Updates -> Nat]
  BY <1>1 DEF Loop!PollInv, Loop!PollTypeOK, Loop!Updates, Updates
<1>3. CASE Begin
  <2>1. PICK r \in Requests :
          /\ phase' = "dispatch" /\ Current' \in Updates /\ Current' = Current
          /\ request' = [request EXCEPT ![Current] = r] /\ r # Unread
          /\ begun' = [begun EXCEPT ![Current] = @ + 1] /\ done' = done
    BY <1>1, <1>3, Begun
  <2>2. request'[Current'] # Unread /\ begun'[Current'] > 0
    BY <2>1, <1>1, <1>2 DEF RequestsKnown
  <2>3. \A u \in Updates : request[u] # Unread => request'[u] # Unread
    BY <2>1, <1>1 DEF RequestsKnown
  <2> QED
    BY <2>1, <2>2, <2>3, <1>1 DEF LookedAt
<1>4. CASE Work
  <2>1. phase = "dispatch" /\ UNCHANGED <<phase, begun, done, request>> /\ Current' = Current
    BY <1>4, Worked
  <2> QED
    BY <2>1, <1>1 DEF LookedAt
<1>5. CASE Return
  <2>1. /\ phase = "dispatch" /\ phase' = "batch" /\ UNCHANGED request
        /\ done' = [done EXCEPT ![Current] = @ + 1]
    BY <1>1, <1>5, Returned
  <2>2. request[Current] # Unread /\ \A u \in Updates : done[u] > 0 => request[u] # Unread
    BY <2>1, <1>1 DEF LookedAt
  <2>3. \A u \in Updates : done'[u] > 0 => done[u] > 0 \/ u = Current
    BY <2>1, <1>2
  <2> QED
    BY <2>1, <2>2, <2>3 DEF LookedAt
<1>6. CASE KillBot
  BY <1>1, <1>6, Killed DEF LookedAt
<1>7. CASE OtherStep
  <2>1. UNCHANGED <<request, begun, done>>
        /\ ((UNCHANGED phase /\ Current' = Current) \/ phase' # "dispatch")
    BY <1>7, OtherSteps
  <2> QED
    BY <2>1, <1>1 DEF LookedAt
<1> QED
  BY <1>3, <1>4, <1>5, <1>6, <1>7, BotSteps

LEMMA ServiceStep ==
  ASSUME PartsSound, ServiceInv, [KaufbotNext]_kaufbotVars
  PROVE  ServiceInv'
<1>1. Loop!PollInv /\ RequestsKnown /\ AnswersKept
  BY DEF PartsSound, ServiceInv
<1>2. JobServed' /\ LookedAt'
  BY JobServedStep, LookedAtStep
<1>3. RequestsKnown' /\ AnswersKept'
  BY <1>1, RequestsStep, AnswersGrow
<1> QED
  BY <1>2, <1>3 DEF ServiceInv

-----------------------------------------------------------------------------
(* NothingUnasked is inductive.                                            *)

\* Requests that are read stay read, and begun stays begun.
LEMMA UploadsStay ==
  ASSUME Loop!PollInv, RequestsKnown, [KaufbotNext]_kaufbotVars
  PROVE  /\ \A c \in Contents : Uploads(c) \subseteq Uploads(c)'
         /\ \A u \in Updates : \A r : r # Unread /\ request[u] = r => request'[u] = r
         /\ \A u \in Updates : begun[u] > 0 => begun'[u] > 0
<1>1. \A u \in Updates : \A r : r # Unread /\ request[u] = r => request'[u] = r
  BY RequestsStep
<1>2. \A c : AskFor("upload", c) # Unread
  BY DEF AskFor, Unread
<1>3. \A c \in Contents : Uploads(c) \subseteq Uploads(c)'
  BY <1>1, <1>2 DEF Uploads, AskFor
<1>4. begun \in [Updates -> Nat]
  BY DEF Loop!PollInv, Loop!PollTypeOK, Loop!Updates, Updates
<1>5. UNCHANGED begun \/ \E v : begun' = [begun EXCEPT ![v] = @ + 1]
  BY BotSteps, Begun, Worked, Returned, Killed, OtherSteps
<1>6. \A u \in Updates : begun[u] > 0 => begun'[u] > 0
  BY <1>4, <1>5
<1> QED
  BY <1>1, <1>3, <1>6

\* A step that inserts or deletes a row is one of the current update's job.
LEMMA RowsByRequest ==
  ASSUME PartsSound, ServiceInv, [KaufbotNext]_kaufbotVars, files' # files
  PROVE  Work
<1>1. Loop!PollInv /\ RequestsKnown /\ JobServed
  BY DEF PartsSound, ServiceInv
<1>2. CASE Begin
  <2>1. PICK r \in Requests : DispatchUpdate(r)
    BY <1>1, <1>2, Begun
  <2>2. UNCHANGED files
    BY <2>1, Dispatched
       DEF vars, Upload, Retry, RetryWithModel, Delete, Request, StartJob, tables
  <2> QED
    BY <2>2
<1>3. CASE Return \/ KillBot \/ OtherStep
  BY <1>1, <1>3, Returned, Killed, OtherSteps DEF vars
<1> QED
  BY <1>2, <1>3, BotSteps

\* On PostgreSQL an insertion that fails may use up an id without a row, so
\* the second half is about SQLite.
LEMMA UnaskedStep ==
  ASSUME PartsSound, ServiceInv, NothingUnasked, [KaufbotNext]_kaufbotVars, Database = "sqlite"
  PROVE  NothingUnasked'
<1>1. TablesInv /\ TypeInv /\ CallsInv /\ Loop!PollInv /\ RequestsKnown /\ JobServed /\ LookedAt
  BY DEF PartsSound, ServiceInv, TablesInv
<1>2. [Next]_vars
  BY <1>1, PipelineSteps
<1>3. \A q \in files' : q.hash \in Contents /\ q.id \in Ids
  BY <1>1, <1>2, TypeStep DEF TypeInv, TypeOK, FileRow
<1>4. ASSUME NEW q \in files' PROVE \E u \in Uploads(q.hash)' : begun'[u] > 0
  <2>1. CASE \E r \in files : r.hash = q.hash
    <3>1. PICK u \in Uploads(q.hash) : begun[u] > 0
      BY <2>1 DEF NothingUnasked
    <3> QED
      BY <3>1, <1>1, <1>3, UploadsStay DEF Uploads
  <2>2. CASE pc = "insert" /\ q.hash = job.hash /\ files' # files
    <3>1. phase = "dispatch" /\ request[Current] = AskFor("upload", q.hash) /\ begun[Current] > 0
      BY <2>2, <1>1 DEF JobServed, CallsInv, OpOfCall, BeforeRow, LookedAt
    <3>2. Current \in Uploads(q.hash)
      BY <3>1, <1>1, CurrentUpdate DEF Uploads, AskFor
    <3> QED
      BY <3>1, <3>2, <1>1, <1>3, UploadsStay DEF Uploads
  <2> QED
    BY <2>1, <2>2, <1>1, <1>2, RowsFrom
<1>5. ASSUME NEW i \in 1..lastId', ById(files', i) = {}
      PROVE  \E u \in Updates : /\ request'[u] = AskFor("delete", i)
                                /\ begun'[u] > 0
  <2>1. lastId \in Nat /\ lastId' \in Nat
    BY <1>1, <1>2, TypeStep, TablesAssumption DEF TypeInv, TypeOK
  <2>2. i \in 1..lastId
    <3>1. CASE InsertRow
      <4>1. PICK o, row : /\ o \in RepoInsert(files, row) /\ row.id = lastId + 1
                          /\ files' = o.left /\ lastId' \in LastIdAfter(lastId, row \in o.left)
        <5> DEFINE row == [id |-> lastId + 1, hash |-> job.hash, name |-> job.name, ocr |-> None]
        <5>1. PICK o \in RepoInsert(files, row) :
                files' = o.left /\ lastId' \in LastIdAfter(lastId, row \in o.left)
          BY <3>1 DEF InsertRow
        <5> QED
          BY <5>1
      <4>2. row \in files' \/ lastId' = lastId
        BY <4>1 DEF LastIdAfter
      <4>3. row \in files' => lastId' = lastId + 1 /\ i # lastId + 1
        BY <4>1, <1>5, LastIdOutcomes DEF ById
      <4> QED
        BY <4>2, <4>3, <2>1
    <3>2. CASE lastId' = lastId
      BY <3>2
    <3> QED
      BY <3>1, <3>2, <1>1, <1>2, FilesActions, Marked, RowDeleted
  <2>3. CASE ById(files, i) = {}
    <3>1. PICK u \in Updates : request[u] = AskFor("delete", i) /\ begun[u] > 0
      BY <2>2, <2>3 DEF NothingUnasked, AskFor
    <3>2. AskFor("delete", i) # Unread
      BY DEF AskFor, Unread
    <3> QED
      BY <3>1, <3>2, <1>1, UploadsStay
  <2>4. CASE ById(files, i) # {}
    <3>1. PICK r \in files : r.id = i
      BY <2>4 DEF ById
    <3>2. pc = "delete_row" /\ job.id = i
      BY <3>1, <1>1, <1>2, <1>5, RowsGo DEF ById
    <3>3. phase = "dispatch" /\ request[Current] = AskFor("delete", i) /\ begun[Current] > 0
      BY <3>2, <1>1 DEF JobServed, CallsInv, OpOfCall, Deleting, LookedAt
    <3>4. AskFor("delete", i) # Unread /\ Current \in Updates
      BY <3>3, <1>1, CurrentUpdate DEF AskFor, Unread
    <3> QED
      BY <3>3, <3>4, <1>1, UploadsStay
  <2> QED
    BY <2>3, <2>4
<1> QED
  BY <1>4, <1>5 DEF NothingUnasked, AskFor

\* The bot starts with its parts, and each step keeps what they have.
LEMMA BotInit == KaufbotInit => PartsSound /\ ServiceInv
<1> SUFFICES ASSUME KaufbotInit PROVE PartsSound /\ ServiceInv
  OBVIOUS
<1>1. Init /\ Loop!PollInit /\ pc = "idle" /\ phase = "poll"
  BY DEF KaufbotInit, Init, Loop!PollInit
<1>2. TablesInv /\ Loop!PollInv
  BY <1>1, TypeInit, TablesInit, LoopInvInit
<1>3. CallsInv
  BY <1>1 DEF CallsInv, OpOfCall, RowOfUpload, BeforeRow, Deleting, WithRow
<1>4. RequestsKnown /\ JobServed /\ AnswersKept
  BY <1>1 DEF KaufbotInit, RequestsKnown, JobServed, AnswersKept
<1>5. LookedAt
  BY <1>1 DEF LookedAt, Loop!PollInit, Loop!Updates, Updates
<1> QED
  BY <1>2, <1>3, <1>4, <1>5 DEF PartsSound, ServiceInv

LEMMA BotStep ==
  ASSUME PartsSound, ServiceInv, [KaufbotNext]_kaufbotVars
  PROVE  PartsSound' /\ ServiceInv' /\ [Next]_vars
<1>1. TablesInv /\ TypeInv /\ CallsInv /\ OpOfCall /\ Loop!PollInv /\ RequestsKnown
  BY DEF PartsSound, ServiceInv, CallsInv, TablesInv
<1>2. [Next]_vars /\ [Loop!PollNext]_(Loop!pollVars)
  BY <1>1, PipelineSteps, LoopSteps
<1>3. TablesInv' /\ Loop!PollInv'
  BY <1>1, <1>2, TablesStep, LoopInvStep
<1>4. OpOfCall' /\ RowOfUpload'
  BY <1>1, <1>2, OpOfCallStep, RowOfUploadStep
<1> QED
  BY <1>2, <1>3, <1>4, ServiceStep DEF PartsSound, CallsInv

\* NothingUnasked, on SQLite: strangers change nothing, whatever is killed and
\* repeated.
THEOREM NothingUnaskedCorrect ==
  ASSUME Database = "sqlite"
  PROVE  KaufbotSpec => []NothingUnasked
<1>1. KaufbotInit => NothingUnasked
  BY DEF KaufbotInit, Init, NothingUnasked
<1>2. KaufbotInit => PartsSound /\ ServiceInv
  BY BotInit
<1>3. PartsSound /\ ServiceInv /\ NothingUnasked /\ [KaufbotNext]_kaufbotVars
        => PartsSound' /\ ServiceInv' /\ NothingUnasked'
  BY BotStep, UnaskedStep
<1> QED
  BY <1>1, <1>2, <1>3, PTL DEF KaufbotSpec

-----------------------------------------------------------------------------
(* The batch, the offset, and what Telegram was told to forget.            *)

\* What the loop's own steps do to them.
LEMMA LoopMoves ==
  ASSUME Loop!PollInv, OtherStep
  PROVE  /\ \/ UNCHANGED <<starts, offset>> /\ (phase' \notin Loop!Down => phase \notin Loop!Down)
            \/ UNCHANGED starts /\ phase' \in Loop!Down
            \/ starts' = starts + 1
         /\ \/ UNCHANGED <<phase, batch, confirmed, offset>>
            \/ phase' \notin {"batch", "dispatch"}
            \/ \E last \in confirmed' + 1..sent : batch' = confirmed' + 1..last
         /\ offset' \in {0, offset}
         /\ \A u \in Updates : u > confirmed /\ u >= offset => u > confirmed'
<1>1. CASE SendUpdate \/ SignalBot \/ UNCHANGED kaufbotVars
  BY <1>1 DEF SendUpdate, SignalBot, Loop!Send, Loop!Signal, Loop!loopVars, kaufbotVars, loopRest
<1>2. CASE StartBot
  BY <1>2 DEF StartBot, Loop!StartProcess
<1>3. CASE Loop!LoopEnds \/ Loop!BatchEnds \/ Loop!Tick \/ Loop!Sleep
  BY <1>3 DEF Loop!LoopEnds, Loop!BatchEnds, Loop!Tick, Loop!Sleep, Loop!Down
<1>4. CASE Loop!PollAnswered \/ Loop!PollExpires \/ Loop!PollFails
  <2>1. /\ offset' = offset /\ confirmed' \in {confirmed, Loop!Confirm(offset)}
        /\ UNCHANGED starts /\ phase = "poll"
    BY <1>4 DEF Loop!PollAnswered, Loop!PollExpires, Loop!PollFails
  <2>2. offset \in Nat /\ confirmed \in Nat /\ \A u \in Updates : u \in Nat
    BY KaufbotAssumption DEF Loop!PollInv, Loop!PollTypeOK, Updates
  <2>3. \A u \in Updates : u > confirmed /\ u >= offset => u > confirmed'
    BY <2>1, <2>2 DEF Loop!Confirm
  <2>4. \/ phase' \notin {"batch", "dispatch"}
        \/ \E last \in confirmed' + 1..sent : batch' = confirmed' + 1..last
    BY <1>4 DEF Loop!PollAnswered, Loop!PollExpires, Loop!PollFails
  <2> QED
    BY <2>1, <2>3, <2>4 DEF Loop!Down
<1> QED
  BY <1>1, <1>2, <1>3, <1>4 DEF OtherStep

LEMMA BatchInvStep ==
  ASSUME PartsSound, ServiceInv, BatchInv, [KaufbotNext]_kaufbotVars
  PROVE  BatchInv'
<1>1. Loop!PollInv /\ RequestsKnown /\ BatchUnconfirmed /\ BatchWhole
  BY DEF PartsSound, ServiceInv, BatchInv
<1>2. /\ batch \subseteq Updates /\ \A u \in batch : offset <= u
      /\ offset \in Nat /\ confirmed \in Nat /\ \A u \in Updates : u \in Nat
  BY <1>1, KaufbotAssumption DEF Loop!PollInv, Loop!PollTypeOK, Loop!BatchSound, Loop!Updates, Updates
<1>3. CASE Begin \/ Work
  <2>1. phase \in {"batch", "dispatch"} /\ UNCHANGED <<batch, confirmed, offset>>
    BY <1>1, <1>3, Begun, Worked
  <2> QED
    BY <2>1, <1>1 DEF BatchInv, BatchUnconfirmed, BatchWhole
<1>4. CASE Return
  <2>1. /\ phase = "dispatch" /\ batch' = batch \ {Current} /\ offset' = Current + 1
        /\ UNCHANGED confirmed
    BY <1>1, <1>4, Returned
  <2>2. Current \in batch /\ Current \in Nat /\ offset <= Current
    BY <2>1, <1>1, <1>2, CurrentUpdate
  <2>3. BatchUnconfirmed'
    BY <2>1, <1>1 DEF BatchUnconfirmed
  <2>4. ASSUME NEW u \in batch', NEW v \in Updates, v < u
        PROVE  v \in batch' \/ v < offset' \/ v <= confirmed'
    <3>1. v \in batch \/ v < offset \/ v <= confirmed
      BY <2>1, <2>4, <1>1 DEF BatchWhole
    <3>2. v = Current => v < offset'
      BY <2>1, <2>2
    <3>3. v < offset => v < offset'
      BY <2>1, <2>2, <1>2
    <3> QED
      BY <3>1, <3>2, <3>3, <2>1
  <2> QED
    BY <2>3, <2>4 DEF BatchInv, BatchWhole
<1>5. CASE KillBot
  BY <1>5, Killed DEF BatchInv, BatchUnconfirmed, BatchWhole
<1>6. CASE OtherStep
  <2>1. CASE UNCHANGED <<phase, batch, confirmed, offset>>
    BY <2>1, <1>1 DEF BatchInv, BatchUnconfirmed, BatchWhole
  <2>2. CASE phase' \notin {"batch", "dispatch"}
    BY <2>2 DEF BatchInv, BatchUnconfirmed, BatchWhole
  <2>3. CASE \E last \in confirmed' + 1..sent : batch' = confirmed' + 1..last
    <3>1. confirmed' \in Nat
      BY <1>1, LoopInvStep, LoopSteps DEF Loop!PollInv, Loop!PollTypeOK
    <3>2. PICK k \in Nat : k = confirmed'
      BY <3>1
    <3>3. PICK last \in k + 1..sent : batch' = k + 1..last
      BY <2>3, <3>2
    <3>4. sent \in Int
      BY <1>1 DEF Loop!PollInv, Loop!PollTypeOK
    <3>5. \A u \in k + 1..last : u > k /\ \A v \in Updates : v < u => v \in k + 1..last \/ v <= k
      BY <3>4, <1>2
    <3> QED
      BY <3>2, <3>3, <3>5 DEF BatchInv, BatchUnconfirmed, BatchWhole
  <2> QED
    BY <2>1, <2>2, <2>3, <1>1, <1>6, LoopMoves
<1> QED
  BY <1>3, <1>4, <1>5, <1>6, BotSteps

-----------------------------------------------------------------------------
(* NoUploadVanishes is inductive, with what the handler is about to say.   *)

\* A removal is noted with the update that asked for it.
LEMMA RemovalNoted ==
  ASSUME Loop!PollInv, RemovalsTyped, Work
  PROVE  /\ RemovalsTyped'
         /\ \A c \in Contents :
              IF ByHash(files, c) # {} /\ ByHash(files', c) = {}
              THEN gone'[c] = [by |-> Current, start |-> starts] /\ gone'[c] # Never
              ELSE gone'[c] = gone[c]
<1>1. NoteRemovals /\ phase = "dispatch"
  BY Worked
<1>2. Current \in Nat /\ Current # 0 /\ starts \in Nat
  BY <1>1, CurrentUpdate, KaufbotAssumption DEF Updates, Loop!PollInv, Loop!PollTypeOK
<1> QED
  BY <1>1, <1>2 DEF NoteRemovals, RemovalsTyped, Never

\* A row goes only in the deletion that the current update asks for.
LEMMA RemovedByDelete ==
  ASSUME PartsSound, ServiceInv, Work,
         NEW c \in Contents, ByHash(files, c) # {}, ByHash(files', c) = {}
  PROVE  request[Current].what = "delete"
<1>1. TablesInv /\ CallsInv /\ JobServed
  BY DEF PartsSound, ServiceInv
<1>2. PICK r \in files : r.hash = c
  BY DEF ByHash
<1>3. pc = "delete_row"
  BY <1>1, <1>2, Worked, RowsGo DEF ByHash
<1> QED
  BY <1>1, <1>3 DEF CallsInv, OpOfCall, Deleting, JobServed, AskFor

LEMMA UploadsKeptStep ==
  ASSUME PartsSound, ServiceInv, VanishInv, [KaufbotNext]_kaufbotVars
  PROVE  UploadsKept'
<1>1. /\ Loop!PollInv /\ RequestsKnown /\ LookedAt /\ AnswersKept
      /\ RemovalsTyped /\ BatchUnconfirmed /\ BatchWhole /\ UploadsKept /\ UploadAnswered
  BY DEF PartsSound, ServiceInv, VanishInv, BatchInv
<1>2. /\ done \in [Updates -> Nat] /\ offset \in Nat /\ confirmed \in Nat
      /\ batch \subseteq Updates /\ (\A u \in batch : offset <= u)
      /\ \A u \in Updates : u \in Nat /\ u > 0
  BY <1>1, KaufbotAssumption DEF Loop!PollInv, Loop!PollTypeOK, Loop!BatchSound, Loop!Updates, Updates
<1> SUFFICES ASSUME NEW c \in Contents, NEW u \in Updates,
                    request'[u] = AskFor("upload", c), done'[u] > 0
             PROVE  \/ ByHash(files', c) # {} \/ "refused" \in said'[u] \cup lost'[u]
                    \/ gone'[c].by > u
                    \/ gone'[c] # Never /\ u > confirmed' /\ u >= offset'
  BY DEF UploadsKept, Uploads, AskFor
<1>3. ASSUME done[u] > 0, request[u] = AskFor("upload", c)
      PROVE  \/ ByHash(files, c) # {} \/ "refused" \in said'[u] \cup lost'[u]
             \/ gone[c].by > u
             \/ gone[c] # Never /\ u > confirmed /\ u >= offset
  BY <1>1, <1>3, AnswersGrow DEF UploadsKept, Uploads, AskFor
<1>4. CASE Begin
  <2>1. done' = done /\ gone' = gone /\ UNCHANGED <<confirmed, offset>>
    BY <1>1, <1>4, Begun DEF ghosts
  <2>2. request[u] = request'[u]
    BY <1>1, <2>1, RequestsStep DEF LookedAt
  <2>3. files' = files
    BY <1>1, <1>4, Begun, Dispatched
       DEF vars, Upload, Retry, RetryWithModel, Delete, Request, StartJob, tables
  <2> QED
    BY <2>1, <2>2, <2>3, <1>3
<1>5. CASE Work
  <2>1. phase = "dispatch" /\ UNCHANGED <<done, request, confirmed, offset>>
    BY <1>5, Worked
  <2>2. CASE ByHash(files, c) # {} /\ ByHash(files', c) = {}
    <3>1. gone'[c].by = Current /\ gone'[c] # Never
      BY <1>1, <1>5, <2>2, RemovalNoted
    <3>2. u # Current
      BY <2>1, <2>2, <1>5, RemovedByDelete DEF AskFor
    <3>3. Current \in Nat /\ offset <= Current /\ Current > confirmed
      BY <2>1, <1>1, <1>2, CurrentUpdate DEF BatchUnconfirmed
    <3> QED
      BY <3>1, <3>2, <3>3, <2>1, <1>2
  <2>3. CASE gone'[c] = gone[c] /\ (ByHash(files, c) # {} => ByHash(files', c) # {})
    BY <2>1, <2>3, <1>3
  <2> QED
    BY <2>2, <2>3, <1>1, <1>5, RemovalNoted
<1>6. CASE Return
  <2>1. /\ phase = "dispatch" /\ pc = "idle" /\ UNCHANGED <<files, gone, request, confirmed>>
        /\ done' = [done EXCEPT ![Current] = @ + 1] /\ offset' = Current + 1
        /\ SendAnswer
    BY <1>1, <1>6, Returned DEF vars
  <2>2. Current \in batch /\ Current \in Updates /\ \A v \in batch : Current <= v
    BY <2>1, <1>1, CurrentUpdate DEF Loop!Oldest
  <2>3. CASE u = Current
    <3>1. News(IF direct = "none" THEN reply.kind ELSE direct) \subseteq said'[u] \cup lost'[u]
      BY <2>1, <2>2, <2>3, <1>1, AnswerNoted
    <3>2. \/ ByHash(files, c) # {}
          \/ direct = "none" /\ reply.kind \in {"save_failed", "db_error"}
          \/ direct # "none" /\ direct \in NotFetched
      BY <2>1, <2>3, <1>1 DEF UploadAnswered
    <3> QED
      BY <3>1, <3>2, <2>1 DEF News, Refusals
  <2>4. CASE u # Current
    <3>1. done'[u] = done[u]
      BY <2>1, <2>4, <1>2
    <3>2. u > confirmed /\ u >= offset => u > Current
      <4>1. u < Current => u \in batch \/ u < offset \/ u <= confirmed
        BY <2>1, <2>2, <1>1 DEF BatchWhole
      <4>2. Current \in Nat /\ u \in Nat
        BY <2>2, <1>2
      <4> QED
        BY <4>1, <4>2, <2>2, <2>4, <1>2
    <3>3. u > Current => u >= Current + 1
      BY <2>2, <1>2
    <3> QED
      BY <3>1, <3>2, <3>3, <2>1, <1>3
  <2> QED
    BY <2>3, <2>4
<1>7. CASE KillBot
  <2>1. UNCHANGED <<done, request, files, gone, confirmed>> /\ offset' = 0
    BY <1>7, Killed
  <2>2. u >= 0
    BY <1>2
  <2> QED
    BY <2>1, <2>2, <1>3
<1>8. CASE OtherStep
  <2>1. UNCHANGED <<done, request, files, gone>>
    BY <1>8, OtherSteps DEF vars
  <2>2. /\ offset' \in {0, offset}
        /\ u > confirmed /\ u >= offset => u > confirmed'
    BY <1>1, <1>8, LoopMoves
  <2>3. u >= offset => u >= offset'
    BY <2>2, <1>2
  <2> QED
    BY <2>1, <2>2, <2>3, <1>3
<1> QED
  BY <1>4, <1>5, <1>6, <1>7, <1>8, BotSteps

LEMMA UploadAnsweredStep ==
  ASSUME PartsSound, ServiceInv, VanishInv, [KaufbotNext]_kaufbotVars
  PROVE  UploadAnswered'
<1>1. /\ Loop!PollInv /\ RequestsKnown /\ JobServed /\ TablesInv /\ CallsInv
      /\ RemovalsTyped /\ UploadAnswered
  BY DEF PartsSound, ServiceInv, VanishInv
<1> SUFFICES ASSUME phase' = "dispatch", pc' = "idle", NEW c \in Contents,
                    request'[Current'] = AskFor("upload", c)
             PROVE  IF direct' = "none"
                    THEN ByHash(files', c) # {} \/ reply'.kind \in {"save_failed", "db_error"}
                    ELSE direct' \in NotFetched
  BY DEF UploadAnswered
<1>2. CASE Begin
  <2>1. PICK r \in Requests :
          /\ Current' = Current /\ Current' \in Updates
          /\ request' = [request EXCEPT ![Current] = r] /\ DispatchUpdate(r)
    BY <1>1, <1>2, Begun
  <2>2. r = AskFor("upload", c)
    BY <2>1, <1>1 DEF RequestsKnown
  <2>3. pc' # "idle" \/ (direct' # "none" /\ direct' \in NotFetched)
    BY <2>1, <2>2, Dispatched DEF Upload, Retry, RetryWithModel, Delete, Request, StartJob
  <2> QED
    BY <2>3
<1>3. CASE Work
  <2>1. phase = "dispatch" /\ Step /\ UNCHANGED <<request, direct>> /\ Current' = Current
    BY <1>3, Worked
  <2>2. pc # "idle"
    BY <2>1, StepCalls
  <2>3. direct' = "none" /\ job.op = "upload" /\ job.hash = c
    BY <2>1, <2>2, <1>1 DEF JobServed, AskFor
  <2> QED
    BY <2>1, <2>3, <1>1, UploadEnds
<1>4. CASE OtherStep
  <2>1. /\ UNCHANGED <<request, direct, gone, files, pc, reply>>
        /\ UNCHANGED phase /\ Current' = Current
    BY <1>4, OtherSteps DEF vars
  <2> QED
    BY <2>1, <1>1 DEF UploadAnswered
<1>5. CASE Return \/ KillBot
  BY <1>1, <1>5, Returned, Killed
<1> QED
  BY <1>2, <1>3, <1>4, <1>5, BotSteps

LEMMA VanishStep ==
  ASSUME PartsSound, ServiceInv, VanishInv, [KaufbotNext]_kaufbotVars
  PROVE  VanishInv'
<1>1. Loop!PollInv /\ RemovalsTyped /\ RequestsKnown
  BY DEF PartsSound, ServiceInv, VanishInv
<1>2. RemovalsTyped'
  BY <1>1, BotSteps, Begun, RemovalNoted, Returned, Killed, OtherSteps DEF RemovalsTyped, ghosts
<1>3. BatchInv'
  BY BatchInvStep DEF VanishInv
<1> QED
  BY <1>2, <1>3, UploadsKeptStep, UploadAnsweredStep DEF VanishInv

\* NoUploadVanishes: an upload that was handled has its row, unless it was
\* refused in an answer (which bot_start does not know to have arrived), its
\* row was deleted by a later update, or it will be handled once more.
THEOREM NoUploadVanishesCorrect == KaufbotSpec => []NoUploadVanishes
<1>1. KaufbotInit => PartsSound /\ ServiceInv
  BY BotInit
<1>2. KaufbotInit => VanishInv
  <2> SUFFICES ASSUME KaufbotInit PROVE VanishInv
    OBVIOUS
  <2>1. RemovalsTyped
    BY DEF KaufbotInit, RemovalsTyped, Never
  <2>2. phase = "poll" /\ \A u \in Updates : ~(done[u] > 0)
    BY DEF KaufbotInit, Loop!PollInit, Loop!Updates, Updates
  <2> QED
    BY <2>1, <2>2 DEF VanishInv, BatchInv, BatchUnconfirmed, BatchWhole, UploadsKept,
                      UploadAnswered, Uploads
<1>3. PartsSound /\ ServiceInv /\ VanishInv /\ [KaufbotNext]_kaufbotVars
        => PartsSound' /\ ServiceInv' /\ VanishInv'
  BY BotStep, VanishStep
<1>4. VanishInv => NoUploadVanishes
  BY DEF VanishInv, UploadsKept, NoUploadVanishes, Answered
<1> QED
  BY <1>1, <1>2, <1>3, <1>4, PTL DEF KaufbotSpec

-----------------------------------------------------------------------------
(* DeletedStaysDeleted, from what is known of each removal.                *)

LEMMA RemovalsKnownStep ==
  ASSUME PartsSound, ServiceInv, RemovalsInv, [KaufbotNext]_kaufbotVars
  PROVE  RemovalsKnown'
<1>1. Loop!PollInv /\ RequestsKnown /\ RemovalsTyped /\ RemovalsKnown
  BY DEF PartsSound, ServiceInv, RemovalsInv
<1>2. /\ starts \in Nat /\ offset \in Nat
      /\ \A u \in Updates : u \in Nat
      /\ batch \subseteq Updates /\ \A u \in batch : offset <= u
  BY <1>1, KaufbotAssumption DEF Loop!PollInv, Loop!PollTypeOK, Loop!BatchSound, Loop!Updates, Updates
<1> SUFFICES ASSUME NEW c \in Contents, gone'[c] # Never
             PROVE  /\ gone'[c].by \in Updates /\ request'[gone'[c].by].what = "delete"
                    /\ gone'[c].start <= starts'
                    /\ gone'[c].start = starts' /\ phase' \notin Loop!Down =>
                         \/ gone'[c].by < offset'
                         \/ phase' = "dispatch" /\ gone'[c].by = Current'
  BY DEF RemovalsKnown
<1>3. ASSUME gone[c] # Never
      PROVE  /\ gone[c].by \in Updates /\ request'[gone[c].by].what = "delete"
             /\ gone[c].start \in Nat /\ gone[c].start <= starts
             /\ gone[c].start = starts /\ phase \notin Loop!Down =>
                  gone[c].by < offset \/ (phase = "dispatch" /\ gone[c].by = Current)
  <2>1. gone[c].by \in Updates /\ request[gone[c].by].what = "delete"
    BY <1>1, <1>3 DEF RemovalsKnown
  <2>2. request'[gone[c].by] = request[gone[c].by]
    BY <1>1, <2>1, RequestsStep DEF Unread
  <2> QED
    BY <2>1, <2>2, <1>1, <1>3 DEF RemovalsKnown, RemovalsTyped
<1>4. CASE Begin
  <2>1. phase = "batch" /\ UNCHANGED <<gone, starts, offset>>
    BY <1>1, <1>4, Begun DEF ghosts
  <2> QED
    BY <2>1, <1>3 DEF Loop!Down
<1>5. CASE Work
  <2>1. /\ phase = "dispatch" /\ UNCHANGED <<phase, starts, offset, request>>
        /\ Current' = Current
    BY <1>5, Worked
  <2>2. CASE ByHash(files, c) # {} /\ ByHash(files', c) = {}
    <3>1. gone'[c].by = Current /\ gone'[c].start = starts
      BY <1>1, <1>5, <2>2, RemovalNoted
    <3> QED
      BY <3>1, <2>1, <2>2, <1>1, <1>2, <1>5, RemovedByDelete, CurrentUpdate
  <2>3. CASE gone'[c] = gone[c]
    BY <2>1, <2>3, <1>3
  <2> QED
    BY <2>2, <2>3, <1>1, <1>5, RemovalNoted
<1>6. CASE Return
  <2>1. /\ phase = "dispatch" /\ offset' = Current + 1 /\ UNCHANGED <<gone, starts>>
    BY <1>1, <1>6, Returned
  <2>2. Current \in Nat /\ offset <= Current
    BY <2>1, <1>1, <1>2, CurrentUpdate
  <2>3. gone[c].by \in Nat /\ (gone[c].start = starts => gone[c].by < offset \/ gone[c].by = Current)
    BY <2>1, <1>2, <1>3 DEF Loop!Down
  <2>4. gone[c].start = starts => gone[c].by < Current + 1
    BY <2>2, <2>3, <1>2
  <2> QED
    BY <2>1, <2>4, <1>3
<1>7. CASE KillBot
  <2>1. phase' = "killed" /\ UNCHANGED <<gone, starts>>
    BY <1>7, Killed
  <2> QED
    BY <2>1, <1>3 DEF Loop!Down
<1>8. CASE OtherStep
  <2>1. UNCHANGED gone
    BY <1>8, OtherSteps
  <2>2. CASE UNCHANGED <<starts, offset>> /\ (phase' \notin Loop!Down => phase \notin Loop!Down)
    BY <2>1, <2>2, <1>3, <1>8, OtherSteps
  <2>3. CASE UNCHANGED starts /\ phase' \in Loop!Down
    BY <2>1, <2>3, <1>3
  <2>4. CASE starts' = starts + 1
    <3>1. gone[c].start <= starts + 1 /\ gone[c].start # starts + 1
      BY <2>1, <1>2, <1>3
    <3> QED
      BY <3>1, <2>1, <2>4, <1>3
  <2> QED
    BY <2>2, <2>3, <2>4, <1>1, <1>8, LoopMoves
<1> QED
  BY <1>4, <1>5, <1>6, <1>7, <1>8, BotSteps

LEMMA RemovalsStep ==
  ASSUME PartsSound, ServiceInv, RemovalsInv, [KaufbotNext]_kaufbotVars
  PROVE  RemovalsInv'
<1>1. Loop!PollInv /\ RemovalsTyped /\ RequestsKnown
  BY DEF PartsSound, ServiceInv, RemovalsInv
<1>2. RemovalsTyped'
  BY <1>1, BotSteps, Begun, RemovalNoted, Returned, Killed, OtherSteps DEF RemovalsTyped, ghosts
<1>3. BatchInv'
  BY BatchInvStep DEF RemovalsInv
<1> QED
  BY <1>2, <1>3, RemovalsKnownStep DEF RemovalsInv

\* A content comes back by the insertion of the current upload.
LEMMA DeletedStep ==
  ASSUME PartsSound, ServiceInv, RemovalsInv, [KaufbotNext]_kaufbotVars,
         NEW c \in Contents, ByHash(files, c) = {}, ByHash(files', c) # {}, gone[c] # Never
  PROVE  \/ Current > gone[c].by
         \/ starts > gone[c].start /\ gone[c].by > confirmed
<1>1. /\ TablesInv /\ CallsInv /\ Loop!PollInv /\ RequestsKnown /\ JobServed
      /\ RemovalsTyped /\ RemovalsKnown /\ BatchUnconfirmed
  BY DEF PartsSound, ServiceInv, RemovalsInv, BatchInv
<1>2. PICK q \in files' : q.hash = c
  BY DEF ByHash
<1>3. pc = "insert" /\ job.hash = c
  <2>1. [Next]_vars
    BY <1>1, PipelineSteps
  <2> QED
    BY <1>1, <1>2, <2>1, RowsFrom DEF ByHash
<1>4. phase = "dispatch" /\ request[Current].what = "upload"
  BY <1>1, <1>3 DEF JobServed, CallsInv, OpOfCall, BeforeRow, AskFor
<1>5. /\ gone[c].by \in Updates /\ gone[c].by # Current
      /\ gone[c].start \in Nat /\ gone[c].start <= starts
      /\ gone[c].start = starts => gone[c].by < offset
  BY <1>1, <1>4 DEF RemovalsKnown, RemovalsTyped, Loop!Down
<1>6. /\ starts \in Nat /\ offset \in Nat /\ confirmed \in Nat /\ gone[c].by \in Nat
      /\ Current \in Nat /\ offset <= Current /\ Current > confirmed
  BY <1>1, <1>4, <1>5, CurrentUpdate, KaufbotAssumption
     DEF Loop!PollInv, Loop!PollTypeOK, Loop!BatchSound, BatchUnconfirmed, Updates
<1> QED
  BY <1>5, <1>6

\* DeletedStaysDeleted: an upload sent before a deletion brings its content
\* back only where a new process is given both again.
THEOREM DeletedStaysDeletedCorrect == KaufbotSpec => DeletedStaysDeleted
<1>1. PartsSound /\ ServiceInv /\ RemovalsInv /\ [KaufbotNext]_kaufbotVars =>
        [\A c \in Contents :
           ByHash(files, c) = {} /\ ByHash(files', c) # {} /\ gone[c] # Never
             => \/ Current > gone[c].by
                \/ starts > gone[c].start /\ gone[c].by > confirmed]_kaufbotVars
  BY DeletedStep
<1>2. KaufbotInit => PartsSound /\ ServiceInv
  BY BotInit
<1>3. KaufbotInit => RemovalsInv
  BY DEF KaufbotInit, RemovalsInv, RemovalsTyped, RemovalsKnown, BatchInv, BatchUnconfirmed,
         BatchWhole, Never, Loop!PollInit
<1>4. PartsSound /\ ServiceInv /\ RemovalsInv /\ [KaufbotNext]_kaufbotVars
        => PartsSound' /\ ServiceInv' /\ RemovalsInv'
  BY BotStep, RemovalsStep
<1> QED
  BY <1>1, <1>2, <1>3, <1>4, PTL DEF KaufbotSpec, DeletedStaysDeleted

-----------------------------------------------------------------------------
(* UnreadIsExplained, by counting the rows no answer explains.             *)

\* A row becomes unexplained when it loses its excuse, or with its insertion.
LEMMA UnexplainedFrom ==
  ASSUME PartsSound, ServiceInv, [KaufbotNext]_kaufbotVars,
         NEW q \in Unexplained', q \notin Unexplained
  PROVE  /\ q \in files' /\ q.ocr = None /\ q.hash \in Contents /\ ~Excused(q)'
         /\ \A u \in Updates : request'[u] = AskFor("upload", q.hash)
              => "ocr_failed" \notin said'[u] \cup lost'[u]
         /\ \/ q \in files /\ Excused(q)
            \/ pc = "insert" /\ q.id = lastId + 1 /\ q.hash = job.hash
<1>1. TablesInv /\ Loop!PollInv /\ RequestsKnown /\ TablesInv' /\ [Next]_vars
  BY BotStep DEF PartsSound, ServiceInv
<1>2. /\ q \in files' /\ q.ocr = None /\ ~Excused(q)'
      /\ \A u \in Updates : request'[u] = AskFor("upload", q.hash)
           => "ocr_failed" \notin said'[u] \cup lost'[u]
  BY DEF Unexplained, Uploads, AskFor
<1>3. q.hash \in Contents
  BY <1>1, <1>2 DEF TablesInv, TypeInv, TypeOK, FileRow
<1>4. CASE q \in files
  <2>1. \A u \in Uploads(q.hash) : "ocr_failed" \notin said[u] \cup lost[u]
    <3> SUFFICES ASSUME NEW u \in Uploads(q.hash) PROVE "ocr_failed" \notin said[u] \cup lost[u]
      OBVIOUS
    <3>1. u \in Updates /\ request'[u] = AskFor("upload", q.hash)
      BY <1>1, <1>3, UploadsStay DEF Uploads, AskFor
    <3> QED
      BY <3>1, <1>1, <1>2, AnswersGrow DEF ServiceInv
  <2>2. Excused(q)
    BY <2>1, <1>2, <1>4 DEF Unexplained
  <2> QED
    BY <2>2, <1>2, <1>3, <1>4
<1>5. CASE pc = "insert" /\ q.id = lastId + 1 /\ q.hash = job.hash
  BY <1>2, <1>3, <1>5
<1> QED
  BY <1>1, <1>2, <1>4, <1>5, RowsFrom

\* A call leaves at most the row it works on unexplained, and that is charged.
LEMMA UnexplainedByWork ==
  ASSUME PartsSound, ServiceInv, Work, [KaufbotNext]_kaufbotVars,
         NEW q \in Unexplained', q \notin Unexplained
  PROVE  /\ q.hash = job.hash /\ q \in files' /\ faults' = faults + 1
<1>1. TablesInv /\ TypeInv /\ CallsInv /\ Loop!PollInv /\ RequestsKnown /\ JobServed
  BY DEF PartsSound, ServiceInv, TablesInv
<1>2. /\ q \in files' /\ q.ocr = None /\ ~Excused(q)'
      /\ \/ q \in files /\ Excused(q)
         \/ pc = "insert" /\ q.id = lastId + 1 /\ q.hash = job.hash
  BY UnexplainedFrom
<1>3. /\ phase = "dispatch" /\ Step /\ [Next]_vars /\ pc # "idle" /\ direct = "none"
      /\ UNCHANGED <<phase, request, direct>> /\ Current' = Current
  BY <1>1, Worked, StepCalls DEF JobServed
<1>4. CASE pc = "insert" /\ q.hash = job.hash
  <2>1. job.op = "upload" /\ request[Current] = AskFor("upload", q.hash)
    BY <1>1, <1>4 DEF CallsInv, OpOfCall, BeforeRow, JobServed
  <2>2. pc' # "extract"
    <3> SUFFICES ASSUME pc' = "extract" PROVE FALSE
      OBVIOUS
    <3>1. job'.op = "upload"
      BY <1>1, <1>3, <2>1, JobStays
    <3> QED
      BY <3>1, <2>1, <1>2, <1>3 DEF Excused
  <2>3. InsertRow
    BY <1>3, <1>4, StepCalls
  <2>4. q \notin files
    <3>1. \A r \in files : r.id # lastId + 1
      BY <1>1, TablesAssumption DEF TablesInv, TypeInv, TypeOK, TablesSound, FileRow, Ids
    <3> QED
      BY <3>1, <1>2, <1>4 DEF Excused
  <2> QED
    BY <2>2, <2>3, <2>4, <1>1, <1>2, <1>4, Inserted
<1>5. CASE q \in files /\ Excused(q)
  <2>1. /\ pc \in {"extract", "save_text", "mark_ocr"} /\ job.op = "upload"
        /\ request[Current] = AskFor("upload", q.hash)
    BY <1>3, <1>5 DEF Excused
  <2>2. q.hash = job.hash
    BY <2>1, <1>1, <1>3 DEF JobServed, AskFor
  <2>3. pc' \notin {"extract", "save_text", "mark_ocr"}
    <3> SUFFICES ASSUME pc' \in {"extract", "save_text", "mark_ocr"} PROVE FALSE
      OBVIOUS
    <3>1. job'.op = "upload"
      BY <1>1, <1>3, <2>1, JobStays
    <3> QED
      BY <3>1, <2>1, <1>2, <1>3 DEF Excused
  <2>4. ~(pc' = "idle" /\ reply'.kind = "ocr_failed")
    BY <2>1, <1>2, <1>3 DEF Excused
  <2>5. pc # "extract"
    BY <2>1, <2>3, <2>4, <1>3, StepCalls DEF RunOcr, ExtractWithModel, Extracted, Continue, Answer
  <2>6. pc # "save_text"
    BY <2>3, <1>3, StepCalls DEF SaveText, Continue
  <2>7. pc = "mark_ocr" /\ MarkOcr
    BY <2>1, <2>5, <2>6, <1>3, StepCalls
  <2>8. files' # WithOcr(files, job.id, OcrName(job.name))
    <3> SUFFICES ASSUME files' = WithOcr(files, job.id, OcrName(job.name)) PROVE FALSE
      OBVIOUS
    <3>1. PICK r \in files : r.id = job.id /\ r.hash = job.hash
      BY <2>1, <1>1 DEF CallsInv, RowOfUpload, WithRow
    <3>2. q.id = job.id
      BY <3>1, <2>2, <1>1, <1>5 DEF TablesInv, TablesSound
    <3>3. PICK p \in files : q = IF p.id = job.id THEN [p EXCEPT !.ocr = OcrName(job.name)] ELSE p
      BY <1>2 DEF WithOcr
    <3>4. p \in FileRow
      BY <1>1 DEF TypeInv, TypeOK
    <3>5. p.id = job.id
      BY <3>2, <3>3, <3>4 DEF FileRow
    <3>6. q.ocr = OcrName(job.name)
      BY <3>3, <3>4, <3>5 DEF FileRow
    <3> QED
      BY <3>6, <2>7, <1>1, <1>2, Marked
  <2> QED
    BY <2>2, <2>7, <2>8, <1>1, <1>2, Marked
<1> QED
  BY <1>2, <1>4, <1>5

\* So does a kill in the middle of a call; no other step leaves a row
\* unexplained, as the answer of a failed OCR is sent or lost.
LEMMA UnexplainedOtherwise ==
  ASSUME PartsSound, ServiceInv, ~Work, [KaufbotNext]_kaufbotVars,
         NEW q \in Unexplained', q \notin Unexplained
  PROVE  /\ faults' = faults + 1 /\ q \in files'
         /\ request[Current] = AskFor("upload", q.hash)
<1>1. Loop!PollInv /\ RequestsKnown /\ JobServed /\ AnswersKept
  BY DEF PartsSound, ServiceInv
<1>2. files' = files
  BY RowsByRequest
<1>3. /\ q \in files' /\ ~Excused(q)'
      /\ \A u \in Updates : request'[u] = AskFor("upload", q.hash)
           => "ocr_failed" \notin said'[u] \cup lost'[u]
      /\ q \in files /\ Excused(q)
  <2>1. /\ q \in files' /\ ~Excused(q)'
        /\ \A u \in Updates : request'[u] = AskFor("upload", q.hash)
             => "ocr_failed" \notin said'[u] \cup lost'[u]
        /\ \/ q \in files /\ Excused(q)
           \/ pc = "insert" /\ q.id = lastId + 1 /\ q.hash = job.hash
    BY UnexplainedFrom
  <2>2. \A r \in files : r.id <= lastId /\ r.id \in Int /\ lastId \in Int
    BY TablesAssumption
       DEF PartsSound, TablesInv, TypeInv, TypeOK, TablesSound, FileRow, Ids
  <2>3. q.id # lastId + 1
    BY <2>1, <2>2, <1>2
  <2> QED
    BY <2>1, <2>3
<1>4. phase = "dispatch" /\ direct = "none" /\ request[Current] = AskFor("upload", q.hash)
  BY <1>3 DEF Excused
<1>5. ~Begin
  BY <1>1, <1>4, Begun
<1>6. ~OtherStep
  BY <1>3, <1>4, OtherSteps DEF Excused, vars
<1>7. ~(pc = "idle" /\ SendAnswer /\ request' = request)
  <2> SUFFICES ASSUME pc = "idle", SendAnswer, request' = request PROVE FALSE
    OBVIOUS
  <2>1. reply.kind = "ocr_failed" /\ Current \in Updates
    BY <1>1, <1>3, <1>4, CurrentUpdate DEF Excused
  <2>2. "ocr_failed" \in News(IF direct = "none" THEN reply.kind ELSE direct)
    BY <2>1, <1>4 DEF News, Refusals, NotFetched
  <2>3. "ocr_failed" \in said'[Current] \cup lost'[Current]
    BY <2>1, <2>2, <1>1, AnswerNoted
  <2> QED
    BY <2>1, <2>3, <1>3, <1>4
<1>8. KillBot
  BY <1>1, <1>5, <1>6, <1>7, BotSteps, Returned
<1>9. faults' = faults + 1
  BY <1>4, <1>7, <1>8, Killed
<1> QED
  BY <1>3, <1>4, <1>9

LEMMA UnreadBoundStep ==
  ASSUME PartsSound, ServiceInv, UnreadBound, [KaufbotNext]_kaufbotVars
  PROVE  UnreadBound'
<1>1. TablesInv /\ TypeInv /\ TablesInv' /\ [Next]_vars
  BY BotStep DEF PartsSound, TablesInv
<1>2. faults \in Nat /\ faults' \in Nat /\ faults' >= faults
  BY <1>1, FaultsGrow
<1>3. \A q, r \in files' : q.hash = r.hash => q = r
  BY <1>1 DEF TablesInv, TablesSound
<1>4. ASSUME NEW q \in Unexplained', q \notin Unexplained,
             NEW r \in Unexplained', r \notin Unexplained
      PROVE  q = r
  <2>1. q \in files' /\ r \in files' /\ q.hash = r.hash
    <3>1. CASE Work
      BY <3>1, <1>4, UnexplainedByWork
    <3>2. CASE ~Work
      <4>1. q \in files' /\ request[Current] = AskFor("upload", q.hash)
        BY <3>2, <1>4, UnexplainedOtherwise
      <4>2. r \in files' /\ request[Current] = AskFor("upload", r.hash)
        BY <3>2, <1>4, UnexplainedOtherwise
      <4> QED
        BY <4>1, <4>2 DEF AskFor
    <3> QED
      BY <3>1, <3>2
  <2> QED
    BY <2>1, <1>3
<1>5. ASSUME NEW q \in Unexplained', q \notin Unexplained
      PROVE  faults' = faults + 1
  BY <1>5, UnexplainedByWork, UnexplainedOtherwise
<1>6. PICK S : S = Unexplained
  OBVIOUS
<1>7. PICK T : T = Unexplained'
  OBVIOUS
<1>8. IsFiniteSet(S) /\ Cardinality(S) \in Nat /\ Cardinality(S) <= faults
  BY <1>6, FS_CardinalityType DEF UnreadBound
<1>9. PICK n \in Nat, m \in Nat : n = faults /\ m = faults' /\ m >= n
  BY <1>2
<1>10. IsFiniteSet(T) /\ Cardinality(T) <= m
  <2>1. CASE T \subseteq S
    <3>1. IsFiniteSet(T) /\ Cardinality(T) \in Nat /\ Cardinality(T) <= Cardinality(S)
      BY <2>1, <1>8, FS_Subset, FS_CardinalityType
    <3> QED
      BY <3>1, <1>8, <1>9
  <2>2. CASE ~(T \subseteq S)
    <3>1. PICK q \in T : q \notin S
      BY <2>2
    <3>2. T \subseteq S \cup {q}
      BY <3>1, <1>4, <1>6, <1>7
    <3>3. IsFiniteSet(S \cup {q}) /\ Cardinality(S \cup {q}) = Cardinality(S) + 1
      BY <3>1, <1>8, FS_AddElement, Zenon
    <3>4. IsFiniteSet(T) /\ Cardinality(T) \in Nat /\ Cardinality(T) <= Cardinality(S \cup {q})
      BY <3>2, <3>3, FS_Subset, FS_CardinalityType
    <3>5. m = n + 1
      BY <3>1, <1>5, <1>6, <1>7, <1>9
    <3> QED
      BY <3>3, <3>4, <3>5, <1>8, <1>9
  <2> QED
    BY <2>1, <2>2
<1> QED
  BY <1>7, <1>9, <1>10 DEF UnreadBound

\* UnreadIsExplained: no more rows lack a text, without an answer that says
\* so, than calls of the pipeline failed or were cut off by a kill.
THEOREM UnreadIsExplainedCorrect == KaufbotSpec => []UnreadIsExplained
<1>1. KaufbotInit => PartsSound /\ ServiceInv
  BY BotInit
<1>2. KaufbotInit => UnreadBound
  <2> SUFFICES ASSUME KaufbotInit PROVE UnreadBound
    OBVIOUS
  <2>1. Unexplained = {}
    BY DEF KaufbotInit, Init, Unexplained
  <2>2. faults = 0
    BY DEF KaufbotInit, Init
  <2> QED
    BY <2>1, <2>2, FS_EmptySet DEF UnreadBound
<1>3. PartsSound /\ ServiceInv /\ UnreadBound /\ [KaufbotNext]_kaufbotVars
        => PartsSound' /\ ServiceInv' /\ UnreadBound'
  BY BotStep, UnreadBoundStep
<1>4. UnreadBound => UnreadIsExplained
  <2> SUFFICES ASSUME UnreadBound, phase # "dispatch"
               PROVE  Cardinality({r \in files : r.ocr = None /\
                        \A u \in Uploads(r.hash) : "ocr_failed" \notin Answered(u)})
                        <= faults
    BY DEF UnreadIsExplained
  <2>1. Unexplained = {r \in files : r.ocr = None /\
                        \A u \in Uploads(r.hash) : "ocr_failed" \notin Answered(u)}
    BY DEF Unexplained, Excused, Answered
  <2> QED
    BY <2>1 DEF UnreadBound
<1> QED
  BY <1>1, <1>2, <1>3, <1>4, PTL DEF KaufbotSpec
=============================================================================
