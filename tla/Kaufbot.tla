------------------------------- MODULE Kaufbot -------------------------------
(***************************************************************************)
(* The whole bot: the polling loop dispatches the updates of its users to  *)
(* the pipeline, whose calls are the time a dispatch takes.  A kill stops  *)
(* both; the next process gets the updates again that Telegram has not     *)
(* been told of, and meets the tables and the storage as they were left.   *)
(***************************************************************************)
EXTENDS PipelineProperties

CONSTANTS
  MaxUpdates, MaxStarts, MaxLoopFaults,  \* bounds: as in Polling
  Asks,     \* bound: the requests that are considered, for each update
  Failing   \* bound: the calls of the pipeline that may fail without a kill

VARIABLES
  sent, confirmed, phase, running, offset, batch, begun, done, starts, loopFaults,
  request, \* update -> what it asks for, from when a handler looks at it first
  direct,  \* the answer of a handler that does not call the pipeline, or "none"
  said,    \* ghost: update -> what its answers told the user of a failure
  lost,    \* ghost: update -> what answers that did not arrive would have told
  gone     \* ghost: content -> when its row was deleted last

Loop == INSTANCE Polling WITH MaxFaults <- MaxLoopFaults, faults <- loopFaults

loopRest == <<sent, confirmed, phase, running, offset, batch, begun, done, starts, loopFaults>>
ghosts   == <<said, lost, gone>>
kaufbotVars == <<vars, loopRest, request, direct, ghosts>>

Updates == 1..MaxUpdates
Unread  == [by |-> "nobody", what |-> "nothing", on |-> None]

\* "user" is one of ALLOWED_USER_IDS.  Uploads are of a content, the other
\* requests on a file of an id; "other" stands for all that change nothing.
RequestsFor(what, on) == [by : {"user", "stranger"}, what : what, on : on]

Requests == RequestsFor({"upload"}, Contents)
              \cup RequestsFor({"retry", "retry_with_model", "delete"}, Ids)
              \cup RequestsFor({"other"}, {None})

Never == [by |-> 0, start |-> 0]

ASSUME KaufbotAssumption ==
  /\ MaxUpdates \in Nat /\ MaxStarts \in Nat /\ MaxLoopFaults \in Nat
  /\ Asks \in [Updates -> SUBSET Requests] /\ Failing \subseteq PCs

KaufbotInit ==
  /\ Init /\ Loop!PollInit
  /\ request = [u \in Updates |-> Unread]
  /\ direct = "none"
  /\ said = [u \in Updates |-> {}] /\ lost = [u \in Updates |-> {}]
  /\ gone = [c \in Contents |-> Never]

-----------------------------------------------------------------------------
SendUpdate == Loop!Send /\ UNCHANGED <<vars, request, direct, ghosts>>

-----------------------------------------------------------------------------
(* bot_dispatch_update: who asks, and for what.                            *)

AnswerDirectly(kind) == direct' = kind /\ UNCHANGED vars

CallPipeline(start) == direct' = "none" /\ start

\* Why a file does not come as far as the pipeline: a document over the limit,
\* the two requests that fetch it from Telegram, and what they fetch.
NotFetched == {"too_big", "no_file_info", "download_failed", "empty_file"}

\* Mutant: of an empty file nothing is said.
HandleFile_EmptySilently(c) ==
  \/ \E refusal \in NotFetched \ {"empty_file"} : AnswerDirectly(refusal)
  \/ AnswerDirectly("nothing")
  \/ \E e \in Exts : CallPipeline(Upload(c, e))

HandleFile(c) ==
  \/ \E refusal \in NotFetched : AnswerDirectly(refusal)
  \/ \E e \in Exts : CallPipeline(Upload(c, e))

\* Commands that only read, arguments that cannot be read, and updates that
\* the dispatch drops without a word, uploads without a file id among them.
HandleOther == AnswerDirectly("told") \/ AnswerDirectly("nothing")

config_is_allowed(r) == r.by = "user"

\* Mutant: the button handler does not ask who pressed the button.
DispatchUpdate_ButtonsUnchecked(r) ==
  IF ~config_is_allowed(r) /\ r.what # "delete" THEN AnswerDirectly("not_authorised")
  ELSE \/ r.what = "upload"           /\ HandleFile(r.on)
       \/ r.what = "retry"            /\ CallPipeline(Retry(r.on))
       \/ r.what = "retry_with_model" /\ CallPipeline(RetryWithModel(r.on))
       \/ r.what = "delete"           /\ CallPipeline(Delete(r.on))
       \/ r.what = "other"            /\ HandleOther

DispatchUpdate(r) ==
  IF ~config_is_allowed(r) THEN AnswerDirectly("not_authorised")
  ELSE \/ r.what = "upload"           /\ HandleFile(r.on)
       \/ r.what = "retry"            /\ CallPipeline(Retry(r.on))
       \/ r.what = "retry_with_model" /\ CallPipeline(RetryWithModel(r.on))
       \/ r.what = "delete"           /\ CallPipeline(Delete(r.on))
       \/ r.what = "other"            /\ HandleOther

\* An update that is delivered again asks for what it asked for before.
Asked(u) == IF request[u] = Unread THEN Asks[u] ELSE {request[u]}

Begin ==
  /\ Loop!BeginDispatch
  /\ \E u \in batch : /\ Loop!Oldest(u)
                      /\ \E r \in Asked(u) : /\ request' = [request EXCEPT ![u] = r]
                                             /\ DispatchUpdate(r)
  /\ UNCHANGED ghosts

-----------------------------------------------------------------------------
(* The time the handler takes, and what is noted of it.                    *)

Current == CHOOSE u \in batch : Loop!Oldest(u)

\* The rows that this step takes out of the table.
NoteRemovals ==
  gone' = [c \in Contents |->
             IF ByHash(files, c) # {} /\ ByHash(files', c) = {}
             THEN [by |-> Current, start |-> starts] ELSE gone[c]]

\* bounds: no second passes unused between two saves, and Failing
NoSecondSkipped == clock' <= clock + 1
OnlySomeFail    == faults' > faults => pc \in Failing

Work ==
  /\ phase = "dispatch"
  /\ Step /\ NoSecondSkipped /\ OnlySomeFail
  /\ NoteRemovals
  /\ UNCHANGED <<loopRest, request, direct, said, lost>>

Refusals == NotFetched \cup {"save_failed", "db_error"}

\* What an answer tells of a failure to take a file, or to read it.
News(kind) == IF kind \in Refusals THEN {"refused"} ELSE {"ocr_failed"} \cap {kind}

Noted(answers) ==
  [answers EXCEPT ![Current] = @ \cup News(IF direct = "none" THEN reply.kind ELSE direct)]

\* The answer reaches the user or does not: that sendMessage failed is logged,
\* and nothing comes of it.
SendAnswer == \/ said' = Noted(said) /\ lost' = lost
              \/ lost' = Noted(lost) /\ said' = said

\* The handler sends its answer and returns, and the offset moves either way.
Return ==
  /\ pc = "idle"
  /\ Loop!EndDispatch
  /\ SendAnswer
  /\ direct' = "none"
  /\ UNCHANGED <<vars, request, gone>>

Turn ==
  \/ Begin \/ Work \/ Return
  \/ /\ \/ Loop!LoopEnds \/ Loop!PollAnswered \/ Loop!PollExpires \/ Loop!PollFails
        \/ Loop!Sleep \/ Loop!BatchEnds \/ Loop!Tick
     /\ UNCHANGED <<vars, request, direct, ghosts>>

-----------------------------------------------------------------------------
(* A kill hits the loop, and the pipeline if it is at work; a handler that *)
(* has its answer may have sent it or not.                                 *)

KillBot ==
  /\ Loop!PollKill
  /\ \/ pc # "idle" /\ Crash /\ NoSecondSkipped /\ UNCHANGED <<said, lost>>
     \/ pc = "idle" /\ phase = "dispatch" /\ SendAnswer /\ UNCHANGED vars
     \/ pc = "idle" /\ phase # "dispatch" /\ UNCHANGED <<vars, said, lost>>
  /\ direct' = "none"
  /\ UNCHANGED <<request, gone>>

SignalBot == Loop!Signal /\ UNCHANGED <<vars, request, direct, ghosts>>

StartBot == Loop!StartProcess /\ UNCHANGED <<vars, request, direct, ghosts>>

KaufbotNext == SendUpdate \/ Turn \/ KillBot \/ SignalBot \/ StartBot

\* As FairPollSpec, with the calls of the pipeline in place of the dispatch, as
\* far as they return.
KaufbotSpec == /\ KaufbotInit /\ [][KaufbotNext]_kaufbotVars
               /\ WF_kaufbotVars(Turn /\ Returns)
               /\ WF_kaufbotVars(phase = "killed" /\ StartBot)

-----------------------------------------------------------------------------
Uploads(c) == {u \in Updates : request[u] = [by |-> "user", what |-> "upload", on |-> c]}

\* What the bot answered to an update, whether or not that arrived.
Answered(u) == said[u] \cup lost[u]

\* An upload that was handled is in the table, unless the bot refused it in an
\* answer (which bot_start does not know to have arrived), or its row was
\* deleted by a later update, or by an earlier one that was delivered again
\* together with the upload, which then is still to come.  That holds whatever
\* the process was killed in and however often the upload was delivered.
NoUploadVanishes ==
  \A c \in Contents : \A u \in Uploads(c) :
    done[u] > 0 => \/ ByHash(files, c) # {}
                   \/ "refused" \in Answered(u)
                   \/ gone[c].by > u
                   \/ gone[c] # Never /\ u > confirmed

\* Every row was sent by an allowed user, and every id that lost its row was
\* deleted on the word of one: strangers change nothing, by message or by
\* button, even where the process is killed and requests are repeated.
NothingUnasked ==
  /\ \A r \in files : \E u \in Uploads(r.hash) : begun[u] > 0
  /\ \A i \in 1..lastId : ById(files, i) # {} \/
       \E u \in Updates : /\ request[u] = [by |-> "user", what |-> "delete", on |-> i]
                         /\ begun[u] > 0

\* A content whose row was deleted comes back by an upload that was sent
\* after the deletion; an earlier upload brings it back only when a process
\* was started since and Telegram did not yet know that the deletion was
\* handled.
DeletedStaysDeleted ==
  [][\A c \in Contents :
       ByHash(files, c) = {} /\ ByHash(files', c) # {} /\ gone[c] # Never
         => \/ Current > gone[c].by
            \/ starts > gone[c].start /\ gone[c].by > confirmed]_kaufbotVars

\* Of the rows without an OCR text whose OCR is not known to have failed there
\* are no more than failed calls of the pipeline and kills in the middle of
\* one: each of those spoils at most one row, although the next process gets
\* many updates again, and what else fails (a poll, the sending of an answer,
\* a kill between two requests) spoils none.
UnreadIsExplained ==
  phase # "dispatch" =>
    Cardinality({r \in files : r.ocr = None /\
                   \A u \in Uploads(r.hash) : "ocr_failed" \notin Answered(u)}) <= faults

\* The whole behaves as each of its parts was specified to: the tables and
\* the storage as in Pipeline, and the loop as in Polling, whose fairness is
\* justified here with SQLite, as every handler returns.
ComposesParts == Spec /\ Loop!FairPollSpec
=============================================================================
