# kaufbot in TLA+

kaufbot is a Telegram bot that takes photographs and PDFs of receipts, stores
them, has their text read by Gemini (OCR), has the text parsed into a JSON
receipt, and keeps both in a database. This directory holds TLA+ modules that
model the parts of it that keep state, TLC configurations that check them on
small instances, and theorems with TLAPS proofs of every safety property these
check. Paths of source files are relative to the repository (`src/src/...` is
the C code's directory inside the checkout next to this one).

Contents: 1 the system, 2 the modules, 3 the properties and runs, 4 the
theorems, 5 disagreements between code and documentation, 6 what is not
modelled, 7 the plan.

## 1. The system

One process, one thread. `main.c` wires the parts together, installs a signal
handler that clears an atomic flag, and runs `bot_start`, which polls Telegram
until the flag is cleared. Everything else happens inside one turn of that
loop: an update is dispatched, a handler calls the processor, which calls the
OCR service, the storage and the repository, each blocking. Concurrency is
therefore not between threads of the bot but between the bot and what it talks
to: a server that has done what was asked although the answer was lost, a
process that is killed between two calls, updates that are delivered again,
an operator who edits the prompts table, a clock that names files.

| component | state | operations | talks to | hard about it |
|---|---|---|---|---|
| Receipt pipeline `processor.c` | none of its own; local variables over up to seven external calls | handle_file, retry_ocr, retry_ocr_with_model | storage, repository, OCR service | two stores without a common transaction; failures that are logged only; answers that promise a later step |
| Deletion `bot_commands.c` do_delete_file | none | delete | storage, database | three deletions in a row, results of two ignored |
| Database `db_sqlite.c`, `db_postgres.c`, repository `file_repository.c` | tables files, parsed_receipts, prompts | find by hash or id, insert, mark OCR, mark parsed, delete, get prompts | SQLite file, PostgreSQL server | errors mapped to "not found"; commits whose answer is lost; JSONB refuses what a text column takes |
| Storage `storage_local.c`, `storage_supabase.c` | a directory, or a bucket | save, delete, read | file system, HTTP object store | names by the second; overwriting; unchecked fclose; empty files |
| Polling loop `bot.c` bot_start, `main.c` | offset (memory only), running flag | a turn; stop | Telegram | redelivery after a restart; order; an idle poll that ends as an error |
| Prompt fetcher `prompt_fetcher.c` | cache of 64 prompts, time of the last poll | tick, poll, callback | database, loop | cache full; prompts removed and put back; driven from one place of the loop |
| HTTP client `http_client.c` | configuration, one curl handle | execute with retries, free a response | network | what may be sent twice; ownership of bodies; half answers |
| Gemini client `gemini.c`, `ocr_service.c` | model, fallback period, token counts | extract, extract with model, parse | HTTP client | a model swapped for one call; counts that outlive a call; the rate-limit branch |
| Event bus `event_bus.c` (library and tests; the program does not publish yet) | subscriber tables | subscribe, unsubscribe, publish | handlers that call it back | the table changes under the loop that walks it |
| Dispatch, commands `bot_commands.c` | none | authorisation, uploads, /start, /list, /models, /retrywith, buttons | all of the above | two places that must ask who is asking; requests delivered again |
| Process and container `main.c` | which parts are open, the signal handlers | open, run, close | all parts | failing steps; order of closing; signals at any time; seeds at every start |
| In-memory repository `file_repository_memory.c` (tests) | arrays of fixed size | as the repository | - | must behave like the database one |
| Document store `document_store.c` (the program does not use it) | names in a storage | store, annotate, delete, read | storage | names by the second; ignored results |
| Utilities `utils.c`, SHA-256 in `storage_local.c` | none | base64, percent-encoding, padding of a digest | - | block and group boundaries |
| Configuration `config.c` | read once | list of users, other variables | environment | what a malformed list lets in |
| Reply builder, Telegram calls | none | pure, or pure I/O | - | buffer bounds |

What makes each correct, in a sentence: the pipeline leaves tables and storage
in agreement, or out of it by no more than what went wrong; a stored receipt is
the file's own; what an answer says is so. The loop loses no update and handles
them in order. The fetcher announces what changed, once. The HTTP client
repeats only what was refused. The Gemini client gets its model back. The bus
calls each subscriber once. Composed: no upload is silently gone, whatever the
process was killed in; nobody but an allowed user causes anything; a deleted
file comes back only where a redelivery explains it. A process closes what it
opened in an order in which nothing dangles, and what it announces somebody
wrote. The in-memory repository answers as the database does; documents keep
their own texts; what is encoded can be decoded; who is allowed is listed.

## 2. The modules

```
Tables <- Blobs <- Pipeline <- PipelineProperties <- PipelineRefinement <- PipelineInvariants
                               |            |         | INSTANCE Ledger        ^      ^
                               |            |                         MCPipeline    PipelineProofs <- FaultsProofs
                               |            Kaufbot (INSTANCE Polling) <- MCKaufbot
Kaufbot, PipelineProofs <- KaufbotProofs (INSTANCE PollingProofs)
Polling, PromptFetcher <- BotLoop <- MCBotLoop        Polling <- PollingProofs
PromptFetcher <- Lifecycle <- MCLifecycle
BotLoop, Lifecycle, PollingProofs <- LifecycleProofs
HttpClient <- Gemini <- MCGemini, MCClients, ClientProofs
EventBus, MemoryRepository (Tables), DocumentStore (Blobs), Encodings, Configuration, MCClients <- MCComponents
Encodings <- DataProofs
EventBus, DocumentStore, MemoryRepository, Configuration, DataProofs <- ComponentProofs
```

**Tables** models the two tables and the statements of both backends. A call is
an operator that returns the set of its outcomes: what it reports (`ok`), the
table it leaves (`left`), and whether the environment had to fail for it
(`cost`). `Done`, `Refused` and `Failed` build them. That keeps the difference
between "refused because of a UNIQUE constraint" (no fault) and "the
connection broke" (a fault), and between SQLite, where a failed statement did
nothing, and PostgreSQL, where a statement may commit and its answer be lost.
`is_ocr_processed` and `ocr_file_name` are written together and are one field.
A receipt is the file it belongs to, the data it was parsed from, and whether
it is JSON.

**Blobs** does the same for the storage. Data is the content it comes from, or
`Damaged` (cut short) or `Blank` (zero bytes). `fopen(.., "wb")` truncates, so
a failed local save may leave either, and an unchecked `fclose` may leave
either and report success. `TornWrite` is what a kill inside the call leaves.

**Pipeline** is `processor.c` and `do_delete_file`. One action is one external
call together with the code up to the next call; `pc` names the call, `job`
holds the local variables. `clock` is the second that named the last upload:
with `SecondsRepeat = FALSE` every upload gets a new one. `Crash` may happen
between any two calls and inside the two writes. `reply` is the kind of answer
and the id in it, `advice` what an answer told the user to do about a file,
`asked` the ids whose deletion was requested; the last two are history for
properties. `faults` counts what the environment did wrong and is bounded by
`MaxFaults`. A PostgreSQL connection that dies and is never reset shows up as
every later call failing, one fault each.

**Ledger** is the abstract specification of the tables: entries with fresh ids,
one per content, that may be read, may hold their own receipt and may be
removed. **PipelineRefinement** maps `files` and `receipts` to entries and
`lastId` to the ids issued; a receipt parsed from another file maps to
"foreign", which the ledger does not have.

**Polling** is `bot_start` and the server's side of getUpdates. The server's
queue is never shortened: `confirmed` is how many updates it has forgotten,
`offset` what the next request will confirm. `begun` and `done` count, per
update, handlers called and returned. A request may fail before or after the
server saw it. A signal clears `running`; a kill may come anywhere.
**PromptFetcher** is the cache and its poll; a cache of records with distinct
names is a function from names, `Fetched` is what one query of at most
`MaxCached` rows returns, `told` remembers the last announcement of each name.
**BotLoop** composes both: every part of a turn but the last leaves the fetcher
alone, and the last is a tick.

**Kaufbot** is the whole bot. It extends the pipeline and instantiates Polling
under the name `Loop`: a dispatch begins with `DispatchUpdate`, which asks who
the update is from and either answers directly or makes the first call of the
pipeline, lasts as long as the pipeline works (`Work`), and ends when it is
idle (`Return`). A kill hits both. What an update asks for is chosen when a
handler first looks at it, and is the same when it is delivered again. Every
answer may be sent in vain (`SendAnswer`): a failed sendMessage is logged, the
update counts as handled all the same and the offset moves behind it. A file
that cannot be fetched from Telegram, is empty or too large is refused before
the pipeline sees it (`NotFetched`), also in an answer that may not arrive; a
file without an id is dropped with none. `said`, `lost` and `gone` are history:
what the answers to each update told of a failure, apart as they arrived or
did not, and by which update and process a content's row was deleted last.

**Lifecycle** is `main.c` around the fetcher. `OpenOrder` lists the steps of
`container_init` in the code's order, each of which may fail, quietly (the
seeds, the fetcher) or for good; `CloseOrder` is `container_destroy`. A signal
is deadly before the handlers are installed, clears the flag afterwards, and
after the bot is freed does what undefined behaviour can: nothing, or kill.
`Seeded` is what the two seed statements put into the table. `written` is
history: what somebody wrote.

**HttpClient** is `http_client_execute`: what each attempt met with is in
`answers`, the bodies that are allocated in `bodies`; `retries` is the number
of retries the client was configured with. **Gemini** extends it with the
client's own state and makes each request as the code does, with a client of
no retries. **MCClients** has both: clients with retries on their own, and the
Gemini client on one without; it is one of the parts that MCComponents runs.

**EventBus** models one event type. A publish in progress is a frame on a
stack, since a handler may publish; the table may change whenever a handler is
running.

**MemoryRepository** makes each call of the in-memory repository and of the
database's (the operators of Tables) side by side; `apart` is set by a call of
which only one of them succeeds, and ends the comparison. `created` is the
`created_at` of each row, a second; several rows may have the same. A list of
the database (`sqlite_list`, `db_repo_list`) orders rows by it and is one of
several where seconds are equal, as the query names no other key; a list of the
memory (`mem_repo_list`) is the array from its end. **DocumentStore** is
`document_store.c` over the outcomes of Blobs, with one caller that deletes and
annotates documents it knows. **Encodings** and **Configuration** are functions
with a reference definition next to them: the standard's padding, the bits of
base64, the fields of a list and the number each begins with. Of `strtoll` it
has white space before a number, a sign, the digits, and the saturation at the
ends of the 64 bits, `MaxNumber` standing for the last of them. Each has the
input, which never changes, and the results computed of it. **MCComponents**
picks one of these, or the bus, per behaviour; the others stay as they were, so
the state spaces add up and do not multiply.

Operators named `X_Something` with a comment "Mutant" are deliberate mistakes
next to the definition X. They are used by nothing. Each property was tried
against one of them put in the place of X and is violated by it, which is how
we know that the property says something; `PROJECT.json` lists the pairs.

## 3. The properties and the runs

| run | instance | states | question |
|---|---|---|---|
| pipeline_faults | SQLite, directory, 2 contents, 2 seconds, 2 ids, 2 faults | 3.7 M | what may two faults do to tables and storage? |
| pipeline_hosted | PostgreSQL, object store, 2 contents, 2 seconds, 2 ids, 1 fault | 365 k | the same with lost answers; invariant of the proofs; ledger; does every request end, also after something failed? |
| pipeline_same_second | SQLite, directory, 2 contents, 2 extensions, 1 second, 2 ids, 1 fault | 2.5 M | what survives when file names collide? |
| kaufbot | 1 content, 3 updates, 2 starts, 1 failed request or kill, 1 failed insert, any answers lost | 1.1 M | what do users see of redeliveries and kills? |
| kaufbot_two_files | 2 contents, 2 updates, 2 starts, 1 failed request or kill, 2 faults of the pipeline, any answers lost | 555 k | how many rows are left unread with nobody told? |
| bot_loop | 3 updates, 2 starts, 1 failed request or kill, 1 prompt, 1 edit, 1 failed query | 88 k | is every update handled, in order, and when are prompts polled? |
| prompts | 3 names, cache of 2, 2 texts, 2 edits, 2 lives, 1 failing step, 1 failed query | 218 k | is every lasting change announced, and only what somebody wrote? does anything dangle? |
| components | section "Bounds" | 356 k | the parts that do not meet at run time, in-memory repository, document store, encodings, list of users, event bus, and the clients: what is sent twice, who owns a body, is the model restored, are the counts this answer's? |
| finding_* | the smallest instance that shows it | - | section 5 |

Pipeline. `TablesSound`: unique ids, hashes and names, receipts with rows,
although a failed duplicate query counts as "not found". `NoForeignReceipt`: a
stored receipt comes from its own file, although retries read back by name what
an earlier, possibly interrupted, request saved. `OriginalKept`: unless its
deletion was requested, a file's original is in storage. `LeaksBoundedByFaults`:
the number of stored files no row leads to is at most the number of faults (plus
the one on its way to its row). `StorageMatchesTables`, `AnswerIsTrue` and
`PromisedRetryFindsText` hold as long as no fault has happened; the last says
that after "parsing can be retried later" a retry finds the text, with the one
exception of an empty text, whose file reads as missing. `RowsKeepIdentity`: a
row keeps its hash, name and, once set, text; ids are never given again.
`ImplementsLedger`: the refinement. `EveryRequestEnds`: a request comes to its
end, which is an answer unless the process is killed in it, or waits for ever in
a call of PostgreSQL, whatever else fails in it and has failed before it.

Loop. `NothingLost`, `OnceByEachProcess`, `InOrder`: the server forgets only
what has been handled, a process begins an update at most once, a handler
starts after those of all earlier updates have returned. `EveryUpdateHandled`,
`SignalStops`: liveness.
`BusyLoopPollsPrompts`: a due poll of the prompts is made after a batch.

The whole bot. `NoUploadVanishes`: an upload that was handled is in the table,
or was refused in an answer, or its row was deleted by a later update, or by an
earlier one that was delivered again with the upload still to come. It says that
the bot answered and not that the user read it: nothing in the code makes sure
of that (`src/src/telegram/bot.c:120, 371`), and with a lost answer an upload can fail
without its sender being told. `UnreadIsExplained`: of the rows without a text,
leaving aside those whose OCR was answered to have failed, there are no more than
calls of the pipeline that failed or were cut off by a kill (`faults`, where a kill
counts once); this is where a kill between the insert and the end of the OCR shows
up, since the redelivered upload is answered as a duplicate and nothing reads
the file until the user asks for it. Failed polls, lost answers and kills between
requests spoil no row. `DeletedStaysDeleted`: a deleted content
comes back by a later upload, or by an earlier one that was delivered again
because the deletion was handled and not yet confirmed when the process ended.
The second part is real: the batch "upload, delete" followed by a kill brings
the file back. `NothingUnasked`: rows and deletions trace back to requests of
allowed users. `ComposesParts`: the composition implements both parts,
including the loop's fairness, which means that every handler returns.

Fetcher and process. `CacheIsTold`: nothing is remembered silently.
`OnlyNewsAnnounced`: an announcement is repeated only if the cache was too full
to remember it. `LastingChangeIsTold`: a content that stays is announced, if
the loop goes on reaching its tick. That is a hypothesis of the property and no
fairness of the specification: the loop leaves the tick out of every turn
whose poll fails or times out (`src/src/telegram/bot.c:335-358`, finding_prompt_polls).
`OnlyEditsAnnounced`: neither what a process finds at its start nor what it
seeds is announced as a change, unless a prompt's name was behind those a poll
collects. `NothingDangling`: no part is open while one it points to is closed.

HTTP and Gemini. `BodiesAreOwned`, `OnlyRetryableRepeated`, `SuccessIsWhole`;
`WantedModelIsAsked` (the model that was configured, or that was asked for in
this call only); `TokensAreOfThisAnswer`.

Components. `FewAreMissed`: of the handlers that stay, at most one misses the
event for each subscription given up during it, and none is called twice;
`EveryPublishEnds`. `StandsInForDatabase`: the same files under the same ids with
the same receipts, a list of the memory that the database may give as well (rows
of different seconds in the same order), and a call succeeds of both or of none
except for the named differences (full arrays, a name that is taken, an OCR text
of no file). `DocumentsAreWhole`: at
most one file left behind per failed call, and texts that are a document's own.
`DigestIsOfWholeFile`, `EncodingsCanBeUndone`, `AllowedAreListed`: the code's
functions against the reference definitions, once a result has been computed.
Of the list of users: the allowed ones are those whom the numbers name with which
the first fields begin, and the bot starts only if each of these fields begins
with one; what is behind a number in its field is not looked at, as in the code.

### Bounds

Two contents and two ids let a file be a duplicate of another, be deleted and
uploaded again, and let one file's data end up with another. Two seconds give
each a name, one second makes them collide; two extensions are needed for
collisions of OCR texts without collisions of originals. Two faults allow a
fault while the damage of an earlier one is still there. The proofs of section
4 have no bounds. In the loop, three updates allow a batch of two with a third
behind it, or arriving meanwhile, and one kill or signal with a restart meets
each of these. In kaufbot the first update is an upload, the third the same
upload again, and the one between them each of: a retry, a retry with a model,
a deletion, and a stranger's deletion button.
One call of the pipeline may fail without a kill (the insert, whose failure is
told before there is a row); `pipeline_faults` has the others. In
kaufbot_two_files a first upload is followed by another, by itself, by a retry
with a model or by a request that changes nothing, and the call that may fail is
the one that marks a row as read, which is not told: with two contents and two
faults two rows may be spoilt, one by a failure and one by a kill, and two faults
may meet one row. A cache of two for three names is full in a way that a removed prompt occupies it. Two retries
give a first, a middle and a last attempt. A second life of a process meets the
first one ended in each of its steps. Depth two of the bus is a handler that
publishes to handlers that do not; with three slots a departure before, at and
behind the walk differ. The in-memory repository has room for two records and
three receipts, where three ids and re-parsings fill both, and of two files
that are there together both or each alone was stored in a second; the document store
has two seconds, two contents and two failing calls. Lengths of files for
SHA-256 are those around the ends of the first two blocks; base64 and
percent-encoding are given all strings of up to four bytes out of five (a name
holds no zero byte); lists of users are all of up to four characters out of
eight kinds (two digits, comma, blank or tab, plus, minus, a letter) and those of
five out of four of them, with a buffer of six, at most two users and 10 as the
largest number, which `11` exceeds.

Contents are symmetric in the runs that check safety only. Deadlock is checked
for the pipeline alone (users and the clock may always act); the
other systems may stop: the bounded counts of updates, requests and calls run
out.

### Fairness

`FairSpec`: a step of the running request is taken eventually, where each call in
it returns: curl's have a timeout, and SQLite and the disk are local. Calls to
PostgreSQL have none (`src/src/db/db_postgres.c:46`), so no step of such a
call is owed (`Returns`), and `EveryRequestEnds` says of pipeline_hosted that a
request ends or waits in such a call for ever. Requests and kills are never owed.
`FairPollSpec` and `FairBotSpec`: the loop keeps turning for the same reason,
handlers return (with SQLite), and a *killed* process is started again because
the compose file says `restart: unless-stopped`
(`src/docker-compose.yml:5`); one that was told to stop need not be. That time
passes (`Elapse`) is a fact about the world. In an idle loop nothing forces the
request to end in an answer rather than in curl's timeout, so no fairness says
it does. `KaufbotSpec` is fair to the turn of the loop as a whole, of which the
pipeline's calls are a part, again where calls return. `FairLifeSpec`: time
passes, and nothing else. The bus: handlers return.

## 4. The theorems

`tlapm` proves all of them, for every value of the constants that the
modules' assumptions allow; `PROJECT.json` lists each with the property it
states. The inductive invariants were checked by TLC, on the instances of section 3, before they
were proved; `StorageInv` still is, in pipeline_hosted. A proof has one lemma
per action, or per group of actions that change the same things.

Assumptions on constants are weak: bounds are numbers, model values differ,
the names of databases and storages are the two there are. Where a theorem
assumes more, the property is false or unproved without it:

* `~SecondsRepeat` (no two uploads get the same second): `StorageInv` and
  what rests on it, in PipelineProofs and FaultsProofs. With
  repeating seconds one file's data ends up under another's name; the run
  pipeline_same_second says what survives that.
* `Database = "sqlite"`: `AnswerIsTrueCorrect`, since PostgreSQL may refuse as
  JSONB what the code took for JSON and goes on to report, with no fault; and
  `NothingUnaskedCorrect`, since a PostgreSQL sequence skips the ids of
  inserts that failed, so that an id without a row need not have been deleted,
  which is how the property tells. The in-memory repository is compared with
  SQLite (`MemoryAssumption`), whose ids skip none.

**PipelineProofs.** `TypeOKCorrect` and `TablesSoundCorrect` hold for either
database and storage, any number of faults, and whether or not seconds repeat.
`TypeOK` is not inductive: a step copies local variables, and only their being
set by earlier steps makes the result well typed. `TypeInv` adds `JobTyped`,
which says, per call, which variables are set. `TablesSound` needs in addition
that the row a request works on exists until the request deletes it, or the
recording of a receipt could leave a receipt without row: `TablesInv`.
`NoForeignReceiptCorrect` needs to know where the data of a buffer came from,
hence where the data under a name came from, hence that no two rows share a
second and that nothing is stored under seconds to come: `StorageInv` is the
conjunction of `TablesInv`, `SecondsInv`, `OwnBlobs`, `NewUpload` and
`OwnBuffers`. `OriginalKeptCorrect` is a part of `OwnBlobs` and needs that a
request in its deleting calls was asked for. `RowsKeepIdentityCorrect` holds
whether or not seconds repeat: `NamesInv` adds to `TablesInv` that a row leads to no text but the one
its own name gives, and that a request works under the name of its row, so the
name a marking writes is the one that is there already. `StorageInvCorrect` is
the invariant itself, and `ImplementsLedgerCorrect` the refinement: initial
state to initial state, and each step, by what it does to the two tables
(`FilesStep`), to a step of the ledger or to none.

**FaultsProofs.** `LeaksBoundedByFaultsCorrect` counts lost files. The bound
itself is not inductive, because a call may make it certain that a later one
loses a file: a deletion whose unlink failed has not lost the file yet, since
the row is still there, and an upload whose look-up failed will lose its
original when the insert is refused. `Owed` counts those, `OnTheWay` the file
that the next call links to a row, and `LeakBound` is the balance: lost and
owed are at most faults and on the way. `StorageMatchesTablesCorrect` and
`AnswerIsTrueCorrect` follow from `QuietInv`, which says of a run without
faults what each buffer and each row's files hold at each call;
`PromisedRetryFindsTextCorrect` from `AdviceInv`, which adds that a promise is
made only for a row whose text is recorded.

**PollingProofs.** `NothingLostCorrect`, `OnceByEachProcessCorrect` and
`InOrderCorrect`. The invariant adds to the properties that everything below
the offset is handled, that a batch starts where the handled updates end, and
that what the process has not answered it has not begun.

**LifecycleProofs.** `CacheIsToldCorrect` and `OnlyNewsAnnouncedCorrect` are
about the fetcher in any number of lives of its process. The second needs
`FullForGood`: a prompt that was announced and is not in the cache means that
the cache is full, and a full cache stays so, since nothing leaves it before
the process ends. `OnlyEditsAnnouncedCorrect` needs that once a process has
polled, a prompt that differs from what it remembers was written by somebody,
which holds because the first poll collects what the seeds put there, and that
the names a poll collects are the lowest ones. `NothingDanglingCorrect` rests
on the parts that are open being those of a beginning of `OpenOrder` or of an
end of `CloseOrder`, of which each holds all that its parts point to. Of the
polling loop with the fetcher in it, `BotLoopImplementsPolling` says that it is
still the loop of Polling, so that `BotLosesNothing`; `BotCacheIsTold` and
`BotOnlyNewsAnnounced` are the fetcher's own results where it is polled between
batches and forgets at a restart, from the same invariant.

**ClientProofs.** `HttpInv` says that while a request is tried there is one
answer to each earlier attempt, each of which asked for another, and nothing is
held, and that the response of a request that has returned repeats the last
answer; the three results on the HTTP client are parts of it.
`GeminiUsesHttpClient` is a refinement: each step of the Gemini client is one
of an HTTP client or none, so the three hold of its requests as well. For
`WantedModelIsAskedCorrect` and `TokensAreOfThisAnswerCorrect` the invariant
follows the model that a call puts aside, and the counts of the last answer
that was read, through the stages of a call.

**KaufbotProofs.** `WholeImplementsParts`: the whole bot is a pipeline and a
loop (`ComposesParts` without its fairness), so the invariants of both are
invariants of it; the loop's are taken from PollingProofs through `INSTANCE`.
On top of them, `ServiceInv` says that the pipeline is at work only for the
update that is being dispatched, and does what that update asks for. From it
follow `NothingUnaskedCorrect`; `NoUploadVanishesCorrect`, which needs that when
the handler of an upload is about to return there is a row or a reason
(`UploadAnswered`), that no answer is forgotten (`AnswersGrow`), and that an update
which is handled in a process is one of the batch in progress or confirmed
(`BatchInv`), since a deletion takes the row of an upload whose delivery is
repeated only if that is still to come (`UploadsKept`);
`DeletedStaysDeletedCorrect`, which needs that what removed a content's row was a
deletion, of an update this process has answered or is dispatching if it was this
process that removed it (`RemovalsKnown`), and that what it was handed out is not
confirmed (`BatchUnconfirmed`); and `UnreadIsExplainedCorrect`, whose invariant
`UnreadBound` leaves out the row whose OCR is going on and counts the others
against the faults of the pipeline alone, so that each fault pays for one row, for
any number of files.

**ComponentProofs.** `DocumentsAreWholeCorrect`: each call leaves behind at
most as many files as it had failures, whatever the failing call left of its
file. `FewAreMissedCorrect` holds for a table of any size, publishes in
publishes of any depth, and handlers that subscribe, leave and publish as they
like. `FrameSound` says of each publish in progress that the handlers it has
`Missed` (still subscribed, not called, and no slot ahead of the walk) are at
most as many as the subscriptions given up since it began; the lemma on which
that rests is that taking out the first slot of a handler moves only one slot
from ahead of the walk to behind it. `StandsInForDatabaseCorrect` is for arrays of
any size: until a call succeeds on one side only, `Twins` holds: array and table
have the same files in the order of their ids, the next id is the one the
database gives, and the last receipt the array keeps of a file is the one stored
of it (the code appends where the table updates, `PlacesOf`). Ids are given in the
order of time (`DatedInOrder`), so the array from its end is one of the lists the
database may give (`ReversedIsAList`); the lists differ at most in the order of
rows of one second, which the theorem does not promise. Once a call succeeds on
one side only the property asks for a reason by name, `Excused`. `AllowedAreListedCorrect` is
for lists of any length that fit the buffer and any limits, that of the numbers
among them: `ValueOf` says what strtoll makes of the white space, the sign and the
digits at the beginning of a field, and `FieldNames` that this is the number which
the field names by definition. `Sound` says that
after k rounds of strtok_r and strtoll the first k fields have been read, or
all, and their numbers are the users, or that one of them is no number; which
characters a field has for its own is a matter of the commas around it, so the
next field of the code is the next of the definition (`FieldsApart`).

**DataProofs.** `DigestIsOfWholeFileCorrect` is for files of any length: `Fed`
says that the blocks digested and the bytes that wait are, one behind the other,
all bytes that were fed; feeding keeps that, and after mark, zeros and length
the total is a multiple of 64, so nothing waits. `EncodingsCanBeUndoneCorrect`
is for texts of any bytes and any length. Of a name it follows the server through
the escaped text: each character is written as itself or as three (`Escape`),
and a server that stands at the beginning of such a piece (`Follows`) has read
that character at its end. Of base64 it compares bits: the four characters of a
group have those of its three bytes (`TripleBits`), and a padded group those of
the bytes there are.

The provers have no induction here: its theorems take an operator. What they do
have is the well-foundedness of strict inclusion on finite sets, from which
`LeastNumber` follows: a set of numbers up to n has a least one, since of the
sets of numbers below its elements one is minimal. With it, two lemmas do what
induction is needed for.
`NoneFails`: a claim that holds at first, and at each number at which it held at
the one before, fails nowhere, since there is no least number at which it does.
`StepByStep`: a recursive function over 1..n has a value at each number if its
steps stay in a set. The models write these recursions as functions, with the
data a constant of the proof.

Only model-checked, and why:

* Liveness (`EveryRequestEnds`, `EveryUpdateHandled`, `SignalStops`,
  `BusyLoopPollsPrompts`, `LastingChangeIsTold`, `EveryPublishEnds`) and the
  fairness in `ComposesParts`: the provers do not handle `ENABLED`.

## 5. Disagreements between code and documentation

Each with a run that exhibits it:

* `finding_re_upload`: after a failed OCR the user is sent to the retry button
  (`src/src/processor.c:203`), which parses but does not run OCR and sends the
  user on to upload again (`:348`), which is refused as a duplicate (`:267`).
* `finding_original`: "re-extracting text from the original file"
  (`src/src/processor.h:35`) reads another file after two uploads in a second.
* `finding_prompt_polls`: "Polls every `interval_secs` seconds."
  (`src/src/ocr/prompt_fetcher.h:12`); an idle loop may never poll.
* `finding_rate_limit`: the fallback on a 429 (`src/src/ocr/gemini.c:276`,
  `src/README.md:100`) is behind a check that has already returned.

Seen while modelling and too direct to spend a run on: two curl header lists
are built per attempt and one is freed (`src/src/infra/http_client.c:241, 283`;
the comment at `:243` says the other is freed too); `http_client_execute`
returns -1 for an error status where its header promises 0 (`http_client.h:107`);
with PostgreSQL "Saved to database but JSON was invalid." (`processor.c:310`)
follows a statement the server refused; `do_delete_file` answers 0 with files
left behind (`bot_commands.c:64, 73`); a publish whose handler unsubscribes
misses the next one (`event_bus.h:32`); a full prompt cache makes the fetcher
announce the same prompt at each poll (`prompt_fetcher.h:9`); the Gemini
timeout of the configuration (600 s) is stored and never passed on, so requests
end after the default of 60 s (`gemini.c:214`, `http_client.c:124`); the prompts
of the table are announced and never used, since the Gemini client has its own
(`gemini.c:121, 133`); the default prompt 'parser' is put back at every start,
not only into an empty table; a document id is unique within a second only
(`document_store.h:28`), and texts of types other than "ocr" and "parsed"
survive their document; a prompt behind the fetch limit is announced as news
when one before it is removed; "List files (most recent first)"
(`file_repository.h:54`) is by a time of whole seconds and of no other key
(`db_sqlite.c:429`, `db_postgres.c:374`), so of two files of one second the older
may come first; a list of users longer than the buffer is cut,
possibly inside a number (`config.c:29`).

## 6. What is not modelled

Help texts, /list, /models and the keyboard (they read only, and are one request
that changes nothing); how arguments and callback data are cut out of a message;
the layout of replies and the reply builder (what could go wrong there is a
length in bytes: PROJECT.json lists it); JSON building and parsing (a parse
either yields JSON or does not) and the markdown fences around it; in the
pipeline, the digest (equal iff contents are equal); the mixing of a SHA-256
block (the standard's); the delay between HTTP retries, header containers;
the growing buffer and the check of paths in `utils.c`; mime types; configuration
variables other than the list of users; running out of memory. Telegram, Gemini, the file system, SQLite,
PostgreSQL and the object store appear as the outcomes of the calls made to
them.

`PROJECT.json` lists the hazards of the code by line with the properties that
watch them, and says of the rest why nothing does yet.

## 7. Plan

Done: pipeline with ledger and proofs; loop with proofs; the whole bot; fetcher,
its composition with the loop and the life of a process; HTTP and Gemini
clients; event bus, in-memory repository, document store, encodings and the
list of users.

What is left of the model is in section 6; nothing in it keeps state.

Every safety property the runs check is proved. What is left to TLC is liveness.
