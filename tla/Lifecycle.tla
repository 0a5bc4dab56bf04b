------------------------------ MODULE Lifecycle ------------------------------
(***************************************************************************)
(* The life of a process of kaufbot, around its prompt fetcher: main and   *)
(* its container open one part after the other (the database seeds the     *)
(* default prompts as it is opened), poll, and close the parts again.  Any *)
(* step of the opening may fail, a signal or a kill may come at any time,  *)
(* and the container is started again.                                     *)
(***************************************************************************)
EXTENDS PromptFetcher, Sequences

CONSTANTS
  Default,        \* the content of a default prompt
  MaxLives,       \* bound: processes
  MaxInitFaults   \* bound: failures while a process starts

ASSUME LifecycleAssumption ==
  Default \in Texts /\ NumNames >= 2 /\ MaxLives \in Nat /\ MaxInitFaults \in Nat

VARIABLES
  life,        \* "opening", "starting", "polling", "closing", or over
  step,        \* the step of the opening, or of the closing, that is next
  parts,       \* the parts that are open
  handled,     \* are the signal handlers installed?
  stop,        \* ~bot->running
  lives, initFaults,
  written      \* ghost: the <<name, content>> pairs somebody wrote into the table

processVars == <<life, step, parts, handled, stop>>
lifeVars    == <<promptVars, processVars, lives, initFaults, written>>

\* The default prompts, in the order of their names.
OcrPrompt == 1
ParserPrompt == 2

Over == {"exited", "died"}

\* container_init: db_backend_open connects, creates the schema and seeds.
OpenOrder  == <<"config", "storage", "dirs", "connect", "schema", "seed_ocr", "seed_parser",
                "repo", "ocr", "processor", "bot", "fetcher">>

\* The part each step opens, where it opens one.
Opens(s) == IF s \in {"config", "dirs", "schema", "seed_ocr", "seed_parser"} THEN {}
            ELSE IF s = "connect" THEN {"db"} ELSE {s}

\* Mutant: the database is closed before what works on it.
CloseOrder_DatabaseFirst ==
  <<{"db"}, {"bot", "fetcher"}, {"processor"}, {"ocr"}, {"repo"}, {"storage"}>>

\* container_destroy; bot_free frees the fetcher.
CloseOrder == <<{"bot", "fetcher"}, {"processor"}, {"ocr"}, {"repo"}, {"db"}, {"storage"}>>

\* What each part holds a pointer to.
Uses == [bot |-> {"processor", "db", "storage"}, fetcher |-> {"db", "bot"},
         processor |-> {"repo", "storage", "ocr"}, repo |-> {"db", "storage"},
         ocr |-> {}, db |-> {}, storage |-> {}]

LifeInit ==
  /\ PromptInit
  /\ life = "opening" /\ step = 1 /\ parts = {} /\ handled = FALSE /\ stop = FALSE
  /\ lives = 1 /\ initFaults = 0 /\ written = {}

-----------------------------------------------------------------------------
(* Opening.                                                                *)

InitFault == initFaults < MaxInitFaults /\ initFaults' = initFaults + 1

\* The seeds of an existing table: the first goes into an empty table only,
\* the second wherever there is no prompt of its name.
Seeded(s) ==
  IF s = "seed_ocr" /\ Present(prompts) = {}
    THEN [prompts EXCEPT ![OcrPrompt] = Default]
  ELSE IF s = "seed_parser" /\ prompts[ParserPrompt] = Absent
    THEN [prompts EXCEPT ![ParserPrompt] = Default]
  ELSE prompts

NextStep == IF step = Len(OpenOrder)
            THEN life' = "starting" /\ step' = 1 /\ handled' = TRUE
            ELSE life' = life /\ step' = step + 1 /\ handled' = handled

OpenPart ==
  /\ life = "opening"
  /\ parts' = parts \cup Opens(OpenOrder[step])
  /\ prompts' = Seeded(OpenOrder[step])
  /\ NextStep
  /\ UNCHANGED <<edits, fetcherVars, stop, lives, initFaults, written>>

\* Of a seed, or of the fetcher, a failure is not looked at or is survived.
OpenFailsQuietly ==
  /\ life = "opening" /\ OpenOrder[step] \in {"seed_ocr", "seed_parser", "fetcher"}
  /\ InitFault /\ NextStep
  /\ UNCHANGED <<promptVars, parts, stop, lives, written>>

\* Of any other step it ends the process; db_backend_open has closed its
\* connection when the schema cannot be created.
OpenFails ==
  /\ life = "opening" /\ OpenOrder[step] \notin {"seed_ocr", "seed_parser", "fetcher"}
  /\ InitFault
  /\ parts' = IF OpenOrder[step] = "schema" THEN parts \ {"db"} ELSE parts
  /\ life' = "closing" /\ step' = 1
  /\ UNCHANGED <<promptVars, handled, stop, lives, written>>

-----------------------------------------------------------------------------
(* Polling: bot_notify_startup, then bot_start, of which the ticks matter: *)
(* a turn may leave its tick out, and any number of turns may.             *)

NotifyStartup ==
  /\ life = "starting" /\ life' = "polling"
  /\ UNCHANGED <<promptVars, step, parts, handled, stop, lives, initFaults, written>>

LifeTick ==
  /\ life = "polling" /\ ~stop
  /\ "fetcher" \in parts /\ FetcherTick
  /\ UNCHANGED <<processVars, lives, initFaults, written>>

LoopReturns ==
  /\ life = "polling" /\ stop
  /\ life' = "closing" /\ step' = 1
  /\ UNCHANGED <<promptVars, parts, handled, stop, lives, initFaults, written>>

-----------------------------------------------------------------------------
(* The end of a process: what the fetcher remembered is gone.              *)

\* Mutant: what the fetcher remembers is kept in a file.
Forget_Kept == UNCHANGED fetcherVars

Forget == /\ cache' = NoPrompts /\ told' = NoPrompts /\ announced' = {}
          /\ initialized' = FALSE /\ due' = FALSE
          /\ UNCHANGED pollFaults

ClosePart ==
  /\ life = "closing"
  /\ parts' = parts \ CloseOrder[step]
  /\ IF step = Len(CloseOrder)
     THEN life' = "exited" /\ step' = 1 /\ Forget
     ELSE life' = life /\ step' = step + 1 /\ UNCHANGED fetcherVars
  /\ UNCHANGED <<prompts, edits, handled, stop, lives, initFaults, written>>

Die == /\ life' = "died" /\ step' = 1 /\ parts' = {} /\ Forget
       /\ UNCHANGED <<prompts, edits, handled, stop, lives, initFaults, written>>

\* Before the handlers are installed a signal is deadly.  Later it clears the
\* flag of the bot; once the bot is freed, it writes to freed memory, which
\* may do nothing or be deadly too.
LifeSignal ==
  /\ life \notin Over /\ lives < MaxLives
  /\ \/ ~handled /\ Die
     \/ handled /\ "bot" \notin parts /\ Die
     \/ /\ handled /\ "bot" \in parts /\ ~stop /\ stop' = TRUE
        /\ UNCHANGED <<promptVars, life, step, parts, handled, lives, initFaults, written>>

KillProcess == life \notin Over /\ lives < MaxLives /\ Die

StartAgain ==
  /\ life \in Over /\ lives < MaxLives
  /\ life' = "opening" /\ handled' = FALSE /\ stop' = FALSE
  /\ lives' = lives + 1
  /\ UNCHANGED <<promptVars, step, parts, initFaults, written>>

-----------------------------------------------------------------------------
LifeEdit == /\ Edit
            /\ written' = written \cup
                 {<<n, prompts'[n]>> : n \in {m \in Present(prompts') : prompts'[m] # prompts[m]}}
            /\ UNCHANGED <<processVars, lives, initFaults>>

LifeElapse == /\ Elapse /\ initialized
              /\ UNCHANGED <<processVars, lives, initFaults, written>>

Run == OpenPart \/ OpenFailsQuietly \/ OpenFails \/ NotifyStartup \/ LifeTick
         \/ LoopReturns \/ ClosePart

LifeNext == Run \/ LifeSignal \/ KillProcess \/ StartAgain \/ LifeEdit \/ LifeElapse

LifeSpec == LifeInit /\ [][LifeNext]_lifeVars

\* Time passes.  Nothing is assumed of the process, nor that its loop ever
\* reaches a tick: what needs that says so.
FairLifeSpec == LifeSpec /\ WF_lifeVars(LifeElapse)

-----------------------------------------------------------------------------
\* No part is open while a part it holds a pointer to is closed, whichever
\* step of the opening fails, and "clean shutdown complete" leaves none open.
NothingDangling ==
  /\ \A p \in parts : Uses[p] \subseteq parts
  /\ life = "exited" => parts = {}

\* What is announced as a change was written by somebody: neither the prompts
\* a process finds when it starts nor the defaults it puts (back) into the
\* table are, however its processes end and their first polls fail.  Only a
\* prompt whose name was behind those a poll collects may come as news.
OnlyEditsAnnounced == \A p \in announced : p[1] <= MaxCached => p \in written
=============================================================================
