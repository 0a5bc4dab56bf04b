---------------------------- MODULE PromptFetcher ----------------------------
(***************************************************************************)
(* The prompt fetcher of kaufbot: it polls the prompts table and announces *)
(* what changed since its last look, from a cache of bounded size.         *)
(*                                                                         *)
(* Names are numbered in the order of the query's ORDER BY.  A cache of    *)
(* records with distinct names is a function from names; Absent is a name  *)
(* that has no record, or no row.                                          *)
(***************************************************************************)
EXTENDS Integers, FiniteSets

CONSTANTS
  NumNames,    \* how many names the prompts table ever has
  Texts,       \* contents of prompts
  Absent,      \* no prompt of that name
  MaxCached,   \* MAX_CACHED_PROMPTS, also the limit of what a poll collects
  MaxEdits,    \* bound: how often somebody edits the table
  MaxPollFaults \* bound: queries that fail

ASSUME PromptAssumption ==
  /\ NumNames \in Nat /\ MaxCached \in Nat \ {0}
  /\ MaxEdits \in Nat /\ MaxPollFaults \in Nat
  /\ Absent \notin Texts

VARIABLES
  prompts,      \* the table: name -> content
  edits,        \* how often it was edited
  cache,        \* what the fetcher remembers: name -> content
  initialized,  \* has a poll succeeded since the process started?
  due,          \* has the interval passed since the last successful poll?
  announced,    \* the <<name, content>> pairs the last poll announced
  told,         \* name -> the last content announced, or loaded at the start
  pollFaults    \* queries that failed so far

fetcherVars == <<cache, initialized, due, announced, told, pollFaults>>
promptVars  == <<prompts, edits, fetcherVars>>

Names == 1..NumNames
Slot  == Texts \cup {Absent}

NoPrompts == [n \in Names |-> Absent]

Present(table) == {n \in Names : table[n] # Absent}

\* The first k of a set of names.
FirstOf(k, names) == {n \in names : Cardinality({m \in names : m < n}) < k}

PromptInit ==
  /\ prompts \in [Names -> Slot] /\ edits = 0
  /\ cache = NoPrompts /\ initialized = FALSE /\ due = FALSE
  /\ announced = {} /\ told = NoPrompts /\ pollFaults = 0

-----------------------------------------------------------------------------
\* Somebody inserts, rewrites or removes a prompt.
Edit == /\ edits < MaxEdits
        /\ edits' = edits + 1
        /\ \E n \in Names, t \in Slot : prompts' = [prompts EXCEPT ![n] = t]
        /\ UNCHANGED fetcherVars

\* interval_secs have passed since last_poll.
Elapse == /\ ~due
          /\ due' = TRUE
          /\ UNCHANGED <<prompts, edits, cache, initialized, announced, told, pollFaults>>

-----------------------------------------------------------------------------
(* prompt_fetcher_poll                                                     *)

\* The query fails: nothing is remembered, the next tick polls again.
PollFailed ==
  /\ pollFaults < MaxPollFaults
  /\ pollFaults' = pollFaults + 1
  /\ announced' = {}
  /\ UNCHANGED <<cache, initialized, due, told>>

Fetched == FirstOf(MaxCached, Present(prompts))

\* Names the cache has no record of.
Unknown == Fetched \ Present(cache)

\* The cache takes as many of them as it has room for.
Admitted == FirstOf(MaxCached - Cardinality(Present(cache)), Unknown)

Rewritten == {n \in Fetched \cap Present(cache) : prompts[n] # cache[n]}

\* The first poll of a process only fills the cache.
LoadCache ==
  /\ cache' = [n \in Names |-> IF n \in Fetched THEN prompts[n] ELSE Absent]
  /\ announced' = {}
  /\ told' = cache'
  /\ initialized' = TRUE

\* Mutant: a rewritten prompt is announced but not remembered.
CompareCache_NotRemembered ==
  /\ announced' = {<<n, prompts[n]>> : n \in Unknown \cup Rewritten}
  /\ cache' = [n \in Names |-> IF n \in Admitted THEN prompts[n] ELSE cache[n]]
  /\ told' = [n \in Names |-> IF n \in Unknown \cup Rewritten THEN prompts[n] ELSE told[n]]
  /\ UNCHANGED initialized

\* Mutant: a new prompt is remembered without being announced.
CompareCache_NewSilent ==
  /\ announced' = {<<n, prompts[n]>> : n \in Rewritten}
  /\ cache' = [n \in Names |-> IF n \in Admitted \cup Rewritten THEN prompts[n] ELSE cache[n]]
  /\ told' = [n \in Names |-> IF n \in Rewritten THEN prompts[n] ELSE told[n]]
  /\ UNCHANGED initialized

\* Later ones announce new and rewritten prompts; a removed one stays cached.
CompareCache ==
  /\ announced' = {<<n, prompts[n]>> : n \in Unknown \cup Rewritten}
  /\ cache' = [n \in Names |-> IF n \in Admitted \cup Rewritten THEN prompts[n] ELSE cache[n]]
  /\ told' = [n \in Names |-> IF n \in Unknown \cup Rewritten THEN prompts[n] ELSE told[n]]
  /\ UNCHANGED initialized

PollDone == /\ IF initialized THEN CompareCache ELSE LoadCache
            /\ due' = FALSE
            /\ UNCHANGED pollFaults

-----------------------------------------------------------------------------
\* prompt_fetcher_tick
FetcherTick ==
  /\ IF ~initialized \/ due THEN PollFailed \/ PollDone
     ELSE announced' = {} /\ UNCHANGED <<cache, initialized, due, told, pollFaults>>
  /\ UNCHANGED <<prompts, edits>>

PromptNext == Edit \/ Elapse \/ FetcherTick

PromptSpec == PromptInit /\ [][PromptNext]_promptVars

-----------------------------------------------------------------------------
\* What a cached prompt says is what was announced of it last, or what was
\* there when the process started: nothing is remembered silently.
CacheIsTold == \A n \in Present(cache) : cache[n] = told[n]

\* "Called when a prompt's content changes": a poll announces what was the
\* last thing announced of a prompt only if the cache was too full to hold it.
OnlyNewsAnnounced ==
  [][due /\ ~due' =>
       \A n \in Names : <<n, told[n]>> \in announced' =>
         n \notin Present(cache) /\ Cardinality(Present(cache')) = MaxCached]_promptVars

\* If the loop goes on reaching its tick (which bot_start does not grant: it
\* leaves the tick out of every turn whose getUpdates fails or times out), a
\* content that stays in the table is announced or was there at the start,
\* whatever was announced of the prompt before, however often it was removed
\* and put back and however full the cache is, as long as no more prompts
\* sort before it than a poll collects and the process lives.
LastingChangeIsTold ==
  WF_promptVars(FetcherTick) =>
    \A n \in Names, t \in Texts :
      initialized /\ prompts[n] = t ~>
        told[n] = t \/ prompts[n] # t \/ n \notin Fetched \/ ~initialized
=============================================================================
