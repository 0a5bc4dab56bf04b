--------------------------- MODULE LifecycleProofs ---------------------------
(***************************************************************************)
(* For any number of names, texts, edits, processes and faults: the prompt *)
(* fetcher announces what somebody wrote and only what is news, remembers  *)
(* nothing silently, and no step of a process's life leaves a part with a  *)
(* pointer to one that is closed.  The polling loop with the fetcher in it *)
(* is still the loop, and the fetcher in it is as sound.                   *)
(***************************************************************************)
EXTENDS Lifecycle, BotLoop, PollingProofs, FiniteSetTheorems, WellFoundedInduction

-----------------------------------------------------------------------------
(* The inductive invariant.                                                *)

TableTypes ==
  /\ prompts \in [Names -> Slot] /\ cache \in [Names -> Slot] /\ told \in [Names -> Slot]
  /\ initialized \in BOOLEAN /\ due \in BOOLEAN

\* Before its first poll a fetcher remembers nothing, and it polls while the
\* process polls (or failed to, once it closes).
FreshFetcher == ~initialized => cache = NoPrompts /\ told = NoPrompts
PollsLater   == initialized => life \in {"polling", "closing"}

\* The cache stays within its bound, and a prompt is announced without being
\* remembered only when the cache is full, which it then remains.
CacheBound  == Cardinality(Present(cache)) <= MaxCached
FullForGood == \A n \in Present(told) :
                 n \in Present(cache) \/ Cardinality(Present(cache)) = MaxCached

MemorySound == FreshFetcher /\ CacheIsTold /\ CacheBound /\ FullForGood

FetcherInv == TableTypes /\ MemorySound /\ PollsLater

\* Once a process has polled, a prompt that is not what it remembers, and is
\* not behind those a poll collects, was written by somebody.
ChangesAreWritten ==
  initialized =>
    \A n \in Present(prompts) :
      n <= MaxCached /\ prompts[n] # cache[n] => <<n, prompts[n]>> \in written

EditsInv == ChangesAreWritten /\ OnlyEditsAnnounced

\* What is open while parts are opened, and at most open while they are closed.
OpenedBefore(s) == UNION {Opens(OpenOrder[i]) : i \in 1 .. s - 1}
StillToClose(s) == UNION {CloseOrder[i] : i \in s .. Len(CloseOrder)}

PartsInv ==
  /\ NothingDangling
  /\ life \in {"opening", "starting", "polling", "closing"} \cup Over
  /\ life = "opening" => step \in 1..Len(OpenOrder) /\ parts = OpenedBefore(step)
  /\ life = "closing" => step \in 1..Len(CloseOrder) /\ parts \subseteq StillToClose(step)
  /\ life \in Over => step = 1 /\ parts = {}
  /\ parts \subseteq StillToClose(1)

-----------------------------------------------------------------------------
(* Names are ordered: what the query's ORDER BY and its limit select.      *)

\* Names are numbers, and finitely many.
LEMMA NamesFinite ==
  /\ \A n \in Names : n \in Nat /\ 1 <= n /\ n <= NumNames
  /\ \A n : n \in Names <=> n \in Nat /\ 1 <= n /\ n <= NumNames
  /\ IsFiniteSet(Names)
<1>1. NumNames \in Nat /\ 1 \in Int /\ NumNames \in Int
  BY PromptAssumption
<1>2. IsFiniteSet(1..NumNames)
  BY <1>1, FS_Interval
<1> QED
  BY <1>1, <1>2 DEF Names

\* A non-empty set of names has a first one: of the sets of names before one
\* of them, a least by strict inclusion.
LEMMA FirstName ==
  ASSUME NEW S \in SUBSET Names, S # {}
  PROVE  \E n \in S : \A m \in S : n <= m
<1> DEFINE Before(n) == {m \in S : m < n}
           Family == {Before(n) : n \in S}
<1>1. IsFiniteSet(Names) /\ IsFiniteSet(S)
  BY NamesFinite, FS_Subset
<1>2. Family \subseteq FiniteSubsetsOf(S)
  <2>1. \A n \in S : Before(n) \in SUBSET S /\ IsFiniteSet(Before(n))
    BY <1>1, FS_Subset
  <2> QED
    BY <2>1 DEF FiniteSubsetsOf
<1>3. Family # {}
  OBVIOUS
<1> HIDE DEF Family
<1>4. \E F \in Family : \A G \in Family : ~ (<<G, F>> \in StrictSubsetOrdering(S))
  BY <1>2, <1>3, FS_StrictSubsetOrderingWellFounded, WFMin
<1> USE DEF Family
<1>5. PICK n \in S : \A m \in S : ~ (<<Before(m), Before(n)>> \in StrictSubsetOrdering(S))
  BY <1>4
<1>6. ASSUME NEW m \in S, m < n PROVE FALSE
  <2>1. \A x \in S : x \in Nat
    BY NamesFinite
  <2>2. \A x \in S : x < m => x < n
    BY <2>1, <1>6
  <2>3. Before(m) \subseteq Before(n) /\ m \in Before(n) /\ m \notin Before(m)
    BY <2>1, <2>2, <1>6
  <2>4. <<Before(m), Before(n)>> \in StrictSubsetOrdering(S)
    BY <2>3 DEF StrictSubsetOrdering
  <2> QED
    BY <2>4, <1>5
<1> QED
  BY <1>6, NamesFinite

\* And a last one: the mirror image.
LEMMA LastName ==
  ASSUME NEW S \in SUBSET Names, S # {}
  PROVE  \E n \in S : \A m \in S : m <= n
<1> DEFINE Mirror == {NumNames + 1 - n : n \in S}
<1>1. Mirror \in SUBSET Names /\ Mirror # {}
  <2>1. \A n \in S : NumNames + 1 - n \in Names
    BY NamesFinite, PromptAssumption
  <2> QED
    BY <2>1
<1> HIDE DEF Mirror
<1>2. PICK k \in Mirror : \A j \in Mirror : k <= j
  BY <1>1, FirstName
<1> USE DEF Mirror
<1>3. PICK n \in S : k = NumNames + 1 - n
  OBVIOUS
<1>4. ASSUME NEW m \in S PROVE m <= n
  <2>1. k <= NumNames + 1 - m
    BY <1>2
  <2> QED
    BY <2>1, <1>3, NamesFinite, PromptAssumption
<1> QED
  BY <1>4

\* Sets of names are finite, and counted within one another.
LEMMA NamesCount ==
  ASSUME NEW S \in SUBSET Names
  PROVE  /\ IsFiniteSet(S) /\ Cardinality(S) \in Nat
         /\ \A T \in SUBSET S : Cardinality(T) <= Cardinality(S)
<1>1. IsFiniteSet(S)
  BY NamesFinite, FS_Subset
<1> QED
  BY <1>1, FS_Subset, FS_CardinalityType

\* FirstOf(k, S) takes at most k of S, and exactly k where it leaves some.
LEMMA FirstOfBound ==
  ASSUME NEW S \in SUBSET Names, NEW k \in Nat
  PROVE  /\ FirstOf(k, S) \subseteq S
         /\ Cardinality(FirstOf(k, S)) <= k
         /\ FirstOf(k, S) # S => Cardinality(FirstOf(k, S)) = k
<1> DEFINE F == FirstOf(k, S)
           Before(n) == {m \in S : m < n}
<1>1. F \subseteq S /\ F \in SUBSET Names /\ \A n \in S : n \in F <=> Cardinality(Before(n)) < k
  BY DEF FirstOf
<1>2. \A n \in S : Before(n) \in SUBSET Names
  OBVIOUS
<1>3. \A n \in S : n \in Nat
  BY NamesFinite
<1> HIDE DEF F
<1>4. Cardinality(F) <= k
  <2>1. CASE F = {}
    BY <2>1, FS_EmptySet
  <2>2. CASE F # {}
    <3>1. PICK n \in F : \A m \in F : m <= n
      BY <1>1, <2>2, LastName
    <3>2. F \subseteq Before(n) \cup {n}
      BY <3>1, <1>1, <1>3
    <3>3. n \in S /\ IsFiniteSet(Before(n)) /\ n \notin Before(n) /\ Before(n) \in SUBSET Names
      BY <1>1, <1>2, <1>3, NamesCount
    <3>4. Cardinality(Before(n) \cup {n}) = Cardinality(Before(n)) + 1 /\ Before(n) \cup {n} \in SUBSET Names
      BY <3>3, FS_AddElement
    <3>5. Cardinality(Before(n)) < k /\ Cardinality(Before(n)) \in Nat
      BY <1>1, <3>3, NamesCount
    <3>6. Cardinality(F) <= Cardinality(Before(n) \cup {n}) /\ Cardinality(F) \in Nat
      BY <3>2, <3>4, <1>1, NamesCount
    <3> QED
      BY <3>4, <3>5, <3>6
  <2> QED
    BY <2>1, <2>2
<1>5. ASSUME F # S PROVE Cardinality(F) = k
  <2>1. S \ F # {} /\ S \ F \in SUBSET Names
    BY <1>1, <1>5
  <2>2. PICK n \in S \ F : \A m \in S \ F : n <= m
    BY <2>1, FirstName
  <2>3. Before(n) \subseteq F
    BY <2>2, <1>3
  <2>4. ~ (Cardinality(Before(n)) < k) /\ Cardinality(Before(n)) \in Nat /\ Cardinality(F) \in Nat
    BY <2>2, <1>1, <1>2, NamesCount
  <2>5. Cardinality(Before(n)) <= Cardinality(F)
    BY <2>3, <1>1, NamesCount
  <2> QED
    BY <2>4, <2>5, <1>4
<1> QED
  BY <1>1, <1>4, <1>5 DEF F

\* The sets a poll works on are sets of names, and what is fetched has a row.
LEMMA PolledSets ==
  ASSUME TableTypes
  PROVE  /\ Present(cache) \in SUBSET Names /\ Present(prompts) \in SUBSET Names
         /\ Fetched \subseteq Present(prompts)
         /\ Unknown \in SUBSET Names /\ Unknown = Fetched \ Present(cache)
         /\ Rewritten \subseteq Fetched \cap Present(cache)
         /\ Admitted \subseteq Unknown
BY DEF Present, Fetched, FirstOf, Unknown, Rewritten, Admitted

\* The cache takes no more than it has room for, and is full when it does not
\* take everything.
LEMMA AdmittedFits ==
  ASSUME TableTypes, CacheBound
  PROVE  /\ Cardinality(Present(cache) \cup Admitted) <= MaxCached
         /\ Admitted # Unknown => Cardinality(Present(cache) \cup Admitted) = MaxCached
         /\ Cardinality(Present(cache)) = MaxCached => Admitted = {}
<1> DEFINE P == Present(cache)
           Room == MaxCached - Cardinality(P)
<1>1. /\ P \in SUBSET Names /\ Unknown \in SUBSET Names
      /\ Admitted \subseteq Unknown /\ P \cap Admitted = {}
  BY PolledSets
<1>2. Cardinality(P) \in Nat /\ MaxCached \in Nat /\ Room \in Nat
  <2>1. Cardinality(P) \in Nat /\ MaxCached \in Nat
    BY <1>1, NamesCount, PromptAssumption
  <2>2. Cardinality(P) <= MaxCached
    BY DEF CacheBound
  <2> QED
    BY <2>1, <2>2
<1>3. Admitted = FirstOf(Room, Unknown)
  BY DEF Admitted
<1> HIDE DEF P, Room
<1>4. Cardinality(Admitted) <= Room /\ (Admitted # Unknown => Cardinality(Admitted) = Room)
  BY <1>1, <1>2, <1>3, FirstOfBound
<1>5. IsFiniteSet(Admitted) /\ Cardinality(Admitted) \in Nat /\ IsFiniteSet(P)
  BY <1>1, NamesCount
<1>6. Cardinality(P \cup Admitted) = Cardinality(P) + Cardinality(Admitted)
  <2>1. Cardinality(P \cap Admitted) = 0
    BY <1>1, FS_EmptySet
  <2>2. Cardinality(P \cup Admitted)
          = Cardinality(P) + Cardinality(Admitted) - Cardinality(P \cap Admitted)
    BY <1>5, FS_Union
  <2> QED
    BY <2>1, <2>2, <1>2, <1>5
<1>7. Room = MaxCached - Cardinality(P)
  BY DEF Room
<1>8. Room = 0 => Admitted = {}
  <2>1. Room = 0 => Cardinality(Admitted) = 0
    BY <1>4, <1>5
  <2> QED
    BY <2>1, <1>5, FS_EmptySet
<1> QED
  BY <1>2, <1>4, <1>5, <1>6, <1>7, <1>8 DEF P

\* A poll that compares leaves the cache sound.
LEMMA CompareKeeps ==
  ASSUME TableTypes, MemorySound, CompareCache, UNCHANGED prompts
  PROVE  /\ cache' \in [Names -> Slot] /\ told' \in [Names -> Slot]
         /\ Present(cache') = Present(cache) \cup Admitted
         /\ CacheIsTold' /\ CacheBound' /\ FullForGood'
<1>1. TableTypes /\ CacheIsTold /\ CacheBound /\ FullForGood
  BY DEF MemorySound
<1>2. /\ cache' = [n \in Names |-> IF n \in Admitted \cup Rewritten THEN prompts[n] ELSE cache[n]]
      /\ told' = [n \in Names |-> IF n \in Unknown \cup Rewritten THEN prompts[n] ELSE told[n]]
  BY DEF CompareCache
<1>3. /\ \A n \in Names : prompts[n] \in Slot /\ cache[n] \in Slot /\ told[n] \in Slot
      /\ \A n \in Names : n \in Present(cache) <=> cache[n] # Absent
      /\ \A n \in Names : n \in Present(told) <=> told[n] # Absent
      /\ \A n \in Fetched : n \in Names /\ prompts[n] # Absent
      /\ Present(cache) \subseteq Names
      /\ Unknown = Fetched \ Present(cache) /\ Rewritten \subseteq Fetched \cap Present(cache)
      /\ Admitted \subseteq Unknown
  BY <1>1, PolledSets DEF TableTypes, Present
<1>4. cache' \in [Names -> Slot] /\ told' \in [Names -> Slot]
  BY <1>2, <1>3
<1>5. Present(cache') = Present(cache) \cup Admitted
  <2>1. \A n \in Names : cache'[n] # Absent <=> n \in Present(cache) \cup Admitted
    BY <1>2, <1>3
  <2> QED
    BY <2>1, <1>3 DEF Present
<1>6. CacheIsTold'
  <2>1. \A n \in Present(cache) : cache[n] = told[n]
    BY <1>1 DEF CacheIsTold
  <2>2. \A n \in Present(cache) \cup Admitted : cache'[n] = told'[n]
    BY <2>1, <1>2, <1>3
  <2> QED
    BY <2>2, <1>5 DEF CacheIsTold
<1>7. /\ Cardinality(Present(cache')) <= MaxCached
      /\ Admitted # Unknown => Cardinality(Present(cache')) = MaxCached
  BY <1>1, <1>5, AdmittedFits
<1>8. ASSUME NEW n \in Present(told'), n \notin Present(cache')
      PROVE  Cardinality(Present(cache')) = MaxCached
  <2>1. n \in Names /\ told'[n] # Absent /\ n \notin Present(cache) /\ n \notin Admitted
    BY <1>8, <1>5 DEF Present
  <2>2. CASE n \in Unknown
    BY <2>1, <2>2, <1>7
  <2>3. CASE n \notin Unknown
    <3>1. n \in Present(told)
      BY <2>1, <2>3, <1>2, <1>3
    <3>2. Cardinality(Present(cache)) = MaxCached
      BY <3>1, <2>1, <1>1 DEF FullForGood
    <3>3. Admitted = {}
      BY <3>2, <1>1, AdmittedFits
    <3>4. Present(cache') = Present(cache)
      BY <3>3, <1>5
    <3> QED
      BY <3>2, <3>4
  <2> QED
    BY <2>2, <2>3
<1> QED
  BY <1>4, <1>5, <1>6, <1>7, <1>8 DEF CacheBound, FullForGood

\* So does the first poll, which remembers what it fetched.
LEMMA LoadKeeps ==
  ASSUME TableTypes, LoadCache, UNCHANGED prompts
  PROVE  /\ cache' \in [Names -> Slot] /\ told' \in [Names -> Slot]
         /\ CacheIsTold' /\ CacheBound' /\ FullForGood'
<1>1. /\ cache' = [n \in Names |-> IF n \in Fetched THEN prompts[n] ELSE Absent]
      /\ told' = cache'
  BY DEF LoadCache
<1>2. /\ \A n \in Names : prompts[n] \in Slot /\ Absent \in Slot
      /\ \A n \in Fetched : n \in Names /\ prompts[n] # Absent
  BY PolledSets DEF TableTypes, Present, Slot
<1>3. cache' \in [Names -> Slot]
  BY <1>1, <1>2
<1>4. Present(cache') = Fetched
  BY <1>1, <1>2 DEF Present
<1>5. Cardinality(Fetched) <= MaxCached
  <2>1. Present(prompts) \in SUBSET Names /\ MaxCached \in Nat
    BY PromptAssumption DEF Present
  <2> QED
    BY <2>1, FirstOfBound DEF Fetched
<1>6. CacheIsTold' /\ FullForGood'
  BY <1>1 DEF CacheIsTold, FullForGood
<1> QED
  BY <1>1, <1>3, <1>4, <1>5, <1>6 DEF CacheBound

-----------------------------------------------------------------------------
(* FetcherInv is inductive.                                                *)

\* A memory nobody touches stays sound, and so is an empty one.
LEMMA SameMemory ==
  ASSUME MemorySound, UNCHANGED <<cache, told, initialized>>
  PROVE  MemorySound'
BY DEF MemorySound, FreshFetcher, CacheIsTold, CacheBound, FullForGood, Present

LEMMA EmptyMemory ==
  ASSUME cache = NoPrompts, told = NoPrompts
  PROVE  MemorySound
<1>1. Present(cache) = {} /\ Present(told) = {}
  BY DEF Present, NoPrompts
<1>2. Cardinality(Present(cache)) <= MaxCached
  BY <1>1, FS_EmptySet, PromptAssumption
<1> QED
  BY <1>1, <1>2 DEF MemorySound, FreshFetcher, CacheIsTold, CacheBound, FullForGood

LEMMA ForgottenMemory ==
  ASSUME cache' = NoPrompts, told' = NoPrompts, initialized' = FALSE, due' = FALSE,
         prompts \in [Names -> Slot], UNCHANGED prompts
  PROVE  TableTypes' /\ MemorySound'
<1>2. NoPrompts \in [Names -> Slot]
  BY DEF NoPrompts, Slot
<1>3. MemorySound'
  <2>1. Present(cache') = {} /\ Present(told') = {}
    BY DEF Present, NoPrompts
  <2>2. Cardinality(Present(cache')) <= MaxCached
    BY <2>1, FS_EmptySet, PromptAssumption
  <2> QED
    BY <2>1, <2>2 DEF MemorySound, FreshFetcher, CacheIsTold, CacheBound, FullForGood
<1> QED
  BY <1>2, <1>3 DEF TableTypes

\* What the environment and the seeds put into the table are prompts.
LEMMA SeededIsTable ==
  ASSUME prompts \in [Names -> Slot], NEW s
  PROVE  Seeded(s) \in [Names -> Slot]
<1>1. Default \in Slot
  BY LifecycleAssumption DEF Slot
<1> QED
  BY <1>1 DEF Seeded

\* A tick of the fetcher.
LEMMA TickKeeps ==
  ASSUME TableTypes, MemorySound, FetcherTick
  PROVE  TableTypes' /\ MemorySound'
<1>1. UNCHANGED prompts
  BY DEF FetcherTick
<1>2. ASSUME UNCHANGED <<cache, told, initialized>>, due' \in BOOLEAN
      PROVE  TableTypes' /\ MemorySound'
  BY <1>1, <1>2, SameMemory DEF TableTypes
<1>3. CASE PollFailed
  BY <1>3, <1>2 DEF PollFailed, TableTypes
<1>4. CASE PollDone /\ initialized
  <2>1. CompareCache /\ due' = FALSE /\ initialized' = TRUE
    BY <1>4 DEF PollDone, CompareCache
  <2>2. /\ cache' \in [Names -> Slot] /\ told' \in [Names -> Slot]
        /\ CacheIsTold' /\ CacheBound' /\ FullForGood'
    BY <2>1, <1>1, CompareKeeps
  <2> QED
    BY <2>1, <2>2, <1>1 DEF TableTypes, MemorySound, FreshFetcher
<1>5. CASE PollDone /\ ~initialized
  <2>1. LoadCache /\ due' = FALSE /\ initialized' = TRUE
    BY <1>5 DEF PollDone, LoadCache
  <2>2. /\ cache' \in [Names -> Slot] /\ told' \in [Names -> Slot]
        /\ CacheIsTold' /\ CacheBound' /\ FullForGood'
    BY <2>1, <1>1, LoadKeeps
  <2> QED
    BY <2>1, <2>2, <1>1 DEF TableTypes, MemorySound, FreshFetcher
<1>6. CASE UNCHANGED <<cache, initialized, due, told>>
  BY <1>6, <1>2 DEF TableTypes
<1> QED
  BY <1>3, <1>4, <1>5, <1>6 DEF FetcherTick

\* The fetcher before a process has polled.
LEMMA FetcherInitSound == PromptInit => TableTypes /\ MemorySound
<1>1. NoPrompts \in [Names -> Slot]
  BY DEF NoPrompts, Slot
<1> QED
  BY <1>1, EmptyMemory DEF PromptInit, TableTypes

LEMMA FetcherInvInit == LifeInit => FetcherInv
BY FetcherInitSound DEF LifeInit, PromptInit, FetcherInv, PollsLater

LEMMA FetcherInvStep == FetcherInv /\ [LifeNext]_lifeVars => FetcherInv'
<1> SUFFICES ASSUME FetcherInv, [LifeNext]_lifeVars PROVE FetcherInv'
  OBVIOUS
<1>1. TableTypes /\ MemorySound /\ PollsLater
  BY DEF FetcherInv
<1>2. ASSUME UNCHANGED <<cache, told, initialized>>, due' \in BOOLEAN,
             prompts' \in [Names -> Slot], PollsLater'
      PROVE  FetcherInv'
  BY <1>1, <1>2, SameMemory DEF FetcherInv, TableTypes
<1>3. ASSUME Forget, UNCHANGED prompts PROVE FetcherInv'
  BY <1>1, <1>3, ForgottenMemory DEF Forget, FetcherInv, TableTypes, PollsLater
<1>4. CASE OpenPart
  <2>1. /\ prompts' = Seeded(OpenOrder[step]) /\ UNCHANGED fetcherVars
        /\ life = "opening" /\ life' \in {"opening", "starting"}
    BY <1>4 DEF OpenPart, NextStep
  <2>2. prompts' \in [Names -> Slot]
    BY <2>1, <1>1, SeededIsTable DEF TableTypes
  <2> QED
    BY <2>1, <2>2, <1>1, <1>2 DEF fetcherVars, TableTypes, PollsLater
<1>5. CASE OpenFailsQuietly
  <2>1. life = "opening" /\ life' \in {"opening", "starting"} /\ UNCHANGED promptVars
    BY <1>5 DEF OpenFailsQuietly, NextStep
  <2> QED
    BY <2>1, <1>1, <1>2 DEF promptVars, fetcherVars, TableTypes, PollsLater
<1>6. CASE OpenFails \/ NotifyStartup \/ LoopReturns \/ StartAgain
  <2>1. UNCHANGED promptVars
    BY <1>6 DEF OpenFails, NotifyStartup, LoopReturns, StartAgain
  <2>2. PollsLater'
    BY <2>1, <1>6, <1>1
       DEF promptVars, fetcherVars, PollsLater, OpenFails, NotifyStartup, LoopReturns, StartAgain, Over
  <2> QED
    BY <2>1, <2>2, <1>1, <1>2 DEF promptVars, fetcherVars, TableTypes
<1>7. CASE LifeTick
  BY <1>1, <1>7, TickKeeps DEF LifeTick, processVars, FetcherInv, PollsLater
<1>8. CASE ClosePart
  <2>1. UNCHANGED prompts /\ (Forget \/ (life = "closing" /\ life' = life /\ UNCHANGED fetcherVars))
    BY <1>8 DEF ClosePart
  <2> QED
    BY <2>1, <1>1, <1>2, <1>3 DEF fetcherVars, TableTypes, PollsLater
<1>9. CASE LifeSignal \/ KillProcess
  <2>1. \/ Die
        \/ UNCHANGED <<promptVars, life>>
    BY <1>9 DEF LifeSignal, KillProcess
  <2> QED
    BY <2>1, <1>1, <1>2, <1>3 DEF Die, promptVars, fetcherVars, TableTypes, PollsLater
<1>10. CASE LifeEdit
  <2>1. prompts' \in [Names -> Slot]
    BY <1>10, <1>1 DEF LifeEdit, Edit, TableTypes
  <2>2. UNCHANGED <<cache, told, initialized, due, life>>
    BY <1>10 DEF LifeEdit, Edit, fetcherVars, processVars
  <2> QED
    BY <2>1, <2>2, <1>1, <1>2 DEF TableTypes, PollsLater
<1>11. CASE LifeElapse
  BY <1>11, <1>1, <1>2 DEF LifeElapse, Elapse, processVars, TableTypes, PollsLater
<1>12. CASE UNCHANGED lifeVars
  BY <1>12, <1>1, <1>2 DEF lifeVars, promptVars, processVars, fetcherVars, TableTypes, PollsLater
<1> QED
  BY <1>4, <1>5, <1>6, <1>7, <1>8, <1>9, <1>10, <1>11, <1>12 DEF LifeNext, Run

\* What the fetcher remembers of a prompt is what it announced of it last, or
\* found when its process started.
THEOREM CacheIsToldCorrect == LifeSpec => []CacheIsTold
<1>1. FetcherInv => CacheIsTold
  BY DEF FetcherInv, MemorySound
<1> QED
  BY <1>1, FetcherInvInit, FetcherInvStep, PTL DEF LifeSpec

\* A poll announces again what it announced last only of a prompt the full
\* cache had no room for.
LEMMA NewsOfTick ==
  ASSUME TableTypes, MemorySound, FetcherTick, due, ~due'
  PROVE  \A n \in Names : <<n, told[n]>> \in announced' =>
           n \notin Present(cache) /\ Cardinality(Present(cache')) = MaxCached
<1>1. announced' = {} \/ (PollDone /\ initialized)
  BY DEF FetcherTick, PollFailed, PollDone, LoadCache
<1>2. CASE PollDone /\ initialized
  <2>1. CompareCache /\ UNCHANGED prompts
    BY <1>2 DEF PollDone, FetcherTick
  <2> SUFFICES ASSUME NEW n \in Names, <<n, told[n]>> \in announced'
               PROVE  n \notin Present(cache) /\ Cardinality(Present(cache')) = MaxCached
    OBVIOUS
  <2>2. n \in Unknown \cup Rewritten /\ prompts[n] = told[n]
    BY <2>1 DEF CompareCache
  <2>3. TableTypes /\ CacheIsTold /\ CacheBound /\ FullForGood
    BY DEF MemorySound
  <2>4. n \notin Rewritten
    <3>1. n \in Rewritten => n \in Present(cache) /\ prompts[n] # cache[n]
      BY DEF Rewritten
    <3> QED
      BY <3>1, <2>2, <2>3 DEF CacheIsTold
  <2>5. n \notin Present(cache) /\ n \in Fetched
    BY <2>2, <2>4 DEF Unknown
  <2>6. n \in Present(told)
    BY <2>2, <2>3, <2>5, PolledSets DEF Present
  <2>7. Cardinality(Present(cache)) = MaxCached
    BY <2>3, <2>5, <2>6 DEF FullForGood
  <2>8. Admitted = {}
    BY <2>3, <2>7, AdmittedFits
  <2>9. Present(cache') = Present(cache) \cup Admitted
    BY <2>1, CompareKeeps
  <2>10. Present(cache') = Present(cache)
    BY <2>8, <2>9
  <2> QED
    BY <2>5, <2>7, <2>10
<1> QED
  BY <1>1, <1>2

LEMMA NewsStep ==
  ASSUME FetcherInv, [LifeNext]_lifeVars, due, ~due'
  PROVE  \A n \in Names : <<n, told[n]>> \in announced' =>
           n \notin Present(cache) /\ Cardinality(Present(cache')) = MaxCached
<1>1. FetcherTick \/ announced' = {}
  BY DEF LifeNext, Run, OpenPart, OpenFailsQuietly, OpenFails, NotifyStartup, LifeTick, LoopReturns,
         ClosePart, LifeSignal, KillProcess, Die, StartAgain, LifeEdit, Edit, LifeElapse, Elapse,
         Forget, lifeVars, promptVars, fetcherVars
<1> QED
  BY <1>1, NewsOfTick DEF FetcherInv

\* A poll announces a content again only if the cache was too full to remember
\* it (prompt_fetcher_poll).
THEOREM OnlyNewsAnnouncedCorrect == LifeSpec => OnlyNewsAnnounced
<1>1. FetcherInv /\ [LifeNext]_lifeVars =>
        [due /\ ~due' =>
           \A n \in Names : <<n, told[n]>> \in announced' =>
             n \notin Present(cache) /\ Cardinality(Present(cache')) = MaxCached]_promptVars
  BY NewsStep
<1> QED
  BY <1>1, FetcherInvInit, FetcherInvStep, PTL DEF LifeSpec, OnlyNewsAnnounced

-----------------------------------------------------------------------------
(* EditsInv is inductive, given FetcherInv.                                *)

\* The first MaxCached names are always fetched where they have a row: fewer
\* than MaxCached names come before one of them.
LEMMA FirstNamesFetched ==
  ASSUME prompts \in [Names -> Slot], NEW n \in Present(prompts), n <= MaxCached
  PROVE  n \in Fetched
<1> DEFINE Before == {m \in Present(prompts) : m < n}
<1>1. n \in Nat /\ 1 <= n /\ 1 \in Int /\ n - 1 \in Int /\ MaxCached \in Nat
  BY NamesFinite, PromptAssumption DEF Present
<1>2. Before \in SUBSET (1 .. n - 1)
  BY <1>1, NamesFinite DEF Present
<1>3. IsFiniteSet(1 .. n - 1) /\ Cardinality(1 .. n - 1) = n - 1
  <2>1. Cardinality(1 .. n - 1) = IF 1 > n - 1 THEN 0 ELSE n - 1 - 1 + 1
    BY <1>1, FS_Interval
  <2> QED
    BY <2>1, <1>1, FS_Interval
<1>4. IsFiniteSet(Before) /\ Cardinality(Before) <= n - 1
  BY <1>2, <1>3, FS_Subset
<1>5. Cardinality(Before) \in Nat
  BY <1>4, FS_CardinalityType
<1> HIDE DEF Before
<1>6. Cardinality(Before) < MaxCached
  BY <1>1, <1>4, <1>5
<1> QED
  BY <1>6 DEF Fetched, FirstOf, Before

\* A poll announces, of the first names, what somebody wrote.
LEMMA TickEdits ==
  ASSUME FetcherInv, EditsInv, FetcherTick, UNCHANGED written
  PROVE  EditsInv'
<1>1. TableTypes /\ ChangesAreWritten /\ OnlyEditsAnnounced /\ UNCHANGED prompts
  BY DEF FetcherInv, EditsInv, FetcherTick
<1>2. CASE PollDone /\ initialized
  <2>1. /\ announced' = {<<n, prompts[n]>> : n \in Unknown \cup Rewritten}
        /\ cache' = [n \in Names |-> IF n \in Admitted \cup Rewritten THEN prompts[n] ELSE cache[n]]
    BY <1>2 DEF PollDone, CompareCache
  <2>2. \A n \in Unknown \cup Rewritten :
          n \in Present(prompts) /\ prompts[n] # cache[n]
    BY <1>1, PolledSets DEF Rewritten, Present
  <2>3. OnlyEditsAnnounced'
    BY <2>1, <2>2, <1>1, <1>2 DEF OnlyEditsAnnounced, ChangesAreWritten
  <2>4. \A n \in Present(prompts) : cache'[n] = prompts[n] \/ cache'[n] = cache[n]
    BY <2>1 DEF Present
  <2>5. ChangesAreWritten'
    BY <2>4, <1>1, <1>2 DEF ChangesAreWritten, Present
  <2> QED
    BY <2>3, <2>5 DEF EditsInv
<1>3. CASE PollDone /\ ~initialized
  <2>1. /\ announced' = {}
        /\ cache' = [n \in Names |-> IF n \in Fetched THEN prompts[n] ELSE Absent]
    BY <1>3 DEF PollDone, LoadCache
  <2>2. \A n \in Present(prompts) : n <= MaxCached => cache'[n] = prompts[n]
    BY <2>1, <1>1, FirstNamesFetched DEF TableTypes, Present
  <2> QED
    BY <2>1, <2>2, <1>1 DEF EditsInv, ChangesAreWritten, OnlyEditsAnnounced, Present
<1>4. CASE announced' = {} /\ UNCHANGED <<cache, initialized>>
  BY <1>4, <1>1 DEF EditsInv, ChangesAreWritten, OnlyEditsAnnounced, Present
<1> QED
  BY <1>2, <1>3, <1>4 DEF FetcherTick, PollFailed

LEMMA EditsInvInit == LifeInit => EditsInv
BY DEF LifeInit, PromptInit, EditsInv, ChangesAreWritten, OnlyEditsAnnounced

LEMMA EditsInvStep == FetcherInv /\ EditsInv /\ [LifeNext]_lifeVars => EditsInv'
<1> SUFFICES ASSUME FetcherInv, EditsInv, [LifeNext]_lifeVars PROVE EditsInv'
  OBVIOUS
<1>1. TableTypes /\ PollsLater /\ ChangesAreWritten /\ OnlyEditsAnnounced
  BY DEF FetcherInv, EditsInv
<1>2. ASSUME UNCHANGED <<prompts, cache, initialized, announced, written>> PROVE EditsInv'
  BY <1>1, <1>2 DEF EditsInv, ChangesAreWritten, OnlyEditsAnnounced, Present
<1>3. ASSUME Forget PROVE EditsInv'
  BY <1>3 DEF Forget, EditsInv, ChangesAreWritten, OnlyEditsAnnounced
<1>4. CASE OpenPart
  <2>1. ~initialized /\ UNCHANGED <<initialized, announced, written>>
    BY <1>4, <1>1 DEF OpenPart, PollsLater, fetcherVars
  <2> QED
    BY <2>1, <1>1 DEF EditsInv, ChangesAreWritten, OnlyEditsAnnounced
<1>5. CASE OpenFailsQuietly \/ OpenFails \/ NotifyStartup \/ LoopReturns \/ StartAgain
  BY <1>5, <1>2
     DEF OpenFailsQuietly, OpenFails, NotifyStartup, LoopReturns, StartAgain, promptVars, fetcherVars
<1>6. CASE LifeTick
  BY <1>6, TickEdits DEF LifeTick
<1>7. CASE ClosePart
  BY <1>7, <1>2, <1>3 DEF ClosePart, fetcherVars
<1>8. CASE LifeSignal \/ KillProcess
  BY <1>8, <1>2, <1>3 DEF LifeSignal, KillProcess, Die, promptVars, fetcherVars
<1>9. CASE LifeEdit
  <2>1. UNCHANGED <<cache, initialized, announced>>
    BY <1>9 DEF LifeEdit, Edit, fetcherVars
  <2>2. written' = written \cup
          {<<n, prompts'[n]>> : n \in {m \in Present(prompts') : prompts'[m] # prompts[m]}}
    BY <1>9 DEF LifeEdit
  <2>3. OnlyEditsAnnounced'
    BY <2>1, <2>2, <1>1 DEF OnlyEditsAnnounced
  <2>4. ASSUME NEW n \in Present(prompts'), initialized, n <= MaxCached, prompts'[n] # cache[n]
        PROVE  <<n, prompts'[n]>> \in written'
    <3>1. CASE prompts'[n] # prompts[n]
      BY <3>1, <2>2
    <3>2. CASE prompts'[n] = prompts[n]
      BY <3>2, <2>2, <2>4, <1>1 DEF ChangesAreWritten, Present
    <3> QED
      BY <3>1, <3>2
  <2> QED
    BY <2>1, <2>3, <2>4 DEF EditsInv, ChangesAreWritten
<1>10. CASE LifeElapse
  BY <1>10, <1>2 DEF LifeElapse, Elapse
<1>11. CASE UNCHANGED lifeVars
  BY <1>11, <1>2 DEF lifeVars, promptVars, fetcherVars
<1> QED
  BY <1>4, <1>5, <1>6, <1>7, <1>8, <1>9, <1>10, <1>11 DEF LifeNext, Run

\* What a poll announces of the first MaxCached names is what somebody wrote,
\* never a prompt found at the start or a default.
THEOREM OnlyEditsAnnouncedCorrect == LifeSpec => []OnlyEditsAnnounced
<1>1. LifeInit => FetcherInv /\ EditsInv
  BY FetcherInvInit, EditsInvInit
<1>2. FetcherInv /\ EditsInv /\ [LifeNext]_lifeVars => FetcherInv' /\ EditsInv'
  BY FetcherInvStep, EditsInvStep
<1>3. EditsInv => OnlyEditsAnnounced
  BY DEF EditsInv
<1> QED
  BY <1>1, <1>2, <1>3, PTL DEF LifeSpec

-----------------------------------------------------------------------------
(* PartsInv is inductive.                                                  *)

AllParts == {"storage", "db", "repo", "ocr", "processor", "bot", "fetcher"}

\* What is open before each step of the opening.
LEMMA PartsBefore ==
  /\ Len(OpenOrder) = 12
  /\ \A s \in 1..12 : OpenedBefore(s) =
       {p \in AllParts : \/ p = "storage" /\ s > 2
                         \/ p = "db" /\ s > 4
                         \/ p = "repo" /\ s > 8
                         \/ p = "ocr" /\ s > 9
                         \/ p = "processor" /\ s > 10
                         \/ p = "bot" /\ s > 11}
BY DEF OpenedBefore, OpenOrder, Opens, AllParts

\* What may be open before each step of the closing.
LEMMA PartsLeft ==
  /\ Len(CloseOrder) = 6
  /\ \A s \in 1..6 : StillToClose(s) =
       {p \in AllParts : \/ p \in {"bot", "fetcher"} /\ s = 1
                         \/ p = "processor" /\ s <= 2
                         \/ p = "ocr" /\ s <= 3
                         \/ p = "repo" /\ s <= 4
                         \/ p = "db" /\ s <= 5
                         \/ p = "storage"}
BY DEF StillToClose, CloseOrder, AllParts

\* The step of the opening after one that opened its part, where it has one,
\* finds what the steps before it opened.
LEMMA OneMoreOpen ==
  ASSUME NEW s \in 1..11
  PROVE  OpenedBefore(s + 1) = OpenedBefore(s) \cup Opens(OpenOrder[s])
<1>1. s \in 1..12 /\ s + 1 \in 1..12
  OBVIOUS
<1>2. Opens(OpenOrder[s]) =
        {p \in AllParts : \/ p = "storage" /\ s = 2
                          \/ p = "db" /\ s = 4
                          \/ p = "repo" /\ s = 8
                          \/ p = "ocr" /\ s = 9
                          \/ p = "processor" /\ s = 10
                          \/ p = "bot" /\ s = 11}
  BY DEF OpenOrder, Opens, AllParts
<1> QED
  BY <1>1, <1>2, PartsBefore

\* The step of the closing after one that closed its parts finds the others.
LEMMA OneLessToClose ==
  /\ \A s \in 1..5 : StillToClose(s + 1) = StillToClose(s) \ CloseOrder[s]
  /\ StillToClose(6) = CloseOrder[6]
<1>1. ASSUME NEW s \in 1..5 PROVE StillToClose(s + 1) = StillToClose(s) \ CloseOrder[s]
  <2>1. s \in 1..6 /\ s + 1 \in 1..6
    OBVIOUS
  <2>2. CloseOrder[s] =
          {p \in AllParts : \/ p \in {"bot", "fetcher"} /\ s = 1
                            \/ p = "processor" /\ s = 2
                            \/ p = "ocr" /\ s = 3
                            \/ p = "repo" /\ s = 4
                            \/ p = "db" /\ s = 5}
    BY DEF CloseOrder, AllParts
  <2> QED
    BY <2>1, <2>2, PartsLeft
<1>2. StillToClose(6) = CloseOrder[6]
  <2>1. CloseOrder[6] = {"storage"}
    BY DEF CloseOrder
  <2> QED
    BY <2>1, PartsLeft DEF AllParts
<1> QED
  BY <1>1, <1>2

\* Nothing that is open points to what is not, before any step of the opening
\* and after its last one, with or without the fetcher.
NoneDangling(open) == \A p \in open : Uses[p] \subseteq open

LEMMA OpenedInOrder ==
  /\ \A s \in 1..12 : NoneDangling(OpenedBefore(s))
  /\ NoneDangling(OpenedBefore(12) \cup {"fetcher"})
  /\ NoneDangling(OpenedBefore(5) \ {"db"})
BY PartsBefore DEF NoneDangling, Uses, AllParts

\* What a step of the closing closes, nothing that stays open points to.
LEMMA ClosedInOrder ==
  ASSUME NEW s \in 1..6, NEW open \in SUBSET StillToClose(s), NoneDangling(open)
  PROVE  NoneDangling(open \ CloseOrder[s])
<1>1. CloseOrder[s] =
        {p \in AllParts : \/ p \in {"bot", "fetcher"} /\ s = 1
                          \/ p = "processor" /\ s = 2
                          \/ p = "ocr" /\ s = 3
                          \/ p = "repo" /\ s = 4
                          \/ p = "db" /\ s = 5
                          \/ p = "storage" /\ s = 6}
  BY DEF CloseOrder, AllParts
<1>2. \A p \in StillToClose(s) \ CloseOrder[s] : Uses[p] \cap CloseOrder[s] = {}
  BY <1>1, PartsLeft DEF Uses, AllParts
<1> QED
  BY <1>2 DEF NoneDangling

LEMMA PartsInvInit == LifeInit => PartsInv
<1> SUFFICES ASSUME LifeInit PROVE PartsInv
  OBVIOUS
<1>1. life = "opening" /\ step = 1 /\ parts = {}
  BY DEF LifeInit
<1>2. OpenedBefore(1) = {}
  BY PartsBefore
<1> QED
  BY <1>1, <1>2, PartsBefore DEF PartsInv, NothingDangling, Over

\* The steps of the opening.
LEMMA OpeningKeeps ==
  ASSUME PartsInv, OpenPart \/ OpenFailsQuietly \/ OpenFails
  PROVE  PartsInv'
<1>1. life = "opening" /\ step \in 1..12 /\ parts = OpenedBefore(step)
  BY PartsBefore DEF PartsInv, OpenPart, OpenFailsQuietly, OpenFails
<1>2. \A s \in 1..12 : OpenedBefore(s) \cup {"fetcher"} \subseteq StillToClose(1)
  BY PartsBefore, PartsLeft DEF AllParts
<1>3. ASSUME life' = "opening", step \in 1..11, step' = step + 1, parts' = OpenedBefore(step')
      PROVE  PartsInv'
  <2>1. step' \in 1..12 /\ NoneDangling(parts')
    BY <1>3, OpenedInOrder
  <2> QED
    BY <2>1, <1>2, <1>3, PartsBefore DEF PartsInv, NothingDangling, NoneDangling, Over
<1>4. ASSUME life' = "starting", parts' \in {OpenedBefore(12), OpenedBefore(12) \cup {"fetcher"}}
      PROVE  PartsInv'
  <2>1. NoneDangling(parts') /\ parts' \subseteq StillToClose(1)
    BY <1>2, <1>4, OpenedInOrder
  <2> QED
    BY <2>1, <1>4 DEF PartsInv, NothingDangling, NoneDangling, Over
<1>5. OpenOrder[12] = "fetcher" /\ Opens("fetcher") = {"fetcher"} /\ OpenOrder[5] = "schema"
  BY DEF OpenOrder, Opens
<1>6. CASE OpenPart
  <2>1. parts' = OpenedBefore(step) \cup Opens(OpenOrder[step])
    BY <1>1, <1>6 DEF OpenPart
  <2>2. CASE step = 12
    BY <2>1, <2>2, <1>4, <1>5, <1>6, PartsBefore DEF OpenPart, NextStep
  <2>3. CASE step # 12
    <3>1. step \in 1..11 /\ life' = "opening" /\ step' = step + 1
      BY <2>3, <1>1, <1>6, PartsBefore DEF OpenPart, NextStep
    <3> QED
      BY <3>1, <2>1, <1>3, OneMoreOpen
  <2> QED
    BY <2>2, <2>3
<1>7. CASE OpenFailsQuietly
  <2>1. parts' = OpenedBefore(step) /\ OpenOrder[step] \in {"seed_ocr", "seed_parser", "fetcher"}
    BY <1>1, <1>7 DEF OpenFailsQuietly
  <2>2. CASE step = 12
    BY <2>1, <2>2, <1>4, <1>7, PartsBefore DEF OpenFailsQuietly, NextStep
  <2>3. CASE step # 12
    <3>1. step \in 1..11 /\ life' = "opening" /\ step' = step + 1
      BY <2>3, <1>1, <1>7, PartsBefore DEF OpenFailsQuietly, NextStep
    <3>2. OpenOrder[step] \in {"seed_ocr", "seed_parser"}
      BY <2>1, <3>1 DEF OpenOrder
    <3>3. Opens(OpenOrder[step]) = {}
      BY <3>2 DEF Opens
    <3> QED
      BY <3>1, <3>3, <2>1, <1>3, OneMoreOpen
  <2> QED
    BY <2>2, <2>3
<1>8. CASE OpenFails
  <2>1. /\ life' = "closing" /\ step' = 1
        /\ parts' = IF OpenOrder[step] = "schema" THEN parts \ {"db"} ELSE parts
    BY <1>8 DEF OpenFails
  <2>2. OpenOrder[step] = "schema" => step = 5
    BY <1>1 DEF OpenOrder
  <2>3. NoneDangling(parts') /\ parts' \subseteq StillToClose(1)
    BY <2>1, <2>2, <1>1, <1>2, OpenedInOrder
  <2> QED
    BY <2>1, <2>3, PartsLeft DEF PartsInv, NothingDangling, NoneDangling, Over
<1> QED
  BY <1>6, <1>7, <1>8

\* A step of the closing.
LEMMA ClosingKeeps ==
  ASSUME PartsInv, ClosePart
  PROVE  PartsInv'
<1>1. /\ step \in 1..6 /\ parts \in SUBSET StillToClose(step) /\ NoneDangling(parts)
      /\ parts' = parts \ CloseOrder[step]
      /\ parts \subseteq StillToClose(1)
  BY PartsLeft DEF PartsInv, ClosePart, NothingDangling, NoneDangling
<1>2. NoneDangling(parts') /\ parts' \subseteq StillToClose(1)
  BY <1>1, ClosedInOrder
<1>3. CASE step = 6
  <2>1. life' = "exited" /\ step' = 1
    BY <1>3, PartsLeft DEF ClosePart
  <2>2. parts' = {}
    BY <1>1, <1>3, OneLessToClose
  <2> QED
    BY <2>1, <2>2, <1>2 DEF PartsInv, NothingDangling, Over
<1>4. CASE step # 6
  <2>1. life' = "closing" /\ step' = step + 1 /\ step \in 1..5
    BY <1>1, <1>4, PartsLeft DEF ClosePart
  <2>2. parts' \subseteq StillToClose(step')
    BY <2>1, <1>1, OneLessToClose
  <2> QED
    BY <2>1, <2>2, <1>2, PartsLeft DEF PartsInv, NothingDangling, NoneDangling, Over
<1> QED
  BY <1>3, <1>4

LEMMA PartsInvStep == PartsInv /\ [LifeNext]_lifeVars => PartsInv'
<1> SUFFICES ASSUME PartsInv, [LifeNext]_lifeVars PROVE PartsInv'
  OBVIOUS
<1>1. ASSUME UNCHANGED <<life, step, parts>> PROVE PartsInv'
  BY <1>1 DEF PartsInv, NothingDangling, OpenedBefore, StillToClose
<1>2. CASE OpenPart \/ OpenFailsQuietly \/ OpenFails
  BY <1>2, OpeningKeeps
<1>3. CASE ClosePart
  BY <1>3, ClosingKeeps
<1>4. CASE NotifyStartup
  <2>1. life' = "polling" /\ UNCHANGED parts
    BY <1>4 DEF NotifyStartup
  <2> QED
    BY <2>1 DEF PartsInv, NothingDangling, Over, StillToClose
<1>5. CASE LoopReturns
  <2>1. life' = "closing" /\ step' = 1 /\ UNCHANGED parts
    BY <1>5 DEF LoopReturns
  <2> QED
    BY <2>1, PartsLeft DEF PartsInv, NothingDangling, Over, StillToClose
<1>6. CASE Die
  <2>1. life' = "died" /\ step' = 1 /\ parts' = {}
    BY <1>6 DEF Die
  <2> QED
    BY <2>1 DEF PartsInv, NothingDangling, Over
<1>7. CASE StartAgain
  <2>1. life' = "opening" /\ step' = 1 /\ parts' = {}
    BY <1>7 DEF StartAgain, PartsInv
  <2>2. OpenedBefore(1) = {}
    BY PartsBefore
  <2> QED
    BY <2>1, <2>2, PartsBefore DEF PartsInv, NothingDangling, Over
<1>8. CASE LifeTick \/ LifeEdit \/ LifeElapse \/ UNCHANGED lifeVars
  BY <1>8, <1>1 DEF LifeTick, LifeEdit, LifeElapse, lifeVars, processVars
<1>9. CASE LifeSignal \/ KillProcess
  <2>1. Die \/ UNCHANGED <<life, step, parts>>
    BY <1>9 DEF LifeSignal, KillProcess
  <2> QED
    BY <2>1, <1>1, <1>6
<1> QED
  BY <1>2, <1>3, <1>4, <1>5, <1>7, <1>8, <1>9 DEF LifeNext, Run

\* Whichever step of the opening fails and whenever the process is stopped,
\* no part points to a closed one, and a clean exit leaves none open.
THEOREM NothingDanglingCorrect == LifeSpec => []NothingDangling
<1>1. PartsInv => NothingDangling
  BY DEF PartsInv
<1> QED
  BY <1>1, PartsInvInit, PartsInvStep, PTL DEF LifeSpec

-----------------------------------------------------------------------------
(* The main loop with the fetcher it drives.                               *)

\* A step of the whole is a step of the loop, or leaves it alone.
LEMMA BotLoopSteps == [BotNext]_botVars => [PollNext]_pollVars
BY DEF BotNext, BotTurn, Restart, Around, botVars, PollNext, Turn

\* The loop is the loop: driving the fetcher at the end of its turns changes
\* nothing of what it does with the updates (bot_start).
THEOREM BotLoopImplementsPolling == BotSpec => PollSpec
  BY BotLoopSteps, PTL DEF BotSpec, BotInit, PollSpec

\* So no update is forgotten that was not handled once, none is handled twice
\* by one process, and they are handled in order.
THEOREM BotLosesNothing == BotSpec => []NothingLost /\ []OnceByEachProcess /\ InOrder
  BY BotLoopImplementsPolling, NothingLostCorrect, OnceByEachProcessCorrect, InOrderCorrect, PTL

\* The fetcher is sound in the loop, which polls at any time it turns, as it
\* is in the life of a process.
LEMMA BotFetcherStep ==
  ASSUME TableTypes, MemorySound, [BotNext]_botVars
  PROVE  TableTypes' /\ MemorySound'
<1>1. ASSUME UNCHANGED <<cache, told, initialized>>, due' \in BOOLEAN, prompts' \in [Names -> Slot]
      PROVE  TableTypes' /\ MemorySound'
  BY <1>1, SameMemory DEF TableTypes
<1>2. CASE UNCHANGED promptVars
  BY <1>1, <1>2 DEF promptVars, fetcherVars, TableTypes
<1>3. CASE FetcherTick
  BY <1>3, TickKeeps
<1>4. CASE Restart
  BY <1>4, ForgottenMemory DEF Restart, TableTypes
<1>5. CASE Edit
  BY <1>1, <1>5 DEF Edit, fetcherVars, TableTypes
<1>6. CASE Elapse
  BY <1>1, <1>6 DEF Elapse, TableTypes
<1> QED
  BY <1>2, <1>3, <1>4, <1>5, <1>6 DEF BotNext, BotTurn, Around, botVars

\* Polled by the loop (bot_start calling prompt_fetcher_tick), the fetcher
\* remembers of a prompt what was announced last or was there at its start.
THEOREM BotCacheIsTold == BotSpec => []CacheIsTold
<1>1. MemorySound => CacheIsTold
  BY DEF MemorySound
<1> QED
  BY <1>1, FetcherInitSound, BotFetcherStep, PTL DEF BotSpec, BotInit

\* Polled by the loop, it announces a content again only if the cache was full
\* (what prompt_fetcher_poll cannot put aside is news again at the next poll).
THEOREM BotOnlyNewsAnnounced == BotSpec => OnlyNewsAnnounced
<1>1. TableTypes /\ MemorySound /\ [BotNext]_botVars =>
        [due /\ ~due' =>
           \A n \in Names : <<n, told[n]>> \in announced' =>
             n \notin Present(cache) /\ Cardinality(Present(cache')) = MaxCached]_promptVars
  <2> SUFFICES ASSUME TableTypes, MemorySound, [BotNext]_botVars, due, ~due'
               PROVE  \A n \in Names : <<n, told[n]>> \in announced' =>
                        n \notin Present(cache) /\ Cardinality(Present(cache')) = MaxCached
    OBVIOUS
  <2>1. FetcherTick \/ announced' = {}
    BY DEF BotNext, BotTurn, Restart, Around, Edit, Elapse, botVars, promptVars, fetcherVars
  <2> QED
    BY <2>1, NewsOfTick
<1> QED
  BY <1>1, FetcherInitSound, BotFetcherStep, PTL DEF BotSpec, BotInit, OnlyNewsAnnounced
=============================================================================
