------------------------------- MODULE EventBus -------------------------------
(***************************************************************************)
(* The event bus of kaufbot for one event type (the types share nothing).  *)
(* The bus is single-threaded, but a handler may subscribe, unsubscribe    *)
(* and publish itself: a publish in progress is a frame of a stack, and    *)
(* the table may change under it whenever one of its handlers runs.        *)
(***************************************************************************)
EXTENDS SequencesExt

CONSTANTS
  Handlers,
  MaxSubscribers,  \* EVENT_BUS_MAX_SUBSCRIBERS
  MaxDepth,        \* bound: publishes inside publishes
  MaxCalls         \* bound: calls of subscribe, unsubscribe and publish

ASSUME BusAssumption ==
  MaxSubscribers \in Nat \ {0} /\ MaxDepth \in Nat /\ MaxCalls \in Nat

VARIABLES
  subscribers,  \* the table's used slots
  frames,       \* publishes in progress, the innermost last
  calls         \* calls so far

busVars == <<subscribers, frames, calls>>

\* "next" counts the slots looked at, "runs" tells that a handler is running.
\* Ghosts: "made" is the number of calls made, "kept" the handlers subscribed
\* ever since the publish began, "called" those it has called, "left" counts
\* the subscriptions that were given up since.
Frame == [next : 0..MaxSubscribers, runs : BOOLEAN, made : Nat,
          kept : SUBSET Handlers, called : SUBSET Handlers, left : Nat]

BusInit == subscribers = <<>> /\ frames = <<>> /\ calls = 0

-----------------------------------------------------------------------------
Count == calls < MaxCalls /\ calls' = calls + 1

\* User code runs outside every publish, or in the innermost handler.
UserCode == frames # <<>> => Last(frames).runs

\* What the publishes in progress are told of a change of the table.
Noted == [i \in DOMAIN frames |->
            [frames[i] EXCEPT !.kept = @ \cap ToSet(subscribers'),
                              !.left = IF Len(subscribers') < Len(subscribers)
                                       THEN @ + 1 ELSE @]]

\* A full table refuses.
Subscribe(h) ==
  /\ UserCode /\ Count
  /\ subscribers' = IF Len(subscribers) >= MaxSubscribers THEN subscribers
                    ELSE Append(subscribers, h)
  /\ frames' = Noted

\* The slots after the first one of the handler move down.
Unsubscribe(h) ==
  /\ UserCode /\ Count
  /\ subscribers' = RemoveFirst(subscribers, h)
  /\ frames' = Noted

Publish ==
  /\ UserCode /\ Count /\ Len(frames) < MaxDepth
  /\ frames' = Append(frames, [next |-> 0, runs |-> FALSE, made |-> 0,
                               kept |-> ToSet(subscribers), called |-> {}, left |-> 0])
  /\ UNCHANGED subscribers

SetTop(f) == frames' = Front(frames) \o <<f>>

\* Mutant: the index is advanced before the slot is read.
CallNext_IndexFirst ==
  /\ frames # <<>> /\ ~Last(frames).runs
  /\ LET f == Last(frames) IN
     /\ f.next + 1 < Len(subscribers)
     /\ SetTop([f EXCEPT !.next = @ + 2, !.runs = TRUE, !.made = @ + 1,
                         !.called = @ \cup {subscribers[f.next + 2]}])
  /\ UNCHANGED <<subscribers, calls>>

\* The count and the slot are read from the table as it is now.
CallNext ==
  /\ frames # <<>> /\ ~Last(frames).runs
  /\ LET f == Last(frames) IN
     /\ f.next < Len(subscribers)
     /\ SetTop([f EXCEPT !.next = @ + 1, !.runs = TRUE, !.made = @ + 1,
                         !.called = @ \cup {subscribers[f.next + 1]}])
  /\ UNCHANGED <<subscribers, calls>>

HandlerReturns ==
  /\ frames # <<>> /\ Last(frames).runs
  /\ SetTop([Last(frames) EXCEPT !.runs = FALSE])
  /\ UNCHANGED <<subscribers, calls>>

\* Mutant: the loop tests for "!=".
PublishEnds_NotEqual ==
  /\ frames # <<>> /\ ~Last(frames).runs
  /\ Last(frames).next = Len(subscribers)
  /\ frames' = Front(frames)
  /\ UNCHANGED <<subscribers, calls>>

PublishEnds ==
  /\ frames # <<>> /\ ~Last(frames).runs
  /\ Last(frames).next >= Len(subscribers)
  /\ frames' = Front(frames)
  /\ UNCHANGED <<subscribers, calls>>

Walk == CallNext \/ HandlerReturns \/ PublishEnds

BusNext == (\E h \in Handlers : Subscribe(h) \/ Unsubscribe(h)) \/ Publish \/ Walk

BusSpec == BusInit /\ [][BusNext]_busVars

\* Handlers return.
FairBusSpec == BusSpec /\ WF_busVars(Walk)

-----------------------------------------------------------------------------
\* Every publish ends, however its handlers change the table.
EveryPublishEnds == frames # <<>> ~> frames = <<>>

\* "Publish an event. Calls all registered handlers for the event type.": as
\* long as nobody leaves, a publish calls each subscription once, those added
\* by its own handlers included; and of the handlers that stay subscribed all
\* the while it misses at most one for each subscription that is given up
\* during it, as the slots behind that one move under the walk.
FewAreMissed ==
  [][frames # <<>> /\ Len(frames') < Len(frames) =>
       LET f == Last(frames)
       IN /\ Cardinality(f.kept \ f.called) <= f.left
          /\ f.left = 0 => f.made = Len(subscribers)]_busVars
=============================================================================
