------------------------------- MODULE Polling -------------------------------
(***************************************************************************)
(* The main loop of kaufbot (bot_start) and the server it polls.           *)
(*                                                                         *)
(* Telegram keeps the updates of the users in order until a getUpdates     *)
(* request carries a greater offset; the bot keeps its offset in memory    *)
(* only.  Updates are numbered 1, 2, ...; the server's queue is never      *)
(* shortened, "confirmed" is the number of updates it has forgotten.       *)
(***************************************************************************)
EXTENDS Integers

CONSTANTS
  MaxUpdates,  \* bound: updates the users send
  MaxStarts,   \* bound: how often the process is started
  MaxFaults    \* bound: requests that fail, and kills

ASSUME PollingAssumption == MaxUpdates \in Nat /\ MaxStarts \in Nat /\ MaxFaults \in Nat

VARIABLES
  sent,        \* updates 1..sent exist
  confirmed,   \* the server has forgotten the updates 1..confirmed
  phase,       \* where the loop is
  running,     \* the flag that a signal clears
  offset,      \* bot->offset
  batch,       \* updates of the last answer that are not dispatched yet
  begun, done, \* update -> how often its dispatch has begun, and has ended
  starts,      \* how often the process was started
  faults       \* faults so far

loopVars == <<phase, running, offset, batch>>
pollVars == <<sent, confirmed, phase, running, offset, batch, begun, done, starts, faults>>

Updates == 1..MaxUpdates
Phases  == {"poll", "sleep", "batch", "dispatch", "tick", "stopped", "killed"}
Down    == {"stopped", "killed"}

PollInit ==
  /\ sent = 0 /\ confirmed = 0
  /\ phase = "poll" /\ running = TRUE /\ offset = 0 /\ batch = {}
  /\ begun = [u \in Updates |-> 0] /\ done = [u \in Updates |-> 0]
  /\ starts = 1 /\ faults = 0

-----------------------------------------------------------------------------
(* The users, and the server's side of getUpdates.                         *)

Send == /\ sent < MaxUpdates
        /\ sent' = sent + 1
        /\ UNCHANGED <<confirmed, loopVars, begun, done, starts, faults>>

\* An offset confirms every update below it.
Confirm(k) == IF k - 1 > confirmed THEN k - 1 ELSE confirmed

PollFault == /\ faults < MaxFaults
             /\ faults' = faults + 1

-----------------------------------------------------------------------------
(* One turn of the loop.                                                   *)

\* Mutant: the loop sets the flag when it starts a turn.
LoopEnds_FlagReset ==
  /\ phase = "poll" /\ ~running
  /\ running' = TRUE
  /\ UNCHANGED <<sent, confirmed, phase, offset, batch, begun, done, starts, faults>>

\* The flag is looked at between turns only.
LoopEnds ==
  /\ phase = "poll" /\ ~running
  /\ phase' = "stopped" /\ offset' = 0 /\ batch' = {}
  /\ UNCHANGED <<sent, confirmed, running, begun, done, starts, faults>>

\* An answer holds the oldest updates that are not confirmed, at most 100.
PollAnswered ==
  /\ phase = "poll" /\ running
  /\ confirmed' = Confirm(offset)
  /\ \E last \in confirmed' + 1..sent : batch' = confirmed' + 1..last
  /\ phase' = "batch"
  /\ UNCHANGED <<sent, running, offset, begun, done, starts, faults>>

\* With nothing to report the server holds the request for the timeout that
\* libcurl gives up after: either of the two may come first.
PollExpires ==
  /\ phase = "poll" /\ running
  /\ confirmed' = Confirm(offset)
  /\ confirmed' = sent
  /\ phase' \in {"tick", "sleep"}
  /\ UNCHANGED <<sent, running, offset, batch, begun, done, starts, faults>>

\* The request, or its answer, is lost, or is not what was asked for.
PollFails ==
  /\ phase = "poll" /\ running
  /\ PollFault
  /\ confirmed' \in {confirmed, Confirm(offset)}
  /\ phase' = "sleep"
  /\ UNCHANGED <<sent, running, offset, batch, begun, done, starts>>

\* "continue": the rest of the turn is skipped.
Sleep ==
  /\ phase = "sleep" /\ phase' = "poll"
  /\ UNCHANGED <<sent, confirmed, running, offset, batch, begun, done, starts, faults>>

Oldest(u) == u \in batch /\ \A v \in batch : u <= v

BeginDispatch ==
  /\ phase = "batch"
  /\ \E u \in batch : Oldest(u) /\ begun' = [begun EXCEPT ![u] = @ + 1]
  /\ phase' = "dispatch"
  /\ UNCHANGED <<sent, confirmed, running, offset, batch, done, starts, faults>>

\* Mutant: the offset is the update's own number.
EndDispatch_OffsetKept ==
  /\ phase = "dispatch"
  /\ \E u \in batch : /\ Oldest(u)
                      /\ done' = [done EXCEPT ![u] = @ + 1]
                      /\ batch' = batch \ {u}
                      /\ offset' = u
  /\ phase' = "batch"
  /\ UNCHANGED <<sent, confirmed, running, begun, starts, faults>>

\* Mutant: one is added once more.
EndDispatch_OffByOne ==
  /\ phase = "dispatch"
  /\ \E u \in batch : /\ Oldest(u)
                      /\ done' = [done EXCEPT ![u] = @ + 1]
                      /\ batch' = batch \ {u}
                      /\ offset' = u + 2
  /\ phase' = "batch"
  /\ UNCHANGED <<sent, confirmed, running, begun, starts, faults>>

\* Mutant: the offset stays as it was.
EndDispatch_OffsetForgotten ==
  /\ phase = "dispatch"
  /\ \E u \in batch : /\ Oldest(u)
                      /\ done' = [done EXCEPT ![u] = @ + 1]
                      /\ batch' = batch \ {u}
  /\ phase' = "batch"
  /\ UNCHANGED <<sent, confirmed, running, offset, begun, starts, faults>>

\* The offset moves when the handler has returned, whatever it did.
EndDispatch ==
  /\ phase = "dispatch"
  /\ \E u \in batch : /\ Oldest(u)
                      /\ done' = [done EXCEPT ![u] = @ + 1]
                      /\ batch' = batch \ {u}
                      /\ offset' = u + 1
  /\ phase' = "batch"
  /\ UNCHANGED <<sent, confirmed, running, begun, starts, faults>>

\* Mutant: after a batch the loop polls at once.
BatchEnds_NoTick ==
  /\ phase = "batch" /\ batch = {}
  /\ phase' = "poll"
  /\ UNCHANGED <<sent, confirmed, running, offset, batch, begun, done, starts, faults>>

BatchEnds ==
  /\ phase = "batch" /\ batch = {}
  /\ phase' = "tick"
  /\ UNCHANGED <<sent, confirmed, running, offset, batch, begun, done, starts, faults>>

Tick ==
  /\ phase = "tick" /\ phase' = "poll"
  /\ UNCHANGED <<sent, confirmed, running, offset, batch, begun, done, starts, faults>>

-----------------------------------------------------------------------------
(* Signals, kills, and new processes.                                      *)

Signal ==
  /\ phase \notin Down /\ running /\ starts < MaxStarts
  /\ running' = FALSE
  /\ UNCHANGED <<sent, confirmed, phase, offset, batch, begun, done, starts, faults>>

PollKill ==
  /\ phase \notin Down /\ starts < MaxStarts
  /\ PollFault
  /\ phase' = "killed" /\ running' = FALSE /\ offset' = 0 /\ batch' = {}
  /\ UNCHANGED <<sent, confirmed, begun, done, starts>>

\* Mutant: a new process asks for what came after the last update sent.
StartProcess_SkipBacklog ==
  /\ phase \in Down
  /\ phase' = "poll" /\ running' = TRUE /\ offset' = sent + 1 /\ batch' = {}
  /\ starts' = starts + 1
  /\ UNCHANGED <<sent, confirmed, begun, done, faults>>

\* A new process starts with offset 0, which confirms nothing.
StartProcess ==
  /\ phase \in Down
  /\ phase' = "poll" /\ running' = TRUE /\ offset' = 0 /\ batch' = {}
  /\ starts' = starts + 1
  /\ UNCHANGED <<sent, confirmed, begun, done, faults>>

-----------------------------------------------------------------------------
Turn == \/ LoopEnds \/ PollAnswered \/ PollExpires \/ PollFails \/ Sleep
        \/ BeginDispatch \/ EndDispatch \/ BatchEnds \/ Tick

PollNext == Send \/ Turn \/ Signal \/ PollKill \/ StartProcess

PollSpec == PollInit /\ [][PollNext]_pollVars

\* The loop keeps turning, as its requests have timeouts and its handlers
\* return (with SQLite: a call of PostgreSQL has no timeout), and a process
\* that was killed is started again ("restart: unless-stopped"); one that was
\* told to stop need not be.
FairPollSpec == /\ PollSpec
                /\ WF_pollVars(Turn)
                /\ WF_pollVars(phase = "killed" /\ StartProcess)

-----------------------------------------------------------------------------
\* Type invariant of the loop and the server.
PollTypeOK ==
  /\ sent \in 0..MaxUpdates /\ confirmed \in 0..sent
  /\ phase \in Phases /\ running \in BOOLEAN
  /\ offset \in 0..MaxUpdates + 1
  /\ batch \subseteq Updates
  /\ begun \in [Updates -> Nat] /\ done \in [Updates -> Nat]
  /\ starts \in Nat /\ faults \in 0..MaxFaults

\* The server forgets no update before its handler has returned once,
\* whatever requests are lost and whenever the process dies or stops.
NothingLost == \A u \in Updates : u <= confirmed => done[u] > 0

\* A process dispatches an update at most once, so an update that is handled
\* again is handled by a process that was started since.
OnceByEachProcess == \A u \in Updates : begun[u] <= starts

\* Updates are handled in the order they were sent: when a handler is called
\* the handlers of all earlier updates have returned.
InOrder ==
  [][\A u, v \in Updates : v < u /\ begun'[u] > begun[u] => done[v] > 0]_pollVars

\* Every update is handled, unless the bot was told to stop and stays so.
EveryUpdateHandled ==
  \A u \in Updates : sent >= u ~> (done[u] > 0 \/ phase = "stopped")

\* A signal ends the loop, even while updates keep coming.
SignalStops == (~running /\ phase \notin Down) ~> phase \in Down

-----------------------------------------------------------------------------
(* The inductive invariant behind the safety properties.                   *)

\* A batch starts where the handled updates end.
BatchSound ==
  /\ phase \notin {"batch", "dispatch"} => batch = {}
  /\ phase = "dispatch" => \E u \in batch : Oldest(u)
  /\ \A u \in batch : offset <= u /\ u <= sent
  /\ \A u \in batch, v \in Updates : v < u => v \in batch \/ done[v] > 0

\* What this process has not answered, it has not begun either.
NotYetBegun ==
  phase \notin Down =>
    \A u \in Updates :
      offset <= u /\ ~(phase = "dispatch" /\ Oldest(u)) => begun[u] < starts

PollInv ==
  /\ PollTypeOK
  /\ offset <= sent + 1
  /\ NothingLost
  /\ \A u \in Updates : u < offset => done[u] > 0
  /\ BatchSound
  /\ OnceByEachProcess
  /\ NotYetBegun
=============================================================================
