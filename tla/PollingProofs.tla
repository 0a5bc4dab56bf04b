---------------------------- MODULE PollingProofs ----------------------------
(***************************************************************************)
(* The main loop loses no update, handles them in order, and none twice in *)
(* one process: for any number of updates, of starts and of faults.        *)
(***************************************************************************)
EXTENDS Polling, TLAPS

\* The oldest update of a batch is one update.
LEMMA OldestUnique ==
  ASSUME batch \subseteq Updates, NEW u \in batch, NEW v \in batch, Oldest(u), Oldest(v)
  PROVE  u = v
BY PollingAssumption DEF Oldest, Updates

\* The loop starts within the invariant.
LEMMA PollInvInit == PollInit => PollInv
BY PollingAssumption
   DEF PollInit, PollInv, PollTypeOK, NothingLost, BatchSound, OnceByEachProcess, NotYetBegun,
       Updates, Phases, Down, Oldest

\* Every step of the loop, of the users and of the environment keeps it.
LEMMA PollInvStep == PollInv /\ [PollNext]_pollVars => PollInv'
<1> SUFFICES ASSUME PollInv, [PollNext]_pollVars PROVE PollInv'
  OBVIOUS
<1> USE PollingAssumption
<1> USE DEF PollInv, PollTypeOK, NothingLost, BatchSound, OnceByEachProcess, NotYetBegun,
            Updates, Phases, Down, Oldest
<1>1. CASE Send
  BY <1>1 DEF Send, loopVars
<1>2. CASE LoopEnds
  BY <1>2 DEF LoopEnds
<1>3. CASE PollAnswered
  BY <1>3 DEF PollAnswered, Confirm
<1>4. CASE PollExpires
  BY <1>4 DEF PollExpires, Confirm
<1>5. CASE PollFails
  BY <1>5 DEF PollFails, PollFault, Confirm
<1>6. CASE Sleep
  BY <1>6 DEF Sleep
<1>7. CASE BeginDispatch
  BY <1>7 DEF BeginDispatch
<1>8. CASE EndDispatch
  <2>1. PICK u \in batch : /\ Oldest(u)
                           /\ done' = [done EXCEPT ![u] = @ + 1]
                           /\ batch' = batch \ {u}
                           /\ offset' = u + 1
    BY <1>8 DEF EndDispatch
  <2>2. /\ phase = "dispatch" /\ phase' = "batch"
        /\ UNCHANGED <<sent, confirmed, running, begun, starts, faults>>
    BY <1>8 DEF EndDispatch
  <2>3. PollTypeOK' /\ offset' <= sent' + 1
    <3>1. u \in Updates /\ u <= sent /\ offset' = u + 1
      BY <2>1
    <3>2. offset' \in 0..MaxUpdates + 1 /\ offset' <= sent' + 1
      BY <3>1, <2>2
    <3>3. done' \in [Updates -> Nat] /\ batch' \subseteq Updates
      BY <2>1
    <3> QED
      BY <3>2, <3>3, <2>2
  <2>4. \A v \in Updates : done[v] > 0 => done'[v] > 0
    BY <2>1
  <2>5. NothingLost'
    BY <2>2, <2>4
  <2>6. \A v \in Updates : v < offset' => done'[v] > 0
    BY <2>1, <2>4
  <2>7. BatchSound'
    <3>1. \A v \in batch' : offset' <= v /\ v <= sent'
      BY <2>1, <2>2
    <3>2. \A v \in batch', w \in Updates : w < v => w \in batch' \/ done'[w] > 0
      BY <2>1, <2>4
    <3> QED
      BY <3>1, <3>2, <2>2
  <2>8. OnceByEachProcess'
    BY <2>2
  <2>9. NotYetBegun'
    BY <2>1, <2>2
  <2> QED
    BY <2>3, <2>5, <2>6, <2>7, <2>8, <2>9
<1>9. CASE BatchEnds
  BY <1>9 DEF BatchEnds
<1>10. CASE Tick
  BY <1>10 DEF Tick
<1>11. CASE Signal
  BY <1>11 DEF Signal
<1>12. CASE PollKill
  <2>1. /\ phase' = "killed" /\ running' = FALSE /\ offset' = 0 /\ batch' = {}
        /\ faults < MaxFaults /\ faults' = faults + 1
        /\ UNCHANGED <<sent, confirmed, begun, done, starts>>
    BY <1>12 DEF PollKill, PollFault
  <2>2. PollTypeOK' /\ offset' <= sent' + 1
    <3>1. offset' \in 0..MaxUpdates + 1 /\ offset' <= sent' + 1 /\ faults' \in 0..MaxFaults
      BY <2>1
    <3>2. phase' \in Phases /\ running' \in BOOLEAN /\ batch' \subseteq Updates
      BY <2>1
    <3>3. /\ sent' \in 0..MaxUpdates /\ confirmed' \in 0..sent' /\ starts' \in Nat
          /\ begun' \in [Updates -> Nat] /\ done' \in [Updates -> Nat]
      BY <2>1
    <3> QED
      BY <3>1, <3>2, <3>3
  <2>3. NothingLost' /\ (\A u \in Updates : u < offset' => done'[u] > 0)
    BY <2>1
  <2>4. BatchSound' /\ OnceByEachProcess' /\ NotYetBegun'
    BY <2>1
  <2> QED
    BY <2>2, <2>3, <2>4
<1>13. CASE StartProcess
  BY <1>13 DEF StartProcess
<1>14. CASE UNCHANGED pollVars
  BY <1>14 DEF pollVars
<1> QED
  BY <1>1, <1>2, <1>3, <1>4, <1>5, <1>6, <1>7, <1>8, <1>9, <1>10, <1>11, <1>12, <1>13, <1>14
  DEF PollNext, Turn

-----------------------------------------------------------------------------
\* The invariant holds in every reachable state.
THEOREM PollInvCorrect == PollSpec => []PollInv
  BY PollInvInit, PollInvStep, PTL DEF PollSpec

\* The server forgets no update (its queue is cut by the next getUpdates)
\* before the handler of the update has returned.
THEOREM NothingLostCorrect == PollSpec => []NothingLost
<1>1. PollInv => NothingLost
  BY DEF PollInv
<1> QED
  BY PollInvCorrect, <1>1, PTL

\* No process calls the handler of an update twice.
THEOREM OnceByEachProcessCorrect == PollSpec => []OnceByEachProcess
<1>1. PollInv => OnceByEachProcess
  BY DEF PollInv
<1> QED
  BY PollInvCorrect, <1>1, PTL

\* A dispatch begins only when all earlier updates have been handled.
LEMMA InOrderStep ==
  ASSUME PollInv, [PollNext]_pollVars
  PROVE  \A u, v \in Updates : v < u /\ begun'[u] > begun[u] => done[v] > 0
<1> SUFFICES ASSUME NEW u \in Updates, NEW v \in Updates, v < u, begun'[u] > begun[u]
             PROVE  done[v] > 0
  OBVIOUS
<1>1. PollTypeOK /\ BatchSound
  BY DEF PollInv
<1>2. begun' # begun
  BY <1>1 DEF PollTypeOK
<1>3. BeginDispatch
  BY <1>2 DEF PollNext, Turn, Send, LoopEnds, PollAnswered, PollExpires, PollFails, Sleep,
              EndDispatch, BatchEnds, Tick, Signal, PollKill, StartProcess, pollVars, loopVars
<1>4. PICK w \in batch : Oldest(w) /\ begun' = [begun EXCEPT ![w] = @ + 1]
  BY <1>3 DEF BeginDispatch
<1>5. u = w
  BY <1>1, <1>4 DEF PollTypeOK
<1>6. v \notin batch
  BY <1>4, <1>5, <1>1, PollingAssumption DEF Oldest, Updates, PollTypeOK
<1> QED
  BY <1>1, <1>4, <1>5, <1>6 DEF BatchSound

\* Updates are handled in the order they were sent.
THEOREM InOrderCorrect == PollSpec => InOrder
<1>1. PollInv /\ [PollNext]_pollVars
        => [\A u, v \in Updates : v < u /\ begun'[u] > begun[u] => done[v] > 0]_pollVars
  BY InOrderStep
<1> QED
  BY PollInvCorrect, <1>1, PTL DEF PollSpec, InOrder
=============================================================================
