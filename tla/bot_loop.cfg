SPECIFICATION FairBotSpec
CONSTANTS
  MaxUpdates = 3
  MaxStarts = 2
  MaxFaults = 1
  t1 = t1  t2 = t2  Absent = Absent
  Texts <- TwoTexts
  NumNames = 1
  MaxCached = 1
  MaxEdits = 1
  MaxPollFaults = 1
INVARIANTS NothingLost OnceByEachProcess
PROPERTIES InOrder EveryUpdateHandled SignalStops BusyLoopPollsPrompts
CHECK_DEADLOCK FALSE
