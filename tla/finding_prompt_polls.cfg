SPECIFICATION FairBotSpec
CONSTANTS
  MaxUpdates = 1
  MaxStarts = 1
  MaxFaults = 0
  t1 = t1  t2 = t2  Absent = Absent
  Texts <- OneText
  NumNames = 1
  MaxCached = 1
  MaxEdits = 1
  MaxPollFaults = 0
PROPERTIES PollsEveryInterval
CHECK_DEADLOCK FALSE
