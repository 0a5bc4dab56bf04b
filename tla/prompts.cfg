SPECIFICATION FairLifeSpec
CONSTANTS
  t1 = t1  t2 = t2  Absent = Absent
  Texts <- TwoTexts
  Default = t1
  NumNames = 3
  MaxCached = 2
  MaxEdits = 2
  MaxPollFaults = 1
  MaxLives = 2
  MaxInitFaults = 1
INVARIANTS CacheIsTold OnlyEditsAnnounced NothingDangling
PROPERTIES OnlyNewsAnnounced LastingChangeIsTold
CHECK_DEADLOCK FALSE
