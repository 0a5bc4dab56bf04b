SPECIFICATION KaufbotSpec
CONSTANTS
  c1 = c1  c2 = c2  jpg = jpg
  Damaged = Damaged  Blank = Blank  None = None
  Contents <- TwoContents
  Exts <- OneExt
  MaxStamp = 6
  MaxRows = 6
  Database = "sqlite"
  Storage = "local"
  SecondsRepeat = FALSE
  MaxFaults = 2
  MaxUpdates = 2
  MaxStarts = 2
  MaxLoopFaults = 1
  Failing <- MarkOnly
  Asks <- TwoFiles
INVARIANTS UnreadIsExplained
CHECK_DEADLOCK FALSE
