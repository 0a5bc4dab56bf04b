SPECIFICATION KaufbotSpec
CONSTANTS
  c1 = c1  c2 = c2  jpg = jpg
  Damaged = Damaged  Blank = Blank  None = None
  Contents <- OneContent
  Exts <- OneExt
  MaxStamp = 6
  MaxRows = 6
  Database = "sqlite"
  Storage = "local"
  SecondsRepeat = FALSE
  MaxFaults = 1
  MaxUpdates = 3
  MaxStarts = 2
  MaxLoopFaults = 1
  Failing <- InsertOnly
  Asks <- ThreeUpdates
INVARIANTS NoUploadVanishes NothingUnasked
PROPERTIES DeletedStaysDeleted ComposesParts
CHECK_DEADLOCK FALSE
