SPECIFICATION FairSpec
CONSTANTS
  c1 = c1  c2 = c2  jpg = jpg  pdf = pdf
  Damaged = Damaged  Blank = Blank  None = None
  Contents <- TwoContents
  Exts <- OneExt
  MaxStamp = 1
  MaxRows = 2
  Database = "sqlite"
  Storage = "local"
  SecondsRepeat = TRUE
  MaxFaults = 0
INVARIANTS ReextractsOwnOriginal
CHECK_DEADLOCK FALSE
