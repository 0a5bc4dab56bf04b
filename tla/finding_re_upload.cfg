SPECIFICATION FairSpec
CONSTANTS
  c1 = c1  c2 = c2  jpg = jpg  pdf = pdf
  Damaged = Damaged  Blank = Blank  None = None
  Contents <- TwoContents
  Exts <- OneExt
  MaxStamp = 2
  MaxRows = 2
  Database = "sqlite"
  Storage = "local"
  SecondsRepeat = FALSE
  MaxFaults = 0
PROPERTIES ReUploadIsTaken
CHECK_DEADLOCK FALSE
