SPECIFICATION Spec
CONSTANTS
  c1 = c1  c2 = c2  jpg = jpg  pdf = pdf
  Damaged = Damaged  Blank = Blank  None = None
  Contents <- TwoContents
  Exts <- TwoExts
  MaxStamp = 1
  MaxRows = 2
  Database = "sqlite"
  Storage = "local"
  SecondsRepeat = TRUE
  MaxFaults = 1
SYMMETRY ContentSymmetry
INVARIANTS TablesSound
PROPERTIES RowsKeepIdentity
