SPECIFICATION Spec
CONSTANTS
  c1 = c1  c2 = c2  jpg = jpg  pdf = pdf
  Damaged = Damaged  Blank = Blank  None = None
  Contents <- TwoContents
  Exts <- OneExt
  MaxStamp = 2
  MaxRows = 2
  Database = "sqlite"
  Storage = "local"
  SecondsRepeat = FALSE
  MaxFaults = 2
SYMMETRY ContentSymmetry
INVARIANTS NoForeignReceipt OriginalKept LeaksBoundedByFaults StorageMatchesTables AnswerIsTrue
PROPERTIES PromisedRetryFindsText
