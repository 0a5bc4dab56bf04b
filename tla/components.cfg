SPECIFICATION ComponentsSpec
CONSTANTS
  h1 = h1  h2 = h2  h3 = h3
  Handlers <- ThreeHandlers
  MaxSubscribers = 3
  MaxDepth = 2
  MaxCalls = 7
  c1 = c1  c2 = c2  jpg = jpg
  Contents <- TwoContents
  Exts <- OneExt
  MaxStamp = 2
  MaxRows = 3
  Damaged = Damaged  Blank = Blank  None = None
  Database = "sqlite"
  Storage = "local"
  MaxRecords = 2
  MaxReceipts = 3
  TextTypes <- OcrAndParsed
  MaxStoreFaults = 2
  MaxNameLen = 4
  Digits <- ZeroAndOne
  MaxUsers = 2
  BufLen = 6
  MaxNumber = 10
  MaxRetries = 2
  MaxRequests = 3
  Primary = Primary  Fallback = Fallback  other = other
  Others <- OneOther
  FallbackEnabled = TRUE
  MaxDay = 2
INVARIANTS StandsInForDatabase DocumentsAreWhole
INVARIANTS BodiesAreOwned OnlyRetryableRepeated SuccessIsWhole
INVARIANTS WantedModelIsAsked TokensAreOfThisAnswer
INVARIANTS DigestIsOfWholeFile EncodingsCanBeUndone AllowedAreListed
PROPERTIES FewAreMissed EveryPublishEnds
CHECK_DEADLOCK FALSE
