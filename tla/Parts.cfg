SPECIFICATION PartsSpec
CONSTANTS
  UrlBytes = {32, 37, 38, 43, 61, 80, 195}
  MaxEmail = 3
  MaxPassword = 2
  Servers = {a, b, c}
  NoServer = NoServer
  Connections = 2
  Names <- SomeNames
  CutTo <- SomeCuts
  PlainValues = {"v", "w"}
  Served <- SomeServed
  Chunks <- SomeChunks
  LastChunks <- SomeLastChunks
  Trailers <- SomeTrailers
  MaxChunks = 2
  MaxTrailers = 2
  MaxNumSize = 2
  Units = {65, 2048, 55357, 56832, 57344}
  BSIZ = 2
  MaxUnits = 4
  Lines <- SomeLines
  MaxLines = 2
  Fields <- SomeFields
  MaxFields = 2
  MaxRows = 2
INVARIANTS EncodedSoFar EncodedFits FieldsReadBack OneConnectionForEach NoConnectionLost
           RetriedOnceAsItWas OneCookieEach ChunksDecoded ConvertedAsRead FailureExplained
           WrittenRowsRead RowsEndOutsideQuotes
PROPERTIES StoreKept
CHECK_DEADLOCK FALSE
