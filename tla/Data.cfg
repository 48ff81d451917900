CONSTANTS
  NUL = NUL
  Junk = Junk
  W = 128
  Letters <- BufBytes
  Keys <- BufKeys
  MaxText = 3
  MaxArg = 2
  ReadLen = 1
  Lower <- LowerOf
  Upper <- UpperOf
  Octets <- FileBytes
  Files <- ShortFiles
  Delims <- OneOrTwo
  Writes <- SomeWrites
  MaxBytes = 2
  MaxBuf = 2
  MaxFile = 4
  Lines <- TwelveLines
  MaxLines = 3
  NameMax = 2
  ValMax = 2
  Known <- FourNames
  Global <- FirstGlobal
  NameOf <- NameOfSetting
  ValueOf <- NumberOf
  MaxLost = 1
  Names <- FourKeys
  KeyMax = 2
  Buckets = {0, 1}
  Hash <- HashOf
  Objects = {"o1", "o2", "o3"}
  Nobody = Nobody
  MaxItems = 3
  Heads = {"a", "b"}
  Nodes = {"x", "y", "z"}
  NULL = NULL
SPECIFICATION Spec
INVARIANTS
  ReadsKeepTheirWord
  OptionsAsMeant
PROPERTIES
  BufferIsString
  MapIsTable
  RequestsFollow
  TreeIsSorted
  ListsAreSequences
CHECK_DEADLOCK FALSE
