SPECIFICATION SessionSpec
CONSTANTS
  Byte <- MCByte
  Junk = 0
  Magic <- MCMagic
  Decode <- MCDecode
  Capacity = 8
  UploadMax = 3
  LegacyMax = 5
  FlatWindow = 6
  GuardWindow = 4
  TokenMod = 8
  GenMod = 80
  Stamp = 3
  Scratch = 6
  GuardTrailer = 2
  Chunks <- MCChunks
  Files <- MCFiles
  PageSize = 3
  PageRun = 2
  MaxLosses = 3
  MaxTries = 1
  MaxLoads = 2
  MaxRewinds = 2
INVARIANTS UploadExact EofUnlessLost
PROPERTIES SessionEnds IsATape
CHECK_DEADLOCK FALSE
