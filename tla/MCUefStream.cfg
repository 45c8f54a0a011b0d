SPECIFICATION IncrementalSpec
CONSTANTS
  Byte <- MCByte
  Junk = 0
  Magic <- MCMagic
  Decode <- MCDecode
  Capacity = 3
  UploadMax = 2
  LegacyMax = 2
  FlatWindow = 2
  GuardWindow = 1
  TokenMod = 3
  GenMod = 4
  Stamp = 3
  Scratch = 9
  GuardTrailer = 2
  Chunks <- RawChunks
INVARIANTS InStep WindowIsStream
PROPERTY GuardKeepsBytes
CHECK_DEADLOCK FALSE
