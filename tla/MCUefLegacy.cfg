SPECIFICATION Spec
CONSTANTS
  Byte <- MCByte
  Junk = 0
  Magic <- MCMagic
  Decode <- MCDecode
  Capacity = 2
  UploadMax = 1
  LegacyMax = 1
  FlatWindow = 2
  GuardWindow = 1
  TokenMod = 3
  GenMod = 3
  Stamp = 3
  Scratch = 9
  GuardTrailer = 2
  Chunks <- PackedChunks
INVARIANTS OnlyUefOffered
CHECK_DEADLOCK FALSE
