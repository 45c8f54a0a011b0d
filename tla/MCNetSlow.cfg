SPECIFICATION Spec
CONSTANTS
  Radix = 2
  PageSize = 2
  MaxSet = 0
  Byte <- Bytes
  Busy = 2
  LocalTimeout = 3
  CommandCell = 3
  CaptureDelay = 1
  CallbackDelay = 2
  PageDelay = 2
  ServiceDelay = 3
  Stalls = TRUE
  Settle = 2
  Turn = 0
  DispatchGap = 2
  Frame = 1
  Tries = 2
  Polls = 1
  Values <- Bits
  Cells <- TwoCells
  Pages <- OnePage
  MaxOps = 2
INVARIANTS SlotFree
PROPERTIES RoutineEnds
