SPECIFICATION Spec
CONSTANTS
  Radix = 2
  PageSize = 2
  MaxSet = 0
  Byte <- Bytes
  Busy = 2
  LocalTimeout = 3
  CommandCell = 3
  CaptureDelay = 1
  CallbackDelay = 1
  PageDelay = 2
  ServiceDelay = 3
  Stalls = FALSE
  Settle = 3
  Turn = 0
  DispatchGap = 2
  Frame = 1
  Tries = 2
  Polls = 3
  Values <- Bits
  Cells <- TwoCells
  Pages <- TwoPages
  MaxOps = 3
INVARIANTS BusSettled PortExact ReadExact AnswerFresh
