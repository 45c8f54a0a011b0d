SPECIFICATION Spec
CONSTANTS
  Hosts <- OneHost
  None = None
  BadUrl = "bad"
  FileLen = 2
  DataCapacity = 2
  TextCapacity = 2
  Segment = 2
  ReadMax = 2
  Kinds <- Downloads
  MaxRequests = 2
INVARIANT AbortOnlyOwn
CHECK_DEADLOCK FALSE
