SPECIFICATION Spec
CONSTANTS
  Hosts <- OneHost
  None = None
  BadUrl = "bad"
  FileLen = 3
  DataCapacity = 2
  TextCapacity = 2
  Segment = 2
  ReadMax = 2
  Kinds <- SomeKinds
  MaxRequests = 3
INVARIANTS SocketsOwned DownloadInOrder ReplyInStep
PROPERTY RequestEnds
CHECK_DEADLOCK FALSE
