SPECIFICATION Spec
CONSTANTS
  Hosts <- TwoHosts
  None = None
  HeaderLens = {1, 4}
  BodyLen = 3
  RequestLen = 2
  ResponseMax = 3
  ReadMax = 2
  MaxOpens = 3
INVARIANTS NoLeak RightPeer BodyInOrder EofWhole
CHECK_DEADLOCK FALSE
