SPECIFICATION Spec
CONSTANTS
  RingSize = 2
  Wrap = 4
  Controls <- ControlWrites
  Advances = {3}
  HostUses = {"r1h", "r3h"}
  ParasiteUses = {"r1p", "r2p", "r3p"}
  MaxWork = 4
INVARIANTS
  FlagsAgree
  ClockExact
PROPERTIES
  PromiseKept
