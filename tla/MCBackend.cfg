SPECIFICATION Spec
CONSTANTS
  Requests <- Joins
  AssociateDelay = 1
  DhcpDelay = 1
  Absent = Absent
  Torn = Torn
  Servers = {s1, s2}
  Keys = {k1, k2}
  None = None
  MaxRekeys = 1
  Workloads = {{"wifi"}, {"ssh"}}
INVARIANTS
  JoinedIsStored
  AssociationFresh
  SessionOwned
  KeyOnList
PROPERTIES
  KnownKept
