SPECIFICATION Spec
CONSTANTS
  A = A
  B = B
  None = None
  Ctrl = {A, B}
  kLeAclRangeStart = 1
  kLeAclRangeEnd = 2
  AcceptList <- AllListed
  Usages <- AllHosts
  MaxTasks = 2
INVARIANTS
  LinkLayerInSync
  KeepaliveArmed
  CentralsMatched
  EndsReported
