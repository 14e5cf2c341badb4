SPECIFICATION FairSpec
CONSTANTS
  A = A
  B = B
  None = None
  Ctrl = {A, B}
  kLeAclRangeStart = 1
  kLeAclRangeEnd = 2
  AcceptList <- AllListed
  Usages <- FickleHost
  MaxTasks = 2
PROPERTIES
  HalfOpenEnds
