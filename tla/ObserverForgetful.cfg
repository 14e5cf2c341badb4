SPECIFICATION Spec
CONSTANTS
  None = None
  ByList = ByList
  O = O
  A = A
  Devices = {O, A}
  Sids = {1, 2}
  SyncHandles = {0, 1}
  AcceptListSize = 1
  PeriodicListSize = 1
  Usages <- ForgetfulHost
  MaxTasks = 2
INVARIANTS
  NeverAborts
