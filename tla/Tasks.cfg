SPECIFICATION FairSpec
CONSTANTS
  c1 = c1
  c2 = c2
  u1 = u1
  j1 = j1
  j2 = j2
  j3 = j3
  Worker = Worker
  None = None
  Clients = {c1, c2}
  Users = {u1}
  Jobs = {j1, j2, j3}
  kMaxTaskId = 2
  Delays = {0}
  Periods = {0, 1}
  MaxTime = 2
  Usages <- Disciplined
INVARIANTS
  TablesAgree
PROPERTIES
  CancelledNeverTaken
  DueTasksRun
  CallsReturn
CHECK_DEADLOCK FALSE
