SPECIFICATION Spec
CONSTANTS
  A = A
  B = B
  C = C
  None = None
  Ctrl = {A, B, C}
  Handles = {1, 2, 3}
  Slots = {1, 2}
  MaxTasks = 2
  Usages <- AllHosts
INVARIANTS
  TablesAgree
  HostKnows
  AssertsHold
  EndsAgree
